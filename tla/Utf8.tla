------------------------------- MODULE Utf8 ---------------------------------
(***************************************************************************)
(* The UTF-8 decoder that TextDecoder and TextEncoder share, the encoder of *)
(* a code point (textencodedecode.c), and the reference.                    *)
(***************************************************************************)
EXTENDS Integers, Sequences, FiniteSets

Strings == Seq(0 .. 255)

NJS_UNICODE_REPLACEMENT == 65533
NJS_UNICODE_MAX_CODEPOINT == 1114111
NJS_UNICODE_ERROR == 2097151
NJS_UNICODE_CONTINUE == 3145727

-----------------------------------------------------------------------------
(***************************************************************************)
(* njs_utf8_decode                                                          *)
(***************************************************************************)

\* njs_unicode_decode_t.
Contexts == [need : 0 .. 3, lower : 0 .. 255, upper : 0 .. 255, codepoint : Nat]

\* njs_utf8_decode_init leaves upper as it is; nobody reads it while lower is 0.
decode_init == [need |-> 0, lower |-> 0, upper |-> 0, codepoint |-> 0]

\* Shift in the low six bits of a continuation byte.
AddBits(cp, ch) == (cp * 64) + (ch % 64)

Min2(a, b) == IF a < b THEN a ELSE b

Failed(ctx, i) == [cp |-> NJS_UNICODE_ERROR, ctx |-> [ctx EXCEPT !.lower = 0, !.need = 0], next |-> i]

\* The code point after n continuation bytes from s[i] on.
Bits(codepoint, s, i, n) ==
    LET bits[k \in 0 .. n] == IF k = 0 THEN codepoint ELSE AddBits(bits[k - 1], s[i + k - 1])
    IN  bits[n]

\* How many of the next need bytes are continuation bytes, up to the first that is not.
Continued(need, s, i) ==
    Cardinality({k \in 1 .. need : \A j \in i .. i + k - 1 : j <= Len(s) /\ s[j] \in 128 .. 191})

\* The loop at the label decode, from s[i] on with need bytes to come.
Continue(ctx, need, s, i) ==
    LET n == Continued(need, s, i)
        after == [ctx EXCEPT !.codepoint = Bits(@, s, i, n)]
    IN  CASE n = need -> [cp |-> after.codepoint, ctx |-> after, next |-> i + n]
          [] n < need /\ i + n > Len(s) ->
                [cp |-> NJS_UNICODE_CONTINUE, ctx |-> [after EXCEPT !.need = need - n], next |-> i + n]
          [] OTHER -> Failed(after, i + n)

\* njs_utf8_boundary on s[i], and then the loop.
Boundary(ctx, need, lower, upper, s, i) ==
    IF s[i] \in lower .. upper
    THEN Continue([ctx EXCEPT !.codepoint = AddBits(@, s[i])], need - 1, s, i + 1)
    ELSE Failed(ctx, i)

\* The bounds for the byte after the lead byte ch, where they are narrower than 80 to BF.
SecondByte(ch) ==
    CASE ch = 224 -> <<160, 191>> [] ch = 237 -> <<128, 159>>
      [] ch = 240 -> <<144, 191>> [] ch = 244 -> <<128, 143>>
      [] OTHER -> <<0, 0>>

\* Mutant: the bounds are forgotten at the end of a chunk.
boundary_set_missing(ctx, ch) == ctx

boundary_set(ctx, ch) ==
    IF SecondByte(ch) = <<0, 0>> THEN ctx
    ELSE [ctx EXCEPT !.lower = SecondByte(ch)[1], !.upper = SecondByte(ch)[2]]

\* A lead byte of a sequence of need + 1 bytes, at s[i - 1].
Lead(ctx, ch, need, bits, s, i) ==
    LET start == [ctx EXCEPT !.codepoint = bits]
        second == SecondByte(ch)
    IN  IF i > Len(s)
        THEN [cp |-> NJS_UNICODE_CONTINUE, ctx |-> [boundary_set(start, ch) EXCEPT !.need = need],
              next |-> i]
        ELSE IF second = <<0, 0>> THEN Continue(start, need, s, i)
             ELSE Boundary(start, need, second[1], second[2], s, i)

\* From s[i] on: the code point or what stands for it, the context and the next index.
utf8_decode(ctx, s, i) ==
    LET ch == s[i]
        rest == [ctx EXCEPT !.need = 0]
    IN  IF ctx.need # 0
        THEN IF ctx.lower # 0
             THEN LET d == Boundary(rest, ctx.need, ctx.lower, ctx.upper, s, i)
                  IN  [d EXCEPT !.ctx.lower = 0]
             ELSE Continue(rest, ctx.need, s, i)
        ELSE CASE ch < 128              -> [cp |-> ch, ctx |-> ctx, next |-> i + 1]
               [] ch \in 194 .. 223     -> Lead(ctx, ch, 1, ch % 32, s, i + 1)
               [] ch \in 224 .. 239     -> Lead(ctx, ch, 2, ch % 16, s, i + 1)
               [] ch \in 240 .. 244     -> Lead(ctx, ch, 3, ch % 8, s, i + 1)
               [] OTHER                 -> [cp |-> NJS_UNICODE_ERROR, ctx |-> ctx, next |-> i + 1]

-----------------------------------------------------------------------------
utf8_size(cp) == IF cp < 128 THEN 1 ELSE IF cp < 2048 THEN 2 ELSE IF cp < 65536 THEN 3 ELSE 4

utf8_encode(cp) ==
    CASE utf8_size(cp) = 1 -> <<cp>>
      [] utf8_size(cp) = 2 -> <<192 + (cp \div 64), 128 + (cp % 64)>>
      [] utf8_size(cp) = 3 -> <<224 + (cp \div 4096), 128 + ((cp \div 64) % 64), 128 + (cp % 64)>>
      [] utf8_size(cp) = 4 -> <<240 + (cp \div 262144), 128 + ((cp \div 4096) % 64),
                                128 + ((cp \div 64) % 64), 128 + (cp % 64)>>

Shown(cp) == IF cp > NJS_UNICODE_MAX_CODEPOINT THEN NJS_UNICODE_REPLACEMENT ELSE cp

-----------------------------------------------------------------------------
(***************************************************************************)
(* The reference: Unicode's definition of a well-formed sequence of bytes   *)
(* and of its maximal subparts, without any state.                          *)
(***************************************************************************)

\* Unicode, table 3-7: the bytes that may stand at position k of a sequence.
WellFormedAt(s, k) ==
    CASE k = 1 -> s[1] \in 0 .. 127 \cup 194 .. 244
      [] k = 2 -> s[2] \in 128 .. 191 /\ (s[1] = 224 => s[2] >= 160) /\ (s[1] = 237 => s[2] < 160)
                  /\ (s[1] = 240 => s[2] >= 144) /\ (s[1] = 244 => s[2] < 144)
      [] k > 2 -> s[k] \in 128 .. 191

LengthByLead(b) == IF b < 128 THEN 1 ELSE IF b < 224 THEN 2 ELSE IF b < 240 THEN 3 ELSE 4

Initial(s, n) == n <= LengthByLead(s[1]) /\ \A k \in 1 .. n : WellFormedAt(s, k)

\* The lengths of what stands at the start of s and is a character, or may become one.
InitialLengths(s) == {n \in 1 .. Min2(4, Len(s)) : Initial(s, n)}

\* The length of the character or of the maximal subpart at the start of s.
Subpart(s) ==
    IF InitialLengths(s) = {} THEN 1
    ELSE CHOOSE n \in InitialLengths(s) : \A m \in InitialLengths(s) : m <= n

\* s starts with a character.
Whole(s) == InitialLengths(s) # {} /\ Subpart(s) = LengthByLead(s[1])

\* All of s may still become a character.
Incomplete(s) == InitialLengths(s) # {} /\ ~Whole(s) /\ Subpart(s) = Len(s)

\* Well-formed sequences are copied, each maximal subpart becomes one replacement; what
\* may still become a character is kept back until the stream ends.
RefDecode[s \in Strings, final \in BOOLEAN] ==
    IF s = <<>> \/ (Incomplete(s) /\ ~final) THEN [text |-> <<>>, valid |-> TRUE]
    ELSE LET n == Subpart(s)
             rest == RefDecode[SubSeq(s, n + 1, Len(s)), final]
         IN  [text |-> (IF Whole(s) THEN SubSeq(s, 1, n) ELSE <<239, 191, 189>>) \o rest.text,
              valid |-> Whole(s) /\ rest.valid]
=============================================================================
