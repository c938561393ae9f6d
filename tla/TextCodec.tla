----------------------------- MODULE TextCodec ------------------------------
(***************************************************************************)
(* TextDecoder and TextEncoder as scripts see them (textencodedecode.c).    *)
(* A decoder may be given its input in chunks that cut characters anywhere; *)
(* what it has seen of the last one stays in td.ctx.  decode makes two      *)
(* passes over a chunk, one on a copy of the context that only counts and   *)
(* one on the context itself that writes into a buffer of that size.        *)
(*                                                                         *)
(* RefDecode, the reference, is Unicode's definition of a well-formed       *)
(* sequence of bytes and of its maximal subparts, without any state.        *)
(***************************************************************************)
EXTENDS Utf8

CONSTANTS
    Inputs,     \* the strings of bytes that are cut into chunks and streams
    Chars,      \* the characters, as UTF-8, in the strings given to encodeInto
    MaxChars,   \* bound: characters in such a string
    MaxRoom     \* bound: size of the Uint8Array given to encodeInto

ASSUME InputsAssumption == Inputs \subseteq Strings
ASSUME CharsAssumption == Chars \subseteq Strings
ASSUME BoundsAssumption == MaxChars \in Nat /\ MaxRoom \in Nat

VARIABLES
    td,      \* the qjs_text_decoder_t
    input,   \* the bytes that a script has yet to hand to it
    given,   \* history: the bytes of the current stream, without BOMs
    out,     \* history: what was decoded of it
    ended,   \* history: the last call ended the stream
    last,    \* of the last call of decode: did it throw, should it have; size and bytes written
    into     \* the last call of encodeInto: string, room, read and bytes written

vars == <<td, input, given, out, ended, last, into>>

-----------------------------------------------------------------------------
(***************************************************************************)
(* The two passes                                                           *)
(***************************************************************************)

\* The code points of s from s[i] on, up to CONTINUE, and the context after them.
Decoded[ctx \in Contexts, s \in Strings, i \in Nat] ==
    IF i > Len(s) THEN [cps |-> <<>>, ctx |-> ctx]
    ELSE LET d == utf8_decode(ctx, s, i)
         IN  IF d.cp = NJS_UNICODE_CONTINUE THEN [cps |-> <<>>, ctx |-> d.ctx]
             ELSE LET rest == Decoded[d.ctx, s, d.next]
                  IN  [cps |-> <<d.cp>> \o rest.cps, ctx |-> rest.ctx]

\* An incomplete character at the end of the stream is an error too.
EndOfPass(d, final) ==
    IF final /\ d.ctx.need # 0 THEN [d EXCEPT !.cps = Append(@, NJS_UNICODE_ERROR)] ELSE d

\* What a pass shows.
Pass(ctx, s, final) == EndOfPass(Decoded[ctx, s, 1], final)

SizeOf[cps \in Seq(Nat)] ==
    IF cps = <<>> THEN 0 ELSE utf8_size(Shown(Head(cps))) + SizeOf[Tail(cps)]

Encoded[cps \in Seq(Nat)] ==
    IF cps = <<>> THEN <<>> ELSE utf8_encode(Shown(Head(cps))) \o Encoded[Tail(cps)]

Length(cps, fatal) ==
    IF fatal /\ \E k \in DOMAIN cps : cps[k] > NJS_UNICODE_MAX_CODEPOINT THEN -1 ELSE SizeOf[cps]

\* njs_utf8_stream_length: -1 for an invalid input of a fatal decoder.
stream_length(ctx, s, final, fatal) == Length(Pass(ctx, s, final).cps, fatal)

\* njs_utf8_bom, at the start of every chunk.
bom(s) == IF Len(s) >= 3 /\ SubSeq(s, 1, 3) = <<239, 187, 191>> THEN 3 ELSE 0

-----------------------------------------------------------------------------
NoCall == [threw |-> FALSE, invalid |-> FALSE, size |-> 0, written |-> 0]
NoEncodeInto == [chars |-> <<>>, room |-> 0, read |-> 0, bytes |-> <<>>]

\* new TextDecoder(label, {fatal, ignoreBOM}) with a label that is known.
Init ==
    /\ td \in [fatal : BOOLEAN, ignore_bom : BOOLEAN, ctx : {decode_init}]
    /\ input \in Inputs
    /\ given = <<>> /\ out = <<>> /\ ended = FALSE /\ last = NoCall /\ into = NoEncodeInto

\* The pass that writes: on td.ctx, which is reset when the stream ends.
AfterDecode(ctx, s, final) ==
    [Pass(ctx, s, final) EXCEPT !.ctx = IF final THEN decode_init ELSE @]

\* decode(chunk, {stream: ~final}) on the next n bytes.  When it throws it has changed nothing.
Decode(n, final) ==
    LET chunk == SubSeq(input, 1, n)
        start == IF td.ignore_bom THEN 0 ELSE bom(chunk)
        data == SubSeq(chunk, start + 1, n)
        size == stream_length(td.ctx, data, final, td.fatal)
        written == AfterDecode(td.ctx, data, final)
        before == IF ended THEN <<>> ELSE given
        invalid == ~RefDecode[before \o data, final].valid
    IN  /\ IF size = -1
           THEN /\ last' = [threw |-> TRUE, invalid |-> invalid, size |-> 0, written |-> 0]
                /\ UNCHANGED <<td, input, given, out, ended>>
           ELSE /\ td' = [td EXCEPT !.ctx = written.ctx]
                /\ input' = SubSeq(input, n + 1, Len(input))
                /\ given' = before \o data
                /\ out' = (IF ended THEN <<>> ELSE out) \o Encoded[written.cps]
                /\ ended' = final
                /\ last' = [threw |-> FALSE, invalid |-> invalid, size |-> size,
                            written |-> Len(Encoded[written.cps])]
        /\ UNCHANGED into

\* Mutant: the room is tested before the size of the character is known.
RoomForNone(written, size, room) == Len(written) < room

\* to + size <= to_end
Room(written, size, room) == Len(written) + size <= room

Calls == [chars : Seq(Strings), room : Nat, read : Nat, bytes : Strings]

\* The loop of qjs_text_encoder_encode_into over the UTF-8 of the string, from s[i] on.
EncodeInto[ctx \in Contexts, s \in Strings, i \in Nat, r \in Calls] ==
    IF i > Len(s) THEN r
    ELSE LET d == utf8_decode(ctx, s, i)
             cp == Shown(d.cp)
         IN  IF ~Room(r.bytes, utf8_size(cp), r.room) THEN r
             ELSE EncodeInto[d.ctx, s, d.next,
                             [r EXCEPT !.read = @ + (IF cp > 65535 THEN 2 ELSE 1),
                                       !.bytes = @ \o utf8_encode(cp)]]

Concat[chars \in Seq(Strings)] == IF chars = <<>> THEN <<>> ELSE Head(chars) \o Concat[Tail(chars)]

\* An encoder shares no state with a decoder or with another call, so one call beside a
\* decoder that has no input is enough.
DecoderUnused == input = <<>> /\ given = <<>> /\ last = NoCall /\ into = NoEncodeInto

\* encodeInto(string, array).
CallEncodeInto(chars, room) ==
    /\ into' = EncodeInto[decode_init, Concat[chars], 1,
                          [chars |-> chars, room |-> room, read |-> 0, bytes |-> <<>>]]
    /\ UNCHANGED <<td, input, given, out, ended, last>>

UpTo(S, n) == UNION {[1 .. k -> S] : k \in 0 .. n}

Next ==
    \/ \E n \in 0 .. Len(input), final \in BOOLEAN : Decode(n, final)
    \/ /\ DecoderUnused
       /\ \E chars \in UpTo(Chars, MaxChars), room \in 0 .. MaxRoom : CallEncodeInto(chars, room)

Spec == Init /\ [][Next]_vars

-----------------------------------------------------------------------------
(***************************************************************************)
(* Properties                                                               *)
(***************************************************************************)

\* However a stream is cut into chunks, what was decoded so far is what the reference
\* makes of the bytes so far, the writing pass fills exactly the buffer that the counting
\* pass asked for, and a fatal decoder throws exactly on invalid input.
DecodesAsReference ==
    /\ out = RefDecode[given, ended].text
    /\ last.size = last.written
    /\ last.threw <=> td.fatal /\ last.invalid

\* encodeInto never writes past the array, and stops only where the next character does
\* not fit: what it reports is the longest prefix of the string that fits.
EncodeIntoFits ==
    LET fits == {k \in 0 .. Len(into.chars) : Len(Concat[SubSeq(into.chars, 1, k)]) <= into.room}
        k == CHOOSE k \in fits : \A j \in fits : j <= k
        prefix == SubSeq(into.chars, 1, k)
        valid == RefDecode[Concat[into.chars], TRUE].valid
    IN  /\ Len(into.bytes) <= into.room
        /\ valid => /\ into.bytes = Concat[prefix]
                    /\ into.read = k + Cardinality({j \in 1 .. k : Len(prefix[j]) = 4})
=============================================================================
