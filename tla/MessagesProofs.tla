--------------------------- MODULE MessagesProofs ----------------------------
(***************************************************************************)
(* Proofs about Messages, for every number of commands and messages: what   *)
(* send_message returns, and that the command loop finds its lines again.   *)
(***************************************************************************)
EXTENDS Messages, SequenceTheorems, TLAPS

USE BoundsAssumption

-----------------------------------------------------------------------------
(***************************************************************************)
(* The inductive invariant: where the conversation is                       *)
(***************************************************************************)

Kinds == {"value", "internal_error", "bad", "big"}

Id == Field("id", ncmd)
Query == Field("query", ncmd)
Param == Field("param", ncmd)

\* The rest of a field whose beginning was read.
Rest(field) == [field EXCEPT !.part = TRUE]

\* Where the client is and which records it has yet to take, unless it gave up.
Hears(label, records) == cpc = "closed" \/ (cpc = label /\ out = records)

\* The messages that the client has answered, unless it gave up.
Answered(n) == cpc = "closed" \/ Len(answers) = n

\* No command, or one whose reply the client has yet to take.
Between ==
    /\ spc \in {"line", "stopped"} /\ line_n = 0 /\ in = <<>>
    /\ \/ Hears("idle", <<>>)
       \/ \E type \in {"ok", "exception"} :
              Hears("awaiting", <<[id |-> Id, type |-> type, msg |-> nmsg]>>)
    /\ Answered(nmsg)

\* The command loop takes the lines of a command.
Sending ==
    /\ spc = "line" /\ Hears("awaiting", <<>>) /\ Answered(nmsg)
    /\ \/ line_n = 0 /\ in = <<Id, Query, Param>>
       \/ line_n = 1 /\ line1 = Id /\ in = <<Query, Param>>
       \/ line_n = 2 /\ line1 = Id /\ line2 = Query /\ in = <<Param>>

\* The script runs.
Executing ==
    /\ spc = "js" /\ line_n = 0 /\ line1 = Id /\ in = <<>>
    /\ Hears("awaiting", <<>>) /\ Answered(nmsg)

\* send_message waits, and the client has the message, or will have it.
Asking ==
    /\ spc = "wait" /\ line_n = 0 /\ line1 = Id /\ in = <<>> /\ got = <<>> /\ too_big = FALSE
    /\ \/ Hears("awaiting", <<[id |-> Id, type |-> "message", msg |-> nmsg]>>)
       \/ Hears("handling", <<>>)
    /\ Answered(nmsg - 1)

\* How much of a response was read: nothing, part of the id, or the id and part of the rest.
Arriving(kind) ==
    \/ in = <<Id, Field(kind, ncmd)>> /\ got = <<>> /\ too_big = FALSE
    \/ in = <<Rest(Id), Field(kind, ncmd)>> /\ got = <<Rest(Id)>> /\ too_big = FALSE
    \/ /\ in = <<Rest(Field(kind, ncmd))>>
       /\ \/ kind = "big" /\ got = <<>> /\ too_big = TRUE
          \/ kind # "big" /\ got = <<Id, Rest(Field(kind, ncmd))>> /\ too_big = FALSE

\* send_message waits, and the client has answered.
Answering ==
    /\ spc = "wait" /\ line_n = 0 /\ line1 = Id
    /\ Hears("awaiting", <<>>) /\ Len(answers) = nmsg /\ nmsg > 0
    /\ Arriving(answers[nmsg])

\* ResultIsTheAnswer, as long as no wait was abandoned.
ResultSoFar ==
    result.msg # 0 =>
        \/ result.msg \in 1 .. Len(answers) /\ result.status = Expected(answers[result.msg])
        \/ result.status = "ERR_IO" /\ cpc = "closed"

Conversation ==
    /\ nmsg \in Nat /\ answers \in Seq(Kinds) /\ ResultSoFar
    /\ Between \/ Sending \/ Executing \/ Asking \/ Answering

Inv == abandoned \in BOOLEAN /\ (abandoned \/ Conversation)

-----------------------------------------------------------------------------
(***************************************************************************)
(* Sequences of one or two fields                                           *)
(***************************************************************************)

\* A sequence of length one or two is made of its elements.
LEMMA ShortSeq ==
  ASSUME NEW S, NEW s \in Seq(S)
  PROVE  /\ Len(s) = 1 => s = <<s[1]>>
         /\ Len(s) = 2 => s = <<s[1], s[2]>>
  OBVIOUS

\* Putting sequences of up to two elements together.
LEMMA Joined ==
  ASSUME NEW a, NEW b
  PROVE  /\ Append(<<>>, a) = <<a>> /\ Append(<<a>>, b) = <<a, b>>
         /\ <<a>> \o <<b>> = <<a, b>> /\ <<a>> \o <<>> = <<a>>
         /\ <<>> \o <<a>> = <<a>> /\ <<>> \o <<a, b>> = <<a, b>>
  <1> DEFINE S == {a, b}
             s == Append(<<a>>, b)
  <1>1. <<a>> \in Seq(S) /\ <<b>> \in Seq(S)
    OBVIOUS
  <1>2. s \in Seq(S) /\ Len(s) = 2 /\ s[1] = a /\ s[2] = b
    BY <1>1
  <1>3. <<a>> \o <<b>> = s
    BY <1>1, AppendIsConcat
  <1> HIDE DEF s
  <1>4. s = <<a, b>>
    BY <1>2, ShortSeq
  <1>5. /\ Append(<<>>, a) = <<a>> /\ <<a>> \o <<>> = <<a>>
        /\ <<>> \o <<a>> = <<a>> /\ <<>> \o <<a, b>> = <<a, b>>
    OBVIOUS
  <1> QED
    BY <1>3, <1>4, <1>5 DEF s

\* The first of up to three elements.
LEMMA First ==
  ASSUME NEW a, NEW b, NEW c
  PROVE  /\ Head(<<a>>) = a /\ Tail(<<a>>) = <<>>
         /\ Head(<<a, b>>) = a /\ Tail(<<a, b>>) = <<b>>
         /\ Head(<<a, b, c>>) = a /\ Tail(<<a, b, c>>) = <<b, c>>
  <1>1. /\ Head(<<a>>) = a /\ Tail(<<a>>) = <<>>
        /\ Head(<<a, b>>) = a /\ Tail(<<a, b>>) = <<b>>
    OBVIOUS
  <1>2. Head(<<a, b, c>>) = a /\ Tail(<<a, b, c>>) = <<b, c>>
    OBVIOUS
  <1> QED
    BY <1>1, <1>2

\* Taking them apart.
LEMMA Split ==
  ASSUME NEW a, NEW b
  PROVE  /\ SubSeq(<<a>>, 1, 1) = <<a>> /\ SubSeq(<<a>>, 1, 0) = <<>>
         /\ SubSeq(<<a>>, 2, 1) = <<>> /\ SubSeq(<<a, b>>, 1, 0) = <<>>
         /\ SubSeq(<<a, b>>, 2, 1) = <<>> /\ SubSeq(<<a, b>>, 3, 2) = <<>>
         /\ SubSeq(<<a, b>>, 1, 1) = <<a>> /\ SubSeq(<<a, b>>, 2, 2) = <<b>>
         /\ SubSeq(<<a, b>>, 1, 2) = <<a, b>>
  <1> DEFINE S == {a, b}
             s == SubSeq(<<a, b>>, 1, 1)
             t == SubSeq(<<a, b>>, 2, 2)
  <1>1. <<a>> \in Seq(S) /\ <<a, b>> \in Seq(S)
    OBVIOUS
  <1>2. SubSeq(<<a>>, 1, 1) = <<a>> /\ SubSeq(<<a, b>>, 1, 2) = <<a, b>>
    BY <1>1, SubSeqFull
  <1>3. /\ SubSeq(<<a>>, 1, 0) = <<>> /\ SubSeq(<<a>>, 2, 1) = <<>>
        /\ SubSeq(<<a, b>>, 1, 0) = <<>> /\ SubSeq(<<a, b>>, 2, 1) = <<>>
        /\ SubSeq(<<a, b>>, 3, 2) = <<>>
    BY SubSeqEmpty
  <1>4. /\ s \in Seq(S) /\ Len(s) = 1 /\ s[1] = a
        /\ t \in Seq(S) /\ Len(t) = 1 /\ t[1] = b
    OBVIOUS
  <1> HIDE DEF s, t
  <1>5. s = <<a>> /\ t = <<b>>
    BY <1>4, ShortSeq
  <1> QED
    BY <1>2, <1>3, <1>5 DEF s, t

-----------------------------------------------------------------------------
(***************************************************************************)
(* Fields                                                                   *)
(***************************************************************************)

\* The rest of a field, completed, is the field.
LEMMA FieldFacts ==
  ASSUME NEW kind, NEW of
  PROVE  /\ Field(kind, of).kind = kind /\ Field(kind, of).part = FALSE
         /\ Rest(Field(kind, of)).kind = kind /\ Rest(Field(kind, of)).part = TRUE
         /\ [Rest(Field(kind, of)) EXCEPT !.part = FALSE] = Field(kind, of)
  <1>0. \A before, after : [[kind |-> kind, of |-> of, part |-> before] EXCEPT !.part = after]
                               = [kind |-> kind, of |-> of, part |-> after]
    OBVIOUS
  <1>1. Field(kind, of).kind = kind /\ Field(kind, of).part = FALSE
    BY DEF Field
  <1>2. Rest(Field(kind, of)) = [kind |-> kind, of |-> of, part |-> TRUE]
    BY <1>0, Zenon DEF Field, Rest
  <1>3. Rest(Field(kind, of)).kind = kind /\ Rest(Field(kind, of)).part = TRUE
    BY <1>2
  <1>4. [Rest(Field(kind, of)) EXCEPT !.part = FALSE] = Field(kind, of)
    BY <1>0, <1>2, Zenon DEF Field
  <1> QED
    BY <1>1, <1>3, <1>4

\* A response with the right id means what the client meant, and a buffer that was dropped
\* means that the response was too big.
LEMMA ResponseOf ==
  ASSUME NEW kind \in Kinds, line1 = Id
  PROVE  /\ kind # "big" => Response(<<Id, Field(kind, ncmd)>>, FALSE) = Expected(kind)
         /\ \A fields : Response(fields, TRUE) = Expected("big")
  <1>1. \A fields : Response(fields, TRUE) = Expected("big")
    BY DEF Response, Expected
  <1>2. ASSUME kind # "big"
        PROVE  Response(<<Id, Field(kind, ncmd)>>, FALSE) = Expected(kind)
    <2> DEFINE field == Field(kind, ncmd)
    <2>1. field.kind = kind
      BY FieldFacts
    <2> HIDE DEF field
    <2>2. Response(<<Id, field>>, FALSE) = Value(field)
      BY DEF Response
    <2>3. Value(field) = Expected(kind)
      BY <1>2, <2>1 DEF Value, Expected, Kinds
    <2> QED
      BY <2>2, <2>3 DEF field
  <1> QED
    BY <1>1, <1>2

-----------------------------------------------------------------------------
(***************************************************************************)
(* Every step goes on with the conversation                                 *)
(***************************************************************************)

\* At first there is no command.
LEMMA InitInv == Init => Inv
  <1> SUFFICES ASSUME Init PROVE Inv
    OBVIOUS
  <1>1. ResultSoFar
    BY DEF Init, ResultSoFar, NoResult
  <1>2. Between
    BY DEF Init, Between, Hears, Answered
  <1>3. nmsg \in Nat /\ answers \in Seq(Kinds)
    BY DEF Init
  <1>4. abandoned \in BOOLEAN
    BY Zenon DEF Init
  <1> QED
    BY <1>1, <1>2, <1>3, <1>4 DEF Inv, Conversation

\* The result stands until the next call of send_message returns.
LEMMA ResultFrame ==
  ASSUME ResultSoFar, UNCHANGED <<result, answers>>, cpc = "closed" => cpc' = "closed"
  PROVE  ResultSoFar'
  BY DEF ResultSoFar

\* The command loop.
LEMMA LoopInv ==
  ASSUME Conversation, TakeLine \/ LoopEnds \/ \E type \in {"ok", "exception"} : JsEnds(type)
  PROVE  Conversation'
  <1> USE DEF clientVars
  <1>1. ResultSoFar' /\ UNCHANGED <<nmsg, answers, cpc, ncmd>>
    BY ResultFrame DEF Conversation, TakeLine, LoopEnds, JsEnds
  <1>2. CASE TakeLine
    <2>1. spc = "line" /\ in # <<>> /\ in' = Tail(in) /\ Sending
      BY <1>2 DEF TakeLine, Conversation, Between, Sending, Executing, Asking, Answering
    <2>2. CASE line_n = 0
      <3>1. Head(in) = Id /\ Tail(in) = <<Query, Param>>
        <4>1. in = <<Id, Query, Param>>
          BY <2>1, <2>2 DEF Sending
        <4>2. Head(<<Id, Query, Param>>) = Id /\ Tail(<<Id, Query, Param>>) = <<Query, Param>>
          BY First
        <4> QED
          BY <4>1, <4>2
      <3>2. line1' = Id /\ line_n' = 1 /\ UNCHANGED <<spc, out>>
        BY <1>2, <2>2, <3>1 DEF TakeLine
      <3> QED
        BY <1>1, <2>1, <3>1, <3>2 DEF Conversation, Sending, Hears, Answered, Id, Query, Param
    <2>3. CASE line_n = 1
      <3>1. Head(in) = Query /\ Tail(in) = <<Param>> /\ line1 = Id
        <4>1. in = <<Query, Param>> /\ line1 = Id
          BY <2>1, <2>3 DEF Sending
        <4>2. Head(<<Query, Param>>) = Query /\ Tail(<<Query, Param>>) = <<Param>>
          BY First
        <4> QED
          BY <4>1, <4>2
      <3>2. line1' = line1 /\ line2' = Query /\ line_n' = 2 /\ UNCHANGED <<spc, out>>
        BY <1>2, <2>3, <3>1 DEF TakeLine
      <3> QED
        BY <1>1, <2>1, <3>1, <3>2 DEF Conversation, Sending, Hears, Answered, Id, Query, Param
    <2>4. CASE line_n = 2
      <3>1. Head(in) = Param /\ Tail(in) = <<>> /\ line1 = Id /\ line2 = Query
        BY <2>1, <2>4, First DEF Sending
      <3>2. IsCommand(line1, line2, Head(in))
        <4>1. Id.kind = "id" /\ Id.part = FALSE /\ Query.kind = "query" /\ Param.kind = "param"
          BY FieldFacts DEF Id, Query, Param
        <4> QED
          BY <3>1, <4>1 DEF IsCommand
      <3>3. line1' = line1 /\ line_n' = 0 /\ spc' = "js" /\ UNCHANGED out
        BY <1>2, <2>4, <3>2 DEF TakeLine
      <3> QED
        BY <1>1, <2>1, <3>1, <3>3 DEF Conversation, Sending, Executing, Hears, Answered, Id
    <2> QED
      BY <2>1, <2>2, <2>3, <2>4 DEF Sending
  <1>3. CASE LoopEnds
    <2>1. Between /\ spc' = "stopped" /\ UNCHANGED <<line_n, in, out>>
      BY <1>3 DEF LoopEnds, Conversation, Between, Sending, Executing, Asking, Answering
    <2> QED
      BY <1>1, <2>1 DEF Conversation, Between, Hears, Answered, Id
  <1>4. CASE \E type \in {"ok", "exception"} : JsEnds(type)
    <2>1. PICK type \in {"ok", "exception"} : JsEnds(type)
      BY <1>4
    <2>2. /\ Executing /\ spc' = "line" /\ UNCHANGED <<line_n, in>>
          /\ out' = Append(out, [id |-> line1, type |-> type, msg |-> nmsg])
      BY <2>1 DEF JsEnds, Reply, Conversation, Between, Sending, Executing, Asking, Answering
    <2>3. Hears("awaiting", <<[id |-> Id, type |-> type, msg |-> nmsg]>>)'
      BY <1>1, <2>2, Joined DEF Executing, Hears, Id
    <2>4. Between'
      BY <1>1, <2>2, <2>3 DEF Between, Executing, Answered
    <2> QED
      BY <1>1, <2>4 DEF Conversation
  <1> QED
    BY <1>2, <1>3, <1>4

\* The call of send_message.
LEMMA SendInv ==
  ASSUME Conversation, SendMessage \/ SendMessageFails
  PROVE  Conversation'
  <1> USE DEF clientVars
  <1>1. Executing
    BY DEF SendMessage, SendMessageFails, Conversation, Between, Sending, Executing, Asking,
           Answering
  <1>2. CASE SendMessage
    <2>1. /\ cpc # "closed" /\ nmsg' = nmsg + 1 /\ spc' = "wait" /\ got' = <<>> /\ too_big' = FALSE
          /\ out' = Append(out, [id |-> line1, type |-> "message", msg |-> nmsg + 1])
          /\ UNCHANGED <<line_n, line1, in, cpc, ncmd, answers, result>>
      BY <1>2 DEF SendMessage
    <2>2. Hears("awaiting", <<[id |-> Id, type |-> "message", msg |-> nmsg]>>)'
      BY <1>1, <2>1, Joined DEF Executing, Hears, Id
    <2>3. nmsg' - 1 = nmsg /\ nmsg' \in Nat
      BY <2>1 DEF Conversation
    <2>4. Asking'
      BY <1>1, <2>1, <2>2, <2>3 DEF Asking, Executing, Answered, Id
    <2>5. ResultSoFar'
      BY <2>1, ResultFrame DEF Conversation
    <2> QED
      BY <2>1, <2>3, <2>4, <2>5 DEF Conversation
  <1>3. CASE SendMessageFails
    <2>1. /\ cpc = "closed" /\ UNCHANGED <<line_n, line1, in, out, cpc, ncmd, answers, nmsg>>
          /\ \/ result' = [status |-> "ERR_IO", msg |-> 0] /\ spc' = spc
             \/ result' = result /\ spc' = "stopped"
      BY <1>3 DEF SendMessageFails
    <2>2. ResultSoFar'
      BY <2>1 DEF Conversation, ResultSoFar
    <2>3. Executing' \/ Between'
      BY <1>1, <2>1 DEF Executing, Between, Hears, Answered, Id
    <2> QED
      BY <2>1, <2>2, <2>3 DEF Conversation
  <1> QED
    BY <1>2, <1>3

\* A read that ends the wait: all of the response, and nothing else, was read.
LEMMA ReadDoneInv ==
  ASSUME Conversation, abandoned \in BOOLEAN, NEW k \in 1 .. Len(in), ReadDone(k), ~abandoned'
  PROVE  Conversation'
  <1> USE DEF clientVars
  <1> DEFINE kind == answers[nmsg]
             field == Field(kind, ncmd)
  <1>1. /\ spc = "wait" /\ Whole(k) /\ in' = Leave(k) /\ Leave(k) = <<>> /\ spc' = "js"
        /\ result' = [status |-> Response(Fields(k), too_big), msg |-> nmsg]
        /\ UNCHANGED <<line_n, line1, out, cpc, ncmd, answers, nmsg>>
    BY DEF ReadDone, Return
  <1>2. Answering
    BY <1>1 DEF Conversation, Between, Sending, Executing, Asking, Answering
  <1>3. kind \in Kinds /\ nmsg \in 1 .. Len(answers) /\ nmsg # 0
    BY <1>2 DEF Answering, Conversation
  <1>4. line1 = Id
    BY <1>2 DEF Answering
  <1>5. /\ field.kind = kind /\ field.part = FALSE /\ Rest(field).kind = kind
        /\ [Rest(field) EXCEPT !.part = FALSE] = field /\ Rest(field).part = TRUE
        /\ [Rest(Id) EXCEPT !.part = FALSE] = Id /\ Rest(Id).part = TRUE
    BY FieldFacts DEF Id
  <1>6. Arriving(kind)
    BY <1>2 DEF Answering
  <1> HIDE DEF kind, field
  <1>7. Response(Fields(k), too_big) = Expected(kind)
    <2>1. CASE in = <<Id, field>> /\ got = <<>> /\ too_big = FALSE
      <3>1. k = 2
        BY <1>1, <2>1, Split DEF Leave
      <3>2. kind # "big"
        BY <1>1, <1>5, <2>1, <3>1 DEF Whole
      <3>3. Fields(k) = <<Id, field>>
        <4>1. Fields(k) = <<>> \o SubSeq(<<Id, field>>, 1, 2)
          BY <2>1, <3>1 DEF Fields
        <4>2. SubSeq(<<Id, field>>, 1, 2) = <<Id, field>>
          BY Split
        <4> QED
          BY <4>1, <4>2, Joined
      <3> QED
        BY <1>3, <1>4, <2>1, <3>2, <3>3, ResponseOf DEF field
    <2>2. CASE in = <<Rest(Id), field>> /\ got = <<Rest(Id)>> /\ too_big = FALSE
      <3>1. k = 2
        BY <1>1, <2>2, Split DEF Leave
      <3>2. kind # "big"
        BY <1>1, <1>5, <2>2, <3>1 DEF Whole
      <3>3. Fields(k) = SubSeq(got, 1, 0) \o <<[in[1] EXCEPT !.part = FALSE]>> \o SubSeq(in, 2, 2)
        BY <1>1, <1>5, <2>2, <3>1 DEF Fields
      <3>4. Fields(k) = <<Id, field>>
        <4>1. Fields(k) = SubSeq(<<Rest(Id)>>, 1, 0) \o <<Id>> \o SubSeq(<<Rest(Id), field>>, 2, 2)
          BY <1>5, <2>2, <3>3
        <4>2. SubSeq(<<Rest(Id)>>, 1, 0) = <<>> /\ SubSeq(<<Rest(Id), field>>, 2, 2) = <<field>>
          BY Split
        <4> QED
          BY <4>1, <4>2, Joined
      <3> QED
        BY <1>3, <1>4, <2>2, <3>2, <3>4, ResponseOf DEF field
    <2>3. CASE in = <<Rest(field)>> /\ kind = "big" /\ too_big = TRUE
      BY <1>3, <1>4, <2>3, ResponseOf DEF kind
    <2>4. CASE in = <<Rest(field)>> /\ kind # "big" /\ got = <<Id, Rest(field)>> /\ too_big = FALSE
      <3>1. k = 1
        BY <2>4
      <3>2. Fields(k) = SubSeq(got, 1, 1) \o <<[in[1] EXCEPT !.part = FALSE]>> \o SubSeq(in, 2, 1)
        BY <1>1, <1>5, <2>4, <3>1 DEF Fields
      <3>3. SubSeq(got, 1, 1) = <<Id>> /\ SubSeq(in, 2, 1) = <<>>
        BY <2>4, Split
      <3>4. Fields(k) = <<Id, field>> \o <<>>
        <4>1. Fields(k) = <<Id>> \o <<field>> \o <<>>
          BY <1>5, <2>4, <3>2, <3>3
        <4> QED
          BY <4>1, Joined
      <3>5. <<Id, field>> \o <<>> = <<Id, field>>
        OBVIOUS
      <3> QED
        BY <1>3, <1>4, <2>4, <3>4, <3>5, ResponseOf DEF field
    <2> QED
      BY <1>6, <2>1, <2>2, <2>3, <2>4 DEF Arriving, field
  <1>8. ResultSoFar'
    BY <1>1, <1>3, <1>7 DEF ResultSoFar, kind
  <1>9. Executing'
    BY <1>1, <1>2 DEF Executing, Answering, Hears, Answered, Id
  <1> QED
    BY <1>1, <1>8, <1>9 DEF Conversation

\* A read that ends inside a field, before the time is up.
LEMMA ReadPartInv ==
  ASSUME Conversation, NEW k \in 0 .. Len(in) - 1, ReadPart(k), ~abandoned'
  PROVE  Conversation'
  <1> USE DEF clientVars
  <1> DEFINE kind == answers[nmsg]
             field == Field(kind, ncmd)
             full == Rest(in[k + 1]).kind = "big"
  <1>1. /\ ~in[k + 1].part /\ in' = <<Rest(in[k + 1])>> \o SubSeq(in, k + 2, Len(in))
        /\ got' = IF full THEN <<>> ELSE Append(Fields(k), Rest(in[k + 1]))
        /\ too_big' = (too_big \/ full)
        /\ UNCHANGED <<spc, result, line_n, line1, out, cpc, ncmd, answers, nmsg>>
    BY DEF ReadPart, Rest
  <1>2. Answering
    BY DEF ReadPart, Conversation, Between, Sending, Executing, Asking, Answering
  <1>3. /\ field.kind = kind /\ field.part = FALSE /\ Rest(field).kind = kind
        /\ Rest(field).part = TRUE /\ Rest(Id).part = TRUE /\ Rest(Id).kind = "id"
        /\ [Rest(Id) EXCEPT !.part = FALSE] = Id
    BY FieldFacts DEF Id
  <1>4. spc = "wait" /\ Arriving(kind)
    BY <1>2 DEF Answering
  <1> HIDE DEF kind, field
  <1>5. \/ in' = <<Rest(Id), field>> /\ got' = <<Rest(Id)>> /\ too_big' = FALSE
        \/ /\ in' = <<Rest(field)>>
           /\ \/ kind = "big" /\ got' = <<>> /\ too_big' = TRUE
              \/ kind # "big" /\ got' = <<Id, Rest(field)>> /\ too_big' = FALSE
    <2>1. ASSUME Fields(k) = <<Id>>, in[k + 1] = field, too_big = FALSE,
                 SubSeq(in, k + 2, Len(in)) = <<>>
          PROVE  /\ in' = <<Rest(field)>>
                 /\ \/ kind = "big" /\ got' = <<>> /\ too_big' = TRUE
                    \/ kind # "big" /\ got' = <<Id, Rest(field)>> /\ too_big' = FALSE
      <3>1. in' = <<Rest(field)>>
        BY <1>1, <2>1, Joined
      <3>2. CASE kind = "big"
        BY <1>1, <1>3, <2>1, <3>1, <3>2
      <3>3. CASE kind # "big"
        <4>1. ~full /\ Append(Fields(k), Rest(in[k + 1])) = <<Id, Rest(field)>>
          <5>1. Append(<<Id>>, Rest(field)) = <<Id, Rest(field)>>
            BY Joined
          <5>2. ~full
            BY <1>3, <2>1, <3>3
          <5> QED
            BY <2>1, <5>1, <5>2
        <4> QED
          BY <1>1, <2>1, <3>1, <3>3, <4>1
      <3> QED
        BY <3>2, <3>3
    <2>2. CASE in = <<Id, field>> /\ got = <<>> /\ too_big = FALSE
      <3>1. CASE k = 0
        <4>1. in' = <<Rest(Id)>> \o SubSeq(<<Id, field>>, 2, 2)
          BY <1>1, <2>2, <3>1
        <4>2. Fields(k) = <<>> \o SubSeq(<<Id, field>>, 1, 0)
          BY <2>2, <3>1 DEF Fields
        <4>3. SubSeq(<<Id, field>>, 2, 2) = <<field>> /\ SubSeq(<<Id, field>>, 1, 0) = <<>>
          BY Split
        <4>4. Fields(k) = <<>> /\ Append(<<>>, Rest(Id)) = <<Rest(Id)>>
          BY <4>2, <4>3, Joined
        <4>5. ~full /\ in[k + 1] = Id
          BY <1>3, <2>2, <3>1
        <4> QED
          BY <1>1, <2>2, <4>1, <4>3, <4>4, <4>5, Joined
      <3>2. CASE k = 1
        <4>1. Fields(k) = <<>> \o SubSeq(<<Id, field>>, 1, 1)
          BY <2>2, <3>2 DEF Fields
        <4>2. SubSeq(<<Id, field>>, 1, 1) = <<Id>> /\ SubSeq(<<Id, field>>, 3, 2) = <<>>
          BY Split
        <4>3. Fields(k) = <<Id>>
          BY <4>1, <4>2, Joined
        <4>4. in[k + 1] = field /\ SubSeq(in, k + 2, Len(in)) = <<>>
          BY <2>2, <3>2, <4>2
        <4> QED
          BY <2>1, <2>2, <4>3, <4>4
      <3>3. k = 0 \/ k = 1
        <4>1. Len(in) = 2
          BY <2>2
        <4> QED
          BY <4>1
      <3> QED
        BY <3>1, <3>2, <3>3
    <2>3. CASE in = <<Rest(Id), field>> /\ got = <<Rest(Id)>> /\ too_big = FALSE
      <3>1. k = 1
        BY <1>1, <1>3, <2>3
      <3>2. Fields(k) = SubSeq(<<Rest(Id)>>, 1, 0) \o <<Id>> \o SubSeq(<<Rest(Id), field>>, 2, 1)
        <4>1. got # <<>> /\ Len(got) = 1 /\ got[Len(got)].part /\ in[1] = Rest(Id)
          BY <1>3, <2>3
        <4>2. Fields(k) = SubSeq(got, 1, 0) \o <<[in[1] EXCEPT !.part = FALSE]>> \o SubSeq(in, 2, 1)
          BY <1>4, <3>1, <4>1 DEF Fields
        <4> QED
          BY <1>3, <2>3, <4>1, <4>2
      <3>3. /\ SubSeq(<<Rest(Id)>>, 1, 0) = <<>> /\ SubSeq(<<Rest(Id), field>>, 2, 1) = <<>>
            /\ SubSeq(<<Rest(Id), field>>, 3, 2) = <<>>
        BY Split
      <3>4. Fields(k) = <<Id>>
        BY <3>2, <3>3, Joined
      <3>5. in[k + 1] = field /\ SubSeq(in, k + 2, Len(in)) = <<>>
        BY <2>3, <3>1, <3>3
      <3> QED
        BY <2>1, <2>3, <3>4, <3>5
    <2>4. in # <<Rest(field)>>
      BY <1>1, <1>3
    <2> QED
      BY <1>4, <2>2, <2>3, <2>4 DEF Arriving, field
  <1>6. Arriving(answers[nmsg])'
    BY <1>1, <1>5 DEF Arriving, field, kind, Id
  <1>7. Answering'
    BY <1>1, <1>2, <1>6 DEF Answering, Hears, Id
  <1>8. ResultSoFar'
    BY <1>1, ResultFrame DEF Conversation
  <1> QED
    BY <1>1, <1>7, <1>8 DEF Conversation

\* The client is gone, and send_message says so.
LEMMA ReadEofInv ==
  ASSUME Conversation, ReadEof
  PROVE  Conversation'
  <1> USE DEF clientVars
  <1>1. /\ spc = "wait" /\ in = <<>> /\ cpc = "closed" /\ spc' = "js"
        /\ result' = [status |-> "ERR_IO", msg |-> nmsg]
        /\ UNCHANGED <<line_n, line1, in, out, cpc, ncmd, answers, nmsg>>
    BY DEF ReadEof, Return
  <1>2. line_n = 0 /\ line1 = Id
    BY <1>1 DEF Conversation, Between, Sending, Executing, Asking, Answering
  <1>3. Executing'
    BY <1>1, <1>2 DEF Executing, Hears, Answered, Id
  <1>4. ResultSoFar'
    BY <1>1 DEF ResultSoFar
  <1> QED
    BY <1>1, <1>3, <1>4 DEF Conversation

\* The client sends a command, takes a record or answers a message.
LEMMA ClientInv ==
  ASSUME Conversation,
         ClientCommand \/ ClientReceive \/ \E kind \in Kinds : ClientAnswer(kind)
  PROVE  Conversation'
  <1> USE DEF serverVars
  <1>1. CASE ClientCommand
    <2>1. /\ cpc = "idle" /\ spc # "stopped" /\ cpc' = "awaiting" /\ ncmd' = ncmd + 1
          /\ in' = in \o <<Id', Query', Param'>>
          /\ UNCHANGED <<spc, line_n, out, nmsg, answers, result>>
      BY <1>1 DEF ClientCommand, Id, Query, Param
    <2>2. /\ spc = "line" /\ line_n = 0 /\ in = <<>> /\ out = <<>>
          /\ Len(answers) = nmsg
      BY <2>1 DEF Conversation, Between, Sending, Executing, Asking, Answering, Hears, Answered
    <2>3. <<>> \o <<Id', Query', Param'>> = <<Id', Query', Param'>>
      OBVIOUS
    <2>4. Sending'
      BY <2>1, <2>2, <2>3 DEF Sending, Hears, Answered
    <2>5. ResultSoFar'
      BY <2>1, ResultFrame DEF Conversation
    <2> QED
      BY <2>1, <2>4, <2>5 DEF Conversation
  <1>2. CASE ClientReceive
    <2>1. /\ cpc = "awaiting" /\ out # <<>> /\ out' = Tail(out)
          /\ UNCHANGED <<spc, line_n, line1, got, too_big, in, ncmd, nmsg, answers, result>>
          /\ Head(out).id = Id => cpc' = IF Head(out).type = "message" THEN "handling" ELSE "idle"
      BY <1>2 DEF ClientReceive, Id
    <2>2. ResultSoFar'
      BY <2>1, ResultFrame DEF Conversation
    <2>3. PICK type \in {"ok", "exception", "message"} :
              /\ out = <<[id |-> Id, type |-> type, msg |-> nmsg]>>
              /\ IF type = "message" THEN Asking ELSE Between
      BY <2>1 DEF Conversation, Between, Sending, Executing, Asking, Answering, Hears
    <2>4. Head(out) = [id |-> Id, type |-> type, msg |-> nmsg] /\ Tail(out) = <<>>
      BY <2>3, First
    <2>5. cpc' = IF type = "message" THEN "handling" ELSE "idle"
      BY <2>1, <2>4
    <2>6. CASE type = "message"
      <3>1. Asking'
        BY <2>1, <2>3, <2>4, <2>5, <2>6 DEF Asking, Hears, Answered, Id
      <3> QED
        BY <2>1, <2>2, <3>1 DEF Conversation
    <2>7. CASE type # "message"
      <3>1. Between'
        BY <2>1, <2>3, <2>4, <2>5, <2>7 DEF Between, Hears, Answered, Id
      <3> QED
        BY <2>1, <2>2, <3>1 DEF Conversation
    <2> QED
      BY <2>6, <2>7
  <1>3. ASSUME NEW kind \in Kinds, ClientAnswer(kind)
        PROVE  Conversation'
    <2>1. /\ cpc = "handling" /\ cpc' = "awaiting" /\ answers' = Append(answers, kind)
          /\ in' = in \o <<Id, Field(kind, ncmd)>>
          /\ UNCHANGED <<spc, line_n, line1, got, too_big, out, ncmd, nmsg, result>>
      BY <1>3 DEF ClientAnswer, Id
    <2>2. /\ spc = "wait" /\ line_n = 0 /\ line1 = Id /\ in = <<>> /\ got = <<>> /\ too_big = FALSE
          /\ out = <<>> /\ Len(answers) = nmsg - 1
      BY <2>1 DEF Conversation, Between, Sending, Executing, Asking, Answering, Hears, Answered
    <2>3. /\ answers' \in Seq(Kinds) /\ Len(answers') = nmsg /\ nmsg > 0 /\ answers'[nmsg] = kind
          /\ Len(answers) = nmsg - 1 /\ \A i \in 1 .. nmsg - 1 : answers'[i] = answers[i]
      BY <2>1, <2>2 DEF Conversation
    <2>4. in' = <<Id, Field(kind, ncmd)>>
      BY <2>1, <2>2, Joined
    <2>5. Answering'
      BY <2>1, <2>2, <2>3, <2>4 DEF Answering, Arriving, Hears, Id
    <2>6. ResultSoFar'
      <3>1. SUFFICES ASSUME result.msg # 0
                     PROVE  /\ result.msg \in 1 .. Len(answers')
                            /\ result.status = Expected(answers'[result.msg])
        BY <2>1 DEF ResultSoFar
      <3>2. result.msg \in 1 .. Len(answers) /\ result.status = Expected(answers[result.msg])
        BY <2>1, <3>1 DEF Conversation, ResultSoFar
      <3> QED
        BY <2>3, <3>2 DEF Conversation
    <2> QED
      BY <2>1, <2>3, <2>5, <2>6 DEF Conversation
  <1> QED
    BY <1>1, <1>2, <1>3

\* The client gives up, time passes or a signal arrives.
LEMMA OtherInv ==
  ASSUME Conversation, ClientClose \/ TimeUp \/ Interrupt \/ UNCHANGED vars
  PROVE  Conversation'
  <1> USE DEF serverVars, clientVars
  <1>1. /\ UNCHANGED <<spc, line_n, line1, line2, got, too_big, result, in, out, ncmd, nmsg, answers>>
        /\ cpc' \in {cpc, "closed"}
    BY DEF ClientClose, TimeUp, Interrupt, vars
  <1>2. ResultSoFar'
    BY <1>1, ResultFrame DEF Conversation
  <1>3. Between => Between'
    BY <1>1 DEF Between, Hears, Answered, Id
  <1>4. Sending => Sending'
    BY <1>1 DEF Sending, Hears, Answered, Id, Query, Param
  <1>5. Executing => Executing'
    BY <1>1 DEF Executing, Hears, Answered, Id
  <1>6. Asking => Asking'
    BY <1>1 DEF Asking, Hears, Answered, Id
  <1>7. Answering => Answering'
    BY <1>1 DEF Answering, Arriving, Hears, Answered, Id
  <1> QED
    BY <1>1, <1>2, <1>3, <1>4, <1>5, <1>6, <1>7 DEF Conversation

\* Every step keeps the invariant; a wait that was abandoned stays abandoned.
LEMMA NextInv == Inv /\ [Next]_vars => Inv'
  <1> SUFFICES ASSUME Inv, [Next]_vars PROVE Inv'
    OBVIOUS
  <1>1. abandoned' \in BOOLEAN /\ (abandoned => abandoned')
    <2>1. \/ abandoned' = abandoned \/ abandoned' = TRUE
          \/ \E k \in 1 .. Len(in) : abandoned' = (abandoned \/ Leave(k) # <<>>)
      BY DEF Next, Server, Script, Wait, Client, TakeLine, LoopEnds, JsEnds, SendMessage,
             SendMessageFails, ReadDone, ReadPart, ReadEof, WaitInterrupted, ClientCommand,
             ClientReceive, ClientAnswer, ClientClose, TimeUp, Interrupt, Stopped, vars
    <2> QED
      BY <2>1, Zenon DEF Inv
  <1>2. ASSUME ~abandoned' PROVE Conversation'
    <2>1. Conversation /\ abandoned \in BOOLEAN
      BY <1>1, <1>2 DEF Inv
    <2>2. CASE TakeLine \/ LoopEnds \/ Script
      BY <2>1, <2>2, LoopInv, SendInv DEF Script
    <2>3. CASE \E k \in 1 .. Len(in) : ReadDone(k)
      BY <1>2, <2>1, <2>3, ReadDoneInv
    <2>4. CASE \E k \in 0 .. Len(in) - 1 : ReadPart(k)
      BY <1>2, <2>1, <2>4, ReadPartInv
    <2>5. CASE ReadEof
      BY <2>1, <2>5, ReadEofInv
    <2>6. CASE WaitInterrupted
      BY <1>2, <2>6 DEF WaitInterrupted
    <2>7. CASE Client \/ ClientCommand
      BY <2>1, <2>7, ClientInv DEF Client, Kinds
    <2>8. CASE ClientClose \/ TimeUp \/ Interrupt \/ Stopped \/ UNCHANGED vars
      BY <2>1, <2>8, OtherInv DEF Stopped
    <2> QED
      BY <2>2, <2>3, <2>4, <2>5, <2>6, <2>7, <2>8 DEF Next, Server, Wait
  <1> QED
    BY <1>1, <1>2 DEF Inv

-----------------------------------------------------------------------------
(***************************************************************************)
(* The theorems                                                             *)
(***************************************************************************)

\* Until a wait is abandoned, the two ends of the socket agree on where they are, however
\* the reads cut the responses up.
THEOREM ConversationFollowed == Spec => []Inv
  BY InitInv, NextInv, PTL DEF Spec

\* send_message returns what the client answered to this very message, or that the client
\* is gone.
THEOREM AnswersArrive == Spec => []ResultIsTheAnswer
  <1>1. Inv => ResultIsTheAnswer
    BY DEF Inv, Conversation, ResultSoFar, ResultIsTheAnswer
  <1> QED
    BY <1>1, ConversationFollowed, PTL

\* The command loop takes no response for a line of a command, and send_message no line for
\* a response.
THEOREM LinesStayInSync == Spec => []LinesInSync
  <1>1. Inv => LinesInSync
    <2> SUFFICES ASSUME Inv, spc = "line", ~abandoned, in # <<>>
                 PROVE  Head(in).kind =
                            CASE line_n = 0 -> "id" [] line_n = 1 -> "query" [] line_n = 2 -> "param"
      BY DEF LinesInSync
    <2>1. Sending
      BY DEF Inv, Conversation, Between, Executing, Asking, Answering
    <2>2. Id.kind = "id" /\ Query.kind = "query" /\ Param.kind = "param"
      BY FieldFacts DEF Id, Query, Param
    <2>3. /\ Head(<<Id, Query, Param>>) = Id /\ Head(<<Query, Param>>) = Query
          /\ Head(<<Param>>) = Param
      BY First
    <2> QED
      BY <2>1, <2>2, <2>3 DEF Sending
  <1> QED
    BY <1>1, ConversationFollowed, PTL
=============================================================================
