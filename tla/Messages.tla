------------------------------ MODULE Messages ------------------------------
(***************************************************************************)
(* JSockD.sendMessage (messages.c): in the middle of a command the server   *)
(* writes a message to the client and waits for the response on the socket  *)
(* from which the command loop takes its lines.  The client is the one the  *)
(* protocol describes and connHandler of the Go client implements: it sends *)
(* one command at a time and answers every message.                         *)
(*                                                                         *)
(* The socket is a sequence of fields; a field ends with the separator.  A  *)
(* read returns any number of fields and may end inside one: part is set on *)
(* the rest of a field whose beginning was read.                            *)
(***************************************************************************)
EXTENDS Integers, Sequences

CONSTANTS
    MaxCommands,   \* bound: commands that the client sends
    MaxMessages    \* bound: messages that all commands together send

ASSUME BoundsAssumption == MaxCommands \in Nat /\ MaxMessages \in Nat

VARIABLES
    \* the server's thread
    spc,           \* "line": in the command loop, "js": in the script, "wait": in send_message
    line_n,
    line1,         \* the field that became current_uuid
    line2,         \* the field that became the query
    got,           \* the fields in input_buf[0 .. total_read - 1]
    too_big,
    timeup,        \* has the command run for longer than max_command_runtime_us?
    interrupted,   \* g_interrupted_or_error
    result,        \* what the last send_message returned, and for which message
    \* the socket
    in,            \* fields on their way to the server
    out,           \* records on their way to the client
    \* the client
    cpc,
    ncmd,          \* commands sent, the last one being the current one
    nmsg,          \* messages sent, the last one being the current one
    answers,       \* history: the kind of the answer to each message
    abandoned      \* history: was a wait ended with part of its response unread?

serverVars == <<spc, line_n, line1, line2, got, too_big, timeup, interrupted, result>>
clientVars == <<cpc, ncmd, answers>>
vars == <<serverVars, in, out, clientVars, nmsg, abandoned>>

Field(kind, of) == [kind |-> kind, of |-> of, part |-> FALSE]
NoField == Field("none", 0)
NoResult == [status |-> "none", msg |-> 0]

Init ==
    /\ spc = "line" /\ line_n = 0 /\ line1 = NoField /\ line2 = NoField
    /\ got = <<>> /\ too_big = FALSE /\ timeup = FALSE /\ interrupted = FALSE
    /\ result = NoResult
    /\ in = <<>> /\ out = <<>>
    /\ cpc = "idle" /\ ncmd = 0 /\ nmsg = 0 /\ answers = <<>>
    /\ abandoned = FALSE

-----------------------------------------------------------------------------
(***************************************************************************)
(* The command loop                                                         *)
(***************************************************************************)

Reply(type) == out' = Append(out, [id |-> line1, type |-> type, msg |-> nmsg])

\* A command whose three lines are the fields of a command runs; anything else (what is
\* left of a response, say) does not compile, parse or run and is answered so.
IsCommand(first, second, third) ==
    first.kind = "id" /\ second.kind = "query" /\ third.kind = "param" /\ ~first.part

\* Mutant: line_n stays 2 after the third line.
TakeLineKeepsCount ==
    /\ spc = "line" /\ in # <<>>
    /\ in' = Tail(in)
    /\ line1' = IF line_n = 0 THEN Head(in) ELSE line1
    /\ line2' = IF line_n = 1 THEN Head(in) ELSE line2
    /\ line_n' = IF line_n < 2 THEN line_n + 1 ELSE line_n
    /\ IF line_n = 2 /\ IsCommand(line1, line2, Head(in))
       THEN spc' = "js" /\ timeup' = FALSE /\ UNCHANGED out
       ELSE UNCHANGED <<spc, timeup>> /\ IF line_n = 2 THEN Reply("exception") ELSE UNCHANGED out
    /\ UNCHANGED <<got, too_big, interrupted, result, clientVars, nmsg, abandoned>>

TakeLine ==
    /\ spc = "line" /\ in # <<>>
    /\ in' = Tail(in)
    /\ line1' = IF line_n = 0 THEN Head(in) ELSE line1
    /\ line2' = IF line_n = 1 THEN Head(in) ELSE line2
    /\ line_n' = (line_n + 1) % 3
    /\ IF line_n = 2 /\ IsCommand(line1, line2, Head(in))
       THEN spc' = "js" /\ timeup' = FALSE /\ UNCHANGED out
       ELSE UNCHANGED <<spc, timeup>> /\ IF line_n = 2 THEN Reply("exception") ELSE UNCHANGED out
    /\ UNCHANGED <<got, too_big, interrupted, result, clientVars, nmsg, abandoned>>

\* The client has closed the socket, or poll_fd finds g_interrupted_or_error set.
LoopEnds ==
    /\ spc = "line" /\ in = <<>> /\ (cpc = "closed" \/ interrupted)
    /\ spc' = "stopped"
    /\ UNCHANGED <<line_n, line1, line2, got, too_big, timeup, interrupted, result, in, out,
                   clientVars, nmsg, abandoned>>

\* The script returns or throws, or the interrupt handler ends it.
JsEnds(type) ==
    /\ spc = "js"
    /\ spc' = "line"
    /\ Reply(type)
    /\ UNCHANGED <<line_n, line1, line2, got, too_big, timeup, interrupted, result, in,
                   clientVars, nmsg, abandoned>>

-----------------------------------------------------------------------------
(***************************************************************************)
(* send_message, called by jsockd_send_message.  A status other than "ok"   *)
(* is thrown as an exception, which the script may catch.                   *)
(***************************************************************************)

SendMessage ==
    /\ spc = "js" /\ cpc # "closed" /\ nmsg < MaxMessages
    /\ nmsg' = nmsg + 1
    /\ out' = Append(out, [id |-> line1, type |-> "message", msg |-> nmsg + 1])
    /\ spc' = "wait" /\ got' = <<>> /\ too_big' = FALSE
    /\ UNCHANGED <<line_n, line1, line2, timeup, interrupted, result, in, clientVars, abandoned>>

\* The client has closed the socket: writev_all fails, or SIGPIPE ends the process.
SendMessageFails ==
    /\ spc = "js" /\ cpc = "closed"
    /\ \/ result' = [status |-> "ERR_IO", msg |-> 0] /\ UNCHANGED spc
       \/ spc' = "stopped" /\ UNCHANGED result
    /\ UNCHANGED <<line_n, line1, line2, got, too_big, timeup, interrupted, in, out,
                   clientVars, nmsg, abandoned>>

Return(status) ==
    /\ result' = [status |-> status, msg |-> nmsg]
    /\ spc' = "js"

\* What the second field of a response means.
Value(field) ==
    CASE field.kind = "value"          -> "ok"
      [] field.kind = "internal_error" -> "ERR_HANDLER_INTERNAL_ERROR"
      [] OTHER                         -> "ERR_BAD_JSON"

\* Mutant: too_big is forgotten, and the tail of the response taken for a response.
ResponseIgnoresSize(fields, big) ==
    CASE fields[1] # line1 -> "ERR_BAD_MESSAGE"
      [] OTHER -> IF Len(fields) = 2 THEN Value(fields[2]) ELSE "ERR_BAD_JSON"

\* What a complete response means: the code after read_done.  The first field must be the
\* id of the command, the rest is JSON or internal_error; if there is no rest, the length
\* of the JSON text wraps around and the empty string does not parse.
Response(fields, big) ==
    CASE big                       -> "ERR_TOO_BIG"
      [] ~big /\ fields[1] # line1 -> "ERR_BAD_MESSAGE"
      [] OTHER -> IF Len(fields) = 2 THEN Value(fields[2]) ELSE "ERR_BAD_JSON"

\* The first k fields of the socket, the first of which may be continued from got.
Fields(k) ==
    IF spc = "wait" /\ got # <<>> /\ got[Len(got)].part
    THEN SubSeq(got, 1, Len(got) - 1) \o <<[in[1] EXCEPT !.part = FALSE]>> \o SubSeq(in, 2, k)
    ELSE got \o SubSeq(in, 1, k)

\* A field that is too big for the buffer cannot be read in one go.
Whole(k) == \A j \in 1 .. k : in[j].kind = "big" => in[j].part

Leave(k) == SubSeq(in, k + 1, Len(in))

\* A read that ends with a separator ends the wait.
ReadDone(k) ==
    /\ spc = "wait" /\ k <= Len(in) /\ Whole(k)
    /\ in' = Leave(k)
    /\ Return(Response(Fields(k), too_big))
    /\ abandoned' = (abandoned \/ Leave(k) # <<>>)
    /\ UNCHANGED <<line_n, line1, line2, got, too_big, timeup, interrupted, out, clientVars, nmsg>>

\* A read of k fields and of the beginning of another.  The time limit is tested now, and
\* only now: a poll that times out (GO_AROUND) goes straight back to polling.  A buffer
\* that gets full is dropped.  (A clock that fails ends the wait like the time limit.)
ReadPart(k) ==
    /\ spc = "wait" /\ k < Len(in) /\ Whole(k) /\ ~in[k + 1].part
    /\ LET rest == [in[k + 1] EXCEPT !.part = TRUE]
           full == rest.kind = "big"
       IN  /\ in' = <<rest>> \o SubSeq(in, k + 2, Len(in))
           /\ got' = IF full THEN <<>> ELSE Append(Fields(k), rest)
           /\ too_big' = (too_big \/ full)
    /\ \/ ~timeup /\ UNCHANGED <<spc, result, abandoned>>
       \/ timeup /\ Return("ERR_TIMEOUT") /\ abandoned' = TRUE
    /\ UNCHANGED <<line_n, line1, line2, timeup, interrupted, out, clientVars, nmsg>>

\* Mutant: a read that returns 0 is tried again.
ReadEofRetried ==
    /\ spc = "wait" /\ in = <<>> /\ cpc = "closed" /\ interrupted
    /\ Return("ERR_IO")
    /\ UNCHANGED <<line_n, line1, line2, got, too_big, timeup, interrupted, in, out,
                   clientVars, nmsg, abandoned>>

\* read returns 0 or an error.
ReadEof ==
    /\ spc = "wait" /\ in = <<>> /\ cpc = "closed"
    /\ Return("ERR_IO")
    /\ UNCHANGED <<line_n, line1, line2, got, too_big, timeup, interrupted, in, out,
                   clientVars, nmsg, abandoned>>

\* ppoll_fd times out, as nothing or only part of the response has arrived, and finds
\* g_interrupted_or_error set.
WaitInterrupted ==
    /\ spc = "wait" /\ (in # <<>> => in[1].part) /\ cpc # "closed" /\ interrupted
    /\ Return("ERR_INTERRUPTED")
    /\ abandoned' = TRUE
    /\ UNCHANGED <<line_n, line1, line2, got, too_big, timeup, interrupted, in, out,
                   clientVars, nmsg>>

-----------------------------------------------------------------------------
(***************************************************************************)
(* The client                                                               *)
(***************************************************************************)

ClientCommand ==
    /\ cpc = "idle" /\ ncmd < MaxCommands /\ spc # "stopped"
    /\ ncmd' = ncmd + 1
    /\ in' = in \o <<Field("id", ncmd'), Field("query", ncmd'), Field("param", ncmd')>>
    /\ cpc' = "awaiting"
    /\ UNCHANGED <<serverVars, out, answers, nmsg, abandoned>>

\* A record with another id is a fatal error, and the connection is closed.
ClientReceive ==
    /\ cpc = "awaiting" /\ out # <<>>
    /\ out' = Tail(out)
    /\ cpc' = CASE Head(out).id # Field("id", ncmd)  -> "closed"
                [] OTHER -> IF Head(out).type = "message" THEN "handling" ELSE "idle"
    /\ UNCHANGED <<serverVars, in, ncmd, answers, nmsg, abandoned>>

\* The message handler returns a value, JSON or not, or it fails.
ClientAnswer(kind) ==
    /\ cpc = "handling"
    /\ in' = in \o <<Field("id", ncmd), Field(kind, ncmd)>>
    /\ answers' = Append(answers, kind)
    /\ cpc' = "awaiting"
    /\ UNCHANGED <<serverVars, out, ncmd, nmsg, abandoned>>

\* The client gives up, which it may do at any time.
ClientClose ==
    /\ cpc # "closed"
    /\ cpc' = "closed"
    /\ UNCHANGED <<serverVars, in, out, ncmd, answers, nmsg, abandoned>>

TimeUp ==
    /\ spc \in {"js", "wait"} /\ ~timeup
    /\ timeup' = TRUE
    /\ UNCHANGED <<spc, line_n, line1, line2, got, too_big, interrupted, result, in, out,
                   clientVars, nmsg, abandoned>>

\* A signal, or the end of another thread.
Interrupt ==
    /\ ~interrupted
    /\ interrupted' = TRUE
    /\ UNCHANGED <<spc, line_n, line1, line2, got, too_big, timeup, result, in, out,
                   clientVars, nmsg, abandoned>>

-----------------------------------------------------------------------------
Script == SendMessage \/ SendMessageFails \/ \E type \in {"ok", "exception"} : JsEnds(type)

Wait ==
    \/ \E k \in 1 .. Len(in) : ReadDone(k)
    \/ \E k \in 0 .. Len(in) - 1 : ReadPart(k)
    \/ ReadEof \/ WaitInterrupted

Server == TakeLine \/ LoopEnds \/ Script \/ Wait

Client ==
    \/ ClientReceive
    \/ \E kind \in {"value", "internal_error", "bad", "big"} : ClientAnswer(kind)

Stopped == spc = "stopped" /\ UNCHANGED vars

\* The client has had enough: nothing is left to do until it closes the socket.
Next == Server \/ Client \/ ClientCommand \/ ClientClose \/ TimeUp \/ Interrupt \/ Stopped

Spec == Init /\ [][Next]_vars

\* The OS runs the server; a client that is not closed takes what it is sent and
\* answers messages, as the protocol asks.  It need not send commands.
FairSpec == Spec /\ WF_vars(Server) /\ WF_vars(Client)

-----------------------------------------------------------------------------
(***************************************************************************)
(* Properties                                                               *)
(***************************************************************************)

\* The status that each kind of answer must lead to.
Expected(kind) ==
    CASE kind = "value"          -> "ok"
      [] kind = "internal_error" -> "ERR_HANDLER_INTERNAL_ERROR"
      [] kind = "bad"            -> "ERR_BAD_JSON"
      [] kind = "big"            -> "ERR_TOO_BIG"

\* Unless a wait was abandoned, send_message returns what the client answered to this
\* very message, however the reads cut the response up, or says that it was interrupted
\* or that the socket is closed.
ResultIsTheAnswer ==
    (~abandoned /\ result.msg # 0) =>
        \/ result.msg <= Len(answers) /\ result.status = Expected(answers[result.msg])
        \/ result.status = "ERR_IO" /\ cpc = "closed"

\* Unless a wait was abandoned, the command loop takes every field for what it is: no
\* response is left for it, and none of its lines was taken for a response.
LinesInSync ==
    (spc = "line" /\ ~abandoned /\ in # <<>>) =>
        Head(in).kind = CASE line_n = 0 -> "id" [] line_n = 1 -> "query" [] line_n = 2 -> "param"

\* Every call of send_message returns if the client answers or closes the socket.
EveryWaitEnds == spc = "wait" ~> spc # "wait"
=============================================================================
