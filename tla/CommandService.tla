--------------------------- MODULE CommandService ----------------------------
(***************************************************************************)
(* What a client may rely on at one socket: a command is three fields, all  *)
(* of them meet the same interpreter, and the last one brings exactly one   *)
(* answer.  Interpreters come and go between commands only.  ?reset gives   *)
(* up a command, and the server may end at any moment.                      *)
(***************************************************************************)
EXTENDS Integers

VARIABLES
    fields,         \* the fields of the current command that were taken
    interpreter,    \* who takes them (0: nobody at the moment)
    answer,         \* the answer to the last command, until the next one begins
    ended

vars == <<fields, interpreter, answer, ended>>

Init == fields = 0 /\ interpreter = 1 /\ answer = "none" /\ ended = FALSE

TakeField ==
    /\ ~ended /\ fields < 2 /\ interpreter # 0
    /\ fields' = fields + 1
    /\ answer' = "none"
    /\ UNCHANGED <<interpreter, ended>>

\* The answer to the command may be the last thing that the server does.
TakeLastField ==
    /\ ~ended /\ fields = 2 /\ interpreter # 0 /\ answer = "none"
    /\ fields' = 0
    /\ answer' \in {"ok", "exception"}
    /\ ended' \in BOOLEAN
    /\ UNCHANGED interpreter

Reset ==
    /\ ~ended
    /\ fields' = 0
    /\ UNCHANGED <<interpreter, answer, ended>>

ChangeInterpreter ==
    /\ ~ended /\ fields = 0
    /\ interpreter' \in Nat
    /\ UNCHANGED <<fields, answer, ended>>

End ==
    /\ ~ended
    /\ ended' = TRUE
    /\ fields' \in {fields, 0}
    /\ interpreter' = interpreter \/ (fields = 0 /\ interpreter' \in Nat)
    /\ UNCHANGED answer

\* What is left is taken away.
Destroy ==
    /\ ended
    /\ interpreter' = 0
    /\ UNCHANGED <<fields, answer, ended>>

Next == TakeField \/ TakeLastField \/ Reset \/ ChangeInterpreter \/ End \/ Destroy

Spec == Init /\ [][Next]_vars
=============================================================================
