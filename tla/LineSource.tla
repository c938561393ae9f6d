----------------------------- MODULE LineSource ------------------------------
(***************************************************************************)
(* What the command loop expects of its line buffer: bytes arrive, and the  *)
(* lines that they make up are handed out one by one, in order, each once   *)
(* and byte for byte.  Of a line that is too long only the fact is told.    *)
(* Nothing is read as long as a whole line waits.                           *)
(***************************************************************************)
EXTENDS Integers, Sequences, FiniteSets

CONSTANTS Bytes, Sep, Limit

VARIABLES
    arrived,    \* the bytes of the connection so far
    handed      \* the lines that were handed out

vars == <<arrived, handed>>

\* Where the k-th line of the stream ends, and the line.
Ends == {e \in 1 .. Len(arrived) : arrived[e] = Sep}
LineNumber(e) == Cardinality({d \in Ends : d <= e})
LineEnd(k) == CHOOSE e \in Ends : LineNumber(e) = k
LineText(k) == SubSeq(arrived, IF k = 1 THEN 1 ELSE LineEnd(k - 1) + 1, LineEnd(k) - 1)

Waiting == Cardinality(Ends) > Len(handed)

\* A line with its separator has to fit into Limit bytes.
Handed(text) ==
    IF Len(text) < Limit THEN [cut |-> FALSE, text |-> text] ELSE [cut |-> TRUE, text |-> <<>>]

Init == arrived = <<>> /\ handed = <<>>

Arrive ==
    /\ ~Waiting
    /\ \E count \in 1 .. Limit : \E bytes \in [1 .. count -> Bytes] : arrived' = arrived \o bytes
    /\ UNCHANGED handed

HandOut ==
    /\ Waiting
    /\ handed' = Append(handed, Handed(LineText(Len(handed) + 1)))
    /\ UNCHANGED arrived

Next == Arrive \/ HandOut

Spec == Init /\ [][Next]_vars
=============================================================================
