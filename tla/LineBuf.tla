------------------------------- MODULE LineBuf -------------------------------
(***************************************************************************)
(* The line buffer of jsockd (line_buf.c): bytes are read from the socket   *)
(* in arbitrary pieces and handed to line_handler one line at a time.  A    *)
(* line that does not fit into the buffer is cut and flagged, and a handler *)
(* that returns TRAMPOLINE gets its line a second time (line_buf_replay).   *)
(***************************************************************************)
EXTENDS Integers, Sequences, FiniteSets

CONSTANTS
    Size,       \* INPUT_BUF_BYTES
    Bytes,      \* the bytes a client sends, Sep among them
    Sep,        \* socket_sep_char
    Nul,        \* '\0'
    MaxStream   \* bound: bytes that the client sends

ASSUME SizeAssumption == Size \in Nat \ {0}
ASSUME BytesAssumption == Sep \in Bytes /\ Nul # Sep
ASSUME MaxStreamAssumption == MaxStream \in Nat

VARIABLES
    buf, start, afsep, truncated, n,   \* LineBuf
    i,                                 \* the loop variable of line_buf_replay
    pc,
    stream,                            \* history: the bytes read so far
    lines                              \* history: what the handler has accepted

vars == <<buf, start, afsep, truncated, n, i, pc, stream, lines>>

Indices == 0 .. Size - 1

Init ==
    /\ buf = [k \in Indices |-> Nul]
    /\ start = 0 /\ afsep = 0 /\ truncated = FALSE /\ n = 0 /\ i = 0
    /\ pc = "read"
    /\ stream = <<>> /\ lines = <<>>

\* The C string between two indices of the buffer.
Text(from, to) == [k \in 1 .. to - from |-> buf[from + k - 1]]

\* The room that is left, after dropping everything in a buffer that is full.
Full == start = Size
ReadStart == IF Full THEN 0 ELSE start

\* line_buf_read: one call of readf, which fills some of the free space.
Read(count) ==
    /\ pc = "read"
    /\ count <= Size - ReadStart
    /\ \E bytes \in [1 .. count -> Bytes] :
         /\ buf' = [k \in Indices |-> IF k \in ReadStart .. ReadStart + count - 1
                                      THEN bytes[k - ReadStart + 1] ELSE buf[k]]
         /\ stream' = stream \o bytes
    /\ start' = ReadStart
    /\ afsep' = IF Full THEN 0 ELSE afsep
    /\ truncated' = (truncated \/ Full)
    /\ n' = count
    /\ i' = start'
    /\ pc' = "scan"
    /\ UNCHANGED lines

\* readf returns 0 or an error: command_loop stops.
ReadEnds ==
    /\ pc = "read"
    /\ pc' = "stopped"
    /\ UNCHANGED <<buf, start, afsep, truncated, n, i, stream, lines>>

\* The next separator that line_buf_replay finds, at index j.
FindsSep(j) ==
    /\ pc = "scan"
    /\ j \in i .. start + n - 1
    /\ buf[j] = Sep
    /\ \A k \in i .. j - 1 : buf[k] # Sep

\* Mutant: the flag of a line that was cut sticks to the next one.
HandlerAcceptsKeepsFlag(j) ==
    /\ FindsSep(j)
    /\ lines' = Append(lines, [text |-> Text(afsep, j), cut |-> truncated])
    /\ buf' = [buf EXCEPT ![j] = Nul]
    /\ afsep' = j + 1
    /\ i' = j + 1
    /\ UNCHANGED <<start, n, truncated, pc, stream>>

\* line_handler accepts the line: the separator becomes a NUL for good.
HandlerAccepts(j) ==
    /\ FindsSep(j)
    /\ lines' = Append(lines, [text |-> Text(afsep, j), cut |-> truncated])
    /\ buf' = [buf EXCEPT ![j] = Nul]
    /\ truncated' = FALSE
    /\ afsep' = j + 1
    /\ i' = j + 1
    /\ UNCHANGED <<start, n, pc, stream>>

\* Mutant: start moves and n keeps counting from the old one.
HandlerTrampolinesKeepsCount(j) ==
    /\ FindsSep(j) /\ ~truncated
    /\ start' = afsep
    /\ i' = afsep
    /\ UNCHANGED <<buf, n, afsep, truncated, pc, stream, lines>>

\* line_handler returns TRAMPOLINE, which it never does for a line that was cut.
\* The separator is put back and the scan starts over at the beginning of the line.
HandlerTrampolines(j) ==
    /\ FindsSep(j) /\ ~truncated
    /\ n' = n - (afsep - start)
    /\ start' = afsep
    /\ i' = afsep
    /\ UNCHANGED <<buf, afsep, truncated, pc, stream, lines>>

\* line_handler returns another negative number: command_loop stops.
HandlerStops(j) ==
    /\ FindsSep(j)
    /\ truncated' = FALSE
    /\ n' = n - (afsep - start)
    /\ start' = afsep
    /\ pc' = "stopped"
    /\ UNCHANGED <<buf, afsep, i, stream, lines>>

\* No separator is left: the incomplete line moves to the front of the buffer.
ScanEnds ==
    /\ pc = "scan"
    /\ \A j \in i .. start + n - 1 : buf[j] # Sep
    /\ buf' = [k \in Indices |-> IF k < start + n - afsep THEN buf[k + afsep] ELSE buf[k]]
    /\ start' = start + n - afsep
    /\ i' = start + n
    /\ afsep' = 0
    /\ pc' = "read"
    /\ UNCHANGED <<truncated, n, stream, lines>>

Stopped == pc = "stopped" /\ UNCHANGED vars

Next ==
    \/ \E count \in 1 .. Size : Len(stream) + count <= MaxStream /\ Read(count)
    \/ \E j \in Indices : HandlerAccepts(j) \/ HandlerTrampolines(j) \/ HandlerStops(j)
    \/ ReadEnds \/ ScanEnds \/ Stopped

Spec == Init /\ [][Next]_vars

-----------------------------------------------------------------------------
(***************************************************************************)
(* Properties                                                               *)
(***************************************************************************)

\* Types, and the indices that every buffer access of line_buf.c rests on: the line
\* begins at afsep, the unread part ends inside the buffer.
InBounds ==
    /\ buf \in [Indices -> Bytes \cup {Nul}]
    /\ start \in 0 .. Size /\ afsep \in 0 .. Size /\ n \in 0 .. Size /\ i \in 0 .. Size
    /\ truncated \in BOOLEAN
    /\ pc \in {"read", "scan", "stopped"}
    /\ pc = "read" => afsep = 0
    /\ pc = "scan" => /\ start + n <= Size /\ start <= i /\ afsep <= i /\ i <= start + n

\* The lines as the handler knows them: it makes no use of the text of a cut line.
Known == [k \in DOMAIN lines |-> IF lines[k].cut THEN [cut |-> TRUE, text |-> <<>>] ELSE lines[k]]

Source == INSTANCE LineSource WITH Limit <- Size, arrived <- stream, handed <- Known

\* However the reads cut the stream up and however often a line is replayed, the line
\* buffer is a line source: line_handler accepts every line of the stream exactly once, in
\* order and byte for byte; a line is flagged as cut exactly when it does not fit into the
\* buffer; and no line is left waiting when command_loop goes to read again.
ImplementsLineSource == Source!Spec
=============================================================================
