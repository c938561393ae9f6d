------------------------- MODULE CommandThreadProofs -------------------------
(***************************************************************************)
(* Proofs about CommandThread, for every pipeline, memory threshold and     *)
(* number of interpreters: line protocol, interpreter replacement and the   *)
(* refinement of CommandService.                                            *)
(***************************************************************************)
EXTENDS CommandThread, TLAPS

USE LineKindsAssumption, FlagsAssumption, BoundsAssumption

-----------------------------------------------------------------------------
(***************************************************************************)
(* The inductive invariant                                                  *)
(***************************************************************************)

Runtimes == [id : Nat, intr : {"none", "ts", "r"}]

ThreadStates ==
    [line_n : 0 .. 2, compiled_query : {"undefined", "current", "exception"},
     current_uuid : {"none", "stale", "current"},
     memory_check_count : Nat, memory_increase_count : Nat, last_memory_usage : Nat,
     dangling_bytecode : BOOLEAN, cached_function_in_use : BOOLEAN,
     idle : BOOLEAN, rt : Runtimes]

Replies ==
    [status : {"none", "ok", "exception"}, uuid : {"none", "stale", "current"},
     cut : SUBSET (0 .. 2)]

Labels == {"accept", "tick", "poll", "handle", "js", "exited", "aborted", "killed"}

TypeOK ==
    /\ pos \in 0 .. 2
    /\ inbox \in Seq([kind : LineKinds, field : 0 .. 2])
    /\ pc \in Labels
    /\ ts \in ThreadStates
    /\ exit_status \in {0, 1, -1}
    /\ stream_io_err \in BOOLEAN /\ eof \in BOOLEAN /\ interrupted \in BOOLEAN
    /\ reply \in Replies
    /\ cut \in SUBSET (0 .. 2)
    /\ lost \in BOOLEAN
    /\ r \in ThreadStates \cup {NoStruct}
    /\ live \in SUBSET Nat /\ created \in Nat
    /\ failed \in BOOLEAN
    /\ main \in {"joining", "joining_bg", "joined", "done"}

\* The field that the i-th line of the socket's buffer, or the next one sent, stands for.
Field(i) == IF i <= Len(inbox) THEN inbox[i].field ELSE pos

\* The buffered lines continue the current command, each where the one before it ends.
InSync ==
    /\ \A i \in 1 .. Len(inbox) : Field(i + 1) = NextField(inbox[i].field, inbox[i].kind)
    /\ Running => ts.line_n = Field(1)
    /\ pc = "js" => inbox # <<>> /\ inbox[1].kind = "text" /\ ts.line_n = 2

\* What is known of a command from its first line to its answer.
Command ==
    /\ ts.line_n # 2 => ts.compiled_query = "undefined"
    /\ ts.line_n # 0 => reply.status = "none" /\ (ts.current_uuid = "current" \/ 0 \in cut)
    /\ ts.line_n = 1 => cut \subseteq {0}
    /\ ts.line_n = 2 => 2 \notin cut /\ (ts.compiled_query = "current" => 1 \notin cut)
    /\ OkMeansWholeQuery

\* A runtime has a number that was given out; no runtime has number zero.
Numbered ==
    /\ live \subseteq 1 .. created
    /\ ts.rt.id <= created /\ (ts.rt.id = 0 => ts.rt = NULL)
    /\ r.rt.id <= created /\ (r.rt.id = 0 => r.rt = NULL)

\* Only a thread that waits between two commands has no interpreter.
Awake ==
    /\ pc \in {"accept", "handle", "js"} => ts.rt # NULL
    /\ pc \in {"tick", "poll"} /\ ts.rt = NULL => ts.line_n = 0 /\ rts = "NONE"

\* ReplacementHandshake, with what each state of the replacement says of my_replacement.
Handshake ==
    \/ rts = "NONE" /\ bg = "none" /\ (r = NoStruct \/ (failed /\ ~Running))
    \/ rts = "INIT" /\ bg \in {"starting", "allocated"} /\ r.rt = NULL
    \/ rts = "INIT" /\ bg = "finished" /\ failed
    \/ rts = "INIT_COMPLETE" /\ bg = "finished" /\ r.rt # NULL /\ r.rt.intr = "r"
       /\ r = FreshStruct(r.rt)
    \/ rts = "CLEANUP" /\ bg = "cleaning" /\ r # NoStruct /\ r.rt # NULL
    \/ rts = "CLEANUP" /\ bg = "cleaned" /\ r.rt = NULL
    \/ rts = "CLEANUP" /\ bg = "freed" /\ r = NoStruct
    \/ rts = "CLEANUP_COMPLETE" /\ bg = "finished" /\ r = NoStruct

\* What main finds when it has joined the thread and its background thread.
AfterJoin ==
    /\ bg = "none"
    /\ \/ rts \in {"NONE", "CLEANUP_COMPLETE"} /\ (r = NoStruct \/ failed)
       \/ rts = "INIT" /\ failed
       \/ rts = "INIT_COMPLETE"

Stopping ==
    /\ main \in {"joining", "joining_bg"} => Handshake
    /\ main = "joined" => AfterJoin
    /\ main = "done" => bg = "none"
    /\ main # "joining" => pc = "exited"
    /\ failed => exit_status # 0 \/ pc = "aborted"
    /\ CleanExit

Replacement == Numbered /\ RuntimeOwnership /\ Awake /\ Stopping

Inv == TypeOK /\ InSync /\ Command /\ Replacement

-----------------------------------------------------------------------------
(***************************************************************************)
(* What the operations on a ThreadState do to its fields                    *)
(***************************************************************************)

\* No runtime at all.
LEMMA NullType == NULL \in Runtimes /\ NULL.id = 0
  BY DEF NULL, Runtimes

\* A ThreadState is no null pointer.
LEMMA NotNoStruct ==
  ASSUME NEW s \in ThreadStates
  PROVE  s # NoStruct
  BY DEF ThreadStates, NoStruct

\* init_thread_state.
LEMMA FreshFields ==
  ASSUME NEW rt \in Runtimes
  PROVE  /\ FreshStruct(rt) \in ThreadStates
         /\ FreshStruct(rt).line_n = 0 /\ FreshStruct(rt).rt = rt
         /\ FreshStruct(rt).compiled_query = "undefined"
         /\ FreshStruct(rt).dangling_bytecode = FALSE
         /\ FreshStruct(rt).cached_function_in_use = FALSE
  BY DEF FreshStruct, ThreadStates

\* cleanup_thread_state.
LEMMA CleanupFields ==
  ASSUME NEW s \in ThreadStates
  PROVE  /\ CleanupThreadState(s) \in ThreadStates
         /\ CleanupThreadState(s).line_n = s.line_n /\ CleanupThreadState(s).rt = NULL
         /\ CleanupThreadState(s).compiled_query = "undefined"
         /\ CleanupThreadState(s).current_uuid = s.current_uuid
         /\ CleanupThreadState(s).dangling_bytecode = FALSE
         /\ CleanupThreadState(s).cached_function_in_use = FALSE
  BY NullType DEF CleanupThreadState, CleanupCommandState, ThreadStates

\* The assignments of line_handler and its handlers keep a ThreadState one; here that of
\* last_active_time alone.
LEMMA IdleType ==
  ASSUME NEW s \in ThreadStates, NEW i \in BOOLEAN
  PROVE  [s EXCEPT !.idle = i] \in ThreadStates
  BY DEF ThreadStates

\* The end of a command.
LEMMA LineType ==
  ASSUME NEW s \in ThreadStates, NEW n \in 0 .. 2, NEW i \in BOOLEAN
  PROVE  [s EXCEPT !.line_n = n, !.idle = i] \in ThreadStates
  BY DEF ThreadStates

\* ?quit frees the compiled query.
LEMMA QuitType ==
  ASSUME NEW s \in ThreadStates, NEW i \in BOOLEAN,
         NEW q \in {"undefined", "current", "exception"}
  PROVE  [s EXCEPT !.compiled_query = q, !.idle = i] \in ThreadStates
  BY DEF ThreadStates

\* A third line that was cut.
LEMMA CutType ==
  ASSUME NEW s \in ThreadStates, NEW n \in 0 .. 2, NEW i \in BOOLEAN,
         NEW q \in {"undefined", "current", "exception"}
  PROVE  [s EXCEPT !.line_n = n, !.compiled_query = q, !.idle = i] \in ThreadStates
  BY DEF ThreadStates

\* A first line, and any other that was cut.
LEMMA UuidType ==
  ASSUME NEW s \in ThreadStates, NEW n \in 0 .. 2, NEW i \in BOOLEAN,
         NEW u \in {"none", "stale", "current"}
  PROVE  /\ [s EXCEPT !.line_n = n, !.idle = i, !.current_uuid = u] \in ThreadStates
         /\ [s EXCEPT !.line_n = n, !.current_uuid = u, !.idle = i] \in ThreadStates
  BY DEF ThreadStates

\* A second line.
LEMMA QueryType ==
  ASSUME NEW s \in ThreadStates, NEW n \in 0 .. 2, NEW i \in BOOLEAN,
         NEW q \in {"undefined", "current", "exception"}, NEW c \in BOOLEAN, NEW d \in BOOLEAN
  PROVE  [s EXCEPT !.line_n = n, !.compiled_query = q, !.idle = i,
                   !.cached_function_in_use = c, !.dangling_bytecode = d] \in ThreadStates
  BY DEF ThreadStates

\* The end of a command, and ?reset.
LEMMA EndFields ==
  ASSUME NEW s \in ThreadStates
  PROVE  /\ EndOfCommand(s) \in ThreadStates
         /\ EndOfCommand(s).line_n = 0 /\ EndOfCommand(s).rt = s.rt
         /\ EndOfCommand(s).compiled_query = "undefined"
         /\ EndOfCommand(s).current_uuid = s.current_uuid
         /\ EndOfCommand(s).dangling_bytecode = FALSE
         /\ EndOfCommand(s).cached_function_in_use = FALSE
  <1>1. CleanupCommandState(s) \in ThreadStates
    BY DEF CleanupCommandState, ThreadStates
  <1>2. EndOfCommand(s) \in ThreadStates
    <2>1. 0 \in 0 .. 2 /\ FALSE \in BOOLEAN
      OBVIOUS
    <2> QED
      BY <1>1, <2>1, LineType, Zenon DEF EndOfCommand
  <1>3. /\ CleanupCommandState(s).rt = s.rt
        /\ CleanupCommandState(s).compiled_query = "undefined"
        /\ CleanupCommandState(s).current_uuid = s.current_uuid
        /\ CleanupCommandState(s).dangling_bytecode = FALSE
        /\ CleanupCommandState(s).cached_function_in_use = FALSE
    BY DEF CleanupCommandState, ThreadStates
  <1>4. EndOfCommand(s) = [CleanupCommandState(s) EXCEPT !.line_n = 0, !.idle = FALSE]
    BY DEF EndOfCommand
  <1> QED
    BY <1>1, <1>2, <1>3, <1>4 DEF ThreadStates

-----------------------------------------------------------------------------
(***************************************************************************)
(* What a step has to do to keep each part of the invariant                 *)
(***************************************************************************)

\* The client starts a command with its first line.
LEMMA InitInv == Init => Inv
  <1> SUFFICES ASSUME Init
               PROVE  Inv
    OBVIOUS
  <1> DEFINE first == [id |-> 1, intr |-> "ts"]
  <1>0. first \in Runtimes /\ first.id = 1
    BY DEF Runtimes
  <1>1. ts = FreshStruct(first) /\ ts \in ThreadStates /\ ts.line_n = 0
        /\ ts.rt = first /\ ts.compiled_query = "undefined"
    BY <1>0, FreshFields DEF Init
  <1>2. TypeOK
    <2>1. NoReply \in Replies
      BY DEF NoReply, Replies
    <2>2. /\ stream_io_err \in BOOLEAN /\ eof \in BOOLEAN /\ interrupted \in BOOLEAN
          /\ lost \in BOOLEAN /\ failed \in BOOLEAN
      BY Zenon DEF Init
    <2> QED
      BY <1>1, <2>1, <2>2 DEF Init, TypeOK, Labels
  <1>3. InSync
    BY <1>1 DEF Init, InSync, Field
  <1>4. Command
    BY <1>1 DEF Init, Command, OkMeansWholeQuery, NoReply
  <1>5. NoStruct.rt = NULL /\ NULL.id = 0 /\ first # NULL
    BY <1>0, NullType DEF NoStruct
  <1>6. Replacement
    BY <1>0, <1>1, <1>5 DEF Init, Replacement, Numbered, RuntimeOwnership, Awake, Stopping, Handshake,
                      Running, CleanExit
  <1> QED
    BY <1>2, <1>3, <1>4, <1>6 DEF Inv

\* Nothing sent, nothing handled.
LEMMA SyncFrame ==
  ASSUME InSync, UNCHANGED <<inbox, pos>>, Running' => Running /\ ts'.line_n = ts.line_n,
         pc' = "js" => pc = "js"
  PROVE  InSync'
  <1>1. \A i : Field(i)' = Field(i)
    BY DEF Field
  <1> QED
    BY <1>1 DEF InSync, Running

\* A line is handled, and line_n goes where the client's next line starts.
LEMMA SyncConsumed ==
  ASSUME TypeOK, InSync, Running, inbox # <<>>, inbox' = Tail(inbox), pos' = pos, pc' # "js",
         ts'.line_n = NextField(ts.line_n, Head(inbox).kind)
  PROVE  InSync'
  <1>1. /\ Len(inbox) \in Nat /\ Len(inbox) > 0 /\ Len(inbox') = Len(inbox) - 1
        /\ \A i \in 1 .. Len(inbox') : inbox'[i] = inbox[i + 1]
        /\ Head(inbox) = inbox[1]
    BY DEF TypeOK
  <1>2. \A i \in Nat \ {0} : Field(i)' = Field(i + 1)
    BY <1>1 DEF Field
  <1>3. ts'.line_n = Field(1)'
    <2>1. Field(1) = inbox[1].field /\ Field(1 + 1) = NextField(inbox[1].field, inbox[1].kind)
      BY <1>1 DEF InSync, Field
    <2> QED
      BY <1>1, <1>2, <2>1 DEF InSync
  <1>4. ASSUME NEW i \in 1 .. Len(inbox')
        PROVE  Field(i + 1)' = NextField(inbox'[i].field, inbox'[i].kind)
    <2>1. i + 1 \in 1 .. Len(inbox)
      BY <1>1, <1>4
    <2>2. Field(i + 1 + 1) = NextField(inbox[i + 1].field, inbox[i + 1].kind)
      BY <2>1 DEF InSync
    <2> QED
      BY <1>1, <1>2, <1>4, <2>2
  <1> QED
    BY <1>3, <1>4 DEF InSync

\* The command is where it was, or there is none any more.
LEMMA CommandFrame ==
  ASSUME Command, UNCHANGED <<cut, reply>>,
         ts'.compiled_query \in {ts.compiled_query, "undefined"},
         \/ ts'.line_n = ts.line_n /\ ts'.current_uuid = ts.current_uuid
         \/ ts'.line_n = 0 /\ ts'.compiled_query = "undefined"
  PROVE  Command'
  BY DEF Command, OkMeansWholeQuery

\* The interpreter thread goes on, or stops, without touching the replacement.
LEMMA ReplacementFrame ==
  ASSUME Inv, Running, UNCHANGED <<rts, bg, r, live, created, main>>, ts'.rt = ts.rt,
         failed => failed', failed' => failed \/ exit_status' # 0 \/ pc' = "aborted",
         exit_status # 0 => exit_status' # 0, Awake'
  PROVE  Replacement'
  <1>1. main = "joining"
    BY DEF Inv, TypeOK, Replacement, Stopping, Running
  <1>2. Numbered' /\ RuntimeOwnership'
    <2>1. UNCHANGED <<ts.rt, r.rt, live, created>>
      OBVIOUS
    <2> QED
      BY <2>1 DEF Inv, Replacement, Numbered, RuntimeOwnership
  <1>3. Handshake => Handshake'
    <2>1. CASE rts = "NONE" /\ bg = "none" /\ r = NoStruct
      BY <2>1 DEF Handshake
    <2> QED
      BY <2>1 DEF Handshake
  <1>4. Stopping'
    BY <1>1, <1>3 DEF Inv, Replacement, Stopping, CleanExit, Running
  <1> QED
    BY <1>2, <1>4 DEF Replacement

-----------------------------------------------------------------------------
(***************************************************************************)
(* Every step keeps the invariant                                           *)
(***************************************************************************)

\* A line that the client sends continues what it has sent before.
LEMMA ClientSendInv ==
  ASSUME Inv, NEW kind \in LineKinds, ClientSend(kind)
  PROVE  Inv'
  <1> DEFINE line == [kind |-> kind, field |-> pos]
  <1>0. NextField(pos, kind) \in 0 .. 2
    BY DEF Inv, TypeOK, NextField
  <1>1. /\ UNCHANGED <<pc, exit_status, cut, reply, rts, bg, r, live, created, failed, main, ts>>
        /\ UNCHANGED <<eof, interrupted, stream_io_err, lost>>
        /\ Running /\ inbox' = Append(inbox, line) /\ pos' = NextField(pos, kind)
    BY DEF ClientSend, threadVars, replVars
  <1>2. TypeOK'
    BY <1>0, <1>1 DEF Inv, TypeOK
  <1>3. InSync'
    <2>1. /\ Len(inbox) \in Nat /\ Len(inbox') = Len(inbox) + 1
          /\ inbox'[Len(inbox) + 1] = line
          /\ \A i \in 1 .. Len(inbox) : inbox'[i] = inbox[i]
      BY <1>1 DEF Inv, TypeOK
    <2>2. \A i \in 1 .. Len(inbox) + 1 : Field(i)' = Field(i)
      BY <2>1 DEF Field
    <2>3. \A i : i = Len(inbox) + 1 => Field(i + 1)' = NextField(pos, kind)
      BY <1>1, <2>1 DEF Field
    <2>4. ASSUME NEW i \in 1 .. Len(inbox')
          PROVE  Field(i + 1)' = NextField(inbox'[i].field, inbox'[i].kind)
      <3>1. CASE i = Len(inbox) + 1
        <4>1. inbox'[i].field = pos /\ inbox'[i].kind = kind
          BY <2>1, <3>1
        <4>2. Field(i + 1)' = NextField(pos, kind)
          BY <2>3, <3>1
        <4> QED
          BY <4>1, <4>2
      <3>2. CASE i \in 1 .. Len(inbox)
        BY <2>1, <2>2, <3>2 DEF Inv, InSync
      <3> QED
        BY <2>1, <2>4, <3>1, <3>2
    <2>5. inbox # <<>> => inbox' # <<>> /\ inbox'[1] = inbox[1]
      BY <2>1 DEF Inv, TypeOK
    <2> QED
      BY <1>1, <2>1, <2>2, <2>4, <2>5 DEF Inv, InSync, Running
  <1>4. Command'
    BY <1>1, CommandFrame DEF Inv
  <1>5. Replacement'
    BY <1>1, ReplacementFrame DEF Inv, Replacement, Awake
  <1> QED
    BY <1>2, <1>3, <1>4, <1>5 DEF Inv

\* The client closes the socket, a signal comes, the clock goes on.
LEMMA EnvironmentInv ==
  ASSUME Inv, ClientClose \/ Interrupt \/ TimePasses
  PROVE  Inv'
  <1>1. /\ UNCHANGED <<inbox, pos, pc, exit_status, cut, reply, lost, rts, bg, r, live, created,
                       failed, main, stream_io_err>>
        /\ ts' \in ThreadStates /\ Running
        /\ ts'.line_n = ts.line_n /\ ts'.rt = ts.rt /\ ts'.compiled_query = ts.compiled_query
        /\ ts'.current_uuid = ts.current_uuid
        /\ eof' \in BOOLEAN /\ interrupted' \in BOOLEAN
    <2>1. CASE ClientClose
      BY <2>1 DEF ClientClose, threadVars, replVars, Inv, TypeOK
    <2>2. CASE Interrupt
      BY <2>2 DEF Interrupt, clientVars, replVars, Inv, TypeOK
    <2>3. CASE TimePasses
      <3>1. ts' \in ThreadStates
        <4>1. ts \in ThreadStates /\ ts' = [ts EXCEPT !.idle = TRUE]
          BY <2>3 DEF TimePasses, Inv, TypeOK
        <4> QED
          BY <4>1, IdleType, Zenon
      <3>2. /\ ts'.line_n = ts.line_n /\ ts'.rt = ts.rt /\ ts'.compiled_query = ts.compiled_query
            /\ ts'.current_uuid = ts.current_uuid
        BY <2>3 DEF TimePasses, Inv, TypeOK, ThreadStates
      <3>3. Running
        BY <2>3 DEF TimePasses, Running
      <3> QED
        BY <2>3, <3>1, <3>2, <3>3 DEF TimePasses, clientVars, threadVars, replVars, Inv, TypeOK
    <2> QED
      BY <2>1, <2>2, <2>3
  <1>2. TypeOK'
    BY <1>1 DEF Inv, TypeOK
  <1>3. InSync'
    BY <1>1, SyncFrame DEF Inv, Running
  <1>4. Command'
    BY <1>1, CommandFrame DEF Inv
  <1>5. Replacement'
    BY <1>1, ReplacementFrame DEF Inv, Replacement, Awake
  <1> QED
    BY <1>2, <1>3, <1>4, <1>5 DEF Inv

\* A step of the interpreter thread that handles no line and keeps its interpreter.
LEMMA QuietStep ==
  ASSUME Inv, Running,
         UNCHANGED <<inbox, pos, eof, cut, reply, lost, rts, bg, r, live, created, main>>,
         ts' \in ThreadStates, ts'.line_n = ts.line_n, ts'.rt = ts.rt,
         ts'.current_uuid = ts.current_uuid,
         ts'.compiled_query \in {ts.compiled_query, "undefined"},
         pc' \in Labels \ {"accept", "js"}, pc' = "handle" => ts.rt # NULL,
         pc' \in {"tick", "poll"} => pc \in {"tick", "poll"} \/ ts.rt # NULL,
         exit_status' \in {0, 1, -1}, exit_status # 0 => exit_status' # 0,
         interrupted' \in BOOLEAN, stream_io_err' \in BOOLEAN, failed' \in BOOLEAN,
         failed => failed', failed' => failed \/ exit_status' # 0 \/ pc' = "aborted"
  PROVE  Inv'
  <1>1. TypeOK'
    BY DEF Inv, TypeOK
  <1>2. InSync'
    BY SyncFrame DEF Inv
  <1>3. Command'
    BY CommandFrame DEF Inv
  <1>4. Awake'
    BY DEF Inv, Replacement, Awake
  <1>5. Replacement'
    BY <1>4, ReplacementFrame
  <1> QED
    BY <1>1, <1>2, <1>3, <1>5 DEF Inv

\* The thread leaves command_loop.
LEMMA ExitStep ==
  ASSUME Inv, Running, NEW status \in {0, -1}, Exit(status),
         UNCHANGED <<inbox, pos, eof, cut, reply, lost, rts, bg, r, live, created, main>>,
         ts' \in ThreadStates, ts'.line_n = ts.line_n, ts'.rt = ts.rt,
         ts'.current_uuid = ts.current_uuid,
         ts'.compiled_query \in {ts.compiled_query, "undefined"},
         stream_io_err' \in BOOLEAN,
         \/ failed' = failed
         \/ failed' = TRUE /\ status # 0
  PROVE  Inv'
  <1>1. /\ pc' = "exited" /\ exit_status' \in {0, 1, -1} /\ (exit_status # 0 => exit_status' # 0)
        /\ (status # 0 => exit_status' # 0)
    BY DEF Exit, Inv, TypeOK
  <1>2. interrupted' \in BOOLEAN /\ failed' \in BOOLEAN
    BY Zenon DEF Exit, Inv, TypeOK
  <1>3. (failed => failed') /\ (failed' => failed \/ exit_status' # 0)
    BY <1>1
  <1> QED
    BY <1>1, <1>2, <1>3, QuietStep DEF Labels

\* The steps of command_loop that find nothing to do, stop or give up.
LEMMA LoopQuiet ==
  ASSUME Inv,
         \/ Accept \/ AcceptInterrupted \/ AcceptFails \/ PollTimeout \/ WakeFails
         \/ ReadEof \/ ReadFails \/ BrokenPipe
  PROVE  Inv'
  <1> USE DEF Running, clientVars, replVars
  <1>0. ts \in ThreadStates /\ stream_io_err \in BOOLEAN /\ interrupted \in BOOLEAN
        /\ failed \in BOOLEAN /\ exit_status \in {0, 1, -1}
    BY DEF Inv, TypeOK
  <1>1. CASE Accept
    <2>1. ts.rt # NULL
      BY <1>1 DEF Accept, Inv, Replacement, Awake
    <2> QED
      BY <1>0, <1>1, <2>1, QuietStep DEF Accept, Labels
  <1>2. CASE AcceptInterrupted
    BY <1>0, <1>2, ExitStep DEF AcceptInterrupted
  <1>3. CASE AcceptFails
    BY <1>0, <1>3, ExitStep DEF AcceptFails
  <1>4. CASE PollTimeout
    <2>1. CASE interrupted
      BY <1>0, <1>4, <2>1, ExitStep DEF PollTimeout
    <2>2. CASE ~interrupted
      BY <1>0, <1>4, <2>2, QuietStep DEF PollTimeout, Labels
    <2> QED
      BY <2>1, <2>2
  <1>5. CASE WakeFails
    BY <1>0, <1>5, QuietStep DEF WakeFails, Labels
  <1>6. CASE ReadEof
    BY <1>0, <1>6, ExitStep DEF ReadEof
  <1>7. CASE ReadFails
    BY <1>0, <1>7, ExitStep DEF ReadFails
  <1>8. CASE BrokenPipe
    BY <1>0, <1>8, QuietStep DEF BrokenPipe, Answers, Handling, Labels
  <1> QED
    BY <1>1, <1>2, <1>3, <1>4, <1>5, <1>6, <1>7, <1>8

\* Main is still joining the thread while it runs.
LEMMA RunningJoin ==
  ASSUME Inv, Running
  PROVE  main = "joining" /\ Handshake /\ (rts = "NONE" => r = NoStruct /\ bg = "none")
  BY DEF Inv, TypeOK, Replacement, Stopping, Running, Handshake

\* No structure, no interpreter.
LEMMA NoStructRt == NoStruct.rt = NULL /\ NULL.id = 0
  BY NullType DEF NoStruct

\* tick_handler shuts an idle interpreter down.
LEMMA TickInv ==
  ASSUME Inv, Tick
  PROVE  Inv'
  <1> USE DEF clientVars
  <1>0. Running /\ ts \in ThreadStates
    BY DEF Tick, Running, Inv, TypeOK
  <1>1. CASE ~MayShutDown(ts)
    BY <1>0, <1>1, QuietStep DEF Tick, Labels, Inv, TypeOK
  <1>2. CASE MayShutDown(ts)
    <2>1. /\ UNCHANGED <<inbox, pos, eof, exit_status, interrupted, stream_io_err, reply, cut, lost,
                         rts, bg, r, created, failed, main>>
          /\ pc = "tick" /\ pc' = "poll" /\ ts.line_n = 0 /\ rts = "NONE"
          /\ live' = live \ {ts.rt.id}
          /\ ts' \in ThreadStates /\ ts'.line_n = 0 /\ ts'.rt = NULL
          /\ ts'.compiled_query = "undefined"
      BY <1>0, <1>2, CleanupFields DEF Tick, MayShutDown
    <2>2. r = NoStruct /\ bg = "none" /\ main = "joining"
      BY <1>0, <2>1, RunningJoin
    <2>3. TypeOK'
      BY <2>1 DEF Inv, TypeOK, Labels
    <2>4. InSync'
      BY <1>0, <2>1, SyncFrame DEF Inv
    <2>5. Command'
      BY <2>1, CommandFrame DEF Inv
    <2>6. Numbered' /\ RuntimeOwnership'
      BY <2>1, <2>2, NoStructRt DEF Inv, TypeOK, Replacement, Numbered, RuntimeOwnership
    <2>7. Awake' /\ Stopping'
      BY <2>1, <2>2 DEF Inv, Replacement, Awake, Stopping, Handshake, CleanExit
    <2> QED
      BY <2>3, <2>4, <2>5, <2>6, <2>7 DEF Inv, Replacement
  <1> QED
    BY <1>1, <1>2

\* An interpreter that was shut down is woken.
LEMMA WakeStep ==
  ASSUME Inv, pc = "poll", pc' = "handle", ts.rt = NULL, NEW address \in {"ts", "none"},
         ts' = FreshStruct(NewRuntime(address)), created' = created + 1,
         live' = live \cup {created + 1},
         UNCHANGED <<inbox, pos, eof, exit_status, interrupted, stream_io_err, reply, cut, lost,
                     rts, bg, r, failed, main>>
  PROVE  Inv'
  <1>0. Running /\ ts.line_n = 0 /\ rts = "NONE" /\ created \in Nat
    BY DEF Running, Inv, TypeOK, Replacement, Awake
  <1>1. /\ NewRuntime(address) \in Runtimes /\ NewRuntime(address).id = created + 1
        /\ NewRuntime(address) # NULL
    BY <1>0, NullType DEF NewRuntime, Runtimes
  <1>2. /\ ts' \in ThreadStates /\ ts'.line_n = 0 /\ ts'.rt = NewRuntime(address)
        /\ ts'.compiled_query = "undefined"
    BY <1>1, FreshFields
  <1>3. r = NoStruct /\ bg = "none" /\ main = "joining"
    BY <1>0, RunningJoin
  <1>4. TypeOK'
    BY <1>0, <1>2 DEF Inv, TypeOK, Labels
  <1>5. InSync'
    BY <1>0, <1>2, SyncFrame DEF Inv
  <1>6. Command'
    BY <1>2, CommandFrame DEF Inv
  <1>7. Numbered' /\ RuntimeOwnership'
    BY <1>0, <1>1, <1>2, <1>3, NoStructRt DEF Inv, TypeOK, Replacement, Numbered, RuntimeOwnership
  <1>8. Awake' /\ Stopping'
    BY <1>0, <1>1, <1>2, <1>3 DEF Inv, Replacement, Awake, Stopping, Handshake, CleanExit
  <1> QED
    BY <1>4, <1>5, <1>6, <1>7, <1>8 DEF Inv, Replacement

\* The socket is readable; the interpreter is woken if it was shut down.
LEMMA ReadyInv ==
  ASSUME Inv, PollReady \/ WakeHalfInitialised
  PROVE  Inv'
  <1> USE DEF clientVars
  <1>1. CASE PollReady /\ ts.rt # NULL
    BY <1>1, QuietStep DEF PollReady, Labels, Inv, TypeOK, Running
  <1>2. CASE PollReady /\ ts.rt = NULL
    <2>1. rts = "NONE"
      BY <1>2 DEF PollReady, Inv, Replacement, Awake
    <2> QED
      BY <1>2, <2>1, WakeStep DEF PollReady
  <1>3. CASE WakeHalfInitialised
    BY <1>3, WakeStep DEF WakeHalfInitialised
  <1> QED
    BY <1>1, <1>2, <1>3

-----------------------------------------------------------------------------
(***************************************************************************)
(* The handlers of lines                                                    *)
(***************************************************************************)

\* The three fields of a command follow each other; ?reset starts again.
LEMMA NextFieldValues ==
  /\ \A kind \in {"text", "cut"} : /\ NextField(0, kind) = 1 /\ NextField(1, kind) = 2
                                   /\ NextField(2, kind) = 0
  /\ \A p \in 0 .. 2 : NextField(p, "?reset") = 0 /\ NextField(p, "?stat") = p
  BY DEF NextField

\* A handler returns: the line is consumed, or the thread stops.
LEMMA LineParts ==
  ASSUME Inv, Running, ts.rt # NULL, inbox # <<>>, UNCHANGED <<pos, eof, r, live, created, main>>,
         ts' \in ThreadStates, reply' \in Replies, cut' \in SUBSET (0 .. 2),
         stream_io_err' \in BOOLEAN, lost' \in BOOLEAN, failed' \in BOOLEAN,
         \/ Consumed /\ ts'.line_n = NextField(ts.line_n, Head(inbox).kind)
         \/ HandlerFails
  PROVE  /\ TypeOK' /\ InSync'
         /\ pc' \in {"tick", "exited"} /\ (exit_status # 0 => exit_status' # 0)
         /\ HandlerFails => exit_status' # 0
         /\ ts'.rt = ts.rt => Awake'
  <1>1. /\ pc' \in {"tick", "exited"} /\ exit_status' \in {0, 1, -1}
        /\ (exit_status # 0 => exit_status' # 0)
        /\ (HandlerFails => exit_status' # 0)
        /\ inbox' \in {Tail(inbox), inbox}
    BY DEF Consumed, HandlerFails, Exit, Inv, TypeOK
  <1>2. interrupted' \in BOOLEAN
    BY Zenon DEF Consumed, HandlerFails, Exit, Inv, TypeOK
  <1>3. TypeOK'
    BY <1>1, <1>2 DEF Inv, TypeOK, Labels
  <1>4. InSync'
    <2>1. CASE Consumed /\ ts'.line_n = NextField(ts.line_n, Head(inbox).kind)
      BY <2>1, SyncConsumed DEF Consumed, Inv
    <2>2. CASE HandlerFails
      BY <2>2, SyncFrame DEF HandlerFails, Exit, Inv, Running
    <2> QED
      BY <2>1, <2>2
  <1>5. ts'.rt = ts.rt => Awake'
    BY <1>1 DEF Awake
  <1> QED
    BY <1>1, <1>3, <1>4, <1>5

\* What holds when line_handler is called.
LEMMA HandlingFacts ==
  ASSUME Inv, NEW kinds, Handling(kinds)
  PROVE  /\ Running /\ ts.rt # NULL /\ inbox # <<>> /\ Head(inbox).kind \in kinds
         /\ ts \in ThreadStates /\ ts.line_n \in 0 .. 2 /\ ts.current_uuid \in {"none", "stale", "current"}
         /\ ts.compiled_query \in {"undefined", "current", "exception"}
         /\ stream_io_err \in BOOLEAN /\ eof \in BOOLEAN /\ lost \in BOOLEAN /\ failed \in BOOLEAN
         /\ reply \in Replies /\ cut \in SUBSET (0 .. 2)
  BY DEF Handling, Running, Inv, TypeOK, Replacement, Awake, ThreadStates

\* A write leaves a Boolean; a reply is well formed.
LEMMA AnswerType ==
  ASSUME TypeOK, NEW status \in {"none", "ok", "exception"}, NEW cuts \in SUBSET (0 .. 2),
         Answer(status, cuts)
  PROVE  /\ stream_io_err' \in BOOLEAN /\ reply' \in Replies
         /\ reply'.status = status /\ reply'.cut = cuts /\ reply'.uuid = ts.current_uuid
  <1>1. stream_io_err' \in BOOLEAN
    BY DEF Answer, Write, TypeOK
  <1>2. ts.current_uuid \in {"none", "stale", "current"}
    BY DEF TypeOK, ThreadStates
  <1> QED
    BY <1>1, <1>2 DEF Answer, Replies

\* The ? commands leave the current command alone or give it up.
LEMMA QuestionInv ==
  ASSUME Inv, HandleQuit \/ HandleReset \/ HandleStat
  PROVE  Inv'
  <1> USE DEF clientVars, replVars
  <1>1. CASE HandleQuit
    <2>1. /\ Running /\ ts \in ThreadStates /\ eof \in BOOLEAN /\ stream_io_err \in BOOLEAN
          /\ Exit(0) /\ Write
          /\ ts' = [ts EXCEPT !.compiled_query = "undefined", !.idle = FALSE]
          /\ UNCHANGED <<inbox, pos, eof, cut, reply, lost, rts, bg, r, live, created, main, failed>>
      BY <1>1, HandlingFacts DEF HandleQuit
    <2>2. ts' \in ThreadStates
      BY <2>1, QuitType, Zenon
    <2>3. /\ ts'.line_n = ts.line_n /\ ts'.rt = ts.rt /\ ts'.compiled_query = "undefined"
          /\ ts'.current_uuid = ts.current_uuid
      BY <2>1 DEF ThreadStates
    <2>4. stream_io_err' \in BOOLEAN
      BY <2>1 DEF Write
    <2> QED
      BY <2>1, <2>2, <2>3, <2>4, ExitStep
  <1>2. CASE HandleReset
    <2>1. /\ Running /\ ts.rt # NULL /\ inbox # <<>> /\ Head(inbox).kind = "?reset"
          /\ ts \in ThreadStates /\ ts.line_n \in 0 .. 2 /\ eof \in BOOLEAN /\ stream_io_err \in BOOLEAN
          /\ Consumed /\ Write /\ ts' = EndOfCommand(ts)
          /\ UNCHANGED <<pos, eof, cut, reply, lost, rts, bg, r, live, created, main, failed>>
      BY <1>2, HandlingFacts DEF HandleReset, EndOfCommand
    <2>2. stream_io_err' \in BOOLEAN
      BY <2>1 DEF Write
    <2>3. /\ ts' \in ThreadStates /\ ts'.line_n = 0 /\ ts'.rt = ts.rt
          /\ ts'.compiled_query = "undefined"
      BY <2>1, EndFields
    <2>4. TypeOK' /\ InSync' /\ Awake' /\ (exit_status # 0 => exit_status' # 0)
      BY <2>1, <2>2, <2>3, NextFieldValues, LineParts DEF Inv, TypeOK
    <2>5. Command'
      BY <2>1, <2>3, CommandFrame DEF Inv
    <2>6. Replacement'
      BY <2>1, <2>3, <2>4, ReplacementFrame
    <2> QED
      BY <2>4, <2>5, <2>6 DEF Inv
  <1>3. CASE HandleStat
    <2>1. /\ Running /\ ts.rt # NULL /\ inbox # <<>> /\ Head(inbox).kind = "?stat"
          /\ ts \in ThreadStates /\ ts.line_n \in 0 .. 2 /\ eof \in BOOLEAN /\ stream_io_err \in BOOLEAN
          /\ Consumed /\ Write /\ ts' = [ts EXCEPT !.idle = FALSE]
          /\ UNCHANGED <<pos, eof, cut, reply, lost, rts, bg, r, live, created, main, failed>>
      BY <1>3, HandlingFacts DEF HandleStat
    <2>2. stream_io_err' \in BOOLEAN
      BY <2>1 DEF Write
    <2>3. ts' \in ThreadStates
      BY <2>1, IdleType, Zenon
    <2>4. /\ ts'.line_n = ts.line_n /\ ts'.rt = ts.rt /\ ts'.compiled_query = ts.compiled_query
          /\ ts'.current_uuid = ts.current_uuid
      BY <2>1 DEF ThreadStates
    <2>5. TypeOK' /\ InSync' /\ Awake' /\ (exit_status # 0 => exit_status' # 0)
      BY <2>1, <2>2, <2>3, <2>4, NextFieldValues, LineParts DEF Inv, TypeOK
    <2>6. Command'
      BY <2>1, <2>4, CommandFrame DEF Inv
    <2>7. Replacement'
      BY <2>1, <2>4, <2>5, ReplacementFrame
    <2> QED
      BY <2>5, <2>6, <2>7 DEF Inv
  <1> QED
    BY <1>1, <1>2, <1>3

\* A line that was cut is noted as such, and the command goes on without it.
LEMMA CutInv ==
  ASSUME Inv, HandleCut
  PROVE  Inv'
  <1>1. /\ Running /\ ts.rt # NULL /\ inbox # <<>> /\ Head(inbox).kind = "cut"
        /\ ts \in ThreadStates /\ ts.line_n \in 0 .. 2
        /\ ts.current_uuid \in {"none", "stale", "current"}
        /\ lost \in BOOLEAN /\ failed \in BOOLEAN /\ stream_io_err \in BOOLEAN
        /\ cut \in SUBSET (0 .. 2)
        /\ Consumed /\ cut' = IF ts.line_n = 0 THEN {0} ELSE cut \cup {ts.line_n}
        /\ UNCHANGED <<pos, eof, lost, rts, bg, r, live, created, main, failed>>
    BY HandlingFacts DEF HandleCut, replVars
  <1>2. cut' \in SUBSET (0 .. 2)
    BY <1>1
  <1>3. CASE ts.line_n = 2
    <2>1. /\ ts' = [ts EXCEPT !.line_n = 0, !.compiled_query = "undefined", !.idle = FALSE]
          /\ Answer("exception", cut')
      BY <1>3 DEF HandleCut
    <2>2. ts' \in ThreadStates
      <3>1. 0 \in 0 .. 2 /\ FALSE \in BOOLEAN
        OBVIOUS
      <3> QED
        BY <1>1, <2>1, <3>1, CutType, Zenon
    <2>3. ts'.line_n = 0 /\ ts'.rt = ts.rt /\ ts'.compiled_query = "undefined"
      BY <1>1, <2>1 DEF ThreadStates
    <2>4. stream_io_err' \in BOOLEAN /\ reply' \in Replies /\ reply'.status = "exception"
      BY <1>2, <2>1, AnswerType DEF Inv
    <2>5. TypeOK' /\ InSync' /\ Awake' /\ (exit_status # 0 => exit_status' # 0)
      BY <1>1, <1>2, <1>3, <2>2, <2>3, <2>4, NextFieldValues, LineParts
    <2>6. Command'
      BY <2>3, <2>4 DEF Command, OkMeansWholeQuery
    <2>7. Replacement'
      BY <1>1, <2>3, <2>5, ReplacementFrame
    <2> QED
      BY <2>5, <2>6, <2>7 DEF Inv
  <1>4. CASE ts.line_n # 2
    <2> DEFINE uuid == IF ts.line_n = 0 /\ ts.current_uuid # "none" THEN "stale" ELSE ts.current_uuid
               n == ts.line_n + 1
    <2>1. /\ ts' = [ts EXCEPT !.line_n = n, !.idle = FALSE, !.current_uuid = uuid]
          /\ reply' = NoReply /\ stream_io_err' = stream_io_err
      BY <1>4 DEF HandleCut
    <2>2. n \in 0 .. 2 /\ uuid \in {"none", "stale", "current"} /\ FALSE \in BOOLEAN
      BY <1>1, <1>4
    <2>3. ts' \in ThreadStates
      <3> HIDE DEF n, uuid
      <3> QED
        BY <1>1, <2>1, <2>2, UuidType, Zenon
    <2>4. /\ ts'.line_n = n /\ ts'.rt = ts.rt /\ ts'.compiled_query = ts.compiled_query
          /\ ts'.current_uuid = uuid
      BY <1>1, <2>1 DEF ThreadStates
    <2>5. reply' \in Replies /\ reply'.status = "none"
      BY <2>1 DEF NoReply, Replies
    <2>6. TypeOK' /\ InSync' /\ Awake' /\ (exit_status # 0 => exit_status' # 0)
      BY <1>1, <1>2, <1>4, <2>1, <2>3, <2>4, <2>5, NextFieldValues, LineParts
    <2>7. Command'
      BY <1>1, <1>4, <2>4, <2>5 DEF Inv, Command, OkMeansWholeQuery
    <2>8. Replacement'
      BY <1>1, <2>4, <2>6, ReplacementFrame
    <2> QED
      BY <2>6, <2>7, <2>8 DEF Inv
  <1> QED
    BY <1>3, <1>4

\* handle_line_1_message_uid with no replacement to swap in; a finished cleanup thread is
\* joined.
LEMMA Line1Inv ==
  ASSUME Inv, HandleLine1
  PROVE  Inv'
  <1>1. /\ Running /\ ts.rt # NULL /\ inbox # <<>> /\ Head(inbox).kind = "text"
        /\ ts \in ThreadStates /\ ts.line_n = 0
        /\ lost \in BOOLEAN /\ failed \in BOOLEAN /\ stream_io_err \in BOOLEAN
        /\ Consumed /\ cut' = {} /\ reply' = NoReply
        /\ ts' = [ts EXCEPT !.line_n = 1, !.current_uuid = "current", !.idle = FALSE]
        /\ UNCHANGED <<pos, eof, stream_io_err, lost, r, live, created, failed, main>>
    BY HandlingFacts DEF HandleLine1
  <1>2. ts' \in ThreadStates
    <2>1. 1 \in 0 .. 2 /\ FALSE \in BOOLEAN
      OBVIOUS
    <2> QED
      BY <1>1, <2>1, UuidType, Zenon
  <1>3. /\ ts'.line_n = 1 /\ ts'.rt = ts.rt /\ ts'.current_uuid = "current"
        /\ ts'.compiled_query = ts.compiled_query
    BY <1>1 DEF ThreadStates
  <1>4. reply' \in Replies /\ reply'.status = "none"
    BY <1>1 DEF NoReply, Replies
  <1>5. /\ TypeOK' /\ InSync' /\ Awake' /\ (exit_status # 0 => exit_status' # 0)
    BY <1>1, <1>2, <1>3, <1>4, NextFieldValues, LineParts
  <1>6. Command'
    BY <1>1, <1>3, <1>4 DEF Inv, Command, OkMeansWholeQuery
  <1>7. Replacement'
    <2>1. CASE rts = "CLEANUP_COMPLETE"
      <3>1. rts' = "NONE" /\ bg' = "none" /\ r' = NoStruct /\ main' = "joining"
        BY <1>1, <2>1, RunningJoin DEF HandleLine1, Handshake
      <3>2. Numbered' /\ RuntimeOwnership'
        BY <1>1, <1>3 DEF Inv, Replacement, Numbered, RuntimeOwnership
      <3>3. Stopping'
        BY <1>1, <1>5, <3>1 DEF Inv, Replacement, Stopping, Handshake, CleanExit, Running
      <3> QED
        BY <1>5, <3>2, <3>3 DEF Replacement
    <2>2. CASE rts # "CLEANUP_COMPLETE"
      BY <1>1, <1>3, <1>5, <2>2, ReplacementFrame DEF HandleLine1
    <2> QED
      BY <2>1, <2>2
  <1> QED
    BY <1>5, <1>6, <1>7 DEF Inv

\* The swap: the thread continues with the new interpreter, and my_replacement is the old one.
LEMMA SwapFacts ==
  ASSUME Inv, Handling({"text"}), ts.line_n = 0, SwapStructs
  PROVE  /\ Running /\ main = "joining" /\ bg = "finished" /\ rts = "INIT_COMPLETE"
         /\ ts' \in ThreadStates /\ r' \in ThreadStates /\ r' # NoStruct
         /\ ts'.line_n = 0 /\ ts'.compiled_query = "undefined"
         /\ ts'.rt = r.rt /\ r'.rt = ts.rt /\ ts.rt # NULL /\ r.rt # NULL
         /\ ts'.dangling_bytecode = FALSE /\ ts'.cached_function_in_use = FALSE
  <1>1. Running /\ ts \in ThreadStates /\ ts.rt # NULL
    BY HandlingFacts
  <1>2. /\ rts = "INIT_COMPLETE" /\ ts' = r /\ r' = [ts EXCEPT !.idle = FALSE]
        /\ r.rt # NULL /\ r = FreshStruct(r.rt) /\ bg = "finished" /\ main = "joining"
    BY <1>1, RunningJoin DEF SwapStructs, Handshake
  <1>3. r \in ThreadStates /\ r.rt \in Runtimes
    BY <1>2, NoStructRt DEF Inv, TypeOK, ThreadStates
  <1>4. r' \in ThreadStates
    BY <1>1, <1>2, IdleType, Zenon
  <1>5. r'.rt = ts.rt
    BY <1>1, <1>2 DEF ThreadStates
  <1>6. /\ r.line_n = 0 /\ r.compiled_query = "undefined"
        /\ r.dangling_bytecode = FALSE /\ r.cached_function_in_use = FALSE
    <2> DEFINE fresh == FreshStruct(r.rt)
    <2>1. /\ fresh.line_n = 0 /\ fresh.compiled_query = "undefined"
          /\ fresh.dangling_bytecode = FALSE /\ fresh.cached_function_in_use = FALSE
      BY <1>3, FreshFields
    <2>2. r = fresh
      BY <1>2
    <2> HIDE DEF fresh
    <2> QED
      BY <2>1, <2>2
  <1>7. r' # NoStruct
    BY <1>4, NotNoStruct
  <1> QED
    BY <1>1, <1>2, <1>3, <1>4, <1>5, <1>6, <1>7

\* The swap keeps every interpreter owned, whatever becomes of the thread.
LEMMA SwapOwnership ==
  ASSUME Inv, ts'.rt = r.rt, r'.rt = ts.rt, UNCHANGED <<live, created>>, ts.rt # NULL, r.rt # NULL
  PROVE  Numbered' /\ RuntimeOwnership'
  BY DEF Inv, Replacement, Numbered, RuntimeOwnership

\* The two outcomes of the swap.
LEMMA TrampolineInv ==
  ASSUME Inv, TrampolineLine1 \/ TrampolineFails
  PROVE  Inv'
  <1>1. CASE TrampolineLine1
    <2>1. /\ Handling({"text"}) /\ ts.line_n = 0 /\ SwapStructs /\ rts' = "CLEANUP"
          /\ bg' = "cleaning"
          /\ UNCHANGED <<inbox, pos, eof, pc, exit_status, interrupted, stream_io_err, reply,
                         cut, lost, live, created, failed, main>>
      BY <1>1 DEF TrampolineLine1, clientVars, threadVars
    <2>2. pc = "handle"
      BY <2>1 DEF Handling
    <2>3. TypeOK'
      BY <2>1, SwapFacts DEF Inv, TypeOK
    <2>4. InSync'
      BY <2>1, SwapFacts, SyncFrame DEF Inv, Running
    <2>5. Command'
      BY <2>1, SwapFacts, CommandFrame DEF Inv
    <2>6. Numbered' /\ RuntimeOwnership'
      BY <2>1, SwapFacts, SwapOwnership
    <2>7. Awake' /\ Stopping'
      <3>1. Handshake' /\ Awake' /\ main = "joining"
        BY <2>1, <2>2, SwapFacts DEF Handshake, Awake
      <3> QED
        BY <2>1, <3>1 DEF Inv, Replacement, Stopping, CleanExit
    <2> QED
      BY <2>3, <2>4, <2>5, <2>6, <2>7 DEF Inv, Replacement
  <1>2. CASE TrampolineFails
    <2>1. /\ Handling({"text"}) /\ ts.line_n = 0 /\ SwapStructs /\ rts' = "NONE" /\ bg' = "none"
          /\ failed' = TRUE /\ HandlerFails
          /\ UNCHANGED <<pos, eof, stream_io_err, reply, cut, lost, live, created, main>>
      BY <1>2 DEF TrampolineFails
    <2>2. pc' = "exited" /\ exit_status' = -1 /\ inbox' = inbox /\ interrupted' = TRUE
      BY <2>1 DEF HandlerFails, Exit
    <2>3. TypeOK'
      <3>1. interrupted' \in BOOLEAN /\ failed' \in BOOLEAN
        BY <2>1, <2>2, Zenon
      <3> QED
        BY <2>1, <2>2, <3>1, SwapFacts DEF Inv, TypeOK, Labels
    <2>4. InSync'
      BY <2>1, <2>2, SyncFrame DEF Inv, Running
    <2>5. Command'
      BY <2>1, SwapFacts, CommandFrame DEF Inv
    <2>6. Numbered' /\ RuntimeOwnership'
      BY <2>1, SwapFacts, SwapOwnership
    <2>7. Awake' /\ Stopping'
      BY <2>1, <2>2, SwapFacts DEF Awake, Stopping, Handshake, CleanExit, Running
    <2> QED
      BY <2>3, <2>4, <2>5, <2>6, <2>7 DEF Inv, Replacement
  <1> QED
    BY <1>1, <1>2

\* handle_line_2_query.
LEMMA Line2Inv ==
  ASSUME Inv, Line2Query
  PROVE  Inv'
  <1>1. CASE DanglingAssertFails
    BY <1>1, QuietStep, HandlingFacts DEF DanglingAssertFails, Labels, clientVars, replVars, Inv,
                                           TypeOK
  <1>2. ASSUME NEW query \in {"current", "exception"}, NEW cached \in BOOLEAN, NEW dangling \in BOOLEAN,
               Line2(query, cached, dangling), lost' \in BOOLEAN
        PROVE  Inv'
    <2>1. /\ Running /\ ts.rt # NULL /\ inbox # <<>> /\ Head(inbox).kind = "text"
          /\ ts \in ThreadStates /\ ts.line_n = 1
          /\ failed \in BOOLEAN /\ stream_io_err \in BOOLEAN /\ reply \in Replies
          /\ cut \in SUBSET (0 .. 2)
          /\ ts' = [ts EXCEPT !.line_n = 2, !.compiled_query = query, !.idle = FALSE,
                              !.cached_function_in_use = cached, !.dangling_bytecode = dangling]
          /\ Consumed
          /\ UNCHANGED <<pos, eof, stream_io_err, reply, cut, rts, bg, r, live, created, failed, main>>
      BY <1>2, HandlingFacts DEF Line2, replVars
    <2>2. ts' \in ThreadStates
      <3>1. /\ 2 \in 0 .. 2 /\ FALSE \in BOOLEAN
            /\ query \in {"undefined", "current", "exception"}
        BY <1>2
      <3> QED
        BY <1>2, <2>1, <3>1, QueryType, Zenon
    <2>3. /\ ts'.line_n = 2 /\ ts'.rt = ts.rt /\ ts'.current_uuid = ts.current_uuid
      BY <2>1 DEF ThreadStates
    <2>4. TypeOK' /\ InSync' /\ Awake' /\ (exit_status # 0 => exit_status' # 0)
      BY <1>2, <2>1, <2>2, <2>3, NextFieldValues, LineParts
    <2>5. Command'
      BY <2>1, <2>3 DEF Inv, Command, OkMeansWholeQuery
    <2>6. Replacement'
      BY <2>1, <2>3, <2>4, ReplacementFrame
    <2> QED
      BY <2>4, <2>5, <2>6 DEF Inv
  <1>3. /\ ts.cached_function_in_use \in BOOLEAN /\ ts.dangling_bytecode \in BOOLEAN
        /\ lost \in BOOLEAN /\ TRUE \in BOOLEAN /\ FALSE \in BOOLEAN
    BY DEF Inv, TypeOK, ThreadStates
  <1>4. CASE QueryFound
    BY <1>2, <1>3, <1>4, Zenon DEF QueryFound, Queries
  <1>5. CASE QueryDoesNotCompile
    BY <1>2, <1>3, <1>5, Zenon DEF QueryDoesNotCompile
  <1>6. CASE QueryCached
    <2>1. lost' \in BOOLEAN
      BY <1>6 DEF QueryCached
    <2> QED
      BY <1>2, <1>3, <1>6, <2>1, Zenon DEF QueryCached, Queries
  <1>7. CASE QueryNotCached
    <2>1. lost' \in BOOLEAN
      BY <1>7 DEF QueryNotCached
    <2> QED
      BY <1>2, <1>3, <1>7, <2>1, Zenon DEF QueryNotCached, Queries
  <1> QED
    BY <1>1, <1>4, <1>5, <1>6, <1>7 DEF Line2Query

\* The thread has the three lines of a command, and answers it.
AtLastLine ==
    /\ Running /\ ts.rt # NULL /\ inbox # <<>> /\ Head(inbox).kind = "text" /\ ts.line_n = 2
    /\ ts \in ThreadStates /\ reply \in Replies /\ cut \in SUBSET (0 .. 2)
    /\ stream_io_err \in BOOLEAN /\ lost \in BOOLEAN /\ failed \in BOOLEAN

\* The script runs only with the third line.
LEMMA JsFacts ==
  ASSUME Inv, pc = "js" \/ (Handling({"text"}) /\ ts.line_n = 2)
  PROVE  AtLastLine
  <1>1. CASE pc = "js"
    <2>1. inbox # <<>> /\ Head(inbox).kind = "text" /\ ts.line_n = 2
      BY <1>1 DEF Inv, TypeOK, InSync
    <2> QED
      BY <1>1, <2>1 DEF AtLastLine, Inv, TypeOK, Replacement, Awake, Running
  <1>2. CASE Handling({"text"}) /\ ts.line_n = 2
    BY <1>2, HandlingFacts DEF AtLastLine
  <1> QED
    BY <1>1, <1>2

\* The command is over, answered or not.
LEMMA AnsweredParts ==
  ASSUME Inv, AtLastLine, ts' \in ThreadStates, ts'.line_n = 0, ts'.rt = ts.rt,
         ts'.compiled_query = "undefined", reply' \in Replies, OkMeansWholeQuery',
         stream_io_err' \in BOOLEAN, failed' \in BOOLEAN, Consumed \/ HandlerFails,
         UNCHANGED <<pos, eof, cut, lost, r, live, created, main>>
  PROVE  /\ TypeOK' /\ InSync' /\ Command' /\ Awake'
         /\ pc' \in {"tick", "exited"} /\ (exit_status # 0 => exit_status' # 0)
         /\ HandlerFails => exit_status' # 0
  <1>1. Command'
    BY DEF Command
  <1>2. NextField(ts.line_n, Head(inbox).kind) = 0
    BY NextFieldValues DEF AtLastLine
  <1> QED
    BY <1>1, <1>2, LineParts DEF AtLastLine

\* An answer "ok" is that of the query that came in.
LEMMA OkAnswer ==
  ASSUME Inv, AtLastLine, ts.compiled_query = "current", Answer("ok", cut)
  PROVE  /\ OkMeansWholeQuery' /\ reply' \in Replies /\ stream_io_err' \in BOOLEAN
  <1>1. /\ stream_io_err' \in BOOLEAN /\ reply' \in Replies
        /\ reply'.cut = cut /\ reply'.uuid = ts.current_uuid
    BY AnswerType DEF Inv, AtLastLine
  <1>2. cut \subseteq {0}
    BY DEF Inv, Command, AtLastLine
  <1>3. ts.current_uuid = "current" \/ 0 \in cut
    BY DEF Inv, Command, AtLastLine
  <1> QED
    BY <1>1, <1>2, <1>3 DEF OkMeansWholeQuery

\* Any other answer.
LEMMA ExceptionAnswer ==
  ASSUME Inv, AtLastLine, Answer("exception", cut)
  PROVE  /\ OkMeansWholeQuery' /\ reply' \in Replies /\ stream_io_err' \in BOOLEAN
  <1>1. stream_io_err' \in BOOLEAN /\ reply' \in Replies /\ reply'.status = "exception"
    BY AnswerType DEF Inv, AtLastLine
  <1> QED
    BY <1>1 DEF OkMeansWholeQuery

\* handle_line_3_parameter, up to an answer that is not "ok".
LEMMA Line3Inv ==
  ASSUME Inv, AnswerCompileError \/ StartJs \/ AnswerException \/ CommandClockFails
  PROVE  Inv'
  <1> USE DEF replVars
  <1>1. CASE StartJs
    <2>1. /\ AtLastLine /\ ts' = [ts EXCEPT !.idle = FALSE] /\ pc' = "js"
          /\ UNCHANGED <<inbox, pos, eof, exit_status, interrupted, stream_io_err, reply, cut,
                         lost, rts, bg, r, live, created, failed, main>>
      BY <1>1, JsFacts DEF StartJs, clientVars
    <2>2. ts' \in ThreadStates
      BY <2>1, IdleType, Zenon DEF AtLastLine
    <2>3. /\ ts'.line_n = ts.line_n /\ ts'.rt = ts.rt /\ ts'.compiled_query = ts.compiled_query
          /\ ts'.current_uuid = ts.current_uuid
      BY <2>1 DEF ThreadStates, AtLastLine
    <2>4. TypeOK'
      BY <2>1, <2>2 DEF Inv, TypeOK, Labels
    <2>5. InSync'
      <3>1. \A i : Field(i)' = Field(i)
        BY <2>1 DEF Field
      <3>2. Head(inbox) = inbox[1]
        BY <2>1 DEF Inv, TypeOK, AtLastLine
      <3> QED
        BY <2>1, <2>3, <3>1, <3>2 DEF Inv, InSync, AtLastLine, Running
    <2>6. Command'
      BY <2>1, <2>3, CommandFrame DEF Inv
    <2>7. Replacement'
      BY <2>1, <2>3, ReplacementFrame DEF Awake, AtLastLine
    <2> QED
      BY <2>4, <2>5, <2>6, <2>7 DEF Inv
  <1>2. CASE AnswerCompileError \/ AnswerException
    <2>1. /\ AtLastLine /\ ts' = EndOfCommand(ts) /\ Answer("exception", cut)
          /\ Consumed \/ HandlerFails
          /\ UNCHANGED <<pos, eof, cut, lost, rts, bg, r, live, created, failed, main>>
      BY <1>2, JsFacts DEF AnswerCompileError, AnswerException, ReturnStreamIoErr
    <2>2. /\ ts' \in ThreadStates /\ ts'.line_n = 0 /\ ts'.rt = ts.rt
          /\ ts'.compiled_query = "undefined"
      BY <2>1, EndFields DEF AtLastLine
    <2>3. TypeOK' /\ InSync' /\ Command' /\ Awake' /\ (exit_status # 0 => exit_status' # 0)
      BY <2>1, <2>2, ExceptionAnswer, AnsweredParts DEF AtLastLine
    <2>4. Replacement'
      BY <2>1, <2>2, <2>3, ReplacementFrame DEF AtLastLine
    <2> QED
      BY <2>3, <2>4 DEF Inv
  <1>3. CASE CommandClockFails
    <2>1. /\ AtLastLine /\ ts' = EndOfCommand(ts) /\ HandlerFails /\ failed' = TRUE
          /\ UNCHANGED <<pos, eof, stream_io_err, reply, cut, lost, rts, bg, r, live, created, main>>
      BY <1>3, JsFacts DEF CommandClockFails
    <2>2. /\ ts' \in ThreadStates /\ ts'.line_n = 0 /\ ts'.rt = ts.rt
          /\ ts'.compiled_query = "undefined"
      BY <2>1, EndFields DEF AtLastLine
    <2>3. OkMeansWholeQuery' /\ failed' \in BOOLEAN
      BY <2>1 DEF Inv, Command, OkMeansWholeQuery
    <2>4. /\ TypeOK' /\ InSync' /\ Command' /\ Awake' /\ (exit_status # 0 => exit_status' # 0)
          /\ exit_status' # 0
      BY <2>1, <2>2, <2>3, AnsweredParts DEF AtLastLine
    <2>5. Replacement'
      BY <2>1, <2>2, <2>4, ReplacementFrame DEF AtLastLine
    <2> QED
      BY <2>4, <2>5 DEF Inv
  <1> QED
    BY <1>1, <1>2, <1>3

\* What the memory check leaves in the ThreadState.
LEMMA AnswerOkState ==
  ASSUME Inv, AtLastLine, AnswerOk
  PROVE  /\ ts' \in ThreadStates /\ ts'.line_n = 0 /\ ts'.rt = ts.rt
         /\ ts'.compiled_query = "undefined"
         /\ ts'.dangling_bytecode = FALSE /\ ts'.cached_function_in_use = FALSE
  <1> DEFINE count == (ts.memory_check_count + 1) % CheckInterval
             e == EndOfCommand(ts)
             s == [e EXCEPT !.memory_check_count = count]
  <1>1. /\ e \in ThreadStates /\ e.line_n = 0 /\ e.rt = ts.rt /\ e.compiled_query = "undefined"
        /\ e.dangling_bytecode = FALSE /\ e.cached_function_in_use = FALSE
    BY EndFields DEF AtLastLine
  <1>2. count \in Nat
    BY DEF AtLastLine, ThreadStates
  <1>3. /\ s \in ThreadStates /\ s.line_n = 0 /\ s.rt = ts.rt /\ s.compiled_query = "undefined"
        /\ s.dangling_bytecode = FALSE /\ s.cached_function_in_use = FALSE
        /\ s.memory_increase_count \in Nat
    <2> HIDE DEF count, e
    <2>1. s.memory_increase_count \in Nat
      BY <1>1 DEF ThreadStates
    <2> QED
      BY <1>1, <1>2, <2>1 DEF ThreadStates
  <1>4. \/ ts' = s
        \/ \E usage \in 1 .. MaxUsage :
             \/ ts' = [s EXCEPT !.last_memory_usage = usage, !.memory_increase_count = @ + 1]
             \/ ts' = [s EXCEPT !.memory_increase_count = 0]
    BY DEF AnswerOk
  <1> HIDE DEF s
  <1>5. CASE ts' = s
    BY <1>3, <1>5
  <1>6. ASSUME NEW usage \in 1 .. MaxUsage,
               \/ ts' = [s EXCEPT !.last_memory_usage = usage, !.memory_increase_count = @ + 1]
               \/ ts' = [s EXCEPT !.memory_increase_count = 0]
        PROVE  /\ ts' \in ThreadStates /\ ts'.line_n = 0 /\ ts'.rt = ts.rt
               /\ ts'.compiled_query = "undefined"
               /\ ts'.dangling_bytecode = FALSE /\ ts'.cached_function_in_use = FALSE
    <2> DEFINE m == s.memory_increase_count + 1
    <2>1. usage \in Nat /\ m \in Nat /\ 0 \in Nat
      BY <1>3, <1>6
    <2>2. ts' = [s EXCEPT !.last_memory_usage = usage, !.memory_increase_count = m]
          \/ ts' = [s EXCEPT !.memory_increase_count = 0]
      BY <1>6
    <2> HIDE DEF m
    <2>3. CASE ts' = [s EXCEPT !.last_memory_usage = usage, !.memory_increase_count = m]
      BY <1>3, <2>1, <2>3 DEF ThreadStates
    <2>4. CASE ts' = [s EXCEPT !.memory_increase_count = 0]
      BY <1>3, <2>1, <2>4 DEF ThreadStates
    <2> QED
      BY <2>2, <2>3, <2>4
  <1> QED
    BY <1>4, <1>5, <1>6

\* The ThreadState after a command whose memory check asks for a new interpreter.
LEMMA ResetState ==
  ASSUME AtLastLine, NEW usage \in 1 .. MaxUsage,
         \/ ts' = [EndOfCommand(ts) EXCEPT !.memory_check_count = 0, !.last_memory_usage = usage,
                                           !.memory_increase_count = 0]
         \/ ts' = [EndOfCommand(ts) EXCEPT !.memory_check_count = 0, !.last_memory_usage = usage,
                                           !.memory_increase_count = @ + 1]
  PROVE  /\ ts' \in ThreadStates /\ ts'.line_n = 0 /\ ts'.rt = ts.rt
         /\ ts'.compiled_query = "undefined"
         /\ ts'.dangling_bytecode = FALSE /\ ts'.cached_function_in_use = FALSE
  <1> DEFINE e == EndOfCommand(ts)
             m == e.memory_increase_count + 1
  <1>1. /\ e \in ThreadStates /\ e.line_n = 0 /\ e.rt = ts.rt /\ e.compiled_query = "undefined"
        /\ e.dangling_bytecode = FALSE /\ e.cached_function_in_use = FALSE
    BY EndFields DEF AtLastLine
  <1>2. m \in Nat /\ 0 \in Nat /\ usage \in Nat
    BY <1>1 DEF ThreadStates
  <1>3. \/ ts' = [e EXCEPT !.memory_check_count = 0, !.last_memory_usage = usage,
                           !.memory_increase_count = 0]
        \/ ts' = [e EXCEPT !.memory_check_count = 0, !.last_memory_usage = usage,
                           !.memory_increase_count = m]
    OBVIOUS
  <1> HIDE DEF e, m
  <1>4. /\ ts' \in ThreadStates
        /\ ts'.line_n = e.line_n /\ ts'.rt = e.rt /\ ts'.compiled_query = e.compiled_query
        /\ ts'.dangling_bytecode = e.dangling_bytecode
        /\ ts'.cached_function_in_use = e.cached_function_in_use
    <2>1. CASE ts' = [e EXCEPT !.memory_check_count = 0, !.last_memory_usage = usage,
                               !.memory_increase_count = 0]
      BY <1>1, <1>2, <2>1 DEF ThreadStates
    <2>2. CASE ts' = [e EXCEPT !.memory_check_count = 0, !.last_memory_usage = usage,
                               !.memory_increase_count = m]
      BY <1>1, <1>2, <2>2 DEF ThreadStates
    <2> QED
      BY <1>3, <2>1, <2>2
  <1> QED
    BY <1>1, <1>4

\* The answer "ok", with or without the start of a replacement.
LEMMA OkInv ==
  ASSUME Inv,
         AnswerOk \/ \E usage \in 1 .. MaxUsage : AnswerOkAndReset(usage) \/ ResetFails(usage)
  PROVE  Inv'
  <1> USE DEF replVars
  <1>1. CASE AnswerOk
    <2>1. /\ AtLastLine /\ Answer("ok", cut) /\ ts.compiled_query = "current"
          /\ Consumed \/ HandlerFails
          /\ UNCHANGED <<pos, eof, cut, lost, rts, bg, r, live, created, failed, main>>
      BY <1>1, JsFacts DEF AnswerOk, ReturnStreamIoErr
    <2>2. TypeOK' /\ InSync' /\ Command' /\ Awake' /\ (exit_status # 0 => exit_status' # 0)
      BY <1>1, <2>1, AnswerOkState, OkAnswer, AnsweredParts DEF AtLastLine
    <2>3. Replacement'
      BY <1>1, <2>1, <2>2, AnswerOkState, ReplacementFrame DEF AtLastLine
    <2> QED
      BY <2>2, <2>3 DEF Inv
  <1>2. ASSUME NEW usage \in 1 .. MaxUsage, AnswerOkAndReset(usage)
        PROVE  Inv'
    <2>1. /\ AtLastLine /\ Answer("ok", cut) /\ ts.compiled_query = "current"
          /\ (Consumed \/ HandlerFails) /\ rts = "NONE" /\ rts' = "INIT" /\ bg' = "starting"
          /\ UNCHANGED <<pos, eof, cut, lost, r, live, created, failed, main>>
      BY <1>2, JsFacts DEF AnswerOkAndReset, NeedsReset, ReturnStreamIoErr
    <2>2. /\ ts' \in ThreadStates /\ ts'.line_n = 0 /\ ts'.rt = ts.rt
          /\ ts'.compiled_query = "undefined"
      BY <1>2, <2>1, ResetState DEF AnswerOkAndReset
    <2>3. TypeOK' /\ InSync' /\ Command' /\ Awake' /\ (exit_status # 0 => exit_status' # 0)
      BY <2>1, <2>2, OkAnswer, AnsweredParts DEF AtLastLine
    <2>4. Handshake' /\ main = "joining"
      BY <2>1, RunningJoin, NoStructRt DEF AtLastLine, Handshake
    <2>5. Numbered' /\ RuntimeOwnership'
      BY <2>1, <2>2 DEF Inv, Replacement, Numbered, RuntimeOwnership
    <2>6. Stopping'
      BY <2>1, <2>3, <2>4 DEF Inv, Replacement, Stopping, CleanExit, AtLastLine, Running
    <2> QED
      BY <2>3, <2>5, <2>6 DEF Inv, Replacement
  <1>3. ASSUME NEW usage \in 1 .. MaxUsage, ResetFails(usage)
        PROVE  Inv'
    <2>1. /\ AtLastLine /\ Answer("ok", cut) /\ ts.compiled_query = "current"
          /\ HandlerFails /\ failed' = TRUE
          /\ UNCHANGED <<pos, eof, cut, lost, rts, bg, r, live, created, main>>
      BY <1>3, JsFacts DEF ResetFails, NeedsReset
    <2>2. /\ ts' \in ThreadStates /\ ts'.line_n = 0 /\ ts'.rt = ts.rt
          /\ ts'.compiled_query = "undefined"
      BY <1>3, <2>1, ResetState DEF ResetFails
    <2>3. failed' \in BOOLEAN
      BY <2>1
    <2>4. /\ TypeOK' /\ InSync' /\ Command' /\ Awake' /\ (exit_status # 0 => exit_status' # 0)
          /\ exit_status' # 0
      BY <2>1, <2>2, <2>3, OkAnswer, AnsweredParts DEF AtLastLine
    <2>5. Replacement'
      BY <2>1, <2>2, <2>4, ReplacementFrame DEF AtLastLine
    <2> QED
      BY <2>4, <2>5 DEF Inv
  <1> QED
    BY <1>1, <1>2, <1>3

-----------------------------------------------------------------------------
(***************************************************************************)
(* The background threads and main                                          *)
(***************************************************************************)

\* While a background thread works, main has not joined it.
LEMMA BackgroundJoin ==
  ASSUME Inv, bg \notin {"none", "finished"}
  PROVE  Handshake /\ main \in {"joining", "joining_bg"}
  BY DEF Inv, TypeOK, Replacement, Stopping, AfterJoin

\* The line protocol does not notice what the background threads do.
LEMMA BackgroundFrame ==
  ASSUME Inv, UNCHANGED <<inbox, pos, eof, pc, stream_io_err, reply, cut, lost, ts, main>>,
         exit_status' \in {0, 1, -1}, interrupted' \in BOOLEAN, failed' \in BOOLEAN,
         r' \in ThreadStates \cup {NoStruct}, live' \in SUBSET Nat, created' \in Nat
  PROVE  TypeOK' /\ InSync' /\ Command'
  <1>1. TypeOK'
    BY DEF Inv, TypeOK
  <1>2. InSync'
    BY SyncFrame DEF Inv, Running
  <1>3. Command'
    BY CommandFrame DEF Inv
  <1> QED
    BY <1>1, <1>2, <1>3

\* reset_thread_state_thread.
LEMMA BgInitInv ==
  ASSUME Inv, BgAllocate \/ BgInit \/ BgInitFails
  PROVE  Inv'
  <1> USE DEF clientVars, threadVars
  <1>0. /\ exit_status \in {0, 1, -1} /\ interrupted \in BOOLEAN /\ failed \in BOOLEAN
        /\ r \in ThreadStates \cup {NoStruct} /\ live \in SUBSET Nat /\ created \in Nat
    BY DEF Inv, TypeOK
  <1>1. CASE BgAllocate
    <2>1. /\ bg = "starting" /\ bg' = "allocated" /\ r' = FreshStruct(NULL)
          /\ UNCHANGED <<inbox, pos, eof, pc, exit_status, interrupted, stream_io_err, reply>>
          /\ UNCHANGED <<cut, lost, ts, main>>
          /\ UNCHANGED <<rts, live, created, failed>>
      BY <1>1 DEF BgAllocate
    <2>2. r' \in ThreadStates /\ r'.rt = NULL /\ NULL.id = 0
      BY <2>1, FreshFields, NullType
    <2>3. TypeOK' /\ InSync' /\ Command'
      BY <1>0, <2>1, <2>2, BackgroundFrame
    <2>4. rts = "INIT" /\ r.rt = NULL /\ main \in {"joining", "joining_bg"}
      BY <2>1, BackgroundJoin DEF Handshake
    <2>5. Numbered' /\ RuntimeOwnership' /\ Awake'
      BY <1>0, <2>1, <2>2, <2>4 DEF Inv, Replacement, Numbered, RuntimeOwnership, Awake
    <2>6. Stopping'
      BY <2>1, <2>2, <2>4 DEF Inv, Replacement, Stopping, Handshake, CleanExit
    <2> QED
      BY <2>3, <2>5, <2>6 DEF Inv, Replacement
  <1>2. ASSUME NEW address \in {"r", "none"}, bg = "allocated", r' = FreshStruct(NewRuntime(address)),
               created' = created + 1, live' = live \cup {created + 1}, ts' = ts
        PROVE  /\ r' \in ThreadStates /\ r'.rt # NULL /\ r'.rt.intr = address
               /\ r' = FreshStruct(r'.rt) /\ live' \in SUBSET Nat /\ created' \in Nat
               /\ Numbered' /\ RuntimeOwnership'
    <2>1. /\ NewRuntime(address) \in Runtimes /\ NewRuntime(address).id = created + 1
          /\ NewRuntime(address) # NULL /\ NewRuntime(address).intr = address
      BY <1>0, <1>2, NullType DEF NewRuntime, Runtimes
    <2>2. r' \in ThreadStates /\ r'.rt = NewRuntime(address)
      BY <1>2, <2>1, FreshFields
    <2>3. r.rt = NULL
      BY <1>2, BackgroundJoin DEF Handshake
    <2>4. ts.rt.id \in Nat /\ ts.rt.id <= created /\ live \subseteq 1 .. created
      BY DEF Inv, TypeOK, ThreadStates, Runtimes, Replacement, Numbered
    <2>5. Numbered'
      <3>1. live' \subseteq 1 .. created'
        BY <1>0, <1>2, <2>4
      <3>2. ts'.rt.id <= created' /\ (ts'.rt.id = 0 => ts'.rt = NULL)
        BY <1>0, <1>2, <2>4 DEF Inv, Replacement, Numbered
      <3>3. r'.rt.id <= created' /\ r'.rt.id # 0
        BY <1>0, <1>2, <2>1, <2>2
      <3> QED
        BY <3>1, <3>2, <3>3 DEF Numbered
    <2>6. RuntimeOwnership'
      BY <1>0, <1>2, <2>1, <2>2, <2>3, <2>4, NullType DEF Inv, Replacement, RuntimeOwnership
    <2>7. live' \in SUBSET Nat /\ created' \in Nat
      BY <1>0, <1>2
    <2>8. r' = FreshStruct(r'.rt)
      BY <1>2, <2>2
    <2> QED
      BY <2>1, <2>2, <2>5, <2>6, <2>7, <2>8
  <1>3. CASE BgInit
    <2>1. /\ bg = "allocated" /\ bg' = "finished" /\ rts' = "INIT_COMPLETE"
          /\ UNCHANGED <<inbox, pos, eof, pc, exit_status, interrupted, stream_io_err, reply>>
          /\ UNCHANGED <<cut, lost, ts, main, failed>>
          /\ r' = FreshStruct(NewRuntime("r")) /\ created' = created + 1
          /\ live' = live \cup {created + 1}
      BY <1>3 DEF BgInit
    <2>2. /\ r' \in ThreadStates /\ r'.rt # NULL /\ r'.rt.intr = "r"
          /\ r' = FreshStruct(r'.rt) /\ live' \in SUBSET Nat /\ created' \in Nat
          /\ Numbered' /\ RuntimeOwnership'
      BY <1>2, <2>1
    <2>3. TypeOK' /\ InSync' /\ Command'
      BY <1>0, <2>1, <2>2, BackgroundFrame
    <2>4. rts = "INIT" /\ main \in {"joining", "joining_bg"}
      BY <2>1, BackgroundJoin DEF Handshake
    <2>5. Awake'
      BY <2>1, <2>4 DEF Inv, Replacement, Awake
    <2>6. Stopping'
      BY <2>1, <2>2, <2>4 DEF Inv, Replacement, Stopping, Handshake, CleanExit
    <2> QED
      BY <2>2, <2>3, <2>5, <2>6 DEF Inv, Replacement
  <1>4. CASE BgInitFails
    <2>1. /\ bg = "allocated" /\ bg' = "finished" /\ exit_status' = 1 /\ failed' = TRUE
          /\ interrupted' = TRUE
          /\ UNCHANGED <<inbox, pos, eof, pc, stream_io_err, reply, cut, lost, ts, main, rts>>
          /\ \/ UNCHANGED <<r, live, created>>
             \/ /\ r' = FreshStruct(NewRuntime("none")) /\ created' = created + 1
                /\ live' = live \cup {created + 1}
      BY <1>4 DEF BgInitFails
    <2>2. /\ r' \in ThreadStates \cup {NoStruct} /\ live' \in SUBSET Nat /\ created' \in Nat
          /\ Numbered' /\ RuntimeOwnership'
      <3>1. CASE UNCHANGED <<r, live, created>>
        BY <1>0, <2>1, <3>1 DEF Inv, Replacement, Numbered, RuntimeOwnership
      <3>2. CASE r' = FreshStruct(NewRuntime("none")) /\ created' = created + 1
                 /\ live' = live \cup {created + 1}
        BY <1>2, <2>1, <3>2
      <3> QED
        BY <2>1, <3>1, <3>2
    <2>3. TypeOK' /\ InSync' /\ Command'
      <3>1. exit_status' \in {0, 1, -1} /\ interrupted' \in BOOLEAN /\ failed' \in BOOLEAN
        BY <2>1
      <3> QED
        BY <2>1, <2>2, <3>1, BackgroundFrame
    <2>4. rts = "INIT" /\ main \in {"joining", "joining_bg"}
      BY <2>1, BackgroundJoin DEF Handshake
    <2>5. Awake'
      BY <2>1, <2>4 DEF Inv, Replacement, Awake
    <2>6. Stopping'
      BY <2>1, <2>2, <2>4 DEF Inv, Replacement, Stopping, Handshake, CleanExit
    <2> QED
      BY <2>2, <2>3, <2>5, <2>6 DEF Inv, Replacement
  <1> QED
    BY <1>1, <1>3, <1>4

\* cleanup_old_runtime and the end of its thread.
LEMMA BgCleanupInv ==
  ASSUME Inv, BgCleanup \/ BgFree \/ BgComplete
  PROVE  Inv'
  <1> USE DEF clientVars, threadVars
  <1>0. /\ exit_status \in {0, 1, -1} /\ interrupted \in BOOLEAN /\ failed \in BOOLEAN
        /\ r \in ThreadStates \cup {NoStruct} /\ live \in SUBSET Nat /\ created \in Nat
    BY DEF Inv, TypeOK
  <1>1. /\ UNCHANGED <<inbox, pos, eof, pc, stream_io_err, reply, cut, lost, ts, main>>
        /\ UNCHANGED <<exit_status, interrupted, created, failed>>
    BY DEF BgCleanup, BgFree, BgComplete
  <1>2. Handshake /\ main \in {"joining", "joining_bg"} /\ rts = "CLEANUP" /\ rts' # "NONE"
    BY BackgroundJoin DEF BgCleanup, BgFree, BgComplete, Handshake
  <1>3. Awake'
    BY <1>1, <1>2 DEF Inv, Replacement, Awake
  <1>4. CASE BgCleanup
    <2>1. /\ bg = "cleaning" /\ bg' = "cleaned" /\ live' = live \ {r.rt.id}
          /\ r' = CleanupThreadState(r) /\ rts' = rts
      BY <1>4 DEF BgCleanup
    <2>2. r # NoStruct /\ r.rt # NULL /\ r \in ThreadStates
      BY <1>0, <1>2, <2>1 DEF Handshake
    <2>3. r' \in ThreadStates /\ r'.rt = NULL
      BY <2>1, <2>2, CleanupFields
    <2>4. TypeOK' /\ InSync' /\ Command'
      BY <1>0, <1>1, <2>1, <2>3, BackgroundFrame
    <2>5. Numbered' /\ RuntimeOwnership'
      <3>1. /\ r'.rt.id = 0 /\ ts'.rt = ts.rt /\ created' = created
        BY <1>1, <2>3, NullType
      <3>2. Numbered'
        BY <1>0, <2>1, <2>3, <3>1 DEF Inv, Replacement, Numbered
      <3>3. RuntimeOwnership'
        BY <2>1, <2>2, <2>3, <3>1 DEF Inv, Replacement, RuntimeOwnership
      <3> QED
        BY <3>2, <3>3
    <2>6. Stopping'
      BY <1>1, <1>2, <2>1, <2>3 DEF Inv, Replacement, Stopping, Handshake, CleanExit
    <2> QED
      BY <1>3, <2>4, <2>5, <2>6 DEF Inv, Replacement
  <1>5. CASE BgFree
    <2>1. bg = "cleaned" /\ bg' = "freed" /\ r' = NoStruct /\ UNCHANGED <<rts, live>>
      BY <1>5 DEF BgFree
    <2>2. r.rt = NULL /\ r'.rt = NULL
      BY <1>2, <2>1, NoStructRt DEF Handshake
    <2>4. TypeOK' /\ InSync' /\ Command'
      BY <1>0, <1>1, <2>1, BackgroundFrame
    <2>5. Numbered' /\ RuntimeOwnership'
      BY <1>1, <2>1, <2>2, NullType DEF Inv, Replacement, Numbered, RuntimeOwnership
    <2>6. Stopping'
      BY <1>1, <1>2, <2>1 DEF Inv, Replacement, Stopping, Handshake, CleanExit
    <2> QED
      BY <1>3, <2>4, <2>5, <2>6 DEF Inv, Replacement
  <1>6. CASE BgComplete
    <2>1. bg = "freed" /\ bg' = "finished" /\ rts' = "CLEANUP_COMPLETE" /\ UNCHANGED <<r, live>>
      BY <1>6 DEF BgComplete
    <2>2. r = NoStruct
      BY <1>2, <2>1 DEF Handshake
    <2>4. TypeOK' /\ InSync' /\ Command'
      BY <1>0, <1>1, <2>1, BackgroundFrame
    <2>5. Numbered' /\ RuntimeOwnership'
      BY <1>1, <2>1 DEF Inv, Replacement, Numbered, RuntimeOwnership
    <2>6. Stopping'
      BY <1>1, <1>2, <2>1, <2>2 DEF Inv, Replacement, Stopping, Handshake, CleanExit
    <2> QED
      BY <1>3, <2>4, <2>5, <2>6 DEF Inv, Replacement
  <1> QED
    BY <1>4, <1>5, <1>6

\* main joins the thread and its background thread and destroys what is left.
LEMMA MainInv ==
  ASSUME Inv, Main
  PROVE  Inv'
  <1> USE DEF clientVars, threadVars, replVars
  <1>1. CASE JoinThread \/ JoinBg
    <2>1. /\ UNCHANGED <<inbox, pos, eof, pc, exit_status, interrupted, stream_io_err, reply, cut,
                         lost, ts, rts, r, live, created, failed>>
          /\ pc = "exited" /\ main' \in {"joining_bg", "joined"}
      BY <1>1 DEF JoinThread, JoinBg, Inv, Replacement, Stopping
    <2>2. /\ main' = "joining_bg" => Handshake'
          /\ main' = "joined" => AfterJoin'
      <3>1. CASE JoinThread
        <4>1. main = "joining" /\ UNCHANGED bg /\ (main' = "joined" => rts = "NONE")
          BY <3>1 DEF JoinThread
        <4>2. Handshake
          BY <4>1 DEF Inv, Replacement, Stopping
        <4>3. Handshake'
          BY <2>1, <4>1, <4>2 DEF Handshake, Running
        <4> QED
          BY <2>1, <4>1, <4>2, <4>3 DEF Handshake, AfterJoin
      <3>2. CASE JoinBg
        <4>1. main = "joining_bg" /\ bg = "finished" /\ bg' = "none" /\ main' = "joined"
          BY <3>2 DEF JoinBg
        <4>2. Handshake
          BY <4>1 DEF Inv, Replacement, Stopping
        <4> QED
          BY <2>1, <4>1, <4>2 DEF Handshake, AfterJoin
      <3> QED
        BY <1>1, <3>1, <3>2
    <2>3. TypeOK'
      BY <2>1 DEF Inv, TypeOK
    <2>4. InSync'
      BY <2>1, SyncFrame DEF Inv, Running
    <2>5. Command'
      BY <2>1, CommandFrame DEF Inv
    <2>6. Numbered' /\ RuntimeOwnership' /\ Awake'
      BY <2>1 DEF Inv, Replacement, Numbered, RuntimeOwnership, Awake
    <2>7. Stopping'
      BY <2>1, <2>2 DEF Inv, Replacement, Stopping, CleanExit
    <2> QED
      BY <2>3, <2>4, <2>5, <2>6, <2>7 DEF Inv, Replacement
  <1>2. CASE DestroyThreadState
    <2>1. /\ UNCHANGED <<inbox, pos, eof, pc, exit_status, interrupted, stream_io_err, reply, cut,
                         lost, bg, created, failed>>
          /\ main = "joined" /\ main' = "done" /\ ts' = CleanupThreadState(ts)
      BY <1>2 DEF DestroyThreadState
    <2>2. \/ /\ rts \in {"INIT_COMPLETE", "CLEANUP"} /\ r' = NoStruct
             /\ live' = live \ {ts.rt.id, r.rt.id}
          \/ /\ rts \notin {"INIT_COMPLETE", "CLEANUP"} /\ r' = r
             /\ live' = live \ {ts.rt.id}
      BY <1>2 DEF DestroyThreadState
    <2>3. pc = "exited" /\ AfterJoin /\ (failed => exit_status # 0)
      BY <2>1 DEF Inv, Replacement, Stopping
    <2>4. /\ ts' \in ThreadStates /\ ts'.line_n = ts.line_n /\ ts'.rt = NULL
          /\ ts'.compiled_query = "undefined" /\ ts'.current_uuid = ts.current_uuid
      BY <2>1, CleanupFields DEF Inv, TypeOK
    <2>5. live \subseteq {ts.rt.id, r.rt.id} /\ live \subseteq 1 .. created /\ created \in Nat
          /\ live \in SUBSET Nat
      BY DEF Inv, TypeOK, Replacement, RuntimeOwnership, Numbered
    <2>6. TypeOK'
      BY <2>1, <2>2, <2>4, <2>5 DEF Inv, TypeOK
    <2>7. InSync'
      BY <2>1, <2>3, <2>4, SyncFrame DEF Inv, Running
    <2>8. Command'
      BY <2>1, <2>4, CommandFrame DEF Inv
    <2>9. Numbered' /\ RuntimeOwnership'
      <3>1. CASE r' = NoStruct /\ live' = live \ {ts.rt.id, r.rt.id}
        <4>1. live' = {} /\ ts'.rt = NULL /\ r'.rt = NULL /\ NULL.id = 0 /\ created' = created
          BY <2>1, <2>4, <2>5, <3>1, NoStructRt
        <4> QED
          BY <2>5, <4>1 DEF Numbered, RuntimeOwnership
      <3>2. CASE r' = r /\ live' = live \ {ts.rt.id}
        <4>1. /\ live' \subseteq {r.rt.id} /\ live' \subseteq 1 .. created /\ ts'.rt = NULL
              /\ NULL.id = 0 /\ r'.rt = r.rt /\ created' = created
          BY <2>1, <2>4, <2>5, <3>2, NullType
        <4>2. /\ r.rt.id <= created /\ (r.rt.id = 0 => r.rt = NULL)
              /\ (r.rt # NULL => r.rt.id \in live')
          BY <3>2 DEF Inv, Replacement, Numbered, RuntimeOwnership
        <4> QED
          BY <2>5, <4>1, <4>2 DEF Numbered, RuntimeOwnership
      <3> QED
        BY <2>2, <3>1, <3>2
    <2>10. ~failed => live' = {} /\ r' = NoStruct
      <3> SUFFICES ASSUME ~failed
                   PROVE  live' = {} /\ r' = NoStruct
        OBVIOUS
      <3>1. CASE rts \in {"INIT_COMPLETE", "CLEANUP"}
        BY <2>2, <2>5, <3>1
      <3>2. CASE rts \notin {"INIT_COMPLETE", "CLEANUP"}
        <4>1. r = NoStruct /\ r.rt.id = 0
          BY <2>3, <3>2, NoStructRt DEF AfterJoin
        <4> QED
          BY <2>2, <2>5, <3>2, <4>1
      <3> QED
        BY <3>1, <3>2
    <2>11. Awake' /\ Stopping'
      BY <2>1, <2>3, <2>10 DEF Awake, Stopping, CleanExit, AfterJoin
    <2> QED
      BY <2>6, <2>7, <2>8, <2>9, <2>11 DEF Inv, Replacement
  <1> QED
    BY <1>1, <1>2 DEF Main

\* The invariant holds of every reachable state of a socket, for every pipeline, memory
\* threshold and number of interpreters, with and without failures.
THEOREM CommandLoop == Spec => []Inv
  <1>1. Inv /\ [Next]_vars => Inv'
    <2> SUFFICES ASSUME Inv, [Next]_vars
                 PROVE  Inv'
      OBVIOUS
    <2>1. CASE Ended \/ UNCHANGED vars
      <3>1. /\ UNCHANGED <<inbox, pos, eof, pc, exit_status, interrupted, stream_io_err, reply, cut,
                           lost, ts, rts, r, live, created, failed>>
            /\ UNCHANGED <<bg, main>>
        BY <2>1 DEF Ended, vars, clientVars, threadVars, replVars
      <3>2. InSync'
        BY <3>1, SyncFrame DEF Inv, Running
      <3>3. Command'
        BY <3>1, CommandFrame DEF Inv
      <3>4. TypeOK'
        BY <3>1 DEF Inv, TypeOK
      <3>5. Replacement'
        BY <3>1 DEF Inv, Replacement, Numbered, RuntimeOwnership, Awake, Stopping, Handshake,
                    AfterJoin, CleanExit, Running
      <3> QED
        BY <3>2, <3>3, <3>4, <3>5 DEF Inv
    <2>2. CASE Loop
      BY <2>2, LoopQuiet, TickInv, ReadyInv DEF Loop
    <2>3. CASE Lines
      BY <2>3, LoopQuiet, CutInv, QuestionInv, TrampolineInv, Line1Inv, Line2Inv, Line3Inv, OkInv
         DEF Lines, Line1, Line3
    <2>4. CASE Background
      BY <2>4, BgInitInv, BgCleanupInv DEF Background
    <2>5. CASE Main
      BY <2>5, MainInv
    <2>6. CASE Environment
      BY <2>6, ClientSendInv, EnvironmentInv DEF Environment
    <2> QED
      BY <2>1, <2>2, <2>3, <2>4, <2>5, <2>6 DEF Next
  <1> QED
    BY <1>1, InitInv, PTL DEF Spec

\* The server takes every line for the field as which the client sent it, whatever is
\* pipelined, replayed after a swap, cut, reset or shut down in between.
THEOREM LinesKeepTheirMeaning == Spec => []ParserInSync
  <1>1. Inv => ParserInSync
    <2> SUFFICES ASSUME Inv, pc \in {"tick", "poll", "handle", "js"}
                 PROVE  ts.line_n = IF inbox = <<>> THEN pos ELSE Head(inbox).field
      BY DEF ParserInSync
    <2>1. ts.line_n = Field(1)
      BY DEF Inv, InSync, Running
    <2> QED
      BY <2>1 DEF Inv, TypeOK, Field
  <1> QED
    BY <1>1, CommandLoop, PTL

\* An answer "ok" is that of a query and a parameter that came in whole.
THEOREM OkIsWhole == Spec => []OkMeansWholeQuery
  <1>1. Inv => OkMeansWholeQuery
    BY DEF Inv, Command
  <1> QED
    BY <1>1, CommandLoop, PTL

\* Building, swapping in and cleaning up a replacement interpreter never frees one in use,
\* forgets one or leaves my_replacement with two owners.
THEOREM ReplacementIsSafe == Spec => []ReplacementSafe
  <1>1. Inv => ReplacementSafe
    <2>1. Handshake => ReplacementHandshake
      <3>1. CASE rts = "NONE"
        BY <3>1 DEF Handshake, ReplacementHandshake
      <3>2. CASE rts = "INIT"
        BY <3>2 DEF Handshake, ReplacementHandshake
      <3>3. CASE rts = "INIT_COMPLETE"
        BY <3>3 DEF Handshake, ReplacementHandshake
      <3>4. CASE rts = "CLEANUP"
        BY <3>4, NoStructRt DEF Handshake, ReplacementHandshake
      <3>5. CASE rts = "CLEANUP_COMPLETE"
        BY <3>5 DEF Handshake, ReplacementHandshake
      <3> QED
        BY <3>1, <3>2, <3>3, <3>4, <3>5 DEF Handshake
    <2>2. main \notin {"joining", "joining_bg"} => ReplacementHandshake
      BY DEF ReplacementHandshake
    <2> QED
      BY <2>1, <2>2 DEF Inv, Replacement, Stopping, ReplacementSafe
  <1> QED
    BY <1>1, CommandLoop, PTL

\* At the end of main nothing is left, or the exit status tells of a failure.
THEOREM ExitIsClean == Spec => []CleanExit
  <1>1. Inv => CleanExit
    BY DEF Inv, Replacement, Stopping
  <1> QED
    BY <1>1, CommandLoop, PTL

-----------------------------------------------------------------------------
(***************************************************************************)
(* The command loop is a command service: every step of it is a step of     *)
(* CommandService or changes nothing that the service knows of              *)
(***************************************************************************)

ServiceStep == [Service!Next]_Service!vars

\* A step that the client cannot tell from none.
LEMMA Unseen ==
  ASSUME ts'.line_n = ts.line_n, ts'.rt = ts.rt, reply' = reply, Running' <=> Running
  PROVE  ServiceStep
  <1>1. UNCHANGED <<ts.line_n, ts.rt.id, reply.status, ~Running>>
    <2>1. (~Running)' = ~Running
      OBVIOUS
    <2> QED
      BY <2>1
  <1> QED
    BY <1>1 DEF ServiceStep, Service!vars

\* A step after which the thread no longer serves.
LEMMA LastStep ==
  ASSUME Inv, Running, ~Running', reply' = reply,
         \/ ts'.line_n \in {ts.line_n, 0} /\ ts'.rt = ts.rt
         \/ ts.line_n = 0 /\ ts'.line_n = 0 /\ ts'.rt.id \in Nat
  PROVE  ServiceStep
  <1>1. Service!End
    BY DEF Service!End
  <1> QED
    BY <1>1 DEF ServiceStep, Service!Next

\* A step between two commands that changes the interpreter.
LEMMA OtherInterpreter ==
  ASSUME Running, Running', ts.line_n = 0, ts'.line_n = 0, reply' = reply, ts'.rt.id \in Nat
  PROVE  ServiceStep
  <1>1. Service!ChangeInterpreter
    BY DEF Service!ChangeInterpreter
  <1> QED
    BY <1>1 DEF ServiceStep, Service!Next

\* The first or the second line of a command.
LEMMA FieldTaken ==
  ASSUME Inv, Running, Running', ts.rt # NULL, ts.line_n \in {0, 1}, ts'.line_n = ts.line_n + 1,
         ts'.rt = ts.rt, reply'.status = "none"
  PROVE  ServiceStep
  <1>1. ts.rt.id # 0
    BY DEF Inv, Replacement, Numbered
  <1>2. Service!TakeField
    BY <1>1 DEF Service!TakeField
  <1> QED
    BY <1>2 DEF ServiceStep, Service!Next

\* The third one, with the answer to the command.
LEMMA CommandAnswered ==
  ASSUME Inv, Running, ts.rt # NULL, ts.line_n = 2, ts'.line_n = 0, ts'.rt = ts.rt,
         reply'.status \in {"ok", "exception"}
  PROVE  ServiceStep
  <1>1. ts.rt.id # 0
    BY DEF Inv, Replacement, Numbered
  <1>2. reply.status = "none"
    BY DEF Inv, Command
  <1>3. (~Running)' \in BOOLEAN
    BY Zenon DEF Running
  <1>4. Service!TakeLastField
    BY <1>1, <1>2, <1>3 DEF Service!TakeLastField
  <1> QED
    BY <1>4 DEF ServiceStep, Service!Next

\* The environment and main, as long as it only joins, are not seen.
LEMMA EnvironmentServes ==
  ASSUME Inv, Environment \/ JoinThread \/ JoinBg \/ Ended \/ UNCHANGED vars
  PROVE  ServiceStep
  <1> USE DEF vars, clientVars, threadVars, replVars
  <1>1. CASE TimePasses
    <2>1. ts'.line_n = ts.line_n /\ ts'.rt = ts.rt /\ reply' = reply /\ pc' = pc
      BY <1>1 DEF TimePasses, Inv, TypeOK, ThreadStates
    <2> QED
      BY <2>1, Unseen DEF Running
  <1>2. CASE ~TimePasses
    <2>1. ts' = ts /\ reply' = reply /\ pc' = pc
      BY <1>2 DEF Environment, ClientSend, ClientClose, Interrupt, JoinThread, JoinBg, Ended
    <2> QED
      BY <2>1, Unseen DEF Running
  <1> QED
    BY <1>1, <1>2

\* So are the background threads.
LEMMA BackgroundServes ==
  ASSUME Inv, Background
  PROVE  ServiceStep
  <1>1. ts' = ts /\ reply' = reply /\ pc' = pc
    BY DEF Background, BgAllocate, BgInit, BgInitFails, BgCleanup, BgFree, BgComplete, threadVars
  <1> QED
    BY <1>1, Unseen DEF Running

\* destroy_thread_state comes after the end.
LEMMA DestroyServes ==
  ASSUME Inv, DestroyThreadState
  PROVE  ServiceStep
  <1>1. /\ ts'.line_n = ts.line_n /\ ts'.rt = NULL /\ reply' = reply /\ pc' = pc
    BY CleanupFields DEF DestroyThreadState, threadVars, Inv, TypeOK
  <1>2. ~Running /\ ~Running'
    BY <1>1 DEF DestroyThreadState, Inv, Replacement, Stopping, Running
  <1>3. (~Running)' = ~Running
    BY <1>2
  <1>4. Service!Destroy
    BY <1>1, <1>2, <1>3, NullType DEF Service!Destroy
  <1> QED
    BY <1>4 DEF ServiceStep, Service!Next

\* command_loop outside the handlers of lines.
LEMMA LoopServes ==
  ASSUME Inv, Loop
  PROVE  ServiceStep
  <1>0. ts \in ThreadStates /\ created \in Nat
    BY DEF Inv, TypeOK
  <1>1. CASE AcceptInterrupted \/ AcceptFails \/ WakeFails \/ ReadEof \/ ReadFails
    <2>1. ts' = ts /\ reply' = reply /\ Running /\ ~Running'
      BY <1>1 DEF AcceptInterrupted, AcceptFails, WakeFails, ReadEof, ReadFails, Exit, Running
    <2> QED
      BY <2>1, LastStep
  <1>2. CASE Accept
    BY <1>2, Unseen DEF Accept, Running
  <1>3. CASE PollTimeout
    <2>1. ts' = ts /\ reply' = reply /\ Running
      BY <1>3 DEF PollTimeout, Running
    <2>2. CASE interrupted
      BY <1>3, <2>1, <2>2, LastStep DEF PollTimeout, Exit, Running
    <2>3. CASE ~interrupted
      BY <1>3, <2>1, <2>3, Unseen DEF PollTimeout, Running
    <2> QED
      BY <2>2, <2>3
  <1>4. CASE Tick
    <2>1. CASE MayShutDown(ts)
      <3>1. ts.line_n = 0 /\ ts'.line_n = 0 /\ ts'.rt.id \in Nat /\ reply' = reply
        <4>1. ts' = CleanupThreadState(ts) /\ ts.line_n = 0 /\ reply' = reply
          BY <1>4, <2>1 DEF Tick, MayShutDown
        <4>2. ts'.line_n = ts.line_n /\ ts'.rt = NULL
          BY <1>0, <4>1, CleanupFields
        <4> QED
          BY <4>1, <4>2, NullType
      <3> QED
        BY <1>4, <3>1, OtherInterpreter DEF Tick, Running
    <2>2. CASE ~MayShutDown(ts)
      BY <1>4, <2>2, Unseen DEF Tick, Running
    <2> QED
      BY <2>1, <2>2
  <1>5. CASE PollReady /\ ts.rt # NULL
    BY <1>5, Unseen DEF PollReady, Running
  <1>6. ASSUME NEW address \in {"ts", "none"}, ts' = FreshStruct(NewRuntime(address)),
               pc = "poll", pc' = "handle", ts.rt = NULL, reply' = reply
        PROVE  ServiceStep
    <2>1. NewRuntime(address) \in Runtimes /\ NewRuntime(address).id \in Nat
      BY <1>0 DEF NewRuntime, Runtimes
    <2>2. ts'.line_n = 0 /\ ts'.rt.id \in Nat
      BY <1>6, <2>1, FreshFields
    <2>3. ts.line_n = 0
      BY <1>6 DEF Inv, Replacement, Awake
    <2> QED
      BY <1>6, <2>2, <2>3, OtherInterpreter DEF Running
  <1>7. CASE PollReady /\ ts.rt = NULL
    <2>1. rts = "NONE"
      BY <1>7 DEF PollReady, Inv, Replacement, Awake
    <2> QED
      BY <1>6, <1>7, <2>1 DEF PollReady
  <1>8. CASE WakeHalfInitialised
    BY <1>6, <1>8 DEF WakeHalfInitialised
  <1> QED
    BY <1>1, <1>2, <1>3, <1>4, <1>5, <1>7, <1>8 DEF Loop

\* The ? commands, cut lines and the lines of commands.
LEMMA LinesServe ==
  ASSUME Inv, Lines
  PROVE  ServiceStep
  <1>1. CASE BrokenPipe
    BY <1>1, LastStep DEF BrokenPipe, Answers, Handling, Running
  <1>2. CASE HandleQuit
    <2>1. Running /\ ~Running' /\ ts'.line_n = ts.line_n /\ ts'.rt = ts.rt /\ reply' = reply
      BY <1>2 DEF HandleQuit, Handling, Exit, Running, Inv, TypeOK, ThreadStates
    <2> QED
      BY <2>1, LastStep
  <1>3. CASE HandleReset
    <2>1. Running /\ Running' /\ ts' = EndOfCommand(ts) /\ reply' = reply
      BY <1>3 DEF HandleReset, Handling, Consumed, Running, EndOfCommand
    <2>2. ts'.line_n = 0 /\ ts'.rt = ts.rt
      BY <2>1, EndFields DEF Inv, TypeOK
    <2>3. (~Running)' = ~Running
      BY <2>1
    <2>4. Service!Reset
      BY <2>1, <2>2, <2>3 DEF Service!Reset
    <2> QED
      BY <2>4 DEF ServiceStep, Service!Next
  <1>4. CASE HandleStat \/ StartJs
    <2>1. Running /\ Running' /\ ts'.line_n = ts.line_n /\ ts'.rt = ts.rt /\ reply' = reply
      BY <1>4 DEF HandleStat, StartJs, Handling, Consumed, Running, Inv, TypeOK, ThreadStates
    <2> QED
      BY <2>1, Unseen
  <1>5. CASE HandleCut
    <2>1. Running /\ Running' /\ ts.rt # NULL /\ ts \in ThreadStates /\ ts.line_n \in 0 .. 2
      BY <1>5, HandlingFacts DEF HandleCut, Consumed, Running
    <2>2. CASE ts.line_n = 2
      <3>1. /\ ts'.line_n = 0 /\ ts'.rt = ts.rt /\ reply'.status = "exception"
        <4>1. ts' = [ts EXCEPT !.line_n = 0, !.compiled_query = "undefined", !.idle = FALSE]
          BY <1>5, <2>2 DEF HandleCut
        <4>2. reply'.status = "exception"
          BY <1>5, <2>2 DEF HandleCut, Answer
        <4> QED
          BY <2>1, <4>1, <4>2 DEF ThreadStates
      <3> QED
        BY <2>1, <2>2, <3>1, CommandAnswered
    <2>3. CASE ts.line_n # 2
      <3>1. /\ ts'.line_n = ts.line_n + 1 /\ ts'.rt = ts.rt /\ reply'.status = "none"
        <4>1. \E n, u : /\ n = ts.line_n + 1
                        /\ ts' = [ts EXCEPT !.line_n = n, !.idle = FALSE, !.current_uuid = u]
          BY <1>5, <2>3 DEF HandleCut
        <4>2. reply'.status = "none"
          BY <1>5, <2>3 DEF HandleCut, NoReply
        <4> QED
          BY <2>1, <4>1, <4>2 DEF ThreadStates
      <3> QED
        BY <2>1, <2>3, <3>1, FieldTaken
    <2> QED
      BY <2>2, <2>3
  <1>6. CASE HandleLine1
    <2>1. Running /\ Running' /\ ts.rt # NULL /\ ts \in ThreadStates /\ ts.line_n = 0
      BY <1>6, HandlingFacts DEF HandleLine1, Consumed, Running
    <2>2. ts'.line_n = 1 /\ ts'.rt = ts.rt /\ reply'.status = "none"
      BY <1>6, <2>1 DEF HandleLine1, NoReply, ThreadStates
    <2> QED
      BY <2>1, <2>2, FieldTaken
  <1>7. CASE TrampolineLine1 \/ TrampolineFails
    <2>1. /\ Handling({"text"}) /\ ts.line_n = 0 /\ SwapStructs /\ reply' = reply
          /\ Running' \/ ~Running'
      BY <1>7 DEF TrampolineLine1, TrampolineFails, threadVars
    <2>2. Running /\ ts'.line_n = 0 /\ ts'.rt.id \in Nat
      BY <2>1, SwapFacts DEF ThreadStates, Runtimes
    <2> QED
      BY <2>1, <2>2, OtherInterpreter, LastStep
  <1>8. CASE DanglingAssertFails
    BY <1>8, LastStep DEF DanglingAssertFails, Handling, Running
  <1>9. ASSUME NEW query, NEW cached, NEW dangling, Line2(query, cached, dangling)
        PROVE  ServiceStep
    <2>1. Running /\ Running' /\ ts.rt # NULL /\ ts \in ThreadStates /\ ts.line_n = 1
      BY <1>9, HandlingFacts DEF Line2, Consumed, Running
    <2>2. ts'.line_n = 2 /\ ts'.rt = ts.rt
      BY <1>9, <2>1 DEF Line2, ThreadStates
    <2>3. reply'.status = "none"
      BY <1>9, <2>1 DEF Line2, Inv, Command
    <2> QED
      BY <2>1, <2>2, <2>3, FieldTaken
  <1>10. CASE AnswerCompileError \/ AnswerException
    <2>1. AtLastLine /\ ts' = EndOfCommand(ts) /\ reply'.status = "exception"
      BY <1>10, JsFacts DEF AnswerCompileError, AnswerException, Answer
    <2>2. ts'.line_n = 0 /\ ts'.rt = ts.rt
      BY <2>1, EndFields DEF AtLastLine
    <2> QED
      BY <2>1, <2>2, CommandAnswered DEF AtLastLine
  <1>11. CASE CommandClockFails
    <2>1. AtLastLine /\ ts' = EndOfCommand(ts) /\ reply' = reply /\ ~Running'
      BY <1>11, JsFacts DEF CommandClockFails, HandlerFails, Exit, Running
    <2>2. ts'.line_n = 0 /\ ts'.rt = ts.rt
      BY <2>1, EndFields DEF AtLastLine
    <2> QED
      BY <2>1, <2>2, LastStep DEF AtLastLine
  <1>12. CASE AnswerOk
    <2>1. AtLastLine /\ reply'.status = "ok"
      BY <1>12, JsFacts DEF AnswerOk, Answer
    <2> QED
      BY <1>12, <2>1, AnswerOkState, CommandAnswered DEF AtLastLine
  <1>13. ASSUME NEW usage \in 1 .. MaxUsage, AnswerOkAndReset(usage) \/ ResetFails(usage)
         PROVE  ServiceStep
    <2>1. AtLastLine /\ reply'.status = "ok"
      BY <1>13, JsFacts DEF AnswerOkAndReset, ResetFails, NeedsReset, Answer
    <2>2. ts'.line_n = 0 /\ ts'.rt = ts.rt
      BY <1>13, <2>1, ResetState DEF AnswerOkAndReset, ResetFails
    <2> QED
      BY <2>1, <2>2, CommandAnswered DEF AtLastLine
  <1> QED
    BY <1>1, <1>2, <1>3, <1>4, <1>5, <1>6, <1>7, <1>8, <1>9, <1>10, <1>11, <1>12, <1>13
       DEF Lines, Line1, Line2Query, Line3, QueryFound, QueryDoesNotCompile, QueryCached,
           QueryNotCached

\* The command loop implements the command service that a client relies on: three lines
\* meet one living interpreter and bring one answer.
THEOREM ServesCommands == Spec => ImplementsCommandService
  <1>1. Init => Service!Init
    <2> SUFFICES ASSUME Init
                 PROVE  Service!Init
      OBVIOUS
    <2> DEFINE first == [id |-> 1, intr |-> "ts"]
    <2>1. first \in Runtimes
      BY DEF Runtimes
    <2>2. ts.line_n = 0 /\ ts.rt = first
      BY <2>1, FreshFields DEF Init
    <2> QED
      BY <2>2 DEF Init, Service!Init, NoReply, Running
  <1>2. Inv /\ [Next]_vars => [Service!Next]_Service!vars
    BY LoopServes, LinesServe, BackgroundServes, DestroyServes, EnvironmentServes
       DEF Next, Main, ServiceStep
  <1> QED
    BY <1>1, <1>2, CommandLoop, PTL DEF Spec, ImplementsCommandService, Service!Spec

-----------------------------------------------------------------------------
(***************************************************************************)
(* What a command holds is released                                         *)
(***************************************************************************)

\* Bytecode and cached functions are held only from the second line to the answer.
Released ==
    /\ ~lost /\ pc # "aborted"
    /\ ts.line_n # 2 => ts.dangling_bytecode = FALSE /\ ts.cached_function_in_use = FALSE

\* A step that takes nothing.
LEMMA ReleasedFrame ==
  ASSUME Released, lost' = lost, pc' # "aborted",
         \/ /\ ts'.line_n = ts.line_n \/ (ts.line_n = 0 /\ ts'.line_n = 1)
            /\ ts'.dangling_bytecode = ts.dangling_bytecode
            /\ ts'.cached_function_in_use = ts.cached_function_in_use
         \/ ts'.dangling_bytecode = FALSE /\ ts'.cached_function_in_use = FALSE
  PROVE  Released'
  BY DEF Released

\* The steps outside the handlers of lines.
LEMMA LoopReleases ==
  ASSUME Inv, Released, ~MayFail,
         Loop \/ Background \/ Main \/ Environment \/ Ended \/ UNCHANGED vars
  PROVE  Released'
  <1> USE DEF vars, clientVars, threadVars, replVars
  <1>0. ts \in ThreadStates /\ created \in Nat
    BY DEF Inv, TypeOK
  <1>1. CASE ts' = ts /\ lost' = lost /\ pc' # "aborted"
    BY <1>1, ReleasedFrame
  <1>2. CASE Background \/ JoinThread \/ JoinBg \/ Ended \/ UNCHANGED vars
    <2>1. ts' = ts /\ lost' = lost /\ pc' = pc
      BY <1>2 DEF Background, BgAllocate, BgInit, BgInitFails, BgCleanup, BgFree, BgComplete,
                  JoinThread, JoinBg, Ended
    <2> QED
      BY <1>1, <2>1 DEF Released
  <1>3. CASE Environment
    <2>1. CASE TimePasses
      <3>1. /\ ts'.line_n = ts.line_n /\ ts'.dangling_bytecode = ts.dangling_bytecode
            /\ ts'.cached_function_in_use = ts.cached_function_in_use
            /\ lost' = lost /\ pc' = pc
        BY <1>0, <2>1 DEF TimePasses, ThreadStates
      <3> QED
        BY <3>1, ReleasedFrame DEF Released
    <2>2. CASE ~TimePasses
      <3>1. ts' = ts /\ lost' = lost /\ pc' = pc
        BY <1>3, <2>2 DEF Environment, ClientSend, ClientClose, Interrupt
      <3> QED
        BY <1>1, <3>1 DEF Released
    <2> QED
      BY <2>1, <2>2
  <1>4. CASE DestroyThreadState
    <2>1. /\ ts'.dangling_bytecode = FALSE /\ ts'.cached_function_in_use = FALSE
          /\ lost' = lost /\ pc' = pc
      BY <1>0, <1>4, CleanupFields DEF DestroyThreadState
    <2> QED
      BY <2>1, ReleasedFrame DEF Released
  <1>5. CASE Accept \/ AcceptInterrupted \/ AcceptFails \/ PollTimeout \/ ReadEof \/ ReadFails
    BY <1>1, <1>5 DEF Accept, AcceptInterrupted, AcceptFails, PollTimeout, ReadEof, ReadFails, Exit
  <1>6. CASE Tick
    <2>1. CASE MayShutDown(ts)
      <3>1. /\ ts'.dangling_bytecode = FALSE /\ ts'.cached_function_in_use = FALSE
            /\ lost' = lost /\ pc' # "aborted"
        BY <1>0, <1>6, <2>1, CleanupFields DEF Tick
      <3> QED
        BY <3>1, ReleasedFrame
    <2>2. CASE ~MayShutDown(ts)
      BY <1>1, <1>6, <2>2 DEF Tick
    <2> QED
      BY <2>1, <2>2
  <1>7. CASE PollReady
    <2>1. CASE ts.rt # NULL
      BY <1>1, <1>7, <2>1 DEF PollReady
    <2>2. CASE ts.rt = NULL
      <3>1. rts = "NONE"
        BY <1>7, <2>2 DEF PollReady, Inv, Replacement, Awake
      <3>2. ts' = FreshStruct(NewRuntime("ts")) /\ lost' = lost /\ pc' = "handle"
        BY <1>7, <2>2, <3>1 DEF PollReady
      <3>3. NewRuntime("ts") \in Runtimes
        BY <1>0 DEF NewRuntime, Runtimes
      <3>4. ts'.dangling_bytecode = FALSE /\ ts'.cached_function_in_use = FALSE
        BY <3>2, <3>3, FreshFields
      <3> QED
        BY <3>2, <3>4, ReleasedFrame
    <2> QED
      BY <2>1, <2>2
  <1>8. ~WakeFails /\ ~WakeHalfInitialised
    BY DEF WakeFails, WakeHalfInitialised
  <1> QED
    BY <1>2, <1>3, <1>4, <1>5, <1>6, <1>7, <1>8 DEF Loop, Main

\* The handlers of lines.
LEMMA LinesRelease ==
  ASSUME Inv, Released, "cut" \notin LineKinds, Lines
  PROVE  Released'
  <1>0. ts \in ThreadStates
    BY DEF Inv, TypeOK
  <1>1. ~HandleCut
    <2>1. inbox # <<>> => Head(inbox) \in [kind : LineKinds, field : 0 .. 2]
      <3> DEFINE L == [kind : LineKinds, field : 0 .. 2]
      <3>1. inbox \in Seq(L)
        BY DEF Inv, TypeOK
      <3> HIDE DEF L
      <3>2. inbox # <<>> => Head(inbox) \in L
        BY <3>1
      <3> QED
        BY <3>2 DEF L
    <2> QED
      BY <2>1 DEF HandleCut, Handling
  <1>2. CASE BrokenPipe
    BY <1>2, ReleasedFrame DEF BrokenPipe
  <1>3. CASE HandleQuit \/ HandleStat \/ StartJs
    <2>1. /\ ts'.line_n = ts.line_n /\ ts'.dangling_bytecode = ts.dangling_bytecode
          /\ ts'.cached_function_in_use = ts.cached_function_in_use
          /\ lost' = lost /\ pc' # "aborted"
      <3>1. CASE HandleQuit
        BY <1>0, <3>1 DEF HandleQuit, Exit, ThreadStates
      <3>2. CASE HandleStat
        BY <1>0, <3>2 DEF HandleStat, Consumed, ThreadStates
      <3>3. CASE StartJs
        BY <1>0, <3>3 DEF StartJs, ThreadStates
      <3> QED
        BY <1>3, <3>1, <3>2, <3>3
    <2> QED
      BY <2>1, ReleasedFrame
  <1>4. CASE HandleLine1
    <2>1. /\ ts.line_n = 0 /\ ts'.line_n = 1 /\ ts'.dangling_bytecode = ts.dangling_bytecode
          /\ ts'.cached_function_in_use = ts.cached_function_in_use
          /\ lost' = lost /\ pc' # "aborted"
      BY <1>0, <1>4 DEF HandleLine1, Consumed, ThreadStates
    <2> QED
      BY <2>1, ReleasedFrame
  <1>5. CASE TrampolineLine1 \/ TrampolineFails
    <2>1. /\ Handling({"text"}) /\ ts.line_n = 0 /\ SwapStructs /\ lost' = lost
          /\ pc' # "aborted"
      BY <1>5 DEF TrampolineLine1, TrampolineFails, HandlerFails, Exit, threadVars, Handling
    <2> QED
      BY <2>1, SwapFacts, ReleasedFrame
  <1>6. CASE HandleReset \/ AnswerCompileError \/ AnswerException \/ CommandClockFails
    <2>1. ts' = EndOfCommand(ts) /\ lost' = lost /\ pc' # "aborted"
      BY <1>6 DEF HandleReset, AnswerCompileError, AnswerException, CommandClockFails,
                  EndOfCommand, ReturnStreamIoErr, Consumed, HandlerFails, Exit
    <2> QED
      BY <1>0, <2>1, EndFields, ReleasedFrame
  <1>7. CASE AnswerOk
    <2>1. AtLastLine /\ lost' = lost /\ pc' # "aborted"
      BY <1>7, JsFacts DEF AnswerOk, ReturnStreamIoErr, Consumed, HandlerFails, Exit
    <2> QED
      BY <1>7, <2>1, AnswerOkState, ReleasedFrame
  <1>8. ASSUME NEW usage \in 1 .. MaxUsage, AnswerOkAndReset(usage) \/ ResetFails(usage)
        PROVE  Released'
    <2>1. AtLastLine /\ lost' = lost /\ pc' # "aborted"
      BY <1>8, JsFacts DEF AnswerOkAndReset, ResetFails, NeedsReset, ReturnStreamIoErr, Consumed,
                           HandlerFails, Exit
    <2>2. ts'.dangling_bytecode = FALSE /\ ts'.cached_function_in_use = FALSE
      BY <1>8, <2>1, ResetState DEF AnswerOkAndReset, ResetFails
    <2> QED
      BY <2>1, <2>2, ReleasedFrame
  <1>9. CASE Line2Query
    <2>1. ts.line_n = 1
      BY <1>9 DEF Line2Query, QueryFound, QueryDoesNotCompile, QueryCached, QueryNotCached,
                  DanglingAssertFails, Line2
    <2>2. ~ts.dangling_bytecode /\ ~ts.cached_function_in_use /\ ~lost
      BY <2>1 DEF Released
    <2>3. ~DanglingAssertFails
      BY <2>2 DEF DanglingAssertFails
    <2>4. /\ \E query, cached, dangling : Line2(query, cached, dangling)
          /\ ~lost'
      <3>1. CASE QueryFound
        BY <2>2, <3>1 DEF QueryFound
      <3>2. CASE QueryDoesNotCompile
        BY <2>2, <3>2 DEF QueryDoesNotCompile
      <3>3. CASE QueryCached
        BY <2>2, <3>3 DEF QueryCached
      <3>4. CASE QueryNotCached
        BY <2>2, <3>4 DEF QueryNotCached
      <3> QED
        BY <1>9, <2>3, <3>1, <3>2, <3>3, <3>4 DEF Line2Query
    <2>5. ts'.line_n = 2 /\ pc' # "aborted"
      BY <1>0, <2>4 DEF Line2, Consumed, ThreadStates
    <2> QED
      BY <2>4, <2>5 DEF Released
  <1> QED
    BY <1>1, <1>2, <1>3, <1>4, <1>5, <1>6, <1>7, <1>8, <1>9 DEF Lines, Line1, Line3

\* As long as no line is cut and no system call fails, no assertion of the command loop
\* fails, no reference is lost, and nothing is held between two commands.
THEOREM NothingHeldBetweenCommands ==
  ASSUME "cut" \notin LineKinds, ~MayFail
  PROVE  Spec => []CommandStateReleased
  <1>1. Init => Released
    <2> SUFFICES ASSUME Init
                 PROVE  Released
      OBVIOUS
    <2> DEFINE first == [id |-> 1, intr |-> "ts"]
    <2>1. first \in Runtimes
      BY DEF Runtimes
    <2>2. ts.dangling_bytecode = FALSE /\ ts.cached_function_in_use = FALSE
      BY <2>1, FreshFields DEF Init
    <2> QED
      BY <2>2 DEF Init, Released
  <1>2. Inv /\ Released /\ [Next]_vars => Released'
    BY LoopReleases, LinesRelease DEF Next
  <1>3. Inv /\ Released => CommandStateReleased
    BY DEF Inv, Command, Released, CommandStateReleased
  <1> QED
    BY <1>1, <1>2, <1>3, CommandLoop, PTL DEF Spec
=============================================================================
