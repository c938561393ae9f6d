------------------------- MODULE PythonClientProofs --------------------------
(***************************************************************************)
(* Proofs about PythonClient, for every number of callers, connections,     *)
(* commands and processes and every budget: how often the server is         *)
(* restarted, and that the queues callers see are served.                   *)
(***************************************************************************)
EXTENDS PythonClient, FiniteSetTheorems, TLAPS

USE NConnsAssumption, MaxRestartsAssumption, BoundsAssumption

-----------------------------------------------------------------------------
(***************************************************************************)
(* The inductive invariant                                                  *)
(***************************************************************************)

ReaperLabels ==
    {"construct", "failed", "wait", "budget", "start", "ready", "dial", "process", "queues",
     "workers", "done"}

Working == {"loop", "get", "read", "message"}

Clients ==
    [process : Gens, queues : Gens \cup {None}, fatal : BOOLEAN, quit : BOOLEAN,
     restart_count : Nat, last_restart_time : Nat]

Reapers == [pc : ReaperLabels, proc : Gens]
Handlers == [pc : Working \cup {"none", "gone", "raised"}, cmd : Nat]
CallerStates == [pc : {"idle", "put", "get"}, cmd : Nat]

\* The variables that the client's threads work on.
TypeOK ==
    /\ c \in Clients
    /\ queue \in [Links -> Seq(Nat)]
    /\ handler \in [Links -> Handlers]
    /\ caller \in [Callers -> CallerStates]
    /\ reaper \in Reapers
    /\ nextCmd \in Nat /\ now \in Nat \ {0} /\ restarts \in Seq(Nat)

\* How far _reaper is in replacing the process and the queues.
Replacing ==
    /\ reaper.pc = "construct" => reaper.proc = 1
    /\ reaper.pc = "start" => reaper.proc < MaxGens
    /\ reaper.pc \in {"construct", "queues", "workers", "wait"} => c.process = reaper.proc
    /\ reaper.pc \in {"workers", "wait"} => c.queues = reaper.proc

\* Only close puts None into a queue.
NoneMeansQuit ==
    /\ ~c.quit => \A l \in Links : \A j \in 1 .. Len(queue[l]) : queue[l][j] # None
    /\ \A k \in Callers : caller[k].pc = "put" => caller[k].cmd # None

\* No handler of the current connections has returned without an error, but for those
\* that could not encode a command.
HandlersWork ==
    reaper.pc = "wait" /\ ~c.fatal /\ ~c.quit =>
        \A n \in Conns : handler[<<reaper.proc, n>>].pc \in Working \cup {"raised"}

\* restart_count and last_restart_time are the number and the time of the restarts, and
\* when the budget is used up there is a minute before each restart.
Budgeted ==
    /\ c.restart_count = Len(restarts)
    /\ c.last_restart_time = IF restarts = <<>> THEN 0 ELSE restarts[Len(restarts)]
    /\ restarts # <<>> => MaxRestarts > 0
    /\ \A i \in 1 .. Len(restarts) : restarts[i] \in 1 .. now
    /\ \A i, j \in 1 .. Len(restarts) : i < j =>
           /\ restarts[i] <= restarts[j]
           /\ j > MaxRestarts => restarts[j] - restarts[i] >= 2

Inv == TypeOK /\ Replacing /\ NoneMeansQuit /\ HandlersWork /\ Budgeted

-----------------------------------------------------------------------------
(***************************************************************************)
(* Records                                                                  *)
(***************************************************************************)

\* fatal_error and quit_event are set together, and nothing else.
LEMMA ClientFlags ==
  ASSUME NEW x \in Clients
  PROVE  \A fatal, quit \in BOOLEAN :
             LET y == [x EXCEPT !.fatal = fatal, !.quit = quit] IN
             /\ y \in Clients /\ y.fatal = fatal /\ y.quit = quit
             /\ y.process = x.process /\ y.queues = x.queues
             /\ y.restart_count = x.restart_count /\ y.last_restart_time = x.last_restart_time
  BY DEF Clients

\* The same of fatal_error alone.
LEMMA ClientFatal ==
  ASSUME NEW x \in Clients
  PROVE  \A fatal \in BOOLEAN :
             LET y == [x EXCEPT !.fatal = fatal] IN
             /\ y \in Clients /\ y.fatal = fatal /\ y.quit = x.quit
             /\ y.process = x.process /\ y.queues = x.queues
             /\ y.restart_count = x.restart_count /\ y.last_restart_time = x.last_restart_time
  BY DEF Clients

\* The same of quit_event alone.
LEMMA ClientQuit ==
  ASSUME NEW x \in Clients
  PROVE  \A quit \in BOOLEAN :
             LET y == [x EXCEPT !.quit = quit] IN
             /\ y \in Clients /\ y.fatal = x.fatal /\ y.quit = quit
             /\ y.process = x.process /\ y.queues = x.queues
             /\ y.restart_count = x.restart_count /\ y.last_restart_time = x.last_restart_time
  BY DEF Clients

\* The process or the queues are replaced.
LEMMA ClientGen ==
  ASSUME NEW x \in Clients, NEW g \in Gens
  PROVE  /\ LET y == [x EXCEPT !.process = g] IN
            /\ y \in Clients /\ y.process = g /\ y.queues = x.queues
            /\ y.fatal = x.fatal /\ y.quit = x.quit
            /\ y.restart_count = x.restart_count /\ y.last_restart_time = x.last_restart_time
         /\ LET y == [x EXCEPT !.queues = g] IN
            /\ y \in Clients /\ y.process = x.process /\ y.queues = g
            /\ y.fatal = x.fatal /\ y.quit = x.quit
            /\ y.restart_count = x.restart_count /\ y.last_restart_time = x.last_restart_time
  BY DEF Clients

\* _reaper goes on with its process.
LEMMA ReaperMoves ==
  ASSUME NEW x \in Reapers, NEW label \in ReaperLabels
  PROVE  LET y == [x EXCEPT !.pc = label] IN
         y \in Reapers /\ y.pc = label /\ y.proc = x.proc
  BY DEF Reapers

-----------------------------------------------------------------------------
(***************************************************************************)
(* Every step keeps the invariant                                           *)
(***************************************************************************)

\* The constructor has started the first process.
LEMMA InitInv == Init => Inv
  <1> SUFFICES ASSUME Init PROVE Inv
    OBVIOUS
  <1>1. 1 \in Gens /\ 0 \in Nat /\ FALSE \in BOOLEAN
    BY DEF Gens
  <1>2. c \in Clients
    BY <1>1, Zenon DEF Init, Clients, None
  <1>3. reaper \in Reapers
    BY <1>1 DEF Init, Reapers, ReaperLabels
  <1>4. handler \in [Links -> Handlers]
    BY DEF Init, Handlers, None
  <1>5. caller \in [Callers -> CallerStates]
    BY DEF Init, CallerStates, None
  <1>6. queue \in [Links -> Seq(Nat)] /\ restarts \in Seq(Nat)
    BY DEF Init
  <1>7. Replacing /\ NoneMeansQuit /\ HandlersWork /\ Budgeted
    BY DEF Init, Replacing, NoneMeansQuit, HandlersWork, Budgeted
  <1> QED
    BY <1>2, <1>3, <1>4, <1>5, <1>6, <1>7 DEF Init, Inv, TypeOK

\* No flag of the client is ever reset.
Kept == (c.fatal => c'.fatal) /\ (c.quit => c'.quit)

\* What each part of the invariant depends on.
LEMMA Frame ==
  ASSUME Inv, Kept
  PROVE  /\ reaper' = reaper /\ c'.process = c.process /\ c'.queues = c.queues => Replacing'
         /\ queue' = queue /\ caller' = caller => NoneMeansQuit'
         /\ reaper' = reaper /\ handler' = handler => HandlersWork'
         /\ /\ restarts' = restarts /\ now' = now /\ c'.restart_count = c.restart_count
            /\ c'.last_restart_time = c.last_restart_time
            => Budgeted'
  <1>1. reaper' = reaper /\ c'.process = c.process /\ c'.queues = c.queues => Replacing'
    BY DEF Inv, Replacing
  <1>2. queue' = queue /\ caller' = caller => NoneMeansQuit'
    BY DEF Inv, NoneMeansQuit, Kept
  <1>3. reaper' = reaper /\ handler' = handler => HandlersWork'
    BY DEF Inv, HandlersWork, Kept
  <1>4. /\ restarts' = restarts /\ now' = now /\ c'.restart_count = c.restart_count
        /\ c'.last_restart_time = c.last_restart_time
        => Budgeted'
    BY DEF Inv, Budgeted
  <1> QED
    BY <1>1, <1>2, <1>3, <1>4

\* The servers, and close once it has begun, touch nothing of this.
LEMMA OutsideInv ==
  ASSUME Inv, UNCHANGED <<c, queue, handler, caller, reaper, nextCmd, now, restarts>>
  PROVE  Inv'
  <1>1. TypeOK'
    BY DEF Inv, TypeOK
  <1> QED
    BY <1>1, Frame DEF Inv, Kept

\* The constructor.
LEMMA ConstructInv ==
  ASSUME Inv, Construct \/ ConstructFails
  PROVE  Inv'
  <1>0. c \in Clients /\ reaper \in Reapers /\ 1 \in Gens
    BY DEF Inv, TypeOK, Gens
  <1>1. CASE Construct
    <2>1. /\ reaper.pc = "construct" /\ c' = [c EXCEPT !.queues = 1]
          /\ handler' = [l \in Links |-> IF l[1] = 1 THEN [pc |-> "loop", cmd |-> None] ELSE handler[l]]
          /\ reaper' = [reaper EXCEPT !.pc = "wait"]
          /\ UNCHANGED <<queue, caller, nextCmd, now, restarts>>
      BY <1>1 DEF Construct, ReaperAt, StartWorkers
    <2>2. /\ c' \in Clients /\ c'.process = c.process /\ c'.queues = 1
          /\ c'.fatal = c.fatal /\ c'.quit = c.quit
          /\ c'.restart_count = c.restart_count /\ c'.last_restart_time = c.last_restart_time
      BY <1>0, <2>1, ClientGen
    <2>3. reaper' \in Reapers /\ reaper'.pc = "wait" /\ reaper'.proc = 1 /\ c.process = 1
      BY <1>0, <2>1, ReaperMoves DEF Inv, Replacing, ReaperLabels
    <2>4. handler' \in [Links -> Handlers]
      BY <2>1 DEF Inv, TypeOK, Handlers, Working, None
    <2>5. TypeOK'
      BY <2>1, <2>2, <2>3, <2>4 DEF Inv, TypeOK
    <2>6. Replacing'
      BY <2>2, <2>3 DEF Replacing
    <2>7. HandlersWork'
      <3>1. \A n \in Conns : <<1, n>> \in Links
        BY <1>0 DEF Links
      <3> QED
        BY <2>1, <2>3, <3>1 DEF HandlersWork, Working
    <2> QED
      BY <2>1, <2>2, <2>5, <2>6, <2>7, Frame DEF Inv, Kept
  <1>2. CASE ConstructFails
    <2>1. /\ reaper' = [reaper EXCEPT !.pc = "failed"]
          /\ UNCHANGED <<c, handler, queue, caller, nextCmd, now, restarts>>
      BY <1>2 DEF ConstructFails
    <2>2. reaper' \in Reapers /\ reaper'.pc = "failed"
      BY <1>0, <2>1, ReaperMoves DEF ReaperLabels
    <2>3. TypeOK' /\ Replacing' /\ HandlersWork'
      BY <2>1, <2>2 DEF Inv, TypeOK, Replacing, HandlersWork
    <2> QED
      BY <2>1, <2>3, Frame DEF Inv, Kept
  <1> QED
    BY <1>1, <1>2

\* send_raw_command.
LEMMA CallerInv ==
  ASSUME Inv, NEW k \in Callers, BeginCommand(k) \/ PutCommand(k) \/ CallerTimesOut(k)
  PROVE  Inv'
  <1>0. /\ UNCHANGED <<c, handler, reaper, now, restarts>> /\ Kept
        /\ caller[k] \in CallerStates /\ caller[k].cmd \in Nat
    BY DEF BeginCommand, PutCommand, CallerTimesOut, Kept, Inv, TypeOK, CallerStates
  <1>1. CASE BeginCommand(k)
    <2>1. /\ caller' = [caller EXCEPT ![k] = [pc |-> "put", cmd |-> nextCmd + 1]]
          /\ nextCmd' = nextCmd + 1 /\ queue' = queue /\ nextCmd \in Nat
      BY <1>1 DEF BeginCommand, CallerGoes, Inv, TypeOK
    <2>2. [pc |-> "put", cmd |-> nextCmd + 1] \in CallerStates /\ nextCmd + 1 # None
      BY <2>1 DEF CallerStates, None
    <2>3. TypeOK'
      BY <1>0, <2>1, <2>2 DEF Inv, TypeOK
    <2>4. NoneMeansQuit'
      BY <1>0, <2>1, <2>2 DEF Inv, TypeOK, NoneMeansQuit
    <2> QED
      BY <1>0, <2>3, <2>4, Frame DEF Inv
  <1>2. CASE PutCommand(k)
    <2>1. PICK n \in Conns :
              queue' = [queue EXCEPT ![<<c.queues, n>>] = Append(@, caller[k].cmd)]
      BY <1>2 DEF PutCommand
    <2>2. /\ caller[k].pc = "put" /\ caller' = [caller EXCEPT ![k] = [pc |-> "get", cmd |-> caller[k].cmd]]
          /\ nextCmd' = nextCmd
      BY <1>2 DEF PutCommand, CallerGoes
    <2>3. [pc |-> "get", cmd |-> caller[k].cmd] \in CallerStates /\ caller[k].cmd # None
      BY <1>0, <2>2 DEF CallerStates, Inv, NoneMeansQuit
    <2>4. queue' \in [Links -> Seq(Nat)]
      <3>1. queue \in [Links -> Seq(Nat)]
        BY DEF Inv, TypeOK
      <3>2. \A l \in Links : Append(queue[l], caller[k].cmd) \in Seq(Nat)
        BY <1>0, <3>1
      <3> QED
        BY <2>1, <3>1, <3>2
    <2>5. TypeOK'
      BY <1>0, <2>2, <2>3, <2>4 DEF Inv, TypeOK
    <2>6. ASSUME ~c'.quit, NEW l \in Links, NEW j \in 1 .. Len(queue'[l])
          PROVE  queue'[l][j] # None
      <3>1. queue[l] \in Seq(Nat) /\ \A i \in 1 .. Len(queue[l]) : queue[l][i] # None
        BY <1>0, <2>6 DEF Inv, TypeOK, NoneMeansQuit
      <3>2. queue'[l] \in {queue[l], Append(queue[l], caller[k].cmd)}
        BY <2>1 DEF Inv, TypeOK
      <3>3. CASE queue'[l] = queue[l]
        BY <2>6, <3>1, <3>3
      <3>4. CASE queue'[l] = Append(queue[l], caller[k].cmd)
        BY <1>0, <2>3, <2>6, <3>1, <3>4
      <3> QED
        BY <3>2, <3>3, <3>4
    <2>7. NoneMeansQuit'
      BY <2>2, <2>3, <2>6 DEF Inv, TypeOK, NoneMeansQuit
    <2> QED
      BY <1>0, <2>5, <2>7, Frame DEF Inv
  <1>3. CASE CallerTimesOut(k)
    <2>1. /\ caller' = [caller EXCEPT ![k] = [pc |-> "idle", cmd |-> None]]
          /\ nextCmd' = nextCmd /\ queue' = queue
      BY <1>3 DEF CallerTimesOut, CallerGoes
    <2>2. [pc |-> "idle", cmd |-> None] \in CallerStates
      BY DEF CallerStates, None
    <2>3. TypeOK' /\ NoneMeansQuit'
      BY <1>0, <2>1, <2>2 DEF Inv, TypeOK, NoneMeansQuit
    <2> QED
      BY <1>0, <2>3, Frame DEF Inv
  <1> QED
    BY <1>1, <1>2, <1>3

\* A step of _conn_handler; it returns only after an error or the end, and raises.
LEMMA HandlerStep ==
  ASSUME Inv, NEW l \in Links, NEW label \in Working \cup {"gone", "raised"}, NEW cmd \in Nat,
         HandlerGoes(l, label, cmd), label = "gone" => c'.fatal \/ c'.quit,
         c' \in Clients, Kept, c'.process = c.process, c'.queues = c.queues,
         c'.restart_count = c.restart_count, c'.last_restart_time = c.last_restart_time,
         UNCHANGED <<reaper, nextCmd, now, restarts>>,
         queue' \in [Links -> Seq(Nat)], caller' \in [Callers -> CallerStates], NoneMeansQuit'
  PROVE  Inv'
  <1>1. handler' = [handler EXCEPT ![l] = [pc |-> label, cmd |-> cmd]]
    BY DEF HandlerGoes
  <1>2. handler' \in [Links -> Handlers]
    BY <1>1 DEF Inv, TypeOK, Handlers
  <1>3. TypeOK'
    BY <1>2 DEF Inv, TypeOK
  <1>4. HandlersWork'
    <2>1. SUFFICES ASSUME reaper'.pc = "wait", ~c'.fatal, ~c'.quit, NEW n \in Conns
                   PROVE  handler'[<<reaper'.proc, n>>].pc \in Working \cup {"raised"}
      BY DEF HandlersWork
    <2>2. <<reaper.proc, n>> \in Links
      BY DEF Inv, TypeOK, Reapers, Links
    <2>3. handler[<<reaper.proc, n>>].pc \in Working \cup {"raised"}
      BY <2>1 DEF Inv, HandlersWork, Kept
    <2> QED
      BY <1>1, <2>1, <2>2, <2>3 DEF Inv, TypeOK
  <1> QED
    BY <1>3, <1>4, Frame DEF Inv

\* _conn_handler.
LEMMA HandlerInv ==
  ASSUME Inv, NEW l \in Links,
         Handler(l) \/ ReadResponse(l) \/ ReadFails(l) \/ ReadMessage(l) \/ AnswerMessage(l)
  PROVE  Inv'
  <1>0. /\ c \in Clients /\ None \in Nat /\ handler[l].cmd \in Nat
        /\ queue[l] \in Seq(Nat) /\ queue \in [Links -> Seq(Nat)]
        /\ caller \in [Callers -> CallerStates]
    BY DEF Inv, TypeOK, Handlers, None
  <1>1. ASSUME NEW label \in Working \cup {"gone"}, NEW cmd \in Nat, HandlerGoes(l, label, cmd),
               label = "gone" => c.quit, UNCHANGED <<c, queue, caller>>, HandlerUnchanged
        PROVE  Inv'
    <2>1. NoneMeansQuit' /\ Kept
      BY <1>1, Frame DEF Kept
    <2> QED
      BY <1>0, <1>1, <2>1, HandlerStep DEF HandlerUnchanged
  <1>2. ASSUME HandlerFails(l), queue' \in [Links -> Seq(Nat)],
               ~c.quit => \A m \in Links : \A j \in 1 .. Len(queue'[m]) : queue'[m][j] # None
        PROVE  Inv'
    <2>1. c' = [c EXCEPT !.fatal = TRUE] /\ HandlerGoes(l, "gone", None) /\ caller' = caller
      BY <1>2 DEF HandlerFails
    <2>2. /\ c' \in Clients /\ c'.fatal = TRUE /\ c'.quit = c.quit
          /\ c'.process = c.process /\ c'.queues = c.queues
          /\ c'.restart_count = c.restart_count /\ c'.last_restart_time = c.last_restart_time
      <3>1. TRUE \in BOOLEAN
        OBVIOUS
      <3> QED
        BY <1>0, <2>1, <3>1, ClientFatal, Zenon
    <2>3. NoneMeansQuit'
      BY <1>2, <2>1, <2>2 DEF Inv, NoneMeansQuit
    <2> QED
      BY <1>0, <1>2, <2>1, <2>2, <2>3, HandlerStep DEF HandlerFails, HandlerUnchanged, Kept
  <1>3. ASSUME HandlerFails(l), UNCHANGED queue PROVE Inv'
    BY <1>0, <1>2, <1>3 DEF Inv, NoneMeansQuit
  <1>4. CASE TestQuit(l)
    BY <1>0, <1>1, <1>4 DEF TestQuit, Working
  <1>5. CASE GetNothing(l)
    <2>1. CASE HandlerGoes(l, "loop", None)
      BY <1>0, <1>1, <1>5, <2>1 DEF GetNothing, Working
    <2>2. CASE queue[l] # <<>> /\ Head(queue[l]) = None /\ HandlerGoes(l, "gone", None)
      <3>1. 1 \in 1 .. Len(queue[l]) /\ queue[l][1] = None
        BY <1>0, <2>2
      <3>2. c.quit
        BY <3>1 DEF Inv, NoneMeansQuit
      <3> QED
        BY <1>0, <1>1, <1>5, <2>2, <3>2 DEF GetNothing
    <2> QED
      BY <1>5, <2>1, <2>2 DEF GetNothing
  <1>6. CASE TakeCommand(l) \/ EncodeFails(l)
    <2>1. queue[l] # <<>> /\ queue' = [queue EXCEPT ![l] = Tail(@)]
      BY <1>6 DEF TakeCommand, EncodeFails
    <2>2. /\ Head(queue[l]) \in Nat /\ Tail(queue[l]) \in Seq(Nat)
          /\ Len(Tail(queue[l])) = Len(queue[l]) - 1
          /\ \A j \in 1 .. Len(Tail(queue[l])) : Tail(queue[l])[j] = queue[l][j + 1]
      BY <1>0, <2>1
    <2>3. queue' \in [Links -> Seq(Nat)]
      BY <1>0, <2>1, <2>2
    <2>4. ASSUME ~c.quit, NEW m \in Links, NEW j \in 1 .. Len(queue'[m])
          PROVE  queue'[m][j] # None
      <3>1. \A i \in 1 .. Len(queue[m]) : queue[m][i] # None
        BY <2>4 DEF Inv, NoneMeansQuit
      <3>2. CASE m = l
        <4>1. queue'[m] = Tail(queue[l]) /\ Len(queue[l]) \in Nat
          BY <1>0, <2>1, <3>2
        <4>2. j + 1 \in 1 .. Len(queue[l])
          BY <2>2, <2>4, <4>1
        <4> QED
          BY <2>2, <2>4, <3>1, <3>2, <4>1, <4>2
      <3>3. CASE m # l
        BY <1>0, <2>1, <2>4, <3>1, <3>3
      <3> QED
        BY <3>2, <3>3
    <2>5. CASE HandlerFails(l)
      BY <1>2, <2>3, <2>4, <2>5
    <2>6. CASE /\ HandlerGoes(l, "read", Head(queue[l])) \/ HandlerGoes(l, "raised", None)
               /\ UNCHANGED <<c, caller>> /\ HandlerUnchanged
      <3>1. NoneMeansQuit'
        BY <2>4, <2>6 DEF Inv, NoneMeansQuit
      <3> QED
        BY <1>0, <2>2, <2>3, <2>6, <3>1, HandlerStep DEF HandlerUnchanged, Kept, Working
    <2> QED
      BY <1>6, <2>5, <2>6 DEF TakeCommand, EncodeFails
  <1>7. CASE ReadFails(l) \/ AnswerMessageFails(l)
    BY <1>3, <1>7 DEF ReadFails, AnswerMessageFails
  <1>8. CASE ReadMessage(l)
    BY <1>0, <1>1, <1>8 DEF ReadMessage, Working
  <1>9. CASE AnswerMessage(l)
    BY <1>0, <1>1, <1>9 DEF AnswerMessage, Working
  <1>10. CASE ReadResponse(l)
    <2>1. /\ caller' = [k \in Callers |-> IF caller[k] = [pc |-> "get", cmd |-> handler[l].cmd]
                                          THEN [pc |-> "idle", cmd |-> None] ELSE caller[k]]
          /\ HandlerGoes(l, "loop", None) /\ UNCHANGED <<c, queue>> /\ HandlerUnchanged
      BY <1>10 DEF ReadResponse
    <2>2. [pc |-> "idle", cmd |-> None] \in CallerStates
      BY DEF CallerStates, None
    <2>3. caller' \in [Callers -> CallerStates]
      BY <1>0, <2>1, <2>2
    <2>4. NoneMeansQuit'
      BY <1>0, <2>1 DEF Inv, NoneMeansQuit
    <2> QED
      BY <1>0, <2>1, <2>3, <2>4, HandlerStep DEF HandlerUnchanged, Kept, Working
  <1> QED
    BY <1>4, <1>5, <1>6, <1>7, <1>8, <1>9, <1>10 DEF Handler

\* A restart is within the budget: when it is used up, at least one minute (two units of
\* time) has passed since the last restart.
LEMMA WithinBudget ==
  ASSUME Inv, NEW at \in Nat, at >= now, effective_count(at) < MaxRestarts,
         Len(restarts) >= MaxRestarts
  PROVE  restarts # <<>> /\ at - restarts[Len(restarts)] >= 2
  <1> DEFINE passed == IF c.last_restart_time > 0 THEN (at - c.last_restart_time) \div 2 ELSE 0
  <1>1. c.restart_count - passed * MaxRestarts < MaxRestarts
    BY DEF effective_count
  <1>2. c.restart_count = Len(restarts) /\ Len(restarts) \in Nat
    BY DEF Inv, TypeOK, Budgeted
  <1>3. c.last_restart_time \in Nat /\ now \in Nat
    BY DEF Inv, TypeOK, Clients
  <1>4. passed # 0
    <2>1. SUFFICES ASSUME passed = 0 PROVE FALSE
      OBVIOUS
    <2>2. passed * MaxRestarts = 0
      BY <2>1
    <2> HIDE DEF passed
    <2> QED
      BY <1>1, <1>2, <2>2
  <1>5. c.last_restart_time > 0 /\ (at - c.last_restart_time) \div 2 # 0
    BY <1>4
  <1>6. restarts # <<>> /\ c.last_restart_time = restarts[Len(restarts)]
    BY <1>5 DEF Inv, Budgeted
  <1>7. c.last_restart_time <= at
    <2>1. Len(restarts) \in 1 .. Len(restarts)
      BY <1>2, <1>6 DEF Inv, TypeOK
    <2>2. restarts[Len(restarts)] \in 1 .. now
      BY <2>1 DEF Inv, Budgeted
    <2> QED
      BY <1>3, <1>6, <2>2
  <1>8. at - c.last_restart_time >= 2
    BY <1>3, <1>5, <1>7
  <1> QED
    BY <1>6, <1>8

\* Budget decides on a restart.
LEMMA BudgetInv ==
  ASSUME Inv, Budget
  PROVE  Inv'
  <1>0. /\ c \in Clients /\ reaper \in Reapers /\ now \in Nat \ {0} /\ restarts \in Seq(Nat)
        /\ c.restart_count \in Nat /\ Len(restarts) \in Nat
    BY DEF Inv, TypeOK, Clients
  <1>1. PICK pause \in 0 .. MaxPause :
            /\ now' = now + pause
            /\ \/ GiveUp /\ UNCHANGED restarts
               \/ /\ effective_count(now') < MaxRestarts /\ reaper.proc < MaxGens
                  /\ c' = [c EXCEPT !.restart_count = @ + 1, !.last_restart_time = now']
                  /\ restarts' = Append(restarts, now')
                  /\ ReaperGoes("start")
    BY DEF Budget
  <1>2. now' \in Nat \ {0} /\ now' >= now
    BY <1>0, <1>1
  <1>3. UNCHANGED <<handler, queue, caller, nextCmd>>
    BY DEF Budget, ReaperUnchanged
  <1>4. CASE GiveUp /\ UNCHANGED restarts
    <2>1. /\ c' \in Clients /\ c'.fatal = TRUE /\ c'.quit = TRUE
          /\ c'.process = c.process /\ c'.queues = c.queues
          /\ c'.restart_count = c.restart_count /\ c'.last_restart_time = c.last_restart_time
      <3>1. TRUE \in BOOLEAN /\ c' = [c EXCEPT !.fatal = TRUE, !.quit = TRUE]
        BY <1>4 DEF GiveUp
      <3> QED
        BY <1>0, <3>1, ClientFlags, Zenon
    <2>2. reaper' \in Reapers /\ reaper'.pc = "done"
      BY <1>0, <1>4, ReaperMoves DEF GiveUp, ReaperGoes, ReaperLabels
    <2>3. TypeOK'
      BY <1>2, <1>3, <1>4, <2>1, <2>2 DEF Inv, TypeOK
    <2>4. Replacing' /\ HandlersWork'
      BY <2>2 DEF Replacing, HandlersWork
    <2>5. Budgeted'
      BY <1>0, <1>2, <1>4, <2>1 DEF Inv, Budgeted
    <2> QED
      BY <1>3, <2>1, <2>3, <2>4, <2>5, Frame DEF Inv, Kept
  <1>5. CASE /\ effective_count(now') < MaxRestarts /\ reaper.proc < MaxGens
             /\ c' = [c EXCEPT !.restart_count = @ + 1, !.last_restart_time = now']
             /\ restarts' = Append(restarts, now') /\ ReaperGoes("start")
    <2>1. /\ c' \in Clients /\ c'.process = c.process /\ c'.queues = c.queues
          /\ c'.fatal = c.fatal /\ c'.quit = c.quit
          /\ c'.restart_count = c.restart_count + 1 /\ c'.last_restart_time = now'
      <3>1. c' = [c EXCEPT !.restart_count = c.restart_count + 1, !.last_restart_time = now']
        BY <1>5
      <3>2. c.restart_count + 1 \in Nat /\ now' \in Nat
        BY <1>0, <1>2
      <3>3. PICK n \in Nat, t \in Nat : n = c.restart_count + 1 /\ t = now'
        BY <3>2
      <3>4. c' = [c EXCEPT !.restart_count = n, !.last_restart_time = t]
        BY <3>1, <3>3
      <3>5. /\ c' \in Clients /\ c'.process = c.process /\ c'.queues = c.queues
            /\ c'.fatal = c.fatal /\ c'.quit = c.quit
            /\ c'.restart_count = n /\ c'.last_restart_time = t
        BY <1>0, <3>4 DEF Clients
      <3> QED
        BY <3>3, <3>5
    <2>2. reaper' \in Reapers /\ reaper'.pc = "start" /\ reaper'.proc = reaper.proc
      BY <1>0, <1>5, ReaperMoves DEF ReaperGoes, ReaperLabels
    <2>3. /\ restarts' \in Seq(Nat) /\ Len(restarts') = Len(restarts) + 1
          /\ restarts'[Len(restarts) + 1] = now'
          /\ \A i \in 1 .. Len(restarts) : restarts'[i] = restarts[i]
      BY <1>0, <1>2, <1>5
    <2>4. TypeOK'
      BY <1>2, <1>3, <2>1, <2>2, <2>3 DEF Inv, TypeOK
    <2>5. Replacing' /\ HandlersWork'
      BY <1>5, <2>2 DEF Replacing, HandlersWork
    <2>6. \A i \in 1 .. Len(restarts) :
              /\ restarts[i] \in 1 .. now /\ restarts[i] <= now'
              /\ Len(restarts) + 1 > MaxRestarts => now' - restarts[i] >= 2
      <3>1. SUFFICES ASSUME NEW i \in 1 .. Len(restarts)
                     PROVE  /\ restarts[i] \in 1 .. now /\ restarts[i] <= now'
                            /\ Len(restarts) + 1 > MaxRestarts => now' - restarts[i] >= 2
        OBVIOUS
      <3>2. restarts[i] \in 1 .. now
        BY DEF Inv, Budgeted
      <3>3. restarts[i] <= restarts[Len(restarts)] /\ restarts[Len(restarts)] \in Nat
        BY <1>0 DEF Inv, Budgeted
      <3>4. Len(restarts) + 1 > MaxRestarts => now' - restarts[Len(restarts)] >= 2
        BY <1>0, <1>2, <1>5, WithinBudget
      <3> QED
        BY <1>0, <1>2, <3>2, <3>3, <3>4
    <2>7. Budgeted'
      <3>1. c'.restart_count = Len(restarts')
        BY <2>1, <2>3 DEF Inv, Budgeted
      <3>2. c'.last_restart_time = restarts'[Len(restarts')] /\ restarts' # <<>>
        BY <1>0, <2>1, <2>3
      <3>3. \A i \in 1 .. Len(restarts') : restarts'[i] \in 1 .. now'
        <4>1. ASSUME NEW i \in 1 .. Len(restarts') PROVE restarts'[i] \in 1 .. now'
          <5>1. CASE i = Len(restarts) + 1
            BY <1>2, <2>3, <5>1
          <5>2. CASE i \in 1 .. Len(restarts)
            BY <1>0, <1>2, <2>3, <2>6, <5>2
          <5>3. i \in 1 .. Len(restarts) \/ i = Len(restarts) + 1
            BY <1>0, <2>3
          <5> QED
            BY <5>1, <5>2, <5>3
        <4> QED
          BY <4>1
      <3>4. ASSUME NEW i \in 1 .. Len(restarts'), NEW j \in 1 .. Len(restarts'), i < j
            PROVE  /\ restarts'[i] <= restarts'[j]
                   /\ j > MaxRestarts => restarts'[j] - restarts'[i] >= 2
        <4>1. i \in 1 .. Len(restarts) /\ restarts'[i] = restarts[i]
          BY <1>0, <2>3, <3>4
        <4>2. CASE j = Len(restarts) + 1
          BY <2>3, <2>6, <4>1, <4>2
        <4>3. CASE j \in 1 .. Len(restarts)
          BY <2>3, <3>4, <4>1, <4>3 DEF Inv, Budgeted
        <4>4. j \in 1 .. Len(restarts) \/ j = Len(restarts) + 1
          BY <1>0, <2>3
        <4> QED
          BY <4>2, <4>3, <4>4
      <3>5. MaxRestarts > 0
        BY <1>0, <1>2, <1>5, WithinBudget DEF Inv, Budgeted
      <3> QED
        BY <3>1, <3>2, <3>3, <3>4, <3>5 DEF Budgeted
    <2> QED
      BY <1>3, <2>1, <2>4, <2>5, <2>7, Frame DEF Inv, Kept
  <1> QED
    BY <1>1, <1>4, <1>5

\* The other steps of _reaper.
LEMMA ReaperInv ==
  ASSUME Inv, Reaper
  PROVE  Inv'
  <1>0. c \in Clients /\ reaper \in Reapers /\ reaper.proc \in Gens /\ TRUE \in BOOLEAN
    BY DEF Inv, TypeOK, Reapers
  \* It gives up, or leaves the client alone and does not begin to wait.
  <1>1. ASSUME NEW label \in ReaperLabels, ReaperGoes(label), label \notin {"construct", "start", "wait"},
               c' \in Clients, Kept, c'.restart_count = c.restart_count,
               c'.last_restart_time = c.last_restart_time,
               label \in {"queues", "workers"} => c'.process = reaper.proc,
               label = "workers" => c'.queues = reaper.proc,
               UNCHANGED <<handler, queue, caller, nextCmd, now, restarts>>
        PROVE  Inv'
    <2>1. reaper' \in Reapers /\ reaper'.pc = label /\ reaper'.proc = reaper.proc
      BY <1>0, <1>1, ReaperMoves DEF ReaperGoes
    <2>2. TypeOK'
      BY <1>1, <2>1 DEF Inv, TypeOK
    <2>3. Replacing' /\ HandlersWork'
      BY <1>1, <2>1 DEF Replacing, HandlersWork
    <2> QED
      BY <1>1, <2>2, <2>3, Frame DEF Inv
  <1>2. ASSUME GiveUp, UNCHANGED <<handler, queue, caller, nextCmd, now, restarts>>
        PROVE  Inv'
    <2>1. c' = [c EXCEPT !.fatal = TRUE, !.quit = TRUE] /\ ReaperGoes("done")
      BY <1>2 DEF GiveUp
    <2>2. /\ c' \in Clients /\ c'.fatal = TRUE /\ c'.quit = TRUE
          /\ c'.restart_count = c.restart_count /\ c'.last_restart_time = c.last_restart_time
      BY <1>0, <2>1, ClientFlags, Zenon
    <2> QED
      BY <1>1, <1>2, <2>1, <2>2 DEF Kept, ReaperLabels
  <1> USE DEF ReaperUnchanged
  <1>3. CASE WaitReturns
    <2>1. UNCHANGED <<handler, queue, caller, nextCmd, now, restarts>>
      BY <1>3 DEF WaitReturns
    <2>2. CASE c' = c /\ \E label \in {"done", "budget"} : ReaperGoes(label)
      BY <1>0, <1>1, <2>1, <2>2 DEF Kept, ReaperLabels
    <2>3. CASE c' = [c EXCEPT !.quit = TRUE] /\ ReaperGoes("done")
      <3>1. /\ c' \in Clients /\ c'.fatal = c.fatal /\ c'.quit = TRUE
            /\ c'.restart_count = c.restart_count /\ c'.last_restart_time = c.last_restart_time
        BY <1>0, <2>3, ClientQuit, Zenon
      <3> QED
        BY <1>1, <2>1, <2>3, <3>1 DEF Kept, ReaperLabels
    <2> QED
      BY <1>3, <2>2, <2>3 DEF WaitReturns
  <1>4. CASE StartProcess
    <2>1. /\ reaper.pc = "start" /\ reaper' = [pc |-> "ready", proc |-> reaper.proc + 1]
          /\ UNCHANGED <<c, handler, queue, caller, nextCmd, now, restarts>>
      BY <1>4 DEF StartProcess, ReaperAt
    <2>2. reaper.proc + 1 \in Gens
      BY <1>0, <2>1 DEF Inv, Replacing, Gens
    <2>3. reaper' \in Reapers /\ reaper'.pc = "ready"
      BY <2>1, <2>2 DEF Reapers, ReaperLabels
    <2>4. TypeOK' /\ Replacing' /\ HandlersWork'
      BY <2>1, <2>3 DEF Inv, TypeOK, Replacing, HandlersWork
    <2> QED
      BY <2>1, <2>4, Frame DEF Inv, Kept
  <1>5. CASE ReadyArrives \/ Dial
    <2>1. /\ UNCHANGED <<c, handler, queue, caller, nextCmd, now, restarts>>
          /\ \E label \in {"dial", "process"} : ReaperGoes(label)
      BY <1>5 DEF ReadyArrives, Dial
    <2> QED
      BY <1>0, <1>1, <2>1 DEF Kept, ReaperLabels
  <1>6. CASE NoReady \/ DialFails
    BY <1>2, <1>6 DEF NoReady, DialFails
  <1>7. CASE ReplaceProcess
    <2>1. /\ c' = [c EXCEPT !.process = reaper.proc] /\ ReaperGoes("queues")
          /\ UNCHANGED <<handler, queue, caller, nextCmd, now, restarts>>
      BY <1>7 DEF ReplaceProcess
    <2>2. /\ c' \in Clients /\ c'.process = reaper.proc /\ c'.fatal = c.fatal /\ c'.quit = c.quit
          /\ c'.restart_count = c.restart_count /\ c'.last_restart_time = c.last_restart_time
      BY <1>0, <2>1, ClientGen
    <2> QED
      BY <1>1, <2>1, <2>2 DEF Kept, ReaperLabels
  <1>8. CASE ReplaceQueues
    <2>1. /\ reaper.pc = "queues" /\ c' = [c EXCEPT !.queues = reaper.proc] /\ ReaperGoes("workers")
          /\ UNCHANGED <<handler, queue, caller, nextCmd, now, restarts>>
      BY <1>8 DEF ReplaceQueues, ReaperAt
    <2>2. /\ c' \in Clients /\ c'.process = c.process /\ c'.queues = reaper.proc
          /\ c'.fatal = c.fatal /\ c'.quit = c.quit
          /\ c'.restart_count = c.restart_count /\ c'.last_restart_time = c.last_restart_time
      BY <1>0, <2>1, ClientGen
    <2>3. c.process = reaper.proc
      BY <2>1 DEF Inv, Replacing
    <2> QED
      BY <1>1, <2>1, <2>2, <2>3 DEF Kept, ReaperLabels
  <1>9. CASE NewWorkers
    <2>1. /\ reaper.pc = "workers"
          /\ handler' = [l \in Links |-> IF l[1] = reaper.proc
                                          THEN [pc |-> "loop", cmd |-> None] ELSE handler[l]]
          /\ \E label \in {"done", "wait"} : reaper' = [reaper EXCEPT !.pc = label]
          /\ UNCHANGED <<c, queue, caller, nextCmd, now, restarts>>
      BY <1>9 DEF NewWorkers, ReaperAt, ReaperGoes, StartWorkers
    <2>2. reaper' \in Reapers /\ reaper'.pc \in {"done", "wait"} /\ reaper'.proc = reaper.proc
      <3>1. PICK label \in {"done", "wait"} : reaper' = [reaper EXCEPT !.pc = label]
        BY <2>1
      <3>2. label \in ReaperLabels
        BY DEF ReaperLabels
      <3> QED
        BY <1>0, <3>1, <3>2, ReaperMoves
    <2>3. handler' \in [Links -> Handlers]
      BY <2>1 DEF Inv, TypeOK, Handlers, Working, None
    <2>4. TypeOK'
      BY <2>1, <2>2, <2>3 DEF Inv, TypeOK
    <2>5. Replacing'
      BY <2>1, <2>2 DEF Inv, Replacing
    <2>6. HandlersWork'
      <3>1. \A n \in Conns : <<reaper.proc, n>> \in Links
        BY <1>0 DEF Links
      <3> QED
        BY <2>1, <2>2, <3>1 DEF HandlersWork, Working
    <2> QED
      BY <2>1, <2>4, <2>5, <2>6, Frame DEF Inv, Kept
  <1> QED
    BY <1>3, <1>4, <1>5, <1>6, <1>7, <1>8, <1>9, BudgetInv DEF Reaper

\* close sets quit_event before it puts None into the queues.
LEMMA CloseInv ==
  ASSUME Inv, CloseBegins
  PROVE  Inv'
  <1>0. c \in Clients /\ TRUE \in BOOLEAN /\ None \in Nat /\ queue \in [Links -> Seq(Nat)]
    BY DEF Inv, TypeOK, None
  <1>1. /\ c' = [c EXCEPT !.quit = TRUE]
        /\ queue' = [l \in Links |-> IF l[1] = c.queues THEN Append(queue[l], None) ELSE queue[l]]
        /\ UNCHANGED <<handler, caller, reaper, nextCmd, now, restarts>>
    BY DEF CloseBegins, CloseUnchanged
  <1>2. /\ c' \in Clients /\ c'.fatal = c.fatal /\ c'.quit = TRUE
        /\ c'.process = c.process /\ c'.queues = c.queues
        /\ c'.restart_count = c.restart_count /\ c'.last_restart_time = c.last_restart_time
    BY <1>0, <1>1, ClientQuit, Zenon
  <1>3. queue' \in [Links -> Seq(Nat)]
    BY <1>0, <1>1
  <1>4. TypeOK'
    BY <1>1, <1>2, <1>3 DEF Inv, TypeOK
  <1>5. NoneMeansQuit'
    BY <1>1, <1>2 DEF Inv, NoneMeansQuit
  <1> QED
    BY <1>1, <1>2, <1>4, <1>5, Frame DEF Inv, Kept

\* Every step keeps the invariant.
LEMMA NextInv == Inv /\ [Next]_vars => Inv'
  <1> SUFFICES ASSUME Inv, [Next]_vars PROVE Inv'
    OBVIOUS
  <1>1. CASE (\E g \in Gens : ServerReady(g) \/ Server(g) \/ ServerCrashes(g) \/ ServerQuits(g))
             \/ Close \/ UNCHANGED vars
    <2>1. UNCHANGED <<c, queue, handler, caller, reaper, nextCmd, now, restarts>>
      BY <1>1 DEF ServerReady, Server, ServerExits, ServerFails, ServerCrashes, ServerQuits,
                  ServerEnds, Close, Terminate, WaitProcess, RemoveDir, CloseUnchanged, vars
    <2> QED
      BY <2>1, OutsideInv
  <1> QED
    BY <1>1, ConstructInv, CallerInv, HandlerInv, ReaperInv, CloseInv DEF Next

-----------------------------------------------------------------------------
(***************************************************************************)
(* The theorems                                                             *)
(***************************************************************************)

\* What _reaper, the handlers and the callers rely on holds at all times.
THEOREM ClientState == Spec => []Inv
  BY InitInv, NextInv, PTL DEF Spec

\* A command that a caller puts into a queue has a handler, unless the client knows that
\* its server is lost or an earlier command could not be encoded.
THEOREM QueuesServed == Spec => []CurrentQueuesServed
  <1>1. Inv => CurrentQueuesServed
    BY DEF Inv, Replacing, HandlersWork, CurrentQueuesServed, ReaperAt, Working
  <1> QED
    BY <1>1, ClientState, PTL

\* max_restarts_per_minute is kept for every budget, though effective_count only looks at
\* the last restart and the number of all restarts.
THEOREM BudgetIsKept == Spec => []RestartsBounded
  <1>1. Inv => RestartsBounded
    <2> SUFFICES ASSUME Inv, NEW i \in DOMAIN restarts
                 PROVE  Cardinality({j \in DOMAIN restarts : restarts[j] - restarts[i] \in {0, 1}})
                            <= MaxRestarts
      BY DEF RestartsBounded
    <2> DEFINE near == {j \in DOMAIN restarts : restarts[j] - restarts[i] \in {0, 1}}
    <2>1. /\ restarts \in Seq(Nat) /\ Len(restarts) \in Nat /\ DOMAIN restarts = 1 .. Len(restarts)
          /\ \A j \in 1 .. Len(restarts) : restarts[j] \in Nat
      BY DEF Inv, TypeOK
    <2>2. MaxRestarts >= 1
      BY <2>1 DEF Inv, Budgeted
    <2>3. \A j, k \in 1 .. Len(restarts) : j < k =>
              /\ restarts[j] <= restarts[k]
              /\ k > MaxRestarts => restarts[k] - restarts[j] >= 2
      BY DEF Inv, Budgeted
    <2>4. CASE i > MaxRestarts
      <3>1. near \in SUBSET {i}
        <4>1. SUFFICES ASSUME NEW j \in near PROVE j = i
          OBVIOUS
        <4>2. CASE j < i
          BY <2>1, <2>3, <2>4, <4>2
        <4>3. CASE i < j
          BY <2>1, <2>3, <2>4, <4>3
        <4> QED
          BY <2>1, <4>2, <4>3
      <3>2. IsFiniteSet({i}) /\ Cardinality({i}) = 1
        BY FS_Singleton
      <3>3. Cardinality(near) <= 1 /\ Cardinality(near) \in Nat
        BY <3>1, <3>2, FS_Subset, FS_CardinalityType
      <3> QED
        BY <2>2, <3>3
    <2>5. CASE i <= MaxRestarts
      <3>1. near \in SUBSET (1 .. MaxRestarts)
        <4>1. SUFFICES ASSUME NEW j \in near PROVE j \in 1 .. MaxRestarts
          OBVIOUS
        <4>2. CASE j > MaxRestarts
          BY <2>1, <2>3, <2>5, <4>2
        <4> QED
          BY <2>1, <4>2
      <3>2. IsFiniteSet(1 .. MaxRestarts) /\ Cardinality(1 .. MaxRestarts) = MaxRestarts
        BY FS_Interval
      <3>3. Cardinality(near) <= Cardinality(1 .. MaxRestarts)
        BY <3>1, <3>2, FS_Subset
      <3> QED
        BY <3>2, <3>3
    <2> QED
      BY <2>1, <2>4, <2>5
  <1> QED
    BY <1>1, ClientState, PTL
=============================================================================
