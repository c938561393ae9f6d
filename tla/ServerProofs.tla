---------------------------- MODULE ServerProofs -----------------------------
(***************************************************************************)
(* Proofs about the server process, for every number of sockets: READY, the *)
(* joining of the threads and the exit status (Server), and the two files   *)
(* that its threads share and release (Mappings).  At the end, one step of  *)
(* the text decoder that it gives to scripts (Utf8).                        *)
(***************************************************************************)
EXTENDS Server, Mappings, Utf8, FiniteSetTheorems, SequenceTheorems, TLAPS

USE NThreadsAssumption, FlagsAssumption, MaxBgAssumption

-----------------------------------------------------------------------------
(***************************************************************************)
(* The inductive invariant                                                  *)
(***************************************************************************)

ThreadLabels ==
    {"none", "listen", "inc", "wg_lock", "wg_signal", "accepting", "accept_blocked",
     "serving", "busy", "read_blocked", "leaving", "exited"}

\* Where main is before it has passed the wait group, and after it.
BeforeReady == {"create", "locked", "about_to_wait", "waiting", "init_error"}
Started == {"report_ready", "join", "exit"}

TypeOK ==
    /\ tpc \in [Threads -> ThreadLabels]
    /\ exit_status \in [Threads -> {0, 1, -1}]
    /\ bg \in [Threads -> BOOLEAN]
    /\ n_remaining \in Int
    /\ mpc \in BeforeReady \cup Started \cup {"done"}
    /\ k \in 0 .. NThreads
    /\ ready \in BOOLEAN
    /\ destroyed \in SUBSET Nat
    /\ result \in {"none", "EXIT_SUCCESS", "EXIT_FAILURE", "killed"}

Unreported == {t \in Threads : ~Reported(t)}

\* The wait group counts exactly the threads that have yet to report.
WaitGroupCount == n_remaining = Cardinality(Unreported)

\* The listen thread has ended, and no background thread of it is left.
Joined(t) == tpc[t] = "exited" /\ ~bg[t]

\* Threads are created in order; the wait ends with the last report; threads are joined
\* in order, and a state is destroyed when all of them are.
Phases ==
    /\ mpc = "create" => \A t \in Threads : t >= k => tpc[t] = "none"
    /\ mpc \in BeforeReady => ~ready
    /\ mpc \in Started \/ ready => \A t \in Threads : Reported(t)
    /\ mpc = "join" => \A t \in Threads : t < k => Joined(t)
    /\ mpc = "exit" => \A t \in Threads : Joined(t)
    /\ mpc \notin {"exit", "done"} => destroyed = {}
    /\ ready /\ destroyed # {} => \A t \in Threads : Joined(t)
    /\ result # "none" => mpc = "done"

Inv == TypeOK /\ WaitGroupCount /\ Phases /\ FailureIsReported

-----------------------------------------------------------------------------
\* The threads that have not reported can be counted.
LEMMA UnreportedFinite == IsFiniteSet(Unreported) /\ Cardinality(Unreported) \in Nat
  <1>1. IsFiniteSet(Threads)
    BY FS_Interval DEF Threads
  <1>2. Unreported \in SUBSET Threads
    BY DEF Unreported
  <1>3. IsFiniteSet(Unreported)
    BY <1>1, <1>2, FS_Subset
  <1> QED
    BY <1>3, FS_CardinalityType

\* At the start nobody has reported, and the wait group expects all.
LEMMA InitInv == Init => Inv
  <1> SUFFICES ASSUME Init
               PROVE  Inv
    OBVIOUS
  <1>1. TypeOK
    <2>1. bg \in [Threads -> BOOLEAN] /\ ready \in BOOLEAN
      BY Zenon DEF Init
    <2> QED
      BY <2>1 DEF Init, TypeOK, ThreadLabels, BeforeReady, Started
  <1>2. WaitGroupCount
    <2>1. Unreported = 0 .. NThreads - 1
      BY DEF Init, Unreported, Reported, Threads
    <2>2. Cardinality(0 .. NThreads - 1) = NThreads
      BY FS_Interval
    <2> QED
      BY <2>1, <2>2 DEF WaitGroupCount, Init
  <1>3. Phases /\ FailureIsReported
    BY DEF Init, Phases, FailureIsReported, BeforeReady, Started
  <1> QED
    BY <1>1, <1>2, <1>3 DEF Inv

\* A step that lets nobody report and leaves the wait group alone keeps the count.
LEMMA CountSame ==
  ASSUME WaitGroupCount, n_remaining' = n_remaining,
         \A t \in Threads : Reported(t)' = Reported(t)
  PROVE  WaitGroupCount'
  <1>1. Unreported' = Unreported
    BY DEF Unreported
  <1> QED
    BY <1>1 DEF WaitGroupCount

\* wait_group_inc: one thread more has reported, and the counter is one less.
LEMMA IncrementCounts ==
  ASSUME Inv, NEW t \in Threads, Increment(t)
  PROVE  WaitGroupCount'
  <1>1. t \in Unreported
    BY DEF Increment, At, Unreported, Reported
  <1>2. Unreported' = Unreported \ {t}
    <2>1. tpc' = [tpc EXCEPT ![t] = IF n_remaining = 1 THEN "wg_lock" ELSE AfterInc(t)]
      BY DEF Increment, Goto
    <2>2. (IF n_remaining = 1 THEN "wg_lock" ELSE AfterInc(t)) \notin {"none", "listen", "inc"}
      BY DEF AfterInc
    <2> QED
      BY <2>1, <2>2 DEF Unreported, Reported, Inv, TypeOK
  <1>3. Cardinality(Unreported') = Cardinality(Unreported) - 1
    BY <1>1, <1>2, UnreportedFinite, FS_RemoveElement
  <1> QED
    BY <1>3 DEF WaitGroupCount, Inv, Increment

\* When the counter is zero everybody has reported.
LEMMA ZeroMeansAll ==
  ASSUME Inv, ~(n_remaining > 0)
  PROVE  \A t \in Threads : Reported(t)
  <1>1. Cardinality(Unreported) = 0
    BY UnreportedFinite DEF Inv, WaitGroupCount
  <1>2. Unreported = {}
    BY <1>1, UnreportedFinite, FS_EmptySet
  <1> QED
    BY <1>2 DEF Unreported

-----------------------------------------------------------------------------
(***************************************************************************)
(* Every step keeps the invariant                                           *)
(***************************************************************************)

\* What the steps of a listen thread have in common: the thread moves on from a label
\* that it has not finished with, and never back to one before its report.
LEMMA ThreadMoves ==
  ASSUME Inv, NEW t \in Threads, NEW label \in ThreadLabels,
         mpc # "done", Goto(t, label), tpc[t] \notin {"none", "exited"},
         Reported(t) => label \notin {"none", "listen", "inc"},
         bg' = bg, n_remaining' \in Int, UNCHANGED mainVars, exit_status' \in [Threads -> {0, 1, -1}]
  PROVE  TypeOK' /\ Phases' /\ FailureIsReported'
  <1>1. TypeOK'
    BY DEF Inv, TypeOK, Goto, mainVars
  <1>2. /\ tpc'[t] = label
        /\ \A s \in Threads \ {t} : tpc'[s] = tpc[s]
    BY DEF Inv, TypeOK, Goto
  <1>3. \A s \in Threads : Joined(s) => Joined(s)'
    BY <1>2 DEF Joined
  <1>4. \A s \in Threads : Reported(s) => Reported(s)'
    BY <1>2 DEF Reported
  <1>5. Phases'
    BY <1>2, <1>3, <1>4 DEF Inv, Phases, mainVars
  <1>6. FailureIsReported'
    BY DEF Inv, FailureIsReported, Phases, mainVars
  <1> QED
    BY <1>1, <1>5, <1>6

\* The steps of wait_group_inc and command_loop.
LEMMA ThreadInv ==
  ASSUME Inv, NEW t \in Threads, Thread(t)
  PROVE  Inv'
  <1> USE DEF At, Goto, ThreadLabels
  <1>1. CASE Listen(t)
    <2>1. TypeOK' /\ Phases' /\ FailureIsReported'
      BY <1>1, ThreadMoves DEF Listen, wgVars, Reported, Inv, TypeOK
    <2>2. WaitGroupCount'
      BY <1>1, CountSame DEF Listen, wgVars, Reported, Inv, TypeOK
    <2> QED
      BY <2>1, <2>2 DEF Inv
  <1>2. CASE Increment(t)
    <2>1. TypeOK' /\ Phases' /\ FailureIsReported'
      <3> DEFINE label == IF n_remaining = 1 THEN "wg_lock" ELSE AfterInc(t)
      <3>1. label \in ThreadLabels /\ label \notin {"none", "listen", "inc"}
        BY DEF AfterInc
      <3>2. /\ mpc # "done" /\ Goto(t, label) /\ tpc[t] \notin {"none", "exited"}
            /\ bg' = bg /\ n_remaining' \in Int /\ UNCHANGED mainVars
            /\ exit_status' \in [Threads -> {0, 1, -1}]
        BY <1>2 DEF Increment, Inv, TypeOK
      <3> HIDE DEF label
      <3> QED
        BY <3>1, <3>2, ThreadMoves
    <2> QED
      BY <1>2, <2>1, IncrementCounts DEF Inv
  <1>3. CASE WgLock(t)
    <2>1. TypeOK' /\ Phases' /\ FailureIsReported'
      BY <1>3, ThreadMoves DEF WgLock, Inv, TypeOK
    <2>2. WaitGroupCount'
      BY <1>3, CountSame DEF WgLock, Reported, Inv, TypeOK
    <2> QED
      BY <2>1, <2>2 DEF Inv
  <1>4. CASE WgSignal(t)
    <2>0. AfterInc(t) \in {"leaving", "accepting"}
      BY DEF AfterInc
    <2>1. TypeOK' /\ Phases' /\ FailureIsReported'
      BY <1>4, <2>0, ThreadMoves DEF WgSignal, Inv, TypeOK
    <2>2. WaitGroupCount'
      BY <1>4, <2>0, CountSame DEF WgSignal, Reported, Inv, TypeOK
    <2> QED
      BY <2>1, <2>2 DEF Inv
  <1>5. CASE NoticeInterrupt(t)
    <2>1. TypeOK' /\ Phases' /\ FailureIsReported'
      BY <1>5, ThreadMoves DEF NoticeInterrupt, wgVars, Inv, TypeOK
    <2>2. WaitGroupCount'
      BY <1>5, CountSame DEF NoticeInterrupt, wgVars, Reported, Inv, TypeOK
    <2> QED
      BY <2>1, <2>2 DEF Inv
  <1>6. CASE Leave(t)
    <2>1. TypeOK' /\ Phases' /\ FailureIsReported'
      BY <1>6, ThreadMoves DEF Leave, wgVars, Inv, TypeOK
    <2>2. WaitGroupCount'
      BY <1>6, CountSame DEF Leave, wgVars, Reported, Inv, TypeOK
    <2> QED
      BY <2>1, <2>2 DEF Inv
  <1> QED
    BY <1>1, <1>2, <1>3, <1>4, <1>5, <1>6 DEF Thread, Reporting

\* What clients and failing system calls do to a thread.
LEMMA ClientsInv ==
  ASSUME Inv, NEW t \in Threads, Clients(t)
  PROVE  Inv'
  <1> USE DEF At, Goto, ThreadLabels
  <1>1. CASE ListenFails(t)
    <2>1. TypeOK' /\ Phases' /\ FailureIsReported'
      BY <1>1, ThreadMoves DEF ListenFails, wgVars, Reported, Inv, TypeOK
    <2>2. WaitGroupCount'
      BY <1>1, CountSame DEF ListenFails, wgVars, Reported, Inv, TypeOK
    <2> QED
      BY <2>1, <2>2 DEF Inv
  <1>2. CASE Accept(t) \/ KeepSending(t) \/ Pause(t) \/ ReadReturns(t)
    <2>1. TypeOK' /\ Phases' /\ FailureIsReported'
      BY <1>2, ThreadMoves DEF Accept, KeepSending, Pause, ReadReturns, wgVars, Inv, TypeOK
    <2>2. WaitGroupCount'
      BY <1>2, CountSame DEF Accept, KeepSending, Pause, ReadReturns, wgVars, Reported, Inv, TypeOK
    <2> QED
      BY <2>1, <2>2 DEF Inv
  <1>3. CASE BrokenPipe(t)
    <2>1. WaitGroupCount'
      BY <1>3, CountSame DEF BrokenPipe, threadVars, wgVars, Reported, Inv
    <2>2. TypeOK' /\ Phases' /\ FailureIsReported'
      BY <1>3 DEF BrokenPipe, threadVars, wgVars, Inv, TypeOK, Phases, FailureIsReported,
                  BeforeReady, Started, Reported, Joined
    <2> QED
      BY <2>1, <2>2 DEF Inv
  <1>4. CASE StartBg(t)
    <2>1. WaitGroupCount'
      BY <1>4, CountSame DEF StartBg, wgVars, Reported, Inv
    <2>2. TypeOK'
      BY <1>4 DEF StartBg, wgVars, mainVars, Inv, TypeOK
    <2>3. \A s \in Threads : Joined(s) => Joined(s)'
      BY <1>4 DEF StartBg, Joined, Inv, TypeOK
    <2>4. Phases' /\ FailureIsReported'
      BY <1>4, <2>3 DEF StartBg, mainVars, Inv, Phases, FailureIsReported, Reported
    <2> QED
      BY <2>1, <2>2, <2>4 DEF Inv
  <1>5. ASSUME NEW failed \in BOOLEAN, StopServing(t, failed)
        PROVE  Inv'
    <2>1. TypeOK' /\ Phases' /\ FailureIsReported'
      BY <1>5, ThreadMoves DEF StopServing, wgVars, Inv, TypeOK
    <2>2. WaitGroupCount'
      BY <1>5, CountSame DEF StopServing, wgVars, Reported, Inv, TypeOK
    <2> QED
      BY <2>1, <2>2 DEF Inv
  <1>6. CASE AcceptFails(t)
    <2>1. TypeOK' /\ Phases' /\ FailureIsReported'
      BY <1>6, ThreadMoves DEF AcceptFails, wgVars, Inv, TypeOK
    <2>2. WaitGroupCount'
      BY <1>6, CountSame DEF AcceptFails, wgVars, Reported, Inv, TypeOK
    <2> QED
      BY <2>1, <2>2 DEF Inv
  <1>7. CASE BgFails(t)
    <2>1. WaitGroupCount'
      BY <1>7, CountSame DEF BgFails, wgVars, Reported, Inv
    <2>2. TypeOK'
      BY <1>7 DEF BgFails, wgVars, mainVars, Inv, TypeOK
    <2>3. \A s \in Threads : Joined(s) => Joined(s)'
      BY <1>7 DEF BgFails, Joined, Inv, TypeOK
    <2>4. Phases'
      BY <1>7, <2>3 DEF BgFails, mainVars, Inv, Phases, Reported
    <2>5. FailureIsReported'
      BY <1>7 DEF BgFails, mainVars, Inv, Phases, FailureIsReported
    <2> QED
      BY <2>1, <2>2, <2>4, <2>5 DEF Inv
  <1> QED
    BY <1>1, <1>2, <1>3, <1>4, <1>5, <1>6, <1>7 DEF Clients

\* A background thread ends.
LEMMA EndBgInv ==
  ASSUME Inv, NEW t \in Threads, EndBg(t)
  PROVE  Inv'
  <1>1. WaitGroupCount'
    BY CountSame DEF EndBg, wgVars, Reported, Inv
  <1>2. TypeOK'
    BY DEF EndBg, wgVars, mainVars, Inv, TypeOK
  <1>3. \A s \in Threads : Joined(s) => Joined(s)'
    BY DEF EndBg, Joined, Inv, TypeOK
  <1>4. Phases' /\ FailureIsReported'
    BY <1>3 DEF EndBg, mainVars, Inv, Phases, FailureIsReported, Reported
  <1> QED
    BY <1>1, <1>2, <1>4 DEF Inv

\* A signal is handled on main or on a listen thread.
LEMMA SignalsInv ==
  ASSUME Inv, Signals
  PROVE  Inv'
  <1>1. CASE tpc' = tpc
    <2>1. UNCHANGED <<tpc, exit_status, bg, bgs, wgVars, mainVars>>
      BY <1>1 DEF Signals, SignalMain, SignalThread, Signal
    <2>2. WaitGroupCount'
      BY <2>1, CountSame DEF wgVars, Reported, Inv
    <2> QED
      BY <2>1, <2>2 DEF wgVars, mainVars, Inv, TypeOK, Phases, FailureIsReported, Reported, Joined
  <1>2. ASSUME NEW s, NEW t \in Threads, SignalThread(s, t)
        PROVE  Inv'
    <2>1. /\ tpc' = [tpc EXCEPT ![t] = IF tpc[t] = "accepting" THEN "accept_blocked"
                                       ELSE "read_blocked"]
          /\ tpc[t] \in {"accepting", "serving"}
          /\ UNCHANGED <<exit_status, bg, bgs, wgVars, mainVars>>
      BY <1>2 DEF SignalThread, Signal, Goto
    <2>2. WaitGroupCount'
      BY <2>1, CountSame DEF wgVars, Reported, Inv, TypeOK
    <2>3. TypeOK'
      BY <2>1 DEF wgVars, mainVars, Inv, TypeOK, ThreadLabels
    <2>4. \A u \in Threads : (Joined(u) => Joined(u)') /\ (Reported(u) => Reported(u)')
      BY <2>1 DEF Inv, TypeOK, Joined, Reported
    <2>5. \A u \in Threads : tpc[u] = "none" => tpc'[u] = "none"
      BY <2>1 DEF Inv, TypeOK
    <2>6. Phases' /\ FailureIsReported'
      BY <2>1, <2>4, <2>5 DEF mainVars, Inv, Phases, FailureIsReported
    <2> QED
      BY <2>2, <2>3, <2>6 DEF Inv
  <1> QED
    BY <1>1, <1>2 DEF Signals, SignalMain

\* The steps of main, with those of the wait that nobody has to take.
LEMMA MainInv ==
  ASSUME Inv, Main \/ SpuriousWakeup \/ WaitTimesOut
  PROVE  Inv'
  <1> USE DEF BeforeReady, Started
  <1>1. CASE CreateThread
    <2>1. /\ k \in Threads /\ tpc[k] = "none" /\ k' = k + 1
          /\ tpc' = [tpc EXCEPT ![k] = "listen"]
          /\ UNCHANGED <<exit_status, bg, n_remaining, mpc, ready, destroyed, result>>
          /\ mpc = "create"
      BY <1>1 DEF CreateThread, Goto, wgVars, Inv, TypeOK, Phases, Threads
    <2>2. TypeOK'
      BY <2>1 DEF Inv, TypeOK, ThreadLabels, Threads
    <2>3. WaitGroupCount'
      BY <2>1, CountSame DEF Inv, TypeOK, Reported
    <2>4. Phases' /\ FailureIsReported'
      BY <2>1 DEF Inv, TypeOK, Phases, FailureIsReported, Threads
    <2> QED
      BY <2>2, <2>3, <2>4 DEF Inv
  <1>2. CASE CreateFails \/ TakeMutex \/ SpuriousWakeup \/ CondWait \/ WaitTimesOut
    <2>1. /\ UNCHANGED <<tpc, exit_status, bg, n_remaining, k, ready, destroyed, result>>
          /\ mpc \in BeforeReady /\ mpc' \in BeforeReady /\ mpc' # "create"
      BY <1>2 DEF CreateFails, TakeMutex, SpuriousWakeup, CondWait, WaitTimesOut, threadVars,
                  wgVars, mainVars
    <2>2. WaitGroupCount'
      BY <2>1, CountSame DEF Inv, Reported
    <2> QED
      BY <2>1, <2>2 DEF Inv, TypeOK, Phases, FailureIsReported, Reported, Joined
  <1>3. CASE TestRemaining
    <2>1. /\ UNCHANGED <<tpc, exit_status, bg, n_remaining, k, ready, destroyed, result>>
          /\ mpc = "locked" /\ mpc' \in {"about_to_wait", "report_ready"}
          /\ mpc' = "report_ready" => ~(n_remaining > 0)
      BY <1>3 DEF TestRemaining, threadVars
    <2>2. WaitGroupCount'
      BY <2>1, CountSame DEF Inv, Reported
    <2>3. mpc' = "report_ready" => \A t \in Threads : Reported(t)
      BY <2>1, ZeroMeansAll
    <2> QED
      BY <2>1, <2>2, <2>3 DEF Inv, TypeOK, Phases, FailureIsReported, Reported, Joined
  <1>4. CASE PrintReady \/ JoinThread
    <2>1. /\ UNCHANGED <<tpc, exit_status, bg, n_remaining, destroyed, result>>
          /\ mpc \in {"report_ready", "join"} /\ mpc' = "join"
          /\ ready' \in BOOLEAN /\ (mpc = "join" => ready' = ready) /\ k' \in 0 .. NThreads
          /\ \/ k' = 0
             \/ mpc = "join" /\ k' = k + 1 /\ tpc[k] = "exited" /\ ~bg[k]
      <3>1. CASE PrintReady
        BY <1>4, <3>1 DEF PrintReady, threadVars, wgVars
      <3>2. CASE JoinThread
        <4>1. ready' \in BOOLEAN
          BY <3>2 DEF JoinThread, Inv, TypeOK
        <4> QED
          BY <3>2, <4>1 DEF JoinThread, threadVars, wgVars, Inv, TypeOK
      <3> QED
        BY <1>4, <3>1, <3>2
    <2>2. WaitGroupCount'
      BY <2>1, CountSame DEF Inv, Reported
    <2>3. TypeOK'
      BY <2>1 DEF Inv, TypeOK
    <2>4. \A t \in Threads : t < k' => Joined(t)'
      BY <2>1 DEF Inv, TypeOK, Phases, Joined, Threads
    <2> QED
      BY <2>1, <2>2, <2>3, <2>4 DEF Inv, Phases, FailureIsReported, Reported, Joined
  <1>5. CASE DestroyAll
    <2>1. /\ UNCHANGED <<tpc, exit_status, bg, n_remaining, k, ready, result>>
          /\ mpc = "join" /\ k = NThreads /\ mpc' = "exit" /\ destroyed' = Threads
      BY <1>5 DEF DestroyAll, threadVars, wgVars
    <2>2. WaitGroupCount'
      BY <2>1, CountSame DEF Inv, Reported
    <2>3. \A t \in Threads : Joined(t)'
      BY <2>1 DEF Inv, Phases, Joined, Threads
    <2>4. TypeOK'
      BY <2>1 DEF Inv, TypeOK, Threads
    <2> QED
      BY <2>1, <2>2, <2>3, <2>4 DEF Inv, Phases, FailureIsReported, Reported
  <1>6. CASE Return
    <2>1. /\ UNCHANGED <<tpc, exit_status, bg, n_remaining, k, ready, destroyed>>
          /\ mpc = "exit" /\ mpc' = "done" /\ result' \in {"EXIT_SUCCESS", "EXIT_FAILURE"}
          /\ result' = "EXIT_SUCCESS" => \A t \in Threads : exit_status[t] = 0
      BY <1>6 DEF Return, threadVars, wgVars
    <2>2. WaitGroupCount'
      BY <2>1, CountSame DEF Inv, Reported
    <2> QED
      BY <2>1, <2>2 DEF Inv, TypeOK, Phases, FailureIsReported, Reported, Joined
  <1>7. CASE InitError
    <2>1. /\ UNCHANGED <<tpc, exit_status, bg, n_remaining, k, ready>>
          /\ mpc = "init_error" /\ mpc' = "done" /\ result' = "EXIT_FAILURE"
          /\ destroyed' \in SUBSET Nat
      BY <1>7 DEF InitError, threadVars, wgVars, Inv, TypeOK
    <2>2. WaitGroupCount'
      BY <2>1, CountSame DEF Inv, Reported
    <2> QED
      BY <2>1, <2>2 DEF Inv, TypeOK, Phases, FailureIsReported, Reported, Joined
  <1> QED
    BY <1>1, <1>2, <1>3, <1>4, <1>5, <1>6, <1>7 DEF Main

\* The invariant holds of every reachable state of the process, for every number of
\* sockets.
THEOREM StartAndStop == Spec => []Inv
  <1>1. Inv /\ [Next]_vars => Inv'
    <2> SUFFICES ASSUME Inv, [Next]_vars
                 PROVE  Inv'
      OBVIOUS
    <2>1. CASE Done \/ UNCHANGED vars
      <3>1. UNCHANGED <<tpc, exit_status, bg, n_remaining, mpc, k, ready, destroyed, result>>
        BY <2>1 DEF Done, vars, threadVars, wgVars, mainVars
      <3>2. WaitGroupCount'
        BY <3>1, CountSame DEF Inv, Reported
      <3> QED
        BY <3>1, <3>2 DEF Inv, TypeOK, Phases, FailureIsReported, Reported, Joined
    <2> QED
      BY <2>1, SignalsInv, MainInv, ThreadInv, ClientsInv, EndBgInv DEF Next
  <1> QED
    BY <1>1, InitInv, PTL DEF Spec

\* READY is printed only when every thread has opened its socket or failed to, whatever
\* wakeups and timeouts wait_group_timed_wait sees and however many threads there are.
THEOREM ReadyWaitsForAll == Spec => []ReadyMeansReported
  <1>1. Inv => ReadyMeansReported
    BY DEF Inv, Phases, ReadyMeansReported
  <1> QED
    BY <1>1, StartAndStop, PTL

\* After READY, destroy_thread_state runs only for sockets whose listen thread and
\* background thread have both ended.
THEOREM NothingDestroyedInUse == Spec => []DestroyedAfterJoin
  <1>1. Inv => DestroyedAfterJoin
    BY DEF Inv, Phases, DestroyedAfterJoin, Joined
  <1> QED
    BY <1>1, StartAndStop, PTL

\* The process does not exit with success when one of its threads has failed.
THEOREM NoFailureLost == Spec => []FailureIsReported
  <1>1. Inv => FailureIsReported
    BY DEF Inv
  <1> QED
    BY <1>1, StartAndStop, PTL

-----------------------------------------------------------------------------
(***************************************************************************)
(* No wakeup is lost                                                        *)
(***************************************************************************)

\* The mutex of the wait group: main holds it from its test to its wait, and one thread
\* at a time holds it to signal.
WgMutex ==
    /\ mpc \in {"locked", "about_to_wait"} => mutex = "main"
    /\ \A t \in Threads : tpc[t] = "wg_signal" => mutex = "thread"
    /\ \A s, t \in Threads : tpc[s] = "wg_signal" /\ tpc[t] = "wg_signal" => s = t

\* While main is about to wait or waits for nothing more, the thread that counted down to
\* zero has yet to signal: its signal cannot fall between main's test and main's wait.
NoLostWakeup ==
    mpc \in {"about_to_wait", "waiting"} /\ n_remaining = 0 =>
        signalled \/ \E t \in Threads : tpc[t] \in {"wg_lock", "wg_signal"}

WakeInv == WgMutex /\ NoLostWakeup

\* The steps of a listen thread in wait_group_inc.
LEMMA ReportingWake ==
  ASSUME Inv, WakeInv, NEW t \in Threads, Increment(t) \/ WgLock(t) \/ WgSignal(t)
  PROVE  WakeInv'
  <1> USE DEF At, Goto
  <1>0. AfterInc(t) \in {"leaving", "accepting"}
    BY DEF AfterInc
  <1>1. CASE Increment(t)
    <2> DEFINE label == IF n_remaining = 1 THEN "wg_lock" ELSE AfterInc(t)
    <2>1. /\ tpc'[t] = label /\ \A s \in Threads \ {t} : tpc'[s] = tpc[s]
          /\ n_remaining' = n_remaining - 1 /\ n_remaining \in Int
          /\ tpc[t] = "inc" /\ UNCHANGED <<mutex, signalled, mpc>>
      BY <1>1 DEF Increment, Inv, TypeOK, mainVars
    <2>2. WgMutex'
      BY <1>0, <2>1 DEF WakeInv, WgMutex
    <2>3. n_remaining' = 0 => tpc'[t] = "wg_lock"
      BY <2>1
    <2> QED
      BY <2>1, <2>2, <2>3 DEF WakeInv, NoLostWakeup
  <1>2. CASE WgLock(t)
    <2>1. /\ tpc'[t] = "wg_signal" /\ \A s \in Threads \ {t} : tpc'[s] = tpc[s]
          /\ mutex = "free" /\ mutex' = "thread" /\ UNCHANGED <<n_remaining, signalled, mpc>>
      BY <1>2 DEF WgLock, Inv, TypeOK, mainVars
    <2> QED
      BY <2>1 DEF WakeInv, WgMutex, NoLostWakeup
  <1>3. CASE WgSignal(t)
    <2>1. /\ tpc'[t] = AfterInc(t) /\ \A s \in Threads \ {t} : tpc'[s] = tpc[s]
          /\ tpc[t] = "wg_signal" /\ UNCHANGED <<n_remaining, mpc>>
          /\ mpc = "waiting" => signalled'
      BY <1>3 DEF WgSignal, Inv, TypeOK, mainVars
    <2>2. mpc \notin {"locked", "about_to_wait"}
      BY <2>1 DEF WakeInv, WgMutex
    <2>3. WgMutex'
      BY <1>0, <2>1, <2>2 DEF WakeInv, WgMutex
    <2> QED
      BY <2>1, <2>2, <2>3 DEF WakeInv, NoLostWakeup
  <1> QED
    BY <1>1, <1>2, <1>3

\* The steps of main, with those of the wait that nobody has to take.
LEMMA MainWake ==
  ASSUME Inv, WakeInv, Main \/ SpuriousWakeup \/ WaitTimesOut
  PROVE  WakeInv'
  <1>1. CASE CreateThread
    <2>1. /\ k \in Threads /\ tpc'[k] = "listen" /\ \A s \in Threads \ {k} : tpc'[s] = tpc[s]
          /\ mpc = "create" /\ UNCHANGED <<mutex, mpc>>
      BY <1>1 DEF CreateThread, Goto, wgVars, Inv, TypeOK, Threads
    <2> QED
      BY <2>1 DEF WakeInv, WgMutex, NoLostWakeup
  <1>2. CASE TakeMutex
    BY <1>2 DEF TakeMutex, threadVars, WakeInv, WgMutex, NoLostWakeup
  <1>3. CASE TestRemaining
    <2>1. /\ UNCHANGED <<tpc, n_remaining, signalled>> /\ mutex = "main"
          /\ \/ mpc' = "about_to_wait" /\ n_remaining' # 0 /\ mutex' = mutex
             \/ mpc' = "report_ready"
      BY <1>3 DEF TestRemaining, threadVars, WakeInv, WgMutex
    <2> QED
      BY <2>1 DEF WakeInv, WgMutex, NoLostWakeup
  <1>4. CASE CondWait
    <2>1. /\ UNCHANGED <<tpc, n_remaining, signalled>> /\ mutex = "main"
          /\ mpc = "about_to_wait" /\ mpc' = "waiting"
      BY <1>4 DEF CondWait, threadVars, WakeInv, WgMutex
    <2> QED
      BY <2>1 DEF WakeInv, WgMutex, NoLostWakeup
  <1>5. CASE SpuriousWakeup
    BY <1>5 DEF SpuriousWakeup, threadVars, mainVars, WakeInv, WgMutex, NoLostWakeup
  <1>6. CASE CreateFails \/ WaitTimesOut \/ PrintReady \/ JoinThread \/ DestroyAll \/ Return
             \/ InitError
    <2>1. UNCHANGED <<tpc, mutex>> /\ mpc' \notin {"locked", "about_to_wait", "waiting"}
      BY <1>6 DEF CreateFails, WaitTimesOut, PrintReady, JoinThread, DestroyAll, Return,
                  InitError, threadVars, wgVars
    <2> QED
      BY <2>1 DEF WakeInv, WgMutex, NoLostWakeup
  <1> QED
    BY <1>1, <1>2, <1>3, <1>4, <1>5, <1>6 DEF Main

\* The other steps move no thread into or out of the end of wait_group_inc.
LEMMA OtherWake ==
  ASSUME Inv, WakeInv,
         \/ \E t \in Threads : \/ Listen(t) \/ NoticeInterrupt(t) \/ Leave(t)
                               \/ Clients(t) \/ EndBg(t)
         \/ Signals \/ Done \/ UNCHANGED vars
  PROVE  WakeInv'
  <1> USE DEF At, Goto, wgVars, mainVars, threadVars, vars
  <1> DEFINE Aside == {"wg_lock", "wg_signal"}
  <1>1. /\ UNCHANGED <<n_remaining, mutex, signalled>> /\ mpc' \in {mpc, "done"}
        /\ \A s \in Threads : tpc'[s] = tpc[s] \/ (tpc[s] \notin Aside /\ tpc'[s] \notin Aside)
    <2>1. ASSUME NEW t \in Threads, Listen(t) \/ NoticeInterrupt(t) \/ Leave(t)
          PROVE  <1>1!:
      BY <2>1 DEF Listen, NoticeInterrupt, Leave, Inv, TypeOK
    <2>2. ASSUME NEW t \in Threads, Clients(t) \/ EndBg(t)
          PROVE  <1>1!:
      BY <2>2 DEF Clients, ListenFails, Accept, AcceptFails, KeepSending, Pause, ReadReturns,
                  BrokenPipe, StartBg, BgFails, StopServing, EndBg, Inv, TypeOK
    <2>3. CASE Signals
      BY <2>3 DEF Signals, SignalMain, SignalThread, Signal, Inv, TypeOK
    <2>4. CASE Done \/ UNCHANGED vars
      BY <2>4 DEF Done
    <2> QED
      BY <2>1, <2>2, <2>3, <2>4
  <1> QED
    BY <1>1 DEF WakeInv, WgMutex, NoLostWakeup

\* The signal of the last thread to report cannot come between main's look at the counter
\* and main's wait, whatever the number of threads: what keeps startup from hanging.
THEOREM NoWakeupLost == Spec => []NoLostWakeup
  <1>1. Init => WakeInv
    BY DEF Init, WakeInv, WgMutex, NoLostWakeup
  <1>2. Inv /\ WakeInv /\ [Next]_vars => WakeInv'
    BY ReportingWake, MainWake, OtherWake DEF Next, Thread, Reporting
  <1>3. WakeInv => NoLostWakeup
    BY DEF WakeInv
  <1> QED
    BY <1>1, <1>2, <1>3, StartAndStop, PTL DEF Spec

-----------------------------------------------------------------------------
(***************************************************************************)
(* The mapped files.  Main, the threads and the background threads of the   *)
(* same process share the module and the source map; Mappings models them.  *)
(***************************************************************************)

\* Where an agent is inside get_backtrace, main while it loads and while it ends.
Backtrace == {"read_pointer", "copy", "count", "unmap", "set_null"}
Loads == {"load_module", "load_map"}
Ends == {"cleanup", "cleanup_map", "return"}
MainLabels ==
    Loads \cup {"eval", "init_wait_group", "create", "start_thread", "unmap_module", "done"}
    \cup Ends \cup Backtrace

Labels == MainLabels \cup {"none", "serving", "exited", "init", "built", "failed"}

\* The types, and which agent can be where.
FilesType ==
    /\ mode \in {"server", "eval"} /\ args \in {{}, {"module"}, Files}
    /\ pc \in [Agents -> Labels] /\ ret \in [Agents -> Labels]
    /\ pointer \in [Files -> BOOLEAN] /\ size \in [Files -> BOOLEAN]
    /\ mapped \in [Files -> BOOLEAN] /\ unmaps \in [Files -> Nat]
    /\ load_count \in Nat /\ loaded \in [Threads -> BOOLEAN]
    /\ interpreters \in [Threads -> Nat]
    /\ init_failed \in BOOLEAN /\ crashed \in {"no"} \cup Files
    /\ pc[MainThread] \in MainLabels
    /\ \A t \in Threads : pc[Listener(t)] \in {"none", "serving", "exited"} \cup Backtrace
    /\ \A t \in Threads : pc[Bg(t)] \in {"none", "init", "built", "failed"} \cup Backtrace

\* Neither the thread of the socket nor its background thread will read a file.
Resting(t) == pc[Listener(t)] \in {"none", "exited"} /\ pc[Bg(t)] \in {"none", "built", "failed"}

\* Where get_backtrace returns to; when threads run; main ends after them, or gives up.
Control ==
    /\ pc[MainThread] \in Backtrace => ret[MainThread] = IF mode = "eval" THEN "cleanup" ELSE "unmap_module"
    /\ \A t \in Threads : pc[Listener(t)] \in Backtrace => ret[Listener(t)] = "serving"
    /\ \A t \in Threads : pc[Bg(t)] \in Backtrace => ret[Bg(t)] = "failed"
    /\ mode = "eval" \/ pc[MainThread] \in Loads \cup {"init_wait_group"} =>
           \A t \in Threads : pc[Listener(t)] = "none"
    /\ mode = "eval" => pc[MainThread] \notin {"init_wait_group", "create", "start_thread", "unmap_module"}
    /\ mode = "server" => pc[MainThread] # "eval"
    /\ \A t \in Threads : pc[Listener(t)] = "none" => pc[Bg(t)] = "none" /\ ~loaded[t]
    /\ ~init_failed /\ pc[MainThread] \in Ends => \A t \in Threads : Resting(t)

\* Whoever runs has an interpreter, and a background thread makes the second one.
Interpreters ==
    /\ \A t \in Threads : pc[Listener(t)] # "none" => interpreters[t] >= 1
    /\ \A t \in Threads : pc[Bg(t)] \notin {"none", "init"} => interpreters[t] >= 2
    /\ pc[MainThread] = "start_thread" => \A t \in Threads : IsNext(t) => interpreters[t] >= 1
    /\ mode = "server" /\ pc[MainThread] \in Backtrace =>
           \E t \in Threads : pc[Listener(t)] = "none" /\ interpreters[t] >= 1

\* The cases in which the module is released early and again.
Excused == init_failed \/ (mode = "eval" /\ MapMissing)

\* What the pointers and sizes say of the mappings, and who has released the module.
FileState ==
    /\ \A f \in Files : mapped[f] => pointer[f] /\ size[f]
    /\ pc[MainThread] = "load_module" => pointer = NoFile
    /\ pc[MainThread] \in Loads => /\ load_count = 0 /\ unmaps["map"] = 0 /\ unmaps["module"] = 0
                                   /\ ~pointer["map"] /\ ~size["map"] /\ ~mapped["map"]
                                   /\ pointer["module"] => mapped["module"]
    /\ size["map"] => "map" \in args
    /\ pointer["module"] /\ ~mapped["module"] => Excused \/ pc[MainThread] \in {"cleanup_map", "return"}
    /\ pc[MainThread] \in {"cleanup_map", "return"} => ~mapped["module"]
    /\ pc[MainThread] = "return" => ~mapped["map"]
    /\ \/ unmaps["module"] = 0 \/ Excused
       \/ unmaps["module"] = 1 /\ pc[MainThread] \in {"cleanup_map", "return"}
    /\ pointer["map"] /\ ~mapped["map"] => unmaps["map"] > 0

\* get_backtrace releases the source map when as many copies are counted as there are
\* threads, in one agent only, and once.
Unmapping ==
    /\ \A a \in Agents : pc[a] \in {"unmap", "set_null"} =>
           mode = "server" /\ load_count >= NThreads /\ pointer["map"] /\ size["map"]
    /\ \A a \in Agents : pc[a] = "set_null" => ~mapped["map"]
    /\ \A a, b \in Agents :
           pc[a] \in {"unmap", "set_null"} /\ pc[b] \in {"unmap", "set_null"} => a = b
    /\ unmaps["map"] > 0 => (mode = "server" /\ load_count >= NThreads) \/ pc[MainThread] = "return"
    /\ ~init_failed =>
           /\ unmaps["map"] <= 1
           /\ \A a \in Agents : pc[a] = "unmap" => unmaps["map"] = 0
           /\ pointer["map"] /\ unmaps["map"] > 0 =>
                  pc[MainThread] = "return" \/ \E a \in Agents : pc[a] = "set_null"

\* The thread has its copy and has counted it; or main has, when the first interpreter of a
\* thread it has not started throws.
Counted(t) ==
    \/ loaded[t] /\ pc[Listener(t)] # "count"
    \/ /\ pc[MainThread] \in {"unmap", "set_null", "unmap_module"}
       /\ pc[Listener(t)] = "none" /\ interpreters[t] >= 1

\* No interpreter was replaced, so that no thread counts twice.
Undisturbed ==
    /\ mode = "server" /\ size["map"] /\ ~init_failed /\ ~MapMissing
    /\ \A t \in Threads : interpreters[t] <= 1

\* The heart of the matter: in an undisturbed server the count does not exceed the number
\* of threads that have counted, so that the source map goes only when all have copies.
Copies ==
    /\ \A a \in Agents : pc[a] = "copy" => size["map"]
    /\ \A t \in Threads : pc[Listener(t)] \in {"read_pointer", "copy"} => ~loaded[t]
    /\ \A t \in Threads : pc[Listener(t)] = "count" /\ size["map"] => loaded[t]
    /\ Undisturbed => load_count <= Cardinality({t \in Threads : Counted(t)})

Running == Control /\ Interpreters /\ FileState /\ Unmapping /\ Copies

\* The process may also have crashed; then only what the properties say is left.
FilesInv ==
    /\ FilesType
    /\ pc[MainThread] # "done" => crashed = "no" /\ Running
    /\ ReadsFindMapping
    /\ MappingsReleasedOnce

\* The agents are distinct.
LEMMA AgentFacts ==
  /\ MainThread \in Agents
  /\ \A t \in Threads : Listener(t) \in Agents /\ Bg(t) \in Agents
  /\ \A t \in Threads : Listener(t) # MainThread /\ Bg(t) # MainThread
  /\ \A s, t \in Threads : Listener(s) # Bg(t)
  /\ \A s, t \in Threads : (Listener(s) = Listener(t) \/ Bg(s) = Bg(t)) => s = t
  /\ \A a \in Agents : a = MainThread \/ \E t \in Threads : a = Listener(t) \/ a = Bg(t)
  BY DEF Agents, MainThread, Listener, Bg

\* Any set of threads can be counted.
LEMMA SomeThreads ==
  ASSUME NEW S \in SUBSET Threads
  PROVE  /\ IsFiniteSet(S) /\ Cardinality(S) \in Nat /\ Cardinality(S) <= NThreads
         /\ Cardinality(S) >= NThreads => S = Threads
  <1>1. IsFiniteSet(Threads) /\ Cardinality(Threads) = NThreads
    BY FS_Interval DEF Threads
  <1>2. IsFiniteSet(S) /\ Cardinality(S) \in Nat /\ Cardinality(S) <= NThreads
    BY <1>1, FS_Subset, FS_CardinalityType
  <1>3. ASSUME Cardinality(S) >= NThreads PROVE S = Threads
    BY <1>1, <1>2, <1>3, FS_Subset
  <1> QED
    BY <1>2, <1>3

\* The type of an updated function.
LEMMA Updated ==
  ASSUME NEW S, NEW T, NEW f \in [S -> T], NEW x, NEW v \in T
  PROVE  [f EXCEPT ![x] = v] \in [S -> T]
  OBVIOUS

\* The next thread to start depends on which have started.
LEMMA NextFrame ==
  ASSUME \A s \in Threads : pc'[Listener(s)] = "none" <=> pc[Listener(s)] = "none"
  PROVE  \A t \in Threads : IsNext(t)' <=> IsNext(t)
  BY DEF IsNext, Threads

\* While the process runs the properties follow from the rest.
LEMMA Assemble ==
  ASSUME FilesType', crashed' = "no", pc'[MainThread] # "done", Running'
  PROVE  FilesInv'
  BY DEF FilesInv, ReadsFindMapping, MappingsReleasedOnce, Files

\* Nothing is mapped and only main runs.
LEMMA InitFiles == FilesInit => FilesInv
  <1> SUFFICES ASSUME FilesInit PROVE FilesInv
    OBVIOUS
  <1> USE AgentFacts DEF FilesInit
  <1>1. /\ pc[MainThread] = "load_module" /\ \A a \in Agents : a # MainThread => pc[a] = "none"
        /\ \A t \in Threads : pc[Listener(t)] = "none" /\ pc[Bg(t)] = "none"
    OBVIOUS
  <1>2. FilesType
    <2>1. pc \in [Agents -> Labels] /\ ret \in [Agents -> Labels]
      BY DEF Labels, MainLabels, Loads
    <2>2. pointer \in [Files -> BOOLEAN] /\ size \in [Files -> BOOLEAN] /\
          mapped \in [Files -> BOOLEAN]
      BY DEF NoFile
    <2>3. loaded \in [Threads -> BOOLEAN] /\ init_failed \in BOOLEAN
      OBVIOUS
    <2> QED
      BY <1>1, <2>1, <2>2, <2>3 DEF FilesType, MainLabels, Loads
  <1>3. Control
    BY <1>1 DEF Control, Backtrace, Loads, Ends
  <1>4. Interpreters
    BY <1>1 DEF Interpreters, Backtrace
  <1>5. FileState
    BY <1>1 DEF FileState, Files, NoFile
  <1>6. Unmapping
    BY <1>1 DEF Unmapping, Files
  <1>7. Copies
    <2>1. ~size["map"]
      BY DEF NoFile, Files
    <2>2. ~Undisturbed /\ \A a \in Agents : pc[a] \notin {"read_pointer", "copy", "count"}
      BY <1>1, <2>1 DEF Undisturbed
    <2> QED
      BY <2>1, <2>2 DEF Copies
  <1> QED
    BY <1>1, <1>2, <1>3, <1>4, <1>5, <1>6, <1>7
    DEF FilesInv, Running, ReadsFindMapping, MappingsReleasedOnce, Files

-----------------------------------------------------------------------------
\* Control may move on without touching the files, but not to or from the steps that load
\* or release them.
LEMMA FileFrame ==
  ASSUME FileState, UNCHANGED <<mode, args, pointer, size, mapped, unmaps>>,
         init_failed => init_failed',
         \/ pc'[MainThread] = pc[MainThread]
         \/ {pc[MainThread], pc'[MainThread]} \cap (Loads \cup {"cleanup_map", "return"}) = {},
         load_count' = load_count \/ pc'[MainThread] \notin Loads
  PROVE  FileState'
  <1>1. /\ pc'[MainThread] \in Loads => pc'[MainThread] = pc[MainThread]
        /\ pc'[MainThread] \in {"cleanup_map", "return"} <=> pc[MainThread] \in {"cleanup_map", "return"}
        /\ pc'[MainThread] = "return" => pc[MainThread] = "return"
        /\ pc'[MainThread] = "load_module" => pc[MainThread] = "load_module"
    BY DEF Loads
  <1>2. Excused => Excused'
    BY DEF Excused, MapMissing
  <1> HIDE DEF Excused, Loads
  <1> QED
    BY <1>1, <1>2 DEF FileState

\* Control may move on outside of the two steps that release the source map.
LEMMA UnmappingFrame ==
  ASSUME Unmapping, UNCHANGED <<mode, pointer, size, mapped, unmaps>>,
         init_failed => init_failed',
         load_count \in Nat, load_count' \in Nat, load_count' >= load_count,
         pc'[MainThread] = "return" <=> pc[MainThread] = "return",
         \A a \in Agents : \/ pc'[a] = pc[a]
                           \/ {pc'[a], pc[a]} \cap {"unmap", "set_null"} = {}
  PROVE  Unmapping'
  <1>1. \A a \in Agents : /\ pc'[a] = "unmap" <=> pc[a] = "unmap"
                          /\ pc'[a] = "set_null" <=> pc[a] = "set_null"
    OBVIOUS
  <1> QED
    BY <1>1 DEF Unmapping

\* More threads counted, and the same count.
LEMMA CountFrame ==
  ASSUME Copies, load_count \in Nat, load_count' = load_count, Undisturbed' => Undisturbed,
         Undisturbed' => \A t \in Threads : Counted(t) => Counted(t)'
  PROVE  Undisturbed' => load_count' <= Cardinality({t \in Threads : Counted(t)'})
  <1> SUFFICES ASSUME Undisturbed'
               PROVE  load_count <= Cardinality({t \in Threads : Counted(t)'})
    OBVIOUS
  <1> DEFINE S == {t \in Threads : Counted(t)}
             T == {t \in Threads : Counted(t)'}
  <1>1. S \subseteq T /\ S \in SUBSET Threads /\ T \in SUBSET Threads
    OBVIOUS
  <1>2. load_count <= Cardinality(S)
    BY DEF Copies
  <1> HIDE DEF S, T
  <1>3. Cardinality(S) <= Cardinality(T) /\ Cardinality(S) \in Nat /\ Cardinality(T) \in Nat
    BY <1>1, SomeThreads, FS_Subset
  <1>4. load_count <= Cardinality(T)
    BY <1>2, <1>3
  <1> QED
    BY <1>4 DEF T

\* What the steps of threads have in common.
LEMMA ThreadFrame ==
  ASSUME FilesType, Running, NEW a \in Agents, a # MainThread,
         UNCHANGED <<mode, args, pointer, size, mapped, unmaps, init_failed, load_count>>,
         NEW to, pc' = [pc EXCEPT ![a] = to],
         pc[a] \notin {"unmap", "set_null"}, to \notin {"unmap", "set_null"}
  PROVE  /\ pc'[MainThread] = pc[MainThread] /\ pc'[a] = to /\ \A b \in Agents : b # a => pc'[b] = pc[b]
         /\ FileState' /\ Unmapping'
  <1>1. pc'[MainThread] = pc[MainThread] /\ pc'[a] = to /\ \A b \in Agents : b # a => pc'[b] = pc[b]
    BY AgentFacts DEF FilesType
  <1>2. FileState'
    BY <1>1, FileFrame DEF Running
  <1>3. Unmapping'
    BY <1>1, UnmappingFrame DEF Running, FilesType
  <1> QED
    BY <1>1, <1>2, <1>3

\* What the properties say of a state is kept by a step of a thread that reads no file.
LEMMA ThreadStep ==
  ASSUME FilesInv, NEW t \in Threads,
         \/ ScriptThrows(t) \/ Wake(t) \/ WakeThrows(t) \/ StartReplacement(t)
         \/ BuildReplacement(t) \/ BuildThrows(t) \/ Swap(t) \/ Exit(t)
  PROVE  FilesInv'
  <1> USE AgentFacts DEF AgentAt, AgentGoto, inputs, countVars, endVars, fileVars
  <1>0. /\ pc[MainThread] # "done" /\ crashed = "no" /\ FilesType /\ Running
        /\ UNCHANGED <<mode, args, pointer, size, mapped, unmaps, init_failed, load_count, crashed>>
        /\ load_count \in Nat
    BY DEF ScriptThrows, Wake, WakeThrows, StartReplacement, BuildReplacement,
           BuildThrows, Swap,
           Exit, CallBacktrace, InitThreadState, InitThreadStateThrows, NewInterpreter,
           Move,
           FilesInv, FilesType
  <1> SUFFICES FilesType' /\ pc'[MainThread] = pc[MainThread] /\ Running'
    BY <1>0, Assemble
  <1>1. ASSUME NEW to, pc[Listener(t)] = "serving", pc' = [pc EXCEPT ![Listener(t)] = to],
               to = "serving" \/ to = "exited" \/ (to = "read_pointer" /\
               ret'[Listener(t)] = "serving"),
               \A a \in Agents : a # Listener(t) => ret'[a] = ret[a],
               ret' \in [Agents -> Labels],
               \/ UNCHANGED interpreters /\ UNCHANGED loaded /\ (to = "read_pointer" => ~loaded[t])
               \/ /\ interpreters' = [interpreters EXCEPT ![t] = @ + 1]
                  /\ loaded' = [loaded EXCEPT ![t] = FALSE]
        PROVE  FilesType' /\ pc'[MainThread] = pc[MainThread] /\ Running'
    <2>1. /\ pc'[MainThread] = pc[MainThread] /\ pc'[Listener(t)] = to
          /\ \A b \in Agents : b # Listener(t) => pc'[b] = pc[b]
          /\ FileState' /\ Unmapping'
      <3>1. /\ Listener(t) \in Agents /\ Listener(t) # MainThread
            /\ pc[Listener(t)] \notin {"unmap", "set_null"} /\ to \notin {"unmap", "set_null"}
        BY <1>1
      <3> QED
        BY <1>0, <1>1, <3>1, ThreadFrame
    <2>2. \A s \in Threads : /\ pc'[Bg(s)] = pc[Bg(s)] /\ ret'[Bg(s)] = ret[Bg(s)]
                             /\ s # t => /\ pc'[Listener(s)] = pc[Listener(s)]
                                         /\ ret'[Listener(s)] = ret[Listener(s)]
                                         /\ loaded'[s] = loaded[s]
                             /\ interpreters'[s] \in Nat /\ interpreters[s] \in Nat
                             /\ interpreters'[s] >= interpreters[s]
      BY <1>0, <1>1, <2>1 DEF FilesType
    <2>3. FilesType'
      <3>1. pc' \in [Agents -> Labels] /\ ret' \in [Agents -> Labels]
        <4>1. to \in Labels
          BY <1>1 DEF Labels, MainLabels, Backtrace
        <4> QED
          BY <1>0, <1>1, <4>1, Updated DEF FilesType
      <3>2. loaded' \in [Threads -> BOOLEAN]
        BY <1>0, <1>1, Updated, Zenon DEF FilesType
      <3>3. interpreters' \in [Threads -> Nat]
        BY <1>0, <1>1 DEF FilesType
      <3>4. \A s \in Threads : pc'[Listener(s)] \in {"none", "serving", "exited"} \cup Backtrace
        BY <1>0, <1>1, <2>1, <2>2 DEF FilesType, Backtrace
      <3> QED
        BY <1>0, <2>1, <2>2, <3>1, <3>2, <3>3, <3>4 DEF FilesType
    <2>4. Control'
      BY <1>0, <1>1, <2>1, <2>2 DEF Running, Control, FilesType, Backtrace, Resting
    <2>5. Interpreters'
      BY <1>0, <1>1, <2>1, <2>2 DEF Running, Interpreters, FilesType, IsNext
    <2>6. Copies'
      <3>1. /\ \A a \in Agents : pc'[a] = "copy" => size'["map"]
            /\ \A s \in Threads : pc'[Listener(s)] \in {"read_pointer", "copy"} => ~loaded'[s]
            /\ \A s \in Threads : pc'[Listener(s)] = "count" /\ size'["map"] => loaded'[s]
        BY <1>0, <1>1, <2>1, <2>2 DEF Running, Copies, FilesType
      <3>2. Undisturbed' => Undisturbed
        BY <1>0, <2>2 DEF Undisturbed, MapMissing
      <3>3. Undisturbed' => \A s \in Threads : Counted(s) => Counted(s)'
        <4> SUFFICES ASSUME Undisturbed', NEW s \in Threads, Counted(s) PROVE Counted(s)'
          OBVIOUS
        <4>1. interpreters[t] >= 1 /\ interpreters'[t] <= 1
          BY <1>0, <1>1 DEF Running, Interpreters, Undisturbed
        <4>2. UNCHANGED interpreters /\ UNCHANGED loaded
          BY <1>0, <1>1, <4>1 DEF FilesType
        <4> QED
          BY <1>0, <1>1, <2>1, <2>2, <4>2 DEF Counted
      <3> QED
        BY <1>0, <3>1, <3>2, <3>3, CountFrame DEF Running, Copies
    <2> QED
      BY <2>1, <2>3, <2>4, <2>5, <2>6 DEF Running
  <1>2. ASSUME NEW to, pc' = [pc EXCEPT ![Bg(t)] = to],
               \/ /\ pc[Bg(t)] = "none" /\ to = "init" /\ pc[Listener(t)] = "serving"
                  /\ UNCHANGED <<ret, interpreters, loaded>>
               \/ /\ pc[Bg(t)] = "init" /\ interpreters' = [interpreters EXCEPT ![t] = @ + 1]
                  /\ UNCHANGED loaded
                  /\ \/ to = "built" /\ UNCHANGED ret
                     \/ to = "read_pointer" /\ ret' = [ret EXCEPT ![Bg(t)] = "failed"]
               \/ /\ pc[Bg(t)] = "built" /\ to = "none" /\ pc[Listener(t)] = "serving"
                  /\ UNCHANGED <<ret, interpreters>>
                  /\ loaded' = [loaded EXCEPT ![t] = FALSE]
        PROVE  FilesType' /\ pc'[MainThread] = pc[MainThread] /\ Running'
    <2>1. /\ pc'[MainThread] = pc[MainThread] /\ pc'[Bg(t)] = to
          /\ \A b \in Agents : b # Bg(t) => pc'[b] = pc[b]
          /\ FileState' /\ Unmapping'
      <3>1. /\ Bg(t) \in Agents /\ Bg(t) # MainThread
            /\ pc[Bg(t)] \notin {"unmap", "set_null"} /\ to \notin {"unmap", "set_null"}
        BY <1>2
      <3> QED
        BY <1>0, <1>2, <3>1, ThreadFrame
    <2>2. \A s \in Threads : /\ pc'[Listener(s)] = pc[Listener(s)] /\
                                ret'[Listener(s)] = ret[Listener(s)]
                             /\ s # t => /\ pc'[Bg(s)] = pc[Bg(s)]
                                         /\ ret'[Bg(s)] = ret[Bg(s)]
                                         /\ loaded'[s] = loaded[s]
                             /\ interpreters'[s] \in Nat /\ interpreters[s] \in Nat
                             /\ interpreters'[s] >= interpreters[s]
      BY <1>0, <1>2, <2>1 DEF FilesType
    <2>3. FilesType'
      <3>1. pc' \in [Agents -> Labels] /\ ret' \in [Agents -> Labels]
        <4>1. to \in Labels /\ "failed" \in Labels
          BY <1>2 DEF Labels, MainLabels, Backtrace
        <4>2. pc' \in [Agents -> Labels]
          BY <1>0, <1>2, <4>1, Updated DEF FilesType
        <4>3. ret' = ret \/ ret' = [ret EXCEPT ![Bg(t)] = "failed"]
          BY <1>2
        <4>4. ret \in [Agents -> Labels]
          BY <1>0 DEF FilesType
        <4>5. [ret EXCEPT ![Bg(t)] = "failed"] \in [Agents -> Labels]
          BY <4>1, <4>4, Updated, Zenon
        <4> QED
          BY <4>2, <4>3, <4>4, <4>5
      <3>2. loaded' \in [Threads -> BOOLEAN]
        BY <1>0, <1>2, Updated, Zenon DEF FilesType
      <3>3. interpreters' \in [Threads -> Nat]
        BY <1>0, <1>2 DEF FilesType
      <3>4. \A s \in Threads : pc'[Bg(s)] \in {"none", "init", "built", "failed"} \cup Backtrace
        BY <1>0, <1>2, <2>1, <2>2 DEF FilesType, Backtrace
      <3> QED
        BY <1>0, <2>1, <2>2, <3>1, <3>2, <3>3, <3>4 DEF FilesType
    <2>4. ret'[MainThread] = ret[MainThread] /\ (to = "read_pointer" => ret'[Bg(t)] = "failed")
          /\ pc[Listener(t)] # "none" /\ ~Resting(t)
          /\ (to \in {"built", "read_pointer"} => interpreters'[t] = interpreters[t] + 1)
      BY <1>0, <1>2 DEF FilesType, Running, Control, Resting
    <2>5. Control'
      BY <1>0, <1>2, <2>1, <2>2, <2>4 DEF Running, Control, FilesType, Backtrace, Resting
    <2>6. Interpreters'
      <3>1. \A s \in Threads : pc'[Bg(s)] \notin {"none", "init"} => interpreters'[s] >= 2
        BY <1>0, <1>2, <2>1, <2>2, <2>4 DEF Running, Interpreters
      <3> QED
        BY <1>0, <3>1, <2>1, <2>2, NextFrame DEF Running, Interpreters
    <2>7. Copies'
      <3>1. /\ \A a \in Agents : pc'[a] = "copy" => size'["map"]
            /\ \A s \in Threads : pc'[Listener(s)] \in {"read_pointer", "copy"} => ~loaded'[s]
            /\ \A s \in Threads : pc'[Listener(s)] = "count" /\ size'["map"] => loaded'[s]
        BY <1>0, <1>2, <2>1, <2>2 DEF Running, Copies, FilesType
      <3>2. Undisturbed' => Undisturbed
        BY <1>0, <2>2 DEF Undisturbed, MapMissing
      <3>3. Undisturbed' => \A s \in Threads : Counted(s) => Counted(s)'
        <4> SUFFICES ASSUME Undisturbed', NEW s \in Threads, Counted(s) PROVE Counted(s)'
          OBVIOUS
        <4>1. /\ interpreters[t] >= 1 /\ interpreters'[t] <= 1
              /\ pc[Bg(t)] = "built" => interpreters[t] >= 2
          BY <1>0, <2>4 DEF Running, Interpreters, Undisturbed
        <4>2. UNCHANGED interpreters /\ UNCHANGED loaded
          BY <1>0, <1>2, <4>1 DEF FilesType
        <4> QED
          BY <1>0, <1>2, <2>1, <2>2, <4>2 DEF Counted
      <3> QED
        BY <1>0, <3>1, <3>2, <3>3, CountFrame DEF Running, Copies
    <2> QED
      BY <2>1, <2>3, <2>5, <2>6, <2>7 DEF Running
  <1>3. CASE ScriptThrows(t) \/ Exit(t)
    <2>1. PICK to \in {"read_pointer", "exited"} : pc' = [pc EXCEPT ![Listener(t)] = to]
              /\ pc[Listener(t)] = "serving" /\ UNCHANGED <<interpreters, loaded>>
              /\ (to = "read_pointer" => ~loaded[t] /\ ret' = [ret EXCEPT ![Listener(t)] = "serving"])
              /\ (to = "exited" => ret' = ret)
      BY <1>3 DEF ScriptThrows, Exit, CallBacktrace, Move
    <2>2. ret' \in [Agents -> Labels] /\ \A a \in Agents : a # Listener(t) => ret'[a] = ret[a]
      BY <1>0, <2>1, Updated DEF FilesType, Labels
    <2> QED
      BY <1>0, <1>1, <2>1, <2>2 DEF FilesType
  <1>4. CASE Wake(t) \/ WakeThrows(t)
    <2>0. Listener(t) # Bg(t)
      OBVIOUS
    <2>1. PICK to \in {"read_pointer", "serving"} : pc' = [pc EXCEPT ![Listener(t)] = to]
              /\ pc[Listener(t)] = "serving"
              /\ interpreters' = [interpreters EXCEPT ![t] = @ + 1]
              /\ loaded' = [loaded EXCEPT ![t] = FALSE]
              /\ (to = "read_pointer" => ret' = [ret EXCEPT ![Listener(t)] = "serving"])
              /\ (to = "serving" => ret' = ret)
      BY <1>4, <2>0 DEF Wake, WakeThrows, InitThreadState, InitThreadStateThrows,
                        NewInterpreter, CallBacktrace
    <2>2. ret' \in [Agents -> Labels] /\ \A a \in Agents : a # Listener(t) => ret'[a] = ret[a]
      BY <1>0, <2>1, Updated DEF FilesType, Labels
    <2> QED
      BY <1>0, <1>1, <2>1, <2>2 DEF FilesType
  <1>5. CASE StartReplacement(t)
    BY <1>2, <1>5 DEF StartReplacement, Move
  <1>6. CASE BuildReplacement(t) \/ BuildThrows(t)
    BY <1>2, <1>6 DEF BuildReplacement, BuildThrows, InitThreadState,
                      InitThreadStateThrows, NewInterpreter, CallBacktrace
  <1>7. CASE Swap(t)
    BY <1>2, <1>7 DEF Swap
  <1> QED
    BY <1>3, <1>4, <1>5, <1>6, <1>7

-----------------------------------------------------------------------------
\* get_backtrace moves on, or returns.
LEMMA BacktraceControl ==
  ASSUME FilesType, Running, pc[MainThread] # "done", NEW a \in Agents, pc[a] \in Backtrace,
         NEW to, to \in Backtrace \/ to = ret[a], pc' = [pc EXCEPT ![a] = to],
         UNCHANGED <<mode, ret, interpreters, init_failed>>,
         \A t \in Threads : pc[Listener(t)] = "none" => loaded'[t] = loaded[t]
  PROVE  /\ pc'[a] = to /\ \A b \in Agents : b # a => pc'[b] = pc[b]
         /\ pc' \in [Agents -> Labels] /\ pc'[MainThread] \in MainLabels \ {"done"}
         /\ \A t \in Threads : pc'[Listener(t)] \in {"none", "serving", "exited"} \cup Backtrace
         /\ \A t \in Threads : pc'[Bg(t)] \in {"none", "init", "built", "failed"} \cup Backtrace
         /\ \A t \in Threads : pc'[Listener(t)] = "none" <=> pc[Listener(t)] = "none"
         /\ \/ pc'[MainThread] = pc[MainThread]
            \/ {pc[MainThread], pc'[MainThread]} \cap (Loads \cup {"cleanup_map", "return"}) = {}
         /\ to \in Backtrace \cup {"serving", "failed", "cleanup", "unmap_module"}
         /\ pc[MainThread] \notin Loads
         /\ Control' /\ Interpreters'
  <1> USE AgentFacts
  <1>1. pc'[a] = to /\ \A b \in Agents : b # a => pc'[b] = pc[b]
    BY DEF FilesType
  <1>2. CASE a = MainThread
    <2>1. \A t \in Threads : pc'[Listener(t)] = pc[Listener(t)] /\ pc'[Bg(t)] = pc[Bg(t)]
      BY <1>1, <1>2
    <2>2. to \in Backtrace \/ to = IF mode = "eval" THEN "cleanup" ELSE "unmap_module"
      BY <1>2 DEF Running, Control
    <2>3. to \in Backtrace \cup {"cleanup", "unmap_module"} /\ to \in Labels /\
          to \in MainLabels \ {"done"}
      BY <2>2 DEF Labels, MainLabels, Ends, Backtrace
    <2>4. pc' \in [Agents -> Labels]
      BY <2>3, Updated DEF FilesType
    <2>5. \/ pc'[MainThread] = pc[MainThread]
          \/ {pc[MainThread], pc'[MainThread]} \cap (Loads \cup {"cleanup_map", "return"}) = {}
      BY <1>1, <1>2, <2>3 DEF Backtrace, Loads
    <2>6. pc[MainThread] \notin Loads
      BY <1>2 DEF Backtrace, Loads
    <2>7. Control'
      <3>1. pc'[MainThread] \in Ends => mode = "eval"
        BY <1>1, <1>2, <2>2 DEF Ends, Backtrace
      <3>2. pc'[MainThread] \notin Loads \cup {"init_wait_group", "eval", "create", "start_thread"}
        BY <1>1, <1>2, <2>3 DEF Loads, Backtrace
      <3>3. pc'[MainThread] = "unmap_module" => mode # "eval"
        BY <1>1, <1>2, <2>2 DEF Backtrace
      <3> QED
        BY <1>1, <1>2, <2>1, <3>1, <3>2, <3>3 DEF Running, Control, Resting
    <2>8. Interpreters'
      BY <1>1, <1>2, <2>1, <2>3 DEF Running, Interpreters, Backtrace
    <2> QED
      BY <1>1, <1>2, <2>1, <2>3, <2>4, <2>5, <2>6, <2>7, <2>8 DEF FilesType
  <1>3. CASE \E t \in Threads : a = Listener(t)
    <2> PICK t \in Threads : a = Listener(t)
      BY <1>3
    <2>1. /\ pc'[MainThread] = pc[MainThread]
          /\ \A s \in Threads : pc'[Bg(s)] = pc[Bg(s)] /\ (s # t =>
                                pc'[Listener(s)] = pc[Listener(s)])
      BY <1>1
    <2>2. to \in Backtrace \cup {"serving"} /\ to \in Labels
      BY DEF Running, Control, Labels, MainLabels, Backtrace
    <2>3. pc' \in [Agents -> Labels]
      BY <2>2, Updated DEF FilesType
    <2>4. pc[Listener(t)] # "none" /\ pc'[Listener(t)] # "none"
      BY <1>1, <2>2 DEF Backtrace
    <2>5. pc[MainThread] \notin Loads /\ ~Resting(t)
      BY <2>4 DEF Running, Control, Resting, Backtrace
    <2>6. Control'
      BY <1>1, <2>1, <2>2, <2>4, <2>5 DEF Running, Control, Resting, Backtrace
    <2>7. Interpreters'
      BY <1>1, <2>1, <2>4, NextFrame DEF Running, Interpreters
    <2> QED
      BY <1>1, <2>1, <2>2, <2>3, <2>4, <2>5, <2>6, <2>7 DEF FilesType
  <1>4. CASE \E t \in Threads : a = Bg(t)
    <2> PICK t \in Threads : a = Bg(t)
      BY <1>4
    <2>1. /\ pc'[MainThread] = pc[MainThread]
          /\ \A s \in Threads : pc'[Listener(s)] = pc[Listener(s)] /\ (s # t =>
                                pc'[Bg(s)] = pc[Bg(s)])
      BY <1>1
    <2>2. to \in Backtrace \cup {"failed"} /\ to \in Labels
      BY DEF Running, Control, Labels, MainLabels, Backtrace
    <2>3. pc' \in [Agents -> Labels]
      BY <2>2, Updated DEF FilesType
    <2>4. pc[Listener(t)] # "none" /\ pc'[Bg(t)] \notin {"none", "init"} /\
          pc[Bg(t)] \notin {"none", "init"}
      BY <1>1, <2>2 DEF Backtrace, Running, Control
    <2>5. pc[MainThread] \notin Loads /\ ~Resting(t)
      BY <2>4 DEF Running, Control, Resting, Backtrace
    <2>6. Control'
      BY <1>1, <2>1, <2>2, <2>4, <2>5 DEF Running, Control, Resting, Backtrace
    <2>7. Interpreters'
      BY <1>1, <2>1, <2>4, NextFrame DEF Running, Interpreters
    <2> QED
      BY <1>1, <2>1, <2>2, <2>3, <2>4, <2>5, <2>6, <2>7 DEF FilesType
  <1> QED
    BY <1>2, <1>3, <1>4

\* ReadPointer and Copy: nothing is counted or released yet.
LEMMA ReadStep ==
  ASSUME FilesInv, NEW a \in Agents, ReadPointer(a) \/ Copy(a)
  PROVE  FilesInv'
  <1> USE AgentFacts DEF AgentAt, AgentGoto, inputs, countVars, endVars, fileVars
  <1>0. /\ pc[MainThread] # "done" /\ crashed = "no" /\ FilesType /\ Running
        /\ UNCHANGED <<mode, args, ret, pointer, size, mapped, unmaps, init_failed, load_count,
                       interpreters, crashed>>
        /\ load_count \in Nat
    BY DEF ReadPointer, Copy, Move, FilesInv, FilesType
  <1>1. PICK to \in {"copy", "count"} :
          /\ pc' = [pc EXCEPT ![a] = to] /\ pc[a] \in {"read_pointer", "copy"}
          /\ to = "copy" => size["map"]
          /\ \/ UNCHANGED loaded /\ (to = "count" => ~size["map"])
             \/ to = "count" /\ loaded' = [t \in Threads |-> loaded[t] \/ a = Listener(t)]
    BY DEF ReadPointer, Copy, Move
  <1>2. pc[a] \in Backtrace /\ to \in Backtrace
    BY <1>1 DEF Backtrace
  <1>3. /\ loaded' \in [Threads -> BOOLEAN]
        /\ \A t \in Threads : a # Listener(t) => (loaded'[t] <=> loaded[t])
        /\ \A t \in Threads : a = Listener(t) /\ to = "count" /\ size["map"] => loaded'[t]
        /\ \A t \in Threads : a = Listener(t) /\ to = "copy" => ~loaded'[t]
    <2>1. CASE UNCHANGED loaded /\ (to = "count" => ~size["map"])
      <3>1. \A t \in Threads : a = Listener(t) => ~loaded[t]
        BY <1>0, <1>1 DEF Running, Copies
      <3> QED
        BY <1>0, <2>1, <3>1 DEF FilesType
    <2>2. CASE to = "count" /\ loaded' = [t \in Threads |-> loaded[t] \/ a = Listener(t)]
      <3>1. loaded' \in [Threads -> BOOLEAN]
        BY <2>2, Zenon
      <3> QED
        BY <2>2, <3>1
    <2> QED
      BY <1>1, <2>1, <2>2
  <1>4. \A t \in Threads : pc[Listener(t)] = "none" => a # Listener(t) /\ loaded'[t] = loaded[t]
    BY <1>0, <1>1, <1>3 DEF FilesType
  <1>5. /\ pc'[a] = to /\ \A b \in Agents : b # a => pc'[b] = pc[b]
        /\ pc' \in [Agents -> Labels] /\ pc'[MainThread] \in MainLabels \ {"done"}
        /\ \A t \in Threads : pc'[Listener(t)] \in {"none", "serving", "exited"} \cup Backtrace
        /\ \A t \in Threads : pc'[Bg(t)] \in {"none", "init", "built", "failed"} \cup Backtrace
        /\ \/ pc'[MainThread] = pc[MainThread]
           \/ {pc[MainThread], pc'[MainThread]} \cap (Loads \cup {"cleanup_map", "return"}) = {}
        /\ Control' /\ Interpreters'
    BY <1>0, <1>1, <1>2, <1>4, BacktraceControl
  <1>6. FilesType'
    BY <1>0, <1>3, <1>5 DEF FilesType
  <1>7. FileState'
    BY <1>0, <1>5, FileFrame DEF Running
  <1>8. Unmapping'
    <2>1. \A b \in Agents : pc'[b] = pc[b] \/ {pc'[b], pc[b]} \cap {"unmap", "set_null"} = {}
      BY <1>1, <1>5
    <2>2. pc'[MainThread] = "return" <=> pc[MainThread] = "return"
      BY <1>1, <1>5
    <2> QED
      BY <1>0, <2>1, <2>2, UnmappingFrame DEF Running
  <1>9. Copies'
    <2>1. /\ \A b \in Agents : pc'[b] = "copy" => size'["map"]
          /\ \A t \in Threads : pc'[Listener(t)] \in {"read_pointer", "copy"} => ~loaded'[t]
          /\ \A t \in Threads : pc'[Listener(t)] = "count" /\ size'["map"] => loaded'[t]
      BY <1>0, <1>1, <1>3, <1>5 DEF Running, Copies
    <2>2. Undisturbed' => Undisturbed
      BY <1>0 DEF Undisturbed, MapMissing
    <2>3. \A t \in Threads : Counted(t) => Counted(t)'
      <3> SUFFICES ASSUME NEW t \in Threads, Counted(t) PROVE Counted(t)'
        OBVIOUS
      <3>1. a # Listener(t)
        BY <1>0, <1>1 DEF Counted, Running, Copies
      <3>2. pc'[Listener(t)] = pc[Listener(t)] /\ (loaded'[t] <=> loaded[t])
        BY <1>3, <1>5, <3>1
      <3>3. pc[MainThread] \in {"unmap", "set_null", "unmap_module"} => pc'[MainThread] = pc[MainThread]
        BY <1>1, <1>5
      <3> QED
        BY <1>0, <3>2, <3>3 DEF Counted
    <2> QED
      BY <1>0, <2>1, <2>2, <2>3, CountFrame DEF Running, Copies
  <1> QED
    BY <1>0, <1>5, <1>6, <1>7, <1>8, <1>9, Assemble DEF Running

\* One more backtrace has been counted, and perhaps it was the last.
LEMMA CountStep ==
  ASSUME FilesInv, NEW a \in Agents, Count(a)
  PROVE  FilesInv'
  <1> USE AgentFacts DEF AgentAt, AgentGoto, inputs, countVars, endVars, fileVars
  <1>0. /\ pc[MainThread] # "done" /\ crashed = "no" /\ FilesType /\ Running
        /\ UNCHANGED <<mode, args, ret, pointer, size, mapped, unmaps, init_failed, loaded,
                       interpreters, crashed>>
        /\ load_count \in Nat /\ load_count' = load_count + 1 /\ pc[a] = "count"
    BY DEF Count, FilesInv, FilesType
  <1>1. PICK to \in {"unmap", ret[a]} :
          /\ pc' = [pc EXCEPT ![a] = to]
          /\ to = "unmap" /\ ret[a] # "unmap" =>
                 /\ load_count + 1 = g_n_threads /\ size["map"] /\ pointer["map"]
    BY DEF Count
  <1>2. pc[a] \in Backtrace /\ (to \in Backtrace \/ to = ret[a])
    BY <1>0, <1>1 DEF Backtrace
  <1>3. /\ pc'[a] = to /\ \A b \in Agents : b # a => pc'[b] = pc[b]
        /\ pc' \in [Agents -> Labels] /\ pc'[MainThread] \in MainLabels \ {"done"}
        /\ \A t \in Threads : pc'[Listener(t)] \in {"none", "serving", "exited"} \cup Backtrace
        /\ \A t \in Threads : pc'[Bg(t)] \in {"none", "init", "built", "failed"} \cup Backtrace
        /\ \/ pc'[MainThread] = pc[MainThread]
           \/ {pc[MainThread], pc'[MainThread]} \cap (Loads \cup {"cleanup_map", "return"}) = {}
        /\ pc[MainThread] \notin Loads
        /\ Control' /\ Interpreters'
    BY <1>0, <1>1, <1>2, BacktraceControl
  <1>4. ret[a] \in {"serving", "failed", "cleanup", "unmap_module"}
    BY <1>0, <1>2 DEF Running, Control
  <1>5. FilesType'
    BY <1>0, <1>3 DEF FilesType
  <1>6. FileState'
    <2>1. pc'[MainThread] \notin Loads
      BY <1>3
    <2> QED
      BY <1>0, <1>3, <2>1, FileFrame DEF Running
  <1>7. Unmapping'
    <2>1. CASE to # "unmap"
      <3>1. \A b \in Agents : pc'[b] = pc[b] \/ {pc'[b], pc[b]} \cap {"unmap", "set_null"} = {}
        BY <1>0, <1>1, <1>3, <1>4, <2>1
      <3>2. pc'[MainThread] = "return" <=> pc[MainThread] = "return"
        BY <1>3
      <3> QED
        BY <1>0, <3>1, <3>2, UnmappingFrame DEF Running
    <2>2. CASE to = "unmap"
      <3>1. /\ mode = "server" /\ load_count < NThreads /\ load_count' >= NThreads
            /\ size["map"] /\ pointer["map"]
        BY <1>0, <1>1, <1>4, <2>2 DEF g_n_threads, FilesType
      <3>2. \A b \in Agents : pc[b] \notin {"unmap", "set_null"}
        BY <1>0, <3>1 DEF Running, Unmapping
      <3>3. unmaps["map"] > 0 => pc[MainThread] = "return"
        BY <1>0, <3>1 DEF Running, Unmapping
      <3>4. init_failed \/ pc[MainThread] # "return"
        BY <1>0, <1>2 DEF Running, Control, Resting, Ends, Backtrace
      <3>5. unmaps["map"] \in Nat
        BY <1>0 DEF FilesType, Files
      <3> QED
        BY <1>0, <1>3, <2>2, <3>1, <3>2, <3>3, <3>4, <3>5 DEF Unmapping
    <2> QED
      BY <2>1, <2>2
  <1>8. Copies'
    <2>1. /\ \A b \in Agents : pc'[b] = "copy" => size'["map"]
          /\ \A t \in Threads : pc'[Listener(t)] \in {"read_pointer", "copy"} => ~loaded'[t]
          /\ \A t \in Threads : pc'[Listener(t)] = "count" /\ size'["map"] => loaded'[t]
      BY <1>0, <1>1, <1>3, <1>4 DEF Running, Copies
    <2>2. ASSUME Undisturbed' PROVE load_count' <= Cardinality({t \in Threads : Counted(t)'})
      <3>1. Undisturbed /\ mode = "server" /\ size["map"]
        BY <1>0, <2>2 DEF Undisturbed, MapMissing
      <3>2. PICK s \in Threads : ~Counted(s) /\ Counted(s)'
        <4>1. CASE a = MainThread
          <5>1. PICK s \in Threads : pc[Listener(s)] = "none" /\ interpreters[s] >= 1
            BY <1>0, <1>2, <3>1, <4>1 DEF Running, Interpreters
          <5>2. ~loaded[s]
            BY <1>0, <5>1 DEF Running, Control
          <5>3. to \in {"unmap", "unmap_module"}
            BY <1>0, <1>1, <1>2, <3>1, <4>1 DEF Running, Control
          <5> QED
            BY <1>0, <1>3, <4>1, <5>1, <5>2, <5>3 DEF Counted
        <4>2. CASE \E t \in Threads : a = Listener(t)
          <5> PICK t \in Threads : a = Listener(t)
            BY <4>2
          <5> QED
            BY <1>0, <1>1, <1>3, <1>4, <3>1 DEF Counted, Running, Copies
        <4>3. CASE \E t \in Threads : a = Bg(t)
          BY <1>0, <3>1, <4>3 DEF Running, Interpreters, Undisturbed, FilesType
        <4> QED
          BY <4>1, <4>2, <4>3
      <3> DEFINE S == {t \in Threads : Counted(t)}
                 T == {t \in Threads : Counted(t)'}
      <3>3. \A t \in Threads : Counted(t) => Counted(t)'
        <4> SUFFICES ASSUME NEW t \in Threads, Counted(t) PROVE Counted(t)'
          OBVIOUS
        <4>1. pc'[Listener(t)] = pc[Listener(t)] \/ (a = Listener(t) /\ pc'[Listener(t)] # "count")
          BY <1>1, <1>3, <1>4
        <4>2. pc[MainThread] \in {"unmap", "set_null", "unmap_module"} => pc'[MainThread] = pc[MainThread]
          BY <1>0, <1>3
        <4>3. pc[Listener(t)] = "none" => pc'[Listener(t)] = "none"
          BY <1>0, <4>1
        <4> QED
          BY <1>0, <4>1, <4>2, <4>3 DEF Counted
      <3>4. s \in T /\ s \notin S /\ S \subseteq T /\ S \in SUBSET Threads /\ T \in SUBSET Threads
        BY <3>2, <3>3
      <3>5. load_count <= Cardinality(S)
        BY <1>0, <3>1 DEF Running, Copies
      <3> HIDE DEF S, T
      <3>6. /\ Cardinality(S \cup {s}) = Cardinality(S) + 1
            /\ Cardinality(S \cup {s}) <= Cardinality(T)
            /\ Cardinality(S) \in Nat /\ Cardinality(T) \in Nat
        BY <3>4, SomeThreads, FS_AddElement, FS_Subset
      <3>7. load_count' <= Cardinality(T)
        BY <1>0, <3>5, <3>6
      <3> QED
        BY <3>7 DEF T
    <2> QED
      BY <2>1, <2>2 DEF Copies
  <1> QED
    BY <1>0, <1>3, <1>5, <1>6, <1>7, <1>8, Assemble DEF Running

\* get_backtrace releases the source map.
LEMMA UnmapStep ==
  ASSUME FilesInv, NEW a \in Agents, Unmap(a) \/ SetNull(a)
  PROVE  FilesInv'
  <1> USE AgentFacts DEF AgentAt, AgentGoto, inputs, countVars, endVars, fileVars, munmap
  <1>0. /\ pc[MainThread] # "done" /\ crashed = "no" /\ FilesType /\ Running
        /\ UNCHANGED <<mode, args, ret, size, init_failed, load_count, loaded, interpreters, crashed>>
        /\ load_count \in Nat /\ unmaps["map"] \in Nat
    BY DEF Unmap, SetNull, FilesInv, FilesType, Files
  <1>1. PICK to : /\ pc' = [pc EXCEPT ![a] = to]
                  /\ \/ /\ pc[a] = "unmap" /\ to = "set_null" /\ UNCHANGED pointer
                        /\ mapped' = [mapped EXCEPT !["map"] = FALSE]
                        /\ unmaps' = [unmaps EXCEPT !["map"] = @ + 1]
                     \/ /\ pc[a] = "set_null" /\ to = ret[a] /\ UNCHANGED <<mapped, unmaps>>
                        /\ pointer' = [pointer EXCEPT !["map"] = FALSE]
    BY DEF Unmap, SetNull
  <1>2. pc[a] \in Backtrace /\ (to \in Backtrace \/ to = ret[a])
    BY <1>1 DEF Backtrace
  <1>3. /\ pc'[a] = to /\ \A b \in Agents : b # a => pc'[b] = pc[b]
        /\ pc' \in [Agents -> Labels] /\ pc'[MainThread] \in MainLabels \ {"done"}
        /\ \A t \in Threads : pc'[Listener(t)] \in {"none", "serving", "exited"} \cup Backtrace
        /\ \A t \in Threads : pc'[Bg(t)] \in {"none", "init", "built", "failed"} \cup Backtrace
        /\ \/ pc'[MainThread] = pc[MainThread]
           \/ {pc[MainThread], pc'[MainThread]} \cap (Loads \cup {"cleanup_map", "return"}) = {}
        /\ pc[MainThread] \notin Loads
        /\ Control' /\ Interpreters'
    BY <1>0, <1>1, <1>2, BacktraceControl
  <1>4. ret[a] \in {"serving", "failed", "cleanup", "unmap_module"}
    BY <1>0, <1>2 DEF Running, Control
  <1>5. /\ mode = "server" /\ load_count >= NThreads /\ pointer["map"] /\ size["map"]
        /\ \A b \in Agents : b # a => pc[b] \notin {"unmap", "set_null"}
        /\ pc[a] = "set_null" => ~mapped["map"] /\ unmaps["map"] > 0
        /\ pc[a] = "unmap" /\ ~init_failed => unmaps["map"] = 0
    BY <1>0, <1>1 DEF Running, Unmapping, FileState
  <1>6. /\ pointer' \in [Files -> BOOLEAN] /\ mapped' \in [Files -> BOOLEAN] /\
           unmaps' \in [Files -> Nat]
        /\ pointer'["module"] = pointer["module"] /\ mapped'["module"] = mapped["module"]
        /\ unmaps'["module"] = unmaps["module"]
        /\ ~mapped'["map"] /\ unmaps'["map"] > 0 /\ unmaps'["map"] \in Nat
        /\ \/ pc[a] = "unmap" /\ pointer'["map"] /\ unmaps'["map"] = unmaps["map"] + 1
           \/ pc[a] = "set_null" /\ ~pointer'["map"] /\ unmaps'["map"] = unmaps["map"]
    <2>1. CASE pc[a] = "unmap"
      <3>1. pointer' = pointer /\ mapped' = [mapped EXCEPT !["map"] = FALSE] /\
            unmaps' = [unmaps EXCEPT !["map"] = @ + 1]
        BY <1>1, <2>1
      <3>2. mapped' \in [Files -> BOOLEAN] /\ ~mapped'["map"] /\ mapped'["module"] = mapped["module"]
        BY <1>0, <3>1, Updated, Zenon DEF FilesType, Files
      <3>3. /\ unmaps' \in [Files -> Nat] /\ unmaps'["map"] = unmaps["map"] + 1
            /\ unmaps'["module"] = unmaps["module"]
        BY <1>0, <3>1 DEF FilesType, Files
      <3> QED
        BY <1>0, <1>5, <2>1, <3>1, <3>2, <3>3 DEF FilesType
    <2>2. CASE pc[a] = "set_null"
      <3>1. mapped' = mapped /\ unmaps' = unmaps /\ pointer' = [pointer EXCEPT !["map"] = FALSE]
        BY <1>1, <2>2
      <3>2. pointer' \in [Files -> BOOLEAN] /\ ~pointer'["map"] /\
            pointer'["module"] = pointer["module"]
        BY <1>0, <3>1, Updated, Zenon DEF FilesType, Files
      <3> QED
        BY <1>0, <1>5, <2>2, <3>1, <3>2 DEF FilesType
    <2> QED
      BY <1>1, <2>1, <2>2
  <1>7. FilesType'
    BY <1>0, <1>3, <1>6 DEF FilesType
  <1>8. FileState'
    <2>1. ~MapMissing /\ ~MapMissing' /\ (Excused' <=> Excused)
      BY <1>0, <1>5, <1>6 DEF MapMissing, Excused
    <2>2. /\ pc'[MainThread] \notin Loads
          /\ pc'[MainThread] \in {"cleanup_map", "return"} <=> pc[MainThread] \in {"cleanup_map", "return"}
          /\ pc'[MainThread] # "load_module"
      BY <1>3 DEF Loads
    <2> QED
      BY <1>0, <1>5, <1>6, <2>1, <2>2 DEF Running, FileState, Files
  <1>9. Unmapping'
    <2>1. /\ pc'[a] = "set_null" <=> pc[a] = "unmap"
          /\ pc'[a] # "unmap"
          /\ \A b \in Agents : b # a => pc'[b] \notin {"unmap", "set_null"}
      BY <1>1, <1>3, <1>4, <1>5
    <2>2. ~init_failed => unmaps["map"] <= 1
      BY <1>0 DEF Running, Unmapping
    <2> QED
      BY <1>0, <1>5, <1>6, <2>1, <2>2 DEF Unmapping
  <1>10. Copies'
    <2>1. /\ \A b \in Agents : pc'[b] = "copy" => size'["map"]
          /\ \A t \in Threads : pc'[Listener(t)] \in {"read_pointer", "copy"} => ~loaded'[t]
          /\ \A t \in Threads : pc'[Listener(t)] = "count" /\ size'["map"] => loaded'[t]
      BY <1>0, <1>1, <1>3, <1>4 DEF Running, Copies
    <2>2. Undisturbed' => Undisturbed
      BY <1>0, <1>5 DEF Undisturbed, MapMissing
    <2>3. \A t \in Threads : Counted(t) => Counted(t)'
      <3> SUFFICES ASSUME NEW t \in Threads, Counted(t) PROVE Counted(t)'
        OBVIOUS
      <3>1. /\ pc'[Listener(t)] # "count" \/ pc'[Listener(t)] = pc[Listener(t)]
            /\ pc[Listener(t)] = "none" => pc'[Listener(t)] = "none"
        BY <1>1, <1>3, <1>4
      <3>2. pc[MainThread] \in {"unmap", "set_null", "unmap_module"} => pc'[MainThread] \in {"unmap",
            "set_null", "unmap_module"}
        BY <1>0, <1>1, <1>2, <1>3, <1>5 DEF Running, Control
      <3> QED
        BY <1>0, <3>1, <3>2 DEF Counted
    <2> QED
      BY <1>0, <2>1, <2>2, <2>3, CountFrame DEF Running, Copies
  <1> QED
    BY <1>0, <1>3, <1>7, <1>8, <1>9, <1>10, Assemble DEF Running

-----------------------------------------------------------------------------
\* Once somebody has released the source map, all threads have their copies, unless
\* interpreters were replaced or threads could not be started.
LEMMA MapIsThere ==
  ASSUME FilesType, Running, NEW a \in Agents,
         \/ pc[a] = "read_pointer" /\ size["map"] /\ ~pointer["map"]
         \/ pc[a] = "copy" /\ ~mapped["map"]
  PROVE  init_failed \/ MapMissing \/ \E t \in Threads : interpreters[t] > 1
  <1> SUFFICES ASSUME ~init_failed, ~MapMissing, \A t \in Threads : ~(interpreters[t] > 1)
               PROVE  FALSE
    OBVIOUS
  <1> USE AgentFacts
  <1>1. size["map"] /\ "map" \in args
    BY DEF Running, Copies, FileState
  <1>2. unmaps["map"] > 0
    <2>1. unmaps["map"] \in Nat
      BY DEF FilesType, Files
    <2> QED
      BY <1>1, <2>1 DEF MapMissing, Running, FileState
  <1>3. pc[MainThread] # "return"
    BY DEF Running, Control, Resting, Ends
  <1>4. mode = "server" /\ load_count >= NThreads
    BY <1>2, <1>3 DEF Running, Unmapping
  <1>5. \A t \in Threads : interpreters[t] \in Nat /\ interpreters[t] <= 1
    BY DEF FilesType
  <1>6. Undisturbed
    BY <1>1, <1>4, <1>5 DEF Undisturbed
  <1>7. \A t \in Threads : Counted(t)
    <2> DEFINE S == {t \in Threads : Counted(t)}
    <2>1. S \in SUBSET Threads /\ load_count <= Cardinality(S) /\ load_count \in Nat
      BY <1>6 DEF Running, Copies, FilesType
    <2> HIDE DEF S
    <2>2. S = Threads
      BY <1>4, <2>1, SomeThreads
    <2> QED
      BY <2>2 DEF S
  <1>8. CASE a = MainThread
    <2>1. PICK t \in Threads : pc[Listener(t)] = "none"
      BY <1>4, <1>8 DEF Running, Interpreters, Backtrace
    <2>2. ~loaded[t]
      BY <2>1 DEF Running, Control
    <2> QED
      BY <1>7, <1>8, <2>1, <2>2 DEF Counted
  <1>9. CASE \E t \in Threads : a = Listener(t)
    BY <1>7, <1>9 DEF Counted, Running, Copies
  <1>10. CASE \E t \in Threads : a = Bg(t)
    BY <1>5, <1>10 DEF Running, Interpreters
  <1> QED
    BY <1>8, <1>9, <1>10

\* The module is unmapped while it can be read only on the error paths.
LEMMA ModuleIsThere ==
  ASSUME FilesType, Running, ~ModuleReadable,
         pc[MainThread] = "eval" \/ \E t \in Threads : pc[Listener(t)] = "serving" \/ pc[Bg(t)] = "init"
  PROVE  Excused
  <1>1. Excused \/ pc[MainThread] \in {"cleanup_map", "return"}
    BY DEF Running, FileState, ModuleReadable
  <1>2. init_failed \/ pc[MainThread] \notin {"cleanup_map", "return"}
    BY DEF Running, Control, Resting, Ends
  <1> QED
    BY <1>1, <1>2 DEF Excused

\* A read of unmapped memory ends the process.
LEMMA CrashStep ==
  ASSUME FilesInv, pc[MainThread] # "done", NEW f \in Files, Crash(f),
         f = "module" => Excused,
         f = "map" => init_failed \/ MapMissing \/ \E t \in Threads : interpreters[t] > 1
  PROVE  FilesInv'
  <1> USE AgentFacts DEF Crash, AgentGoto, inputs, countVars, endVars, fileVars
  <1>1. FilesType /\ f # "no" /\ pc'[MainThread] = "done" /\ \A b \in Agents : b # MainThread =>
        pc'[b] = pc[b]
    BY DEF FilesInv, FilesType, Files
  <1>2. pc' \in [Agents -> Labels]
    <2>1. "done" \in Labels
      BY DEF Labels, MainLabels
    <2> QED
      BY <1>1, <2>1, Updated DEF FilesType
  <1>3. FilesType'
    BY <1>1, <1>2 DEF FilesType, MainLabels
  <1>4. MapMissing' <=> MapMissing
    BY DEF MapMissing
  <1>5. ReadsFindMapping'
    BY <1>4 DEF ReadsFindMapping, Excused
  <1>6. MappingsReleasedOnce'
    BY <1>1 DEF MappingsReleasedOnce
  <1> QED
    BY <1>1, <1>3, <1>5, <1>6 DEF FilesInv

\* The steps that may find a file unmapped.
LEMMA CrashSteps ==
  ASSUME FilesInv,
         \/ EvalCrashes
         \/ \E t \in Threads : WakeCrashes(t) \/ BuildCrashes(t)
         \/ \E a \in Agents : ReadNull(a) \/ CopyUnmapped(a)
  PROVE  FilesInv'
  <1> USE DEF AgentAt
  <1>1. CASE EvalCrashes \/ \E t \in Threads : WakeCrashes(t) \/ BuildCrashes(t)
    <2>1. /\ pc[MainThread] # "done" /\ ~ModuleReadable /\ Crash("module")
          /\ pc[MainThread] = "eval" \/ \E t \in Threads : pc[Listener(t)] = "serving" \/
             pc[Bg(t)] = "init"
      BY <1>1 DEF EvalCrashes, WakeCrashes, BuildCrashes, InitThreadStateCrashes
    <2>2. Excused
      BY <2>1, ModuleIsThere DEF FilesInv
    <2> QED
      BY <2>1, <2>2, CrashStep DEF Files
  <1>2. CASE \E a \in Agents : ReadNull(a) \/ CopyUnmapped(a)
    <2>1. /\ pc[MainThread] # "done" /\ Crash("map")
          /\ \E a \in Agents : \/ pc[a] = "read_pointer" /\ size["map"] /\ ~pointer["map"]
                               \/ pc[a] = "copy" /\ ~mapped["map"]
      BY <1>2 DEF ReadNull, CopyUnmapped
    <2>2. init_failed \/ MapMissing \/ \E t \in Threads : interpreters[t] > 1
      BY <2>1, MapIsThere DEF FilesInv
    <2> QED
      BY <2>1, <2>2, CrashStep DEF Files
  <1> QED
    BY <1>1, <1>2

-----------------------------------------------------------------------------
\* A step of main that touches no file.
MainGoes(to) ==
    /\ pc[MainThread] \in {"init_wait_group", "create", "start_thread", "eval"}
    /\ to \in {"create", "start_thread", "read_pointer", "unmap_module", "cleanup"}
    /\ pc' = [pc EXCEPT ![MainThread] = to]
    /\ UNCHANGED <<mode, args, pointer, size, mapped, unmaps, load_count, loaded, crashed>>
    /\ init_failed' \in BOOLEAN /\ (init_failed => init_failed')
    /\ ret' \in [Agents -> Labels] /\ \A a \in Agents : a # MainThread => ret'[a] = ret[a]
    /\ interpreters' \in [Threads -> Nat]
    /\ \A t \in Threads : interpreters'[t] >= interpreters[t]
    /\ to \in {"create", "start_thread", "unmap_module"} => mode = "server"
    /\ to = "cleanup" => init_failed' \/ \A t \in Threads : Resting(t)
    /\ to = "read_pointer" => ret'[MainThread] = IF mode = "eval" THEN "cleanup" ELSE "unmap_module"
    /\ to = "start_thread" => \A t \in Threads : IsNext(t) => interpreters'[t] >= 1
    /\ mode = "server" /\ to = "read_pointer" =>
           \E t \in Threads : pc[Listener(t)] = "none" /\ interpreters'[t] >= 1

\* Such steps keep the invariant.
LEMMA MainMove ==
  ASSUME FilesInv, NEW to, MainGoes(to)
  PROVE  FilesInv'
  <1> USE AgentFacts DEF MainGoes
  <1>0. FilesType /\ Running /\ crashed' = "no" /\ load_count \in Nat
    BY DEF FilesInv, FilesType
  <1>1. /\ pc'[MainThread] = to /\ \A b \in Agents : b # MainThread => pc'[b] = pc[b]
        /\ \A t \in Threads : pc'[Listener(t)] = pc[Listener(t)] /\ pc'[Bg(t)] = pc[Bg(t)]
        /\ \A t \in Threads : ret'[Listener(t)] = ret[Listener(t)] /\ ret'[Bg(t)] = ret[Bg(t)]
        /\ \A t \in Threads : interpreters[t] \in Nat /\ interpreters'[t] \in Nat
    BY <1>0 DEF FilesType
  <1>2. to \in MainLabels /\ to \in Labels /\ pc' \in [Agents -> Labels]
    <2>1. to \in MainLabels /\ to \in Labels
      BY DEF MainLabels, Labels, Ends, Backtrace
    <2> QED
      BY <1>0, <2>1, Updated DEF FilesType
  <1>3. FilesType'
    BY <1>0, <1>1, <1>2 DEF FilesType
  <1>4. Control'
    <2>1. to \notin Loads \cup {"init_wait_group"} /\ (to \in Backtrace <=> to = "read_pointer")
          /\ (to \in Ends <=> to = "cleanup")
      BY DEF Loads, Backtrace, Ends
    <2>2. mode = "server" => mode # "eval"
      OBVIOUS
    <2> QED
      BY <1>0, <1>1, <2>1, <2>2 DEF Running, Control, Resting
  <1>5. Interpreters'
    <2>1. \A t \in Threads : IsNext(t)' <=> IsNext(t)
      BY <1>1, NextFrame
    <2>2. to \in Backtrace => to = "read_pointer"
      BY DEF Backtrace
    <2>3. /\ \A t \in Threads : pc'[Listener(t)] # "none" => interpreters'[t] >= 1
          /\ \A t \in Threads : pc'[Bg(t)] \notin {"none", "init"} => interpreters'[t] >= 2
      BY <1>0, <1>1 DEF Running, Interpreters
    <2> QED
      BY <1>1, <2>1, <2>2, <2>3 DEF Interpreters
  <1>6. FileState'
    <2>1. {pc[MainThread], pc'[MainThread]} \cap (Loads \cup {"cleanup_map", "return"}) = {}
      BY <1>1 DEF Loads
    <2> QED
      BY <1>0, <2>1, FileFrame DEF Running
  <1>7. Unmapping'
    <2>1. \A b \in Agents : pc'[b] = pc[b] \/ {pc'[b], pc[b]} \cap {"unmap", "set_null"} = {}
      BY <1>1
    <2> QED
      BY <1>0, <1>1, <2>1, UnmappingFrame DEF Running
  <1>8. Copies'
    <2>1. /\ \A b \in Agents : pc'[b] = "copy" => size'["map"]
          /\ \A t \in Threads : pc'[Listener(t)] \in {"read_pointer", "copy"} => ~loaded'[t]
          /\ \A t \in Threads : pc'[Listener(t)] = "count" /\ size'["map"] => loaded'[t]
      BY <1>0, <1>1 DEF Running, Copies
    <2>2. Undisturbed' => Undisturbed
      BY <1>0, <1>1 DEF Undisturbed, MapMissing
    <2>3. \A t \in Threads : Counted(t) => Counted(t)'
      BY <1>1 DEF Counted
    <2> QED
      BY <1>0, <2>1, <2>2, <2>3, CountFrame DEF Running, Copies
  <1> QED
    BY <1>0, <1>1, <1>3, <1>4, <1>5, <1>6, <1>7, <1>8, Assemble DEF Running

\* main and eval make an interpreter for a thread that does not run yet.
LEMMA FirstInterpreter ==
  ASSUME FilesType, Running, NEW t \in Threads, pc[Listener(t)] = "none", NewInterpreter(MainThread, t)
  PROVE  /\ loaded' = loaded /\ interpreters' \in [Threads -> Nat] /\ load_count' = load_count
         /\ interpreters'[t] >= 1 /\ \A s \in Threads : interpreters'[s] >= interpreters[s]
  <1>1. loaded' = [loaded EXCEPT ![t] = FALSE] /\ loaded[t] = FALSE
    BY AgentFacts DEF NewInterpreter, Running, Control, FilesType
  <1>2. loaded' = loaded
    BY <1>1 DEF FilesType
  <1> QED
    BY <1>2 DEF NewInterpreter, FilesType

\* The steps of main and eval before the end, except those that release or read a file.
LEMMA MainSteps ==
  ASSUME FilesInv,
         \/ InitWaitGroup \/ InitWaitGroupFails \/ InitThreadFails \/ StartFails \/
            WaitFails \/ JoinAll
         \/ \E t \in Threads : InitThread(t) \/ InitThreadThrows(t)
         \/ EvalRuns \/ EvalThrows \/ EvalFails
  PROVE  FilesInv'
  <1> USE AgentFacts DEF AgentAt, AgentGoto, inputs, countVars, endVars, fileVars
  <1>0. /\ pc[MainThread] # "done" /\ crashed = "no" /\ FilesType /\ Running
        /\ UNCHANGED <<mode, args, pointer, size, mapped, unmaps, load_count, crashed>>
        /\ pc[MainThread] \in {"init_wait_group", "create", "start_thread", "eval"}
        /\ mode = "server" <=> pc[MainThread] # "eval"
    <2>1. /\ pc[MainThread] # "done"
          /\ UNCHANGED <<mode, args, pointer, size, mapped, unmaps, load_count, crashed>>
          /\ pc[MainThread] \in {"init_wait_group", "create", "start_thread", "eval"}
      BY DEF InitWaitGroup, InitWaitGroupFails, InitThreadFails, StartFails, WaitFails,
             JoinAll,
             InitThread, InitThreadThrows, EvalRuns, EvalThrows, EvalFails, Move, GiveUp,
             InitThreadState, InitThreadStateThrows, NewInterpreter, CallBacktrace
    <2>2. FilesType /\ Running /\ crashed = "no"
      BY <2>1 DEF FilesInv
    <2> QED
      BY <2>1, <2>2 DEF FilesType, Running, Control
  <1>1. /\ ret \in [Agents -> Labels] /\ interpreters \in [Threads -> Nat] /\
           init_failed \in BOOLEAN
        /\ \A t \in Threads : interpreters[t] \in Nat
        /\ "cleanup" \in Labels /\ "unmap_module" \in Labels
    BY <1>0 DEF FilesType, Labels, MainLabels, Ends
  <1>2. CASE InitWaitGroup \/ InitWaitGroupFails \/ InitThreadFails
    <2>1. PICK to \in {"create", "unmap_module"} :
             pc' = [pc EXCEPT ![MainThread] = to] /\ UNCHANGED <<ret, loaded, interpreters, init_failed>>
             /\ pc[MainThread] # "eval"
      BY <1>2 DEF InitWaitGroup, InitWaitGroupFails, InitThreadFails, Move
    <2>2. MainGoes(to)
      BY <1>0, <1>1, <2>1 DEF MainGoes
    <2> QED
      BY <2>2, MainMove
  <1>3. CASE StartFails \/ WaitFails
    <2>1. /\ pc' = [pc EXCEPT ![MainThread] = "cleanup"] /\ UNCHANGED <<ret, loaded, interpreters>>
          /\ init_failed' = TRUE
      BY <1>3 DEF StartFails, WaitFails, GiveUp
    <2>2. MainGoes("cleanup")
      BY <1>0, <1>1, <2>1 DEF MainGoes
    <2> QED
      BY <2>2, MainMove
  <1>4. CASE JoinAll
    <2>1. /\ pc' = [pc EXCEPT ![MainThread] = "cleanup"]
          /\ UNCHANGED <<ret, loaded, interpreters, init_failed>>
          /\ \A t \in Threads : Resting(t)
      BY <1>4 DEF JoinAll, Move, Resting
    <2>2. MainGoes("cleanup")
      BY <1>0, <1>1, <2>1 DEF MainGoes
    <2> QED
      BY <2>2, MainMove
  <1>5. ASSUME NEW t \in Threads, InitThread(t) \/ InitThreadThrows(t)
        PROVE  FilesInv'
    <2>1. PICK to \in {"start_thread", "read_pointer"} :
             /\ pc' = [pc EXCEPT ![MainThread] = to] /\ NewInterpreter(MainThread, t) /\ IsNext(t)
             /\ to = "start_thread" => UNCHANGED ret
             /\ to = "read_pointer" => ret' = [ret EXCEPT ![MainThread] = "unmap_module"]
             /\ pc[MainThread] = "create" /\ UNCHANGED init_failed
      BY <1>5 DEF InitThread, InitThreadThrows, InitThreadState, InitThreadStateThrows,
                  CallBacktrace
    <2>2. /\ pc[Listener(t)] = "none" /\ \A s \in Threads : IsNext(s) => s = t
      BY <2>1 DEF IsNext, Threads
    <2>3. /\ loaded' = loaded /\ interpreters' \in [Threads -> Nat] /\ interpreters'[t] >= 1
          /\ \A s \in Threads : interpreters'[s] >= interpreters[s]
      BY <1>0, <2>1, <2>2, FirstInterpreter
    <2>4. /\ ret' \in [Agents -> Labels] /\ \A a \in Agents : a # MainThread => ret'[a] = ret[a]
          /\ to = "read_pointer" => ret'[MainThread] = "unmap_module"
      BY <1>1, <2>1, Updated
    <2>5. MainGoes(to)
      BY <1>0, <1>1, <2>1, <2>2, <2>3, <2>4 DEF MainGoes
    <2> QED
      BY <2>5, MainMove
  <1>6. CASE EvalRuns \/ EvalThrows
    <2>0. 0 \in Threads /\ pc[MainThread] = "eval"
      BY <1>6 DEF Threads, EvalRuns, EvalThrows, InitThreadState, InitThreadStateThrows,
                  CallBacktrace
    <2>1. PICK to \in {"cleanup", "read_pointer"} :
             /\ pc' = [pc EXCEPT ![MainThread] = to] /\ NewInterpreter(MainThread, 0)
             /\ to = "cleanup" => UNCHANGED ret
             /\ to = "read_pointer" => ret' = [ret EXCEPT ![MainThread] = "cleanup"]
             /\ UNCHANGED init_failed
      BY <1>6 DEF EvalRuns, EvalThrows, InitThreadState, InitThreadStateThrows, CallBacktrace
    <2>2. mode = "eval" /\ \A t \in Threads : pc[Listener(t)] = "none" /\ Resting(t)
      BY <1>0, <2>0 DEF Running, Control, FilesType, Resting
    <2>3. /\ loaded' = loaded /\ interpreters' \in [Threads -> Nat]
          /\ \A s \in Threads : interpreters'[s] >= interpreters[s]
      BY <1>0, <2>0, <2>1, <2>2, FirstInterpreter
    <2>4. /\ ret' \in [Agents -> Labels] /\ \A a \in Agents : a # MainThread => ret'[a] = ret[a]
          /\ to = "read_pointer" => ret'[MainThread] = "cleanup"
      BY <1>1, <2>1, Updated
    <2>5. MainGoes(to)
      BY <1>0, <1>1, <2>0, <2>1, <2>2, <2>3, <2>4 DEF MainGoes
    <2> QED
      BY <2>5, MainMove
  <1>7. CASE EvalFails
    <2>1. /\ pc' = [pc EXCEPT ![MainThread] = "cleanup"] /\ pc[MainThread] = "eval"
          /\ UNCHANGED <<ret, loaded, interpreters, init_failed>>
      BY <1>7 DEF EvalFails, Move
    <2>2. \A t \in Threads : Resting(t)
      BY <1>0, <2>1 DEF Running, Control, FilesType, Resting
    <2>3. MainGoes("cleanup")
      BY <1>0, <1>1, <2>1, <2>2 DEF MainGoes
    <2> QED
      BY <2>3, MainMove
  <1> QED
    BY <1>2, <1>3, <1>4, <1>5, <1>6, <1>7

\* A thread starts to serve.
LEMMA StartStep ==
  ASSUME FilesInv, NEW t \in Threads, StartThread(t)
  PROVE  FilesInv'
  <1> USE AgentFacts
  <1>0. /\ FilesType /\ Running /\ crashed = "no" /\ pc[MainThread] = "start_thread" /\
           pc[Listener(t)] = "none"
        /\ UNCHANGED <<mode, args, ret, pointer, size, mapped, unmaps, load_count, loaded,
                       interpreters, init_failed, crashed>>
        /\ load_count \in Nat
    BY DEF FilesInv, FilesType, IsNext, StartThread, AgentAt, inputs, countVars, endVars,
           fileVars
  <1>1. /\ pc'[MainThread] = "create" /\ pc'[Listener(t)] = "serving"
        /\ \A b \in Agents : b # MainThread /\ b # Listener(t) => pc'[b] = pc[b]
        /\ \A s \in Threads : pc'[Bg(s)] = pc[Bg(s)] /\ (s # t =>
                              pc'[Listener(s)] = pc[Listener(s)])
    BY <1>0 DEF FilesType, StartThread
  <1>2. FilesType'
    <2>1. "create" \in Labels /\ "serving" \in Labels /\ "create" \in MainLabels
      BY DEF Labels, MainLabels
    <2>2. pc' \in [Agents -> Labels]
      BY <1>0, <2>1 DEF FilesType, StartThread
    <2> QED
      BY <1>0, <1>1, <2>1, <2>2 DEF FilesType
  <1>3. Control'
    <2>1. /\ "create" \notin Backtrace \cup Loads \cup Ends /\ "serving" \notin Backtrace
          /\ mode # "eval"
      BY <1>0 DEF Running, Control, Backtrace, Loads, Ends
    <2> QED
      BY <1>0, <1>1, <2>1 DEF Running, Control
  <1>4. Interpreters'
    <2>0. interpreters[t] >= 1
      BY <1>0 DEF Running, Interpreters, StartThread
    <2>1. \A s \in Threads : pc'[Listener(s)] # "none" => interpreters[s] >= 1
      BY <1>0, <1>1, <2>0 DEF Running, Interpreters
    <2> QED
      BY <1>0, <1>1, <2>1 DEF Running, Interpreters, Backtrace
  <1>5. FileState'
    <2>1. {pc[MainThread], pc'[MainThread]} \cap (Loads \cup {"cleanup_map", "return"}) = {}
      BY <1>0, <1>1 DEF Loads
    <2> QED
      BY <1>0, <2>1, FileFrame DEF Running
  <1>6. Unmapping'
    <2>1. \A b \in Agents : pc'[b] = pc[b] \/ {pc'[b], pc[b]} \cap {"unmap", "set_null"} = {}
      BY <1>0, <1>1
    <2> QED
      BY <1>0, <1>1, <2>1, UnmappingFrame DEF Running
  <1>7. Copies'
    <2>1. /\ \A b \in Agents : pc'[b] = "copy" => size'["map"]
          /\ \A s \in Threads : pc'[Listener(s)] \in {"read_pointer", "copy"} => ~loaded'[s]
          /\ \A s \in Threads : pc'[Listener(s)] = "count" /\ size'["map"] => loaded'[s]
      BY <1>0, <1>1 DEF Running, Copies
    <2>2. Undisturbed' => Undisturbed
      BY <1>0, <1>1 DEF Undisturbed, MapMissing
    <2>3. \A s \in Threads : Counted(s) => Counted(s)'
      BY <1>0, <1>1 DEF Counted
    <2> QED
      BY <1>0, <2>1, <2>2, <2>3, CountFrame DEF Running, Copies
  <1> QED
    BY <1>0, <1>1, <1>2, <1>3, <1>4, <1>5, <1>6, <1>7, Assemble DEF Running

\* main releases a file, if it is there.
LEMMA Released ==
  ASSUME FilesType, FileState, NEW f \in Files, munmap_if_set(f)
  PROVE  /\ UNCHANGED <<pointer, size>>
         /\ mapped' \in [Files -> BOOLEAN] /\ unmaps' \in [Files -> Nat]
         /\ ~mapped'[f]
         /\ \/ size[f] /\ pointer[f] /\ unmaps'[f] = unmaps[f] + 1
            \/ ~(size[f] /\ pointer[f]) /\ unmaps'[f] = unmaps[f]
         /\ \A g \in Files \ {f} : mapped'[g] = mapped[g] /\ unmaps'[g] = unmaps[g]
  <1>1. CASE size[f] /\ pointer[f]
    <2>1. /\ mapped' = [mapped EXCEPT ![f] = FALSE] /\ unmaps' = [unmaps EXCEPT ![f] = @ + 1]
          /\ UNCHANGED <<pointer, size>>
      BY <1>1 DEF munmap_if_set, munmap
    <2>2. mapped' \in [Files -> BOOLEAN] /\ ~mapped'[f] /\
          \A g \in Files \ {f} : mapped'[g] = mapped[g]
      BY <2>1, Updated, Zenon DEF FilesType
    <2>3. /\ unmaps' \in [Files -> Nat] /\ unmaps'[f] = unmaps[f] + 1
          /\ \A g \in Files \ {f} : unmaps'[g] = unmaps[g]
      BY <2>1 DEF FilesType
    <2> QED
      BY <1>1, <2>1, <2>2, <2>3
  <1>2. CASE ~(size[f] /\ pointer[f])
    <2>1. UNCHANGED <<pointer, size, mapped, unmaps>>
      BY <1>2 DEF munmap_if_set, fileVars
    <2>2. ~mapped[f]
      BY <1>2 DEF FileState
    <2> QED
      BY <1>2, <2>1, <2>2 DEF FilesType
  <1> QED
    BY <1>1, <1>2

\* The steps in which main releases the files.
LEMMA ReleaseSteps ==
  ASSUME FilesInv, UnmapModule \/ CleanupModule \/ CleanupMap
  PROVE  FilesInv'
  <1> USE AgentFacts DEF AgentAt, AgentGoto, GiveUp, inputs, countVars, endVars
  <1>0. PICK f \in Files, to \in {"cleanup", "cleanup_map", "return"} :
          /\ munmap_if_set(f) /\ pc' = [pc EXCEPT ![MainThread] = to]
          /\ UNCHANGED <<mode, args, ret, load_count, loaded, interpreters, crashed>>
          /\ pc[MainThread] # "done"
          /\ \/ f = "module" /\ pc[MainThread] = "unmap_module" /\ to = "cleanup" /\ init_failed' = TRUE
             \/ f = "module" /\ pc[MainThread] = "cleanup" /\ to = "cleanup_map" /\ UNCHANGED init_failed
             \/ f = "map" /\ pc[MainThread] = "cleanup_map" /\ to = "return" /\ UNCHANGED init_failed
    BY DEF UnmapModule, CleanupModule, CleanupMap, Files
  <1>1. /\ FilesType /\ Running /\ crashed = "no" /\ FileState
        /\ load_count \in Nat /\ init_failed' \in BOOLEAN /\ (init_failed => init_failed')
        /\ unmaps["map"] \in Nat /\ unmaps["module"] \in Nat
    <2>1. FilesType /\ Running /\ crashed = "no" /\ init_failed \in BOOLEAN
      BY <1>0 DEF FilesInv, FilesType
    <2>2. init_failed' \in BOOLEAN /\ (init_failed => init_failed')
      BY <1>0, <2>1
    <2> QED
      BY <2>1, <2>2 DEF FilesType, Running, Files
  <1>2. /\ UNCHANGED <<pointer, size>>
        /\ mapped' \in [Files -> BOOLEAN] /\ unmaps' \in [Files -> Nat]
        /\ ~mapped'[f]
        /\ \/ size[f] /\ pointer[f] /\ unmaps'[f] = unmaps[f] + 1
           \/ ~(size[f] /\ pointer[f]) /\ unmaps'[f] = unmaps[f]
        /\ \A g \in Files \ {f} : mapped'[g] = mapped[g] /\ unmaps'[g] = unmaps[g]
    BY <1>0, <1>1, Released
  <1>3. /\ pc'[MainThread] = to /\ \A b \in Agents : b # MainThread => pc'[b] = pc[b]
        /\ \A t \in Threads : pc'[Listener(t)] = pc[Listener(t)] /\ pc'[Bg(t)] = pc[Bg(t)]
    BY <1>0, <1>1 DEF FilesType
  <1>4. FilesType'
    <2>1. to \in Labels /\ to \in MainLabels
      BY DEF Labels, MainLabels, Ends
    <2>2. pc' \in [Agents -> Labels]
      BY <1>0, <1>1, <2>1, Updated DEF FilesType
    <2> QED
      BY <1>0, <1>1, <1>2, <1>3, <2>1, <2>2 DEF FilesType
  <1>5. /\ MapMissing' <=> MapMissing
        /\ Excused => Excused'
    <2>1. MapMissing' <=> MapMissing
      BY <1>0, <1>1, <1>2 DEF MapMissing, Files
    <2> QED
      BY <1>0, <1>1, <2>1 DEF Excused
  <1>6. Control'
    <2>1. to \notin Backtrace \cup Loads \cup {"init_wait_group", "create", "start_thread",
          "unmap_module", "eval"}
      BY DEF Backtrace, Loads
    <2>2. ~init_failed' => \A t \in Threads : Resting(t)
      BY <1>0, <1>1 DEF Running, Control, Ends
    <2>3. \A t \in Threads : Resting(t)' <=> Resting(t)
      BY <1>3 DEF Resting
    <2>4. mode = "eval" => \A t \in Threads : pc[Listener(t)] = "none"
      BY <1>1 DEF Running, Control
    <2> QED
      BY <1>0, <1>1, <1>3, <2>1, <2>2, <2>3, <2>4 DEF Running, Control
  <1>7. Interpreters'
    BY <1>0, <1>1, <1>3 DEF Running, Interpreters, Backtrace
  <1>8. FileState'
    <2>1. pc'[MainThread] \notin Loads /\ pc'[MainThread] # "load_module" /\ pc[MainThread] \notin Loads
      BY <1>0, <1>3 DEF Loads
    <2>2. CASE f = "module"
      BY <1>0, <1>1, <1>2, <1>3, <1>5, <2>1, <2>2 DEF FileState, Files, Excused
    <2>3. CASE f = "map"
      BY <1>0, <1>1, <1>2, <1>3, <1>5, <2>1, <2>3 DEF FileState, Files
    <2> QED
      BY <2>2, <2>3 DEF Files
  <1>9. Unmapping'
    <2>1. \A b \in Agents : /\ pc'[b] = "unmap" <=> pc[b] = "unmap"
                            /\ pc'[b] = "set_null" <=> pc[b] = "set_null"
      BY <1>0, <1>3
    <2>2. CASE f = "module"
      <3>1. UNCHANGED <<pointer, size>> /\ mapped'["map"] = mapped["map"] /\
            unmaps'["map"] = unmaps["map"]
        BY <1>2, <2>2 DEF Files
      <3>2. pc[MainThread] # "return" /\ pc'[MainThread] # "return"
        BY <1>0, <1>3, <2>2
      <3> QED
        BY <1>0, <1>1, <2>1, <3>1, <3>2 DEF Running, Unmapping
    <2>3. CASE f = "map"
      <3>1. ~init_failed => \A b \in Agents : pc[b] \notin {"unmap", "set_null"}
        BY <1>0, <1>1, <2>3 DEF Running, Control, Resting, Ends
      <3>2. ~init_failed => unmaps["map"] <= 1 /\ (pointer["map"] => unmaps["map"] = 0)
        BY <1>0, <1>1, <2>3, <3>1 DEF Running, Unmapping
      <3>3. pc'[MainThread] = "return" /\ ~mapped'["map"] /\ UNCHANGED init_failed
        BY <1>0, <1>2, <1>3, <2>3
      <3> QED
        BY <1>0, <1>1, <1>2, <2>1, <2>3, <3>1, <3>2, <3>3 DEF Running, Unmapping
    <2> QED
      BY <2>2, <2>3 DEF Files
  <1>10. Copies'
    <2>1. /\ \A b \in Agents : pc'[b] = "copy" => size'["map"]
          /\ \A t \in Threads : pc'[Listener(t)] \in {"read_pointer", "copy"} => ~loaded'[t]
          /\ \A t \in Threads : pc'[Listener(t)] = "count" /\ size'["map"] => loaded'[t]
      BY <1>0, <1>1, <1>2, <1>3 DEF Running, Copies
    <2>2. Undisturbed' => Undisturbed
      BY <1>0, <1>1, <1>2, <1>5 DEF Undisturbed
    <2>3. Undisturbed' => \A t \in Threads : Counted(t) => Counted(t)'
      BY <1>0, <1>3 DEF Counted, Undisturbed
    <2> QED
      BY <1>0, <1>1, <2>1, <2>2, <2>3, CountFrame DEF Running, Copies
  <1> QED
    BY <1>0, <1>1, <1>3, <1>4, <1>6, <1>7, <1>8, <1>9, <1>10, Assemble DEF Running

\* The end.
LEMMA ReturnStep == ASSUME FilesInv, ReturnFromMain PROVE FilesInv'
  <1> USE AgentFacts DEF AgentAt, AgentGoto, ReturnFromMain, Move, inputs, countVars, endVars, fileVars
  <1>1. /\ FilesType /\ Running /\ crashed = "no" /\ pc'[MainThread] = "done" /\ pc[MainThread] = "return"
        /\ \A b \in Agents : b # MainThread => pc'[b] = pc[b]
    BY DEF FilesInv, FilesType
  <1>2. FilesType'
    <2>1. "done" \in Labels
      BY DEF Labels, MainLabels
    <2>2. pc' \in [Agents -> Labels]
      BY <1>1, <2>1, Updated DEF FilesType
    <2> QED
      BY <1>1, <2>2 DEF FilesType, MainLabels
  <1>3. MappingsReleasedOnce'
    <2>1. ~mapped["module"] /\ ~mapped["map"]
      BY <1>1 DEF Running, FileState
    <2>2. unmaps["module"] = 0 \/ unmaps["module"] = 1 \/ Excused
      BY <1>1 DEF Running, FileState
    <2>3. init_failed \/ unmaps["map"] <= 1
      BY <1>1 DEF Running, Unmapping
    <2> QED
      BY <1>1, <2>1, <2>2, <2>3 DEF MappingsReleasedOnce, Excused, MapMissing, Files
  <1>4. ReadsFindMapping'
    BY <1>1 DEF ReadsFindMapping
  <1> QED
    BY <1>1, <1>2, <1>3, <1>4 DEF FilesInv

-----------------------------------------------------------------------------
\* While main loads the files there is nobody else.
LoadGoes(to) ==
    /\ pc[MainThread] \in Loads /\ to \in {"load_map", AfterLoad}
    /\ pc' = [pc EXCEPT ![MainThread] = to]
    /\ UNCHANGED <<mode, args, ret, load_count, loaded, interpreters, init_failed, crashed>>
    /\ pointer' \in [Files -> BOOLEAN] /\ size' \in [Files -> BOOLEAN]
    /\ mapped' \in [Files -> BOOLEAN] /\ unmaps' \in [Files -> Nat]
    /\ unmaps'["map"] = 0
    /\ FileState'

\* Such steps keep the invariant.
LEMMA LoadMove ==
  ASSUME FilesInv, NEW to, LoadGoes(to)
  PROVE  FilesInv'
  <1> USE AgentFacts DEF LoadGoes
  <1>0. /\ FilesType /\ Running /\ crashed = "no" /\ load_count = 0
        /\ \A t \in Threads : pc[Listener(t)] = "none" /\ pc[Bg(t)] = "none" /\ ~loaded[t]
    <2>1. FilesType /\ Running /\ crashed = "no"
      BY DEF FilesInv, Loads
    <2> QED
      BY <2>1 DEF Running, Control, FileState
  <1>1. /\ pc'[MainThread] = to /\ \A b \in Agents : b # MainThread => pc'[b] = "none"
        /\ \A t \in Threads : pc'[Listener(t)] = "none" /\ pc'[Bg(t)] = "none"
    BY <1>0 DEF FilesType
  <1>2. /\ to \in {"load_map", "eval", "init_wait_group"}
        /\ to = "eval" => mode = "eval"
        /\ to = "init_wait_group" => mode # "eval"
    BY DEF AfterLoad
  <1>3. to \in Labels /\ to \in MainLabels /\ to \notin Backtrace \cup Ends
    BY <1>2 DEF Labels, MainLabels, Loads, Backtrace, Ends
  <1>4. FilesType'
    <2>1. pc' \in [Agents -> Labels]
      BY <1>0, <1>3, Updated DEF FilesType
    <2> QED
      BY <1>0, <1>1, <1>3, <2>1 DEF FilesType
  <1>5. Control'
    BY <1>0, <1>1, <1>2, <1>3 DEF Control, Backtrace
  <1>6. Interpreters'
    BY <1>1, <1>2, <1>3 DEF Interpreters
  <1>7. Unmapping'
    BY <1>1, <1>2 DEF Unmapping
  <1>8. Copies'
    <2> DEFINE T == {t \in Threads : Counted(t)'}
    <2>1. T \in SUBSET Threads
      OBVIOUS
    <2> HIDE DEF T
    <2>2. load_count' <= Cardinality(T)
      BY <1>0, <2>1, SomeThreads
    <2> QED
      BY <1>1, <1>2, <2>2 DEF Copies, T
  <1> QED
    BY <1>0, <1>1, <1>2, <1>4, <1>5, <1>6, <1>7, <1>8, Assemble DEF Running

\* load_module and load_map, with their errors.
LEMMA LoadingSteps == ASSUME FilesInv, Loading PROVE FilesInv'
  <1> USE AgentFacts DEF AgentAt, AgentGoto, inputs, countVars, endVars, fileVars
  <1>0. /\ FilesType /\ Running /\ crashed = "no" /\ pc[MainThread] \in Loads
        /\ \A f \in Files : pointer[f] \in BOOLEAN /\ size[f] \in BOOLEAN /\
                            mapped[f] \in BOOLEAN /\ unmaps[f] \in Nat
        /\ "module" \in Files /\ "map" \in Files
        /\ pointer \in [Files -> BOOLEAN] /\ size \in [Files -> BOOLEAN]
        /\ mapped \in [Files -> BOOLEAN] /\ unmaps \in [Files -> Nat]
    <2>1. pc[MainThread] \in Loads /\ pc[MainThread] # "done"
      BY DEF Loading, LoadModule, LoadModuleFails, NoModule, LoadMap, NoMap,
             LoadMapFails, Move, Loads
    <2> QED
      BY <2>1 DEF FilesInv, FilesType, Files
  <1>1. /\ unmaps["map"] = 0 /\ ~pointer["map"] /\ ~size["map"] /\ ~mapped["map"]
        /\ pc[MainThread] = "load_module" =>
               ~pointer["module"] /\ ~mapped["module"]
        /\ pointer["module"] => mapped["module"]
        /\ unmaps["module"] = 0
        /\ mapped["module"] => pointer["module"] /\ size["module"]
    <2>1. /\ unmaps["map"] = 0 /\ ~pointer["map"] /\ ~size["map"] /\ ~mapped["map"]
          /\ pc[MainThread] = "load_module" => pointer = NoFile
          /\ mapped["module"] => pointer["module"] /\ size["module"]
      BY <1>0 DEF Running, FileState
    <2>2. NoFile["module"] = FALSE
      BY <1>0 DEF NoFile
    <2> QED
      BY <1>0, <2>1, <2>2 DEF Running, FileState
  <1>2. AfterLoad \notin {"load_module", "load_map", "cleanup_map", "return"}
    BY DEF AfterLoad
  <1>3. pc'[MainThread] \notin {"load_module", "cleanup_map", "return"}
        /\ (pc'[MainThread] = "load_map" => pc[MainThread] = "load_module")
    BY <1>0, <1>2 DEF Loading, LoadModule, LoadModuleFails, NoModule, LoadMap, NoMap,
                      LoadMapFails, Move, FilesType, Loads
  <1>4. ASSUME NEW file \in ModuleFiles, NEW key \in PublicKeys, LoadModule(file, key)
        PROVE  FilesInv'
    <2> USE DEF LoadModule, mmap
    <2>1. /\ pointer' = [pointer EXCEPT !["module"] = TRUE] /\ size' = [size EXCEPT !["module"] = TRUE]
          /\ mapped' = [mapped EXCEPT !["module"] = TRUE] /\ unmaps' = unmaps
          /\ pc[MainThread] = "load_module" /\ pc' = [pc EXCEPT ![MainThread] = "load_map"]
          /\ UNCHANGED <<mode, args, ret, load_count, loaded, interpreters, init_failed, crashed>>
      BY <1>4
    <2>2. /\ pointer' \in [Files -> BOOLEAN] /\ size' \in [Files -> BOOLEAN] /\
             mapped' \in [Files -> BOOLEAN]
      BY <1>0, <2>1, Updated, Zenon
    <2>3. /\ pointer'["module"] /\ size'["module"] /\ mapped'["module"]
          /\ pointer'["map"] = pointer["map"] /\ size'["map"] = size["map"] /\
             mapped'["map"] = mapped["map"]
      BY <1>0, <2>1
    <2>4. FileState'
      BY <1>0, <1>1, <1>3, <2>1, <2>3 DEF Running, FileState, Files, Loads
    <2>5. LoadGoes("load_map")
      BY <1>0, <1>1, <2>1, <2>2, <2>4 DEF LoadGoes
    <2> QED
      BY <2>5, LoadMove
  <1>5. ASSUME NEW file \in ModuleFiles, NEW key \in PublicKeys, LoadModuleFails(file, key)
        PROVE  FilesInv'
    <2> USE DEF LoadModuleFails
    <2>1. /\ pc[MainThread] = "load_module" /\ pc'[MainThread] = "done" /\
             \A b \in Agents : b # MainThread => pc'[b] = pc[b]
          /\ pc' \in [Agents -> Labels]
          /\ UNCHANGED <<mode, args, ret, pointer, size, mapped, load_count, loaded, interpreters,
             init_failed, crashed>>
      <3>1. "done" \in Labels
        BY DEF Labels, MainLabels
      <3> QED
        BY <1>0, <1>5, <3>1, Updated DEF FilesType
    <2>2. unmaps' \in [Files -> Nat] /\ unmaps'["module"] <= 1 /\ unmaps'["map"] = 0
      BY <1>0, <1>1, <1>5 DEF Files
    <2>3. FilesType'
      BY <1>0, <2>1, <2>2 DEF FilesType, MainLabels
    <2>4. MappingsReleasedOnce'
      BY <1>0, <1>1, <2>1, <2>2 DEF MappingsReleasedOnce, Files
    <2>5. ReadsFindMapping'
      BY <1>0, <2>1 DEF ReadsFindMapping
    <2> QED
      BY <2>1, <2>3, <2>4, <2>5 DEF FilesInv
  <1>6. CASE LoadMap
    <2> USE DEF LoadMap, mmap
    <2>1. /\ pointer' = [pointer EXCEPT !["map"] = TRUE] /\ size' = [size EXCEPT !["map"] = TRUE]
          /\ mapped' = [mapped EXCEPT !["map"] = TRUE] /\ unmaps' = unmaps /\ "map" \in args
          /\ pc[MainThread] = "load_map" /\ pc' = [pc EXCEPT ![MainThread] = AfterLoad]
          /\ UNCHANGED <<mode, args, ret, load_count, loaded, interpreters, init_failed, crashed>>
      BY <1>6
    <2>2. /\ pointer' \in [Files -> BOOLEAN] /\ size' \in [Files -> BOOLEAN] /\
             mapped' \in [Files -> BOOLEAN]
      BY <1>0, <2>1, Updated, Zenon
    <2>3. /\ pointer'["map"] /\ size'["map"] /\ mapped'["map"]
          /\ pointer'["module"] = pointer["module"] /\ size'["module"] = size["module"]
          /\ mapped'["module"] = mapped["module"]
      BY <1>0, <2>1
    <2>4. FileState'
      BY <1>0, <1>1, <1>3, <2>1, <2>3 DEF Running, FileState, Files, Loads
    <2>5. LoadGoes(AfterLoad)
      BY <1>0, <1>1, <2>1, <2>2, <2>4 DEF LoadGoes
    <2> QED
      BY <2>5, LoadMove
  <1>7. ASSUME NEW size_set \in BOOLEAN, LoadMapFails(size_set)
        PROVE  FilesInv'
    <2> USE DEF LoadMapFails
    <2>1. /\ pointer' = pointer /\ size' = [size EXCEPT !["map"] = size_set] /\ "map" \in args
          /\ pc[MainThread] = "load_map" /\ pc' = [pc EXCEPT ![MainThread] = AfterLoad]
          /\ UNCHANGED <<mode, args, ret, load_count, loaded, interpreters, init_failed, crashed>>
          /\ \/ mode # "eval" /\ UNCHANGED <<mapped, unmaps>>
             \/ /\ mode = "eval" /\ mapped' = [mapped EXCEPT !["module"] = FALSE]
                /\ unmaps' = [unmaps EXCEPT !["module"] = @ + 1]
      BY <1>7
    <2>2. size' \in [Files -> BOOLEAN] /\ mapped' \in [Files -> BOOLEAN]
      BY <1>0, <2>1, Updated, Zenon
    <2>3. /\ unmaps' \in [Files -> Nat] /\ unmaps'["map"] = 0
          /\ mode # "eval" => unmaps'["module"] = unmaps["module"]
          /\ size'["module"] = size["module"] /\ mapped'["map"] = mapped["map"]
          /\ mode # "eval" => mapped'["module"] = mapped["module"]
          /\ mode = "eval" => ~mapped'["module"]
      BY <1>0, <1>1, <2>1
    <2>4. mode = "eval" => Excused'
      BY <1>1, <2>1, <2>3 DEF Excused, MapMissing
    <2>5. Excused => Excused'
      BY <1>1, <2>1, <2>3, <2>4 DEF Excused
    <2>6. FileState'
      BY <1>0, <1>1, <1>3, <2>1, <2>3, <2>4, <2>5 DEF Running, FileState, Files, Loads
    <2>7. LoadGoes(AfterLoad)
      BY <1>0, <1>1, <2>1, <2>2, <2>3, <2>6 DEF LoadGoes
    <2> QED
      BY <2>7, LoadMove
  <1>8. CASE NoModule \/ NoMap
    <2>1. PICK to \in {"load_map", AfterLoad} :
            /\ pc' = [pc EXCEPT ![MainThread] = to] /\ pc[MainThread] \in Loads
            /\ UNCHANGED <<mode, args, ret, pointer, size, mapped, unmaps, load_count, loaded,
               interpreters, init_failed, crashed>>
      BY <1>0, <1>8 DEF NoModule, NoMap, Move
    <2>2. Excused' <=> Excused
      BY <2>1 DEF Excused, MapMissing
    <2>3. FileState'
      BY <1>0, <1>1, <1>3, <2>1, <2>2 DEF Running, FileState, Files, Loads
    <2>4. LoadGoes(to)
      BY <1>0, <1>1, <2>1, <2>3 DEF LoadGoes
    <2> QED
      BY <2>4, LoadMove
  <1> QED
    BY <1>4, <1>5, <1>6, <1>7, <1>8 DEF Loading

-----------------------------------------------------------------------------
\* The pointers, sizes and counter of the mapped files keep their meaning in the server and
\* in eval, whatever the number of threads and however get_backtrace, the replacement of
\* interpreters, the error paths of main and global_cleanup interleave.
THEOREM FilesFollowed == FilesSpec => []FilesInv
  <1>1. FilesInv /\ [FilesNext]_mappingVars => FilesInv'
    <2> SUFFICES ASSUME FilesInv, [FilesNext]_mappingVars PROVE FilesInv'
      OBVIOUS
    <2>1. CASE Loading
      BY <2>1, LoadingSteps
    <2>2. CASE Starting \/ Eval \/ JoinAll
      BY <2>2, MainSteps, StartStep, ReleaseSteps, CrashSteps DEF Starting, Eval
    <2>3. CASE CleanupModule \/ CleanupMap \/ ReturnFromMain
      BY <2>3, ReleaseSteps, ReturnStep
    <2>4. CASE \E a \in Agents : get_backtrace(a)
      BY <2>4, ReadStep, CountStep, UnmapStep, CrashSteps DEF get_backtrace
    <2>5. CASE \E t \in Threads : ThreadSteps(t)
      BY <2>5, ThreadStep, CrashSteps DEF ThreadSteps
    <2>6. CASE UNCHANGED mappingVars
      <3> USE <2>6 DEF mappingVars, inputs, fileVars, countVars, endVars
      <3>1. FilesType' /\ ReadsFindMapping' /\ MappingsReleasedOnce'
        BY DEF FilesInv, FilesType, ReadsFindMapping, MappingsReleasedOnce, MapMissing
      <3>2. Control => Control'
        BY DEF Control, Resting
      <3>3. Interpreters => Interpreters'
        BY DEF Interpreters, IsNext
      <3>4. FileState /\ Unmapping => FileState' /\ Unmapping'
        BY DEF FileState, Unmapping, Excused, MapMissing
      <3>5. Copies => Copies'
        BY DEF Copies, Undisturbed, Counted, MapMissing
      <3> QED
        BY <3>1, <3>2, <3>3, <3>4, <3>5 DEF FilesInv, Running
    <2> QED
      BY <2>1, <2>2, <2>3, <2>4, <2>5, <2>6 DEF FilesNext, ProcessDone
  <1> QED
    BY <1>1, InitFiles, PTL DEF FilesSpec

\* init_thread_state and get_backtrace read the module and the source map only while they
\* are mapped, except in the cases that the property names, whatever the number of threads.
THEOREM MappedWhenRead == FilesSpec => []ReadsFindMapping
  <1>1. FilesInv => ReadsFindMapping
    BY DEF FilesInv
  <1> QED
    BY <1>1, FilesFollowed, PTL

\* get_backtrace, main, eval and global_cleanup between them release every mapping exactly
\* once before the process ends, apart from the error paths that the property names.
THEOREM ReleasedOnce == FilesSpec => []MappingsReleasedOnce
  <1>1. FilesInv => MappingsReleasedOnce
    BY DEF FilesInv
  <1> QED
    BY <1>1, FilesFollowed, PTL

-----------------------------------------------------------------------------
(***************************************************************************)
(* The text decoder                                                         *)
(*                                                                         *)
(* What utf8_decode makes of the bytes behind a lead byte, or behind those  *)
(* of an earlier chunk, depends only on how many of them follow (Follow):   *)
(* Outcome says what it is.  A cut changes neither that number nor the bits.*)
(***************************************************************************)

\* The code point after at most three more bytes, written out.
LEMMA BitsAre ==
  ASSUME NEW codepoint, NEW s, NEW i \in Nat, NEW n \in 0 .. 3
  PROVE  Bits(codepoint, s, i, n) =
           IF n = 0 THEN codepoint
           ELSE IF n = 1 THEN AddBits(codepoint, s[i])
           ELSE IF n = 2 THEN AddBits(AddBits(codepoint, s[i]), s[i + 1])
           ELSE AddBits(AddBits(AddBits(codepoint, s[i]), s[i + 1]), s[i + 2])
  <1> DEFINE F(f) == [p \in 0 .. n |-> IF p = 0 THEN codepoint ELSE AddBits(f[p - 1], s[i + p - 1])]
             b == CHOOSE f : f = F(f)
             one == AddBits(codepoint, s[i])
             two == AddBits(one, s[i + 1])
             three == AddBits(two, s[i + 2])
             g == [p \in 0 .. n |-> IF p = 0 THEN codepoint ELSE IF p = 1 THEN one
                                    ELSE IF p = 2 THEN two ELSE three]
  <1>1. g = F(g)
    <2>1. ASSUME NEW p \in 0 .. n
          PROVE  g[p] = IF p = 0 THEN codepoint ELSE AddBits(g[p - 1], s[i + p - 1])
      <3>1. p = 0 \/ p = 1 \/ p = 2 \/ p = 3
        OBVIOUS
      <3>2. p # 0 => p - 1 \in 0 .. n
        OBVIOUS
      <3>3. i + 1 - 1 = i /\ i + 2 - 1 = i + 1 /\ i + 3 - 1 = i + 2
        OBVIOUS
      <3> HIDE DEF one, two, three
      <3>4. CASE p = 0
        BY <3>4
      <3>5. CASE p = 1
        BY <3>2, <3>3, <3>5 DEF one
      <3>6. CASE p = 2
        BY <3>2, <3>3, <3>6 DEF two
      <3>7. CASE p = 3
        BY <3>2, <3>3, <3>7 DEF three
      <3> QED
        BY <3>1, <3>4, <3>5, <3>6, <3>7
    <2> HIDE DEF one, two, three
    <2> QED
      BY <2>1
  <1>2. b = F(b)
    <2> HIDE DEF F, g
    <2> QED
      BY <1>1
  <1>3. Bits(codepoint, s, i, n) = b[n]
    BY DEF Bits
  <1> HIDE DEF b
  <1>4. /\ b[0] = codepoint
        /\ n >= 1 => b[1] = AddBits(b[0], s[i])
        /\ n >= 2 => b[2] = AddBits(b[1], s[i + 1])
        /\ n >= 3 => b[3] = AddBits(b[2], s[i + 2])
    <2>1. \A p \in 0 .. n : b[p] = IF p = 0 THEN codepoint ELSE AddBits(b[p - 1], s[i + p - 1])
      BY <1>2
    <2>2. i + 1 - 1 = i /\ i + 2 - 1 = i + 1 /\ i + 3 - 1 = i + 2
      OBVIOUS
    <2>3. n >= 1 => b[1] = AddBits(b[0], s[i])
      BY <2>1, <2>2
    <2>4. n >= 2 => b[2] = AddBits(b[1], s[i + 1])
      BY <2>1, <2>2
    <2>5. n >= 3 => b[3] = AddBits(b[2], s[i + 2])
      BY <2>1, <2>2
    <2> QED
      BY <2>1, <2>3, <2>4, <2>5
  <1>5. n = 0 \/ n = 1 \/ n = 2 \/ n = 3
    OBVIOUS
  <1> QED
    BY <1>3, <1>4, <1>5

\* Between two characters.
Rested(ctx) == ctx.need = 0 /\ ctx.lower = 0

\* A string has bytes at its indices.
LEMMA ByteType ==
  ASSUME NEW s \in Strings
  PROVE  Len(s) \in Nat /\ \A j \in 1 .. Len(s) : s[j] \in 0 .. 255
  BY ElementOfSeq, LenProperties DEF Strings

\* The fields of a context.
LEMMA ContextType ==
  ASSUME NEW ctx \in Contexts
  PROVE  ctx.need \in 0 .. 3 /\ ctx.lower \in 0 .. 255 /\ ctx.upper \in 0 .. 255 /\ ctx.codepoint \in Nat
  BY DEF Contexts

\* What an assignment to one field of the context leaves alone.
LEMMA SetCodepoint ==
  ASSUME NEW ctx \in Contexts, NEW v \in Nat
  PROVE  /\ [ctx EXCEPT !.codepoint = v] \in Contexts /\ [ctx EXCEPT !.codepoint = v].codepoint = v
         /\ [ctx EXCEPT !.codepoint = v].need = ctx.need
         /\ [ctx EXCEPT !.codepoint = v].lower = ctx.lower
         /\ [ctx EXCEPT !.codepoint = v].upper = ctx.upper
  BY DEF Contexts

LEMMA SetNeed ==
  ASSUME NEW ctx \in Contexts, NEW v \in 0 .. 3
  PROVE  /\ [ctx EXCEPT !.need = v] \in Contexts /\ [ctx EXCEPT !.need = v].need = v
         /\ [ctx EXCEPT !.need = v].lower = ctx.lower
         /\ [ctx EXCEPT !.need = v].upper = ctx.upper
         /\ [ctx EXCEPT !.need = v].codepoint = ctx.codepoint
  BY DEF Contexts

LEMMA SetLower ==
  ASSUME NEW ctx \in Contexts, NEW v \in 0 .. 255
  PROVE  /\ [ctx EXCEPT !.lower = v] \in Contexts /\ [ctx EXCEPT !.lower = v].lower = v
         /\ [ctx EXCEPT !.lower = v].need = ctx.need
         /\ [ctx EXCEPT !.lower = v].upper = ctx.upper
         /\ [ctx EXCEPT !.lower = v].codepoint = ctx.codepoint
  BY DEF Contexts

\* The value that the fields are reset to.
LEMMA ZeroIs == 0 \in 0 .. 3 /\ 0 \in 0 .. 255
  OBVIOUS

\* The label failed resets the context and keeps its code point.
LEMMA FailedIs ==
  ASSUME NEW ctx \in Contexts, NEW i
  PROVE  /\ Failed(ctx, i).cp = NJS_UNICODE_ERROR /\ Failed(ctx, i).next = i
         /\ Failed(ctx, i).ctx \in Contexts /\ Rested(Failed(ctx, i).ctx)
         /\ Failed(ctx, i).ctx.codepoint = ctx.codepoint
         /\ Failed(ctx, i) = [cp |-> NJS_UNICODE_ERROR, ctx |-> Failed(ctx, i).ctx, next |-> i]
  <1> DEFINE e == [ctx EXCEPT !.lower = 0, !.need = 0]
  <1>1. e \in Contexts
    <2> DEFINE l == [ctx EXCEPT !.lower = 0]
    <2>1. l \in Contexts
      BY SetLower, ZeroIs, Zenon
    <2>2. e = [l EXCEPT !.need = 0]
      BY DEF Contexts
    <2> HIDE DEF l, e
    <2> QED
      BY <2>1, <2>2, SetNeed, ZeroIs, Zenon
  <1>2. e.need = 0 /\ e.lower = 0 /\ e.codepoint = ctx.codepoint
    BY DEF Contexts
  <1>3. Failed(ctx, i) = [cp |-> NJS_UNICODE_ERROR, ctx |-> e, next |-> i]
    BY DEF Failed
  <1> HIDE DEF e
  <1> QED
    BY <1>1, <1>2, <1>3 DEF Rested

\* Of the need bytes from s[i] on, n are continuation bytes and the next is not.
Run(need, s, i, n) ==
    /\ n \in 0 .. need
    /\ \A j \in i .. i + n - 1 : j <= Len(s) /\ s[j] \in 128 .. 191
    /\ n = need \/ i + n > Len(s) \/ s[i + n] \notin 128 .. 191

\* The loop at the label decode takes as many bytes as follow.
LEMMA ContinuedIs ==
  ASSUME NEW need \in 0 .. 3, NEW s \in Strings, NEW i \in Nat \ {0}, NEW n, Run(need, s, i, n)
  PROVE  Continued(need, s, i) = n
  <1> USE DEF Run
  <1> DEFINE cont == {p \in 1 .. need : \A j \in i .. i + p - 1 : j <= Len(s) /\ s[j] \in 128 .. 191}
  <1>1. cont = 1 .. n
    <2>1. ASSUME NEW p \in cont PROVE p <= n
      <3> SUFFICES ASSUME p > n PROVE FALSE
        OBVIOUS
      <3>1. i + n \in i .. i + p - 1 /\ n # need
        OBVIOUS
      <3> QED
        BY <3>1
    <2>2. 1 .. n \subseteq cont
      OBVIOUS
    <2>3. cont \subseteq 1 .. n
      BY <2>1
    <2> HIDE DEF cont
    <2> QED
      BY <2>2, <2>3
  <1>2. Cardinality(1 .. n) = n
    BY FS_Interval
  <1> QED
    BY <1>1, <1>2 DEF Continued

\* A code point stays a natural number.
LEMMA AddBitsType ==
  ASSUME NEW codepoint \in Nat, NEW b \in 0 .. 255
  PROVE  AddBits(codepoint, b) \in Nat
  BY DEF AddBits

LEMMA BitsType ==
  ASSUME NEW codepoint \in Nat, NEW s \in Strings, NEW i \in Nat \ {0}, NEW n \in 0 .. 3,
         i + n - 1 <= Len(s)
  PROVE  Bits(codepoint, s, i, n) \in Nat
  <1>1. \A c \in Nat, b \in 0 .. 255 : AddBits(c, b) \in Nat
    BY AddBitsType
  <1>2. \A p \in 0 .. 2 : p < n => s[i + p] \in 0 .. 255
    BY ByteType
  <1>3. /\ n >= 1 => s[i] \in 0 .. 255
        /\ n >= 2 => s[i + 1] \in 0 .. 255
        /\ n >= 3 => s[i + 2] \in 0 .. 255
    BY <1>2
  <1>4. CASE n = 0
    BY <1>4, BitsAre
  <1>5. CASE n = 1
    <2>1. Bits(codepoint, s, i, n) = AddBits(codepoint, s[i]) /\ s[i] \in 0 .. 255
      BY <1>3, <1>5, BitsAre
    <2> QED
      BY <1>1, <2>1, Zenon
  <1>6. CASE n = 2
    <2>1. /\ Bits(codepoint, s, i, n) = AddBits(AddBits(codepoint, s[i]), s[i + 1])
          /\ s[i] \in 0 .. 255 /\ s[i + 1] \in 0 .. 255
      BY <1>3, <1>6, BitsAre
    <2>2. AddBits(codepoint, s[i]) \in Nat
      BY <2>1, AddBitsType
    <2> QED
      BY <2>1, <2>2, AddBitsType
  <1>7. CASE n = 3
    <2>1. /\ Bits(codepoint, s, i, n) = AddBits(AddBits(AddBits(codepoint, s[i]), s[i + 1]), s[i + 2])
          /\ s[i] \in 0 .. 255 /\ s[i + 1] \in 0 .. 255 /\ s[i + 2] \in 0 .. 255
      BY <1>3, <1>7, BitsAre
    <2>2. AddBits(codepoint, s[i]) \in Nat
      BY <2>1, AddBitsType
    <2>3. AddBits(AddBits(codepoint, s[i]), s[i + 1]) \in Nat
      BY <2>1, <2>2, AddBitsType
    <2> QED
      BY <2>1, <2>3, AddBitsType
  <1> QED
    BY <1>4, <1>5, <1>6, <1>7

\* The results of utf8_decode.
Steps == [cp : Nat, ctx : Contexts, next : Nat]

\* What became of the need bytes that were to follow from s[i] on, of which n did.
Outcome(d, codepoint, need, s, i, n) ==
    /\ d \in Steps /\ d.next = i + n /\ d.ctx.codepoint = Bits(codepoint, s, i, n)
    /\ n = need => d.cp = d.ctx.codepoint /\ d.ctx.need = 0
    /\ n < need /\ i + n > Len(s) => d.cp = NJS_UNICODE_CONTINUE /\ d.ctx.need = need - n
    /\ n < need /\ i + n <= Len(s) => d.cp = NJS_UNICODE_ERROR /\ d.ctx.need = 0

\* The two marks differ.
LEMMA CodeType ==
  /\ NJS_UNICODE_ERROR \in Nat /\ NJS_UNICODE_CONTINUE \in Nat
  /\ NJS_UNICODE_ERROR # NJS_UNICODE_CONTINUE
  BY SMT DEF NJS_UNICODE_ERROR, NJS_UNICODE_CONTINUE

\* The fields of a result.
LEMMA StepIs ==
  ASSUME NEW cp \in Nat, NEW ctx \in Contexts, NEW next \in Nat
  PROVE  LET d == [cp |-> cp, ctx |-> ctx, next |-> next]
         IN  d \in Steps /\ d.cp = cp /\ d.ctx = ctx /\ d.next = next
  BY DEF Steps

\* The loop at the label decode: done, out of bytes, or failed.
LEMMA ContinueIs ==
  ASSUME NEW ctx \in Contexts, ctx.need = 0, NEW need \in 0 .. 3, NEW s \in Strings,
         NEW i \in 1 .. Len(s) + 1, NEW n, Run(need, s, i, n)
  PROVE  LET d == Continue(ctx, need, s, i)
         IN  Outcome(d, ctx.codepoint, need, s, i, n) /\ d.ctx.lower \in {0, ctx.lower}
  <1> DEFINE c == Bits(ctx.codepoint, s, i, n)
             after == [ctx EXCEPT !.codepoint = c]
             d == Continue(ctx, need, s, i)
  <1>1. n = Continued(need, s, i)
    BY ContinuedIs, ByteType
  <1>0. n \in 0 .. need /\ i + n - 1 <= Len(s) /\ Len(s) \in Nat
    <2>1. n \in 0 .. need /\ Len(s) \in Nat
      BY ByteType DEF Run
    <2>2. n > 0 => i + n - 1 \in i .. i + n - 1
      BY <2>1
    <2> QED
      BY <2>1, <2>2 DEF Run
  <1>2. d = CASE n = need -> [cp |-> after.codepoint, ctx |-> after, next |-> i + n]
              [] n < need /\ i + n > Len(s) ->
                    [cp |-> NJS_UNICODE_CONTINUE, ctx |-> [after EXCEPT !.need = need - n], next |-> i + n]
              [] OTHER -> Failed(after, i + n)
    BY <1>1 DEF Continue
  <1>3. c \in Nat /\ i + n \in Nat
    <2>1. ctx.codepoint \in Nat /\ i \in Nat \ {0} /\ n \in 0 .. 3
      BY <1>0, ContextType
    <2>2. c \in Nat
      BY <1>0, <2>1, BitsType
    <2> QED
      BY <2>1, <2>2
  <1> HIDE DEF c
  <1>4. after \in Contexts /\ after.codepoint = c /\ after.need = 0 /\ after.lower = ctx.lower
    BY <1>3, SetCodepoint
  <1> HIDE DEF after, d
  <1>5. CASE n = need
    <2>1. d = [cp |-> after.codepoint, ctx |-> after, next |-> i + n]
      BY <1>2, <1>5
    <2>2. d \in Steps /\ d.cp = c /\ d.ctx = after /\ d.next = i + n
      BY <1>3, <1>4, <2>1, StepIs
    <2> QED
      BY <1>4, <1>5, <2>2 DEF Outcome, c, d
  <1>6. CASE n < need /\ i + n > Len(s)
    <2>1. d = [cp |-> NJS_UNICODE_CONTINUE, ctx |-> [after EXCEPT !.need = need - n], next |-> i + n]
      BY <1>0, <1>2, <1>6
    <2> DEFINE e == [after EXCEPT !.need = need - n]
    <2>2. need - n \in 0 .. 3
      BY <1>0
    <2>3. e \in Contexts /\ e.codepoint = c /\ e.need = need - n /\ e.lower = ctx.lower
      BY <1>4, <2>2, SetNeed
    <2> HIDE DEF e
    <2>4. d \in Steps /\ d.cp = NJS_UNICODE_CONTINUE /\ d.ctx = e /\ d.next = i + n
      BY <1>3, <2>1, <2>3, StepIs, CodeType DEF e
    <2>5. n # need /\ ~(i + n <= Len(s))
      BY <1>0, <1>6
    <2> QED
      BY <1>6, <2>3, <2>4, <2>5 DEF Outcome, c, d
  <1>7. CASE n < need /\ i + n <= Len(s)
    <2>1. d = Failed(after, i + n)
      BY <1>0, <1>2, <1>7
    <2>2. /\ d.cp = NJS_UNICODE_ERROR /\ d.next = i + n /\ d.ctx \in Contexts
          /\ d.ctx.codepoint = c /\ d.ctx.need = 0 /\ d.ctx.lower = 0
          /\ d = [cp |-> NJS_UNICODE_ERROR, ctx |-> d.ctx, next |-> i + n]
      BY <1>4, <2>1, FailedIs DEF Rested
    <2>3. d \in Steps
      BY <1>3, <2>2, StepIs, CodeType
    <2>4. n # need /\ ~(i + n > Len(s))
      BY <1>0, <1>7
    <2> QED
      BY <2>2, <2>3, <2>4 DEF Outcome, c, d
  <1> QED
    BY <1>0, <1>5, <1>6, <1>7 DEF d

-----------------------------------------------------------------------------
\* The values of the byte number p of those to come, when the first has bounds.
Allowed(p, lo, hi) == IF p = 0 THEN lo .. hi ELSE 128 .. 191

\* Of the need bytes from s[i] on, the first of which must be in lo .. hi, n follow.
Follow(need, lo, hi, s, i, n) ==
    /\ n \in 0 .. need
    /\ \A p \in 0 .. n - 1 : i + p <= Len(s) /\ s[i + p] \in Allowed(p, lo, hi)
    /\ n = need \/ i + n > Len(s) \/ s[i + n] \notin Allowed(n, lo, hi)

\* Some number of bytes follows.
LEMMA FollowExists ==
  ASSUME NEW need \in 0 .. 3, NEW lo, NEW hi, NEW s \in Strings, NEW i \in 1 .. Len(s) + 1
  PROVE  \E n \in 0 .. need : Follow(need, lo, hi, s, i, n)
  <1> DEFINE Ok(p) == i + p <= Len(s) /\ s[i + p] \in Allowed(p, lo, hi)
  <1>1. ASSUME NEW n \in 0 .. need, \A p \in 0 .. n - 1 : Ok(p), n = need \/ ~Ok(n)
        PROVE  Follow(need, lo, hi, s, i, n)
    BY <1>1, ByteType DEF Follow
  <1> HIDE DEF Ok
  <1>2. need = 0 \/ need = 1 \/ need = 2 \/ need = 3
    OBVIOUS
  <1>3. CASE need = 0 \/ ~Ok(0)
    <2>1. 0 \in 0 .. need /\ 0 .. 0 - 1 = {}
      OBVIOUS
    <2> QED
      BY <1>1, <1>3, <2>1
  <1>4. CASE need >= 1 /\ Ok(0) /\ (need = 1 \/ ~Ok(1))
    <2>1. 1 \in 0 .. need /\ \A p \in 0 .. 1 - 1 : p = 0
      BY <1>4
    <2> QED
      BY <1>1, <1>4, <2>1
  <1>5. CASE need >= 2 /\ Ok(0) /\ Ok(1) /\ (need = 2 \/ ~Ok(2))
    <2>1. 2 \in 0 .. need /\ \A p \in 0 .. 2 - 1 : p = 0 \/ p = 1
      BY <1>5
    <2> QED
      BY <1>1, <1>5, <2>1
  <1>6. CASE need = 3 /\ Ok(0) /\ Ok(1) /\ Ok(2)
    <2>1. 3 \in 0 .. need /\ \A p \in 0 .. 3 - 1 : p = 0 \/ p = 1 \/ p = 2
      BY <1>6
    <2> QED
      BY <1>1, <1>6, <2>1
  <1> QED
    BY <1>2, <1>3, <1>4, <1>5, <1>6

\* The first of the bytes to come may be taken before the loop.
LEMMA BitsFirst ==
  ASSUME NEW codepoint, NEW s, NEW i \in Nat, NEW n \in 1 .. 3
  PROVE  Bits(AddBits(codepoint, s[i]), s, i + 1, n - 1) = Bits(codepoint, s, i, n)
  <1>1. /\ i + 1 \in Nat /\ n - 1 \in 0 .. 3 /\ n \in 0 .. 3 /\ (i + 1) + 1 = i + 2
        /\ n = 1 \/ n = 2 \/ n = 3
    OBVIOUS
  <1>2. CASE n = 1
    BY <1>1, <1>2, BitsAre
  <1>3. CASE n = 2
    BY <1>1, <1>3, BitsAre
  <1>4. CASE n = 3
    BY <1>1, <1>4, BitsAre
  <1> QED
    BY <1>1, <1>2, <1>3, <1>4

\* njs_utf8_boundary and the loop behind it.
LEMMA BoundaryIs ==
  ASSUME NEW ctx \in Contexts, ctx.need = 0, NEW need \in 1 .. 3, NEW lo, NEW hi, NEW s \in Strings,
         NEW i \in 1 .. Len(s), NEW n, Follow(need, lo, hi, s, i, n)
  PROVE  LET d == Boundary(ctx, need, lo, hi, s, i)
         IN  Outcome(d, ctx.codepoint, need, s, i, n) /\ d.ctx.lower \in {0, ctx.lower}
  <1>0. Len(s) \in Nat /\ s[i] \in 0 .. 255 /\ n \in 0 .. need /\ ctx.codepoint \in Nat
    BY ByteType, ContextType DEF Follow
  <1>1. CASE s[i] \in lo .. hi
    <2> DEFINE b == AddBits(ctx.codepoint, s[i])
               e == [ctx EXCEPT !.codepoint = b]
    <2>1. n >= 1 /\ Run(need - 1, s, i + 1, n - 1)
      <3>1. n # 0
        <4>1. i + 0 = i /\ 0 # need /\ ~(i + 0 > Len(s)) /\ Allowed(0, lo, hi) = lo .. hi
          BY <1>0 DEF Allowed
        <4> QED
          BY <1>1, <4>1 DEF Follow
      <3>2. ASSUME NEW j \in i + 1 .. (i + 1) + (n - 1) - 1 PROVE j <= Len(s) /\ s[j] \in 128 .. 191
        <4> DEFINE p == j - i
        <4>1. p \in 0 .. n - 1 /\ p # 0 /\ i + p = j
          BY <1>0
        <4> HIDE DEF p
        <4>2. i + p <= Len(s) /\ s[i + p] \in Allowed(p, lo, hi)
          BY <4>1 DEF Follow
        <4> QED
          BY <4>1, <4>2 DEF Allowed
      <3>3. (i + 1) + (n - 1) = i + n /\ (n - 1 = need - 1 <=> n = need)
        BY <1>0
      <3> QED
        BY <1>0, <3>1, <3>2, <3>3 DEF Run, Follow, Allowed
    <2>2. b \in Nat
      BY <1>0, AddBitsType
    <2> HIDE DEF b
    <2>3. e \in Contexts /\ e.codepoint = b /\ e.need = 0 /\ e.lower = ctx.lower
      BY <2>2, SetCodepoint
    <2>4. Boundary(ctx, need, lo, hi, s, i) = Continue(e, need - 1, s, i + 1)
      BY <1>1 DEF Boundary, b
    <2> HIDE DEF e
    <2> DEFINE d == Continue(e, need - 1, s, i + 1)
    <2>5. need - 1 \in 0 .. 3 /\ i + 1 \in 1 .. Len(s) + 1
      BY <1>0
    <2>6. Outcome(d, b, need - 1, s, i + 1, n - 1) /\ d.ctx.lower \in {0, ctx.lower}
      BY <2>1, <2>3, <2>5, ContinueIs
    <2>7. Bits(b, s, i + 1, n - 1) = Bits(ctx.codepoint, s, i, n)
      BY <1>0, <2>1, BitsFirst DEF b
    <2> HIDE DEF d
    <2>8. Outcome(d, ctx.codepoint, need, s, i, n)
      <3>1. /\ (i + 1) + (n - 1) = i + n /\ (need - 1) - (n - 1) = need - n
            /\ n - 1 = need - 1 <=> n = need
            /\ n - 1 < need - 1 <=> n < need
        BY <1>0
      <3> QED
        BY <2>6, <2>7, <3>1 DEF Outcome
    <2> QED
      BY <2>4, <2>6, <2>8 DEF d
  <1>2. CASE s[i] \notin lo .. hi
    <2> DEFINE d == Failed(ctx, i)
    <2>1. n = 0
      <3>1. n # 0 => 0 \in 0 .. n - 1 /\ i + 0 = i
        BY <1>0
      <3> QED
        BY <1>2, <3>1 DEF Follow, Allowed
    <2>2. Boundary(ctx, need, lo, hi, s, i) = d
      BY <1>2 DEF Boundary
    <2>3. /\ d.cp = NJS_UNICODE_ERROR /\ d.next = i /\ d.ctx \in Contexts
          /\ d.ctx.codepoint = ctx.codepoint /\ d.ctx.need = 0 /\ d.ctx.lower = 0
          /\ d = [cp |-> NJS_UNICODE_ERROR, ctx |-> d.ctx, next |-> i]
      BY FailedIs DEF Rested
    <2> HIDE DEF d
    <2>4. d \in Steps
      BY <1>0, <2>3, StepIs, CodeType
    <2>5. Bits(ctx.codepoint, s, i, 0) = ctx.codepoint
      BY <1>0, BitsAre
    <2>6. 0 # need /\ ~(i + 0 > Len(s)) /\ i + 0 = i
      BY <1>0
    <2> QED
      BY <2>1, <2>2, <2>3, <2>4, <2>5, <2>6 DEF Outcome
  <1> QED
    BY <1>1, <1>2

-----------------------------------------------------------------------------
\* The bounds of the next byte, after the lead byte ch and in the context ctx.
LeadLower(ch) == IF SecondByte(ch) = <<0, 0>> THEN 128 ELSE SecondByte(ch)[1]
LeadUpper(ch) == IF SecondByte(ch) = <<0, 0>> THEN 191 ELSE SecondByte(ch)[2]
Lower(ctx) == IF ctx.lower = 0 THEN 128 ELSE ctx.lower
Upper(ctx) == IF ctx.lower = 0 THEN 191 ELSE ctx.upper

\* Where the byte after the lead byte is bounded more narrowly.
LEMMA SecondIs ==
  ASSUME NEW ch
  PROVE  \/ SecondByte(ch) = <<0, 0>> /\ ch \notin {224, 237, 240, 244}
         \/ ch = 224 /\ SecondByte(ch) = <<160, 191>>
         \/ ch = 237 /\ SecondByte(ch) = <<128, 159>>
         \/ ch = 240 /\ SecondByte(ch) = <<144, 191>>
         \/ ch = 244 /\ SecondByte(ch) = <<128, 143>>
  BY DEF SecondByte

LEMMA LeadBounds ==
  ASSUME NEW ch, SecondByte(ch) # <<0, 0>>
  PROVE  /\ SecondByte(ch)[1] \in 128 .. 191 /\ SecondByte(ch)[2] \in 128 .. 191
         /\ LeadLower(ch) = SecondByte(ch)[1] /\ LeadUpper(ch) = SecondByte(ch)[2]
  BY SecondIs DEF LeadLower, LeadUpper

\* Without narrower bounds, the bytes that follow are continuation bytes.
LEMMA FollowIsRun ==
  ASSUME NEW need \in 0 .. 3, NEW s \in Strings, NEW i \in 1 .. Len(s) + 1, NEW n,
         Follow(need, 128, 191, s, i, n)
  PROVE  Run(need, s, i, n)
  <1>1. n \in 0 .. need /\ Len(s) \in Nat
    BY ByteType DEF Follow
  <1>2. \A p : Allowed(p, 128, 191) = 128 .. 191
    BY DEF Allowed
  <1>3. ASSUME NEW j \in i .. i + n - 1 PROVE j <= Len(s) /\ s[j] \in 128 .. 191
    <2> DEFINE p == j - i
    <2>1. p \in 0 .. n - 1 /\ i + p = j
      BY <1>1
    <2> HIDE DEF p
    <2>2. i + p <= Len(s) /\ s[i + p] \in Allowed(p, 128, 191)
      BY <2>1 DEF Follow
    <2> QED
      BY <1>2, <2>1, <2>2
  <1> QED
    BY <1>1, <1>2, <1>3 DEF Run, Follow

\* A lead byte: its bounds are tested at once, or kept at the end of the chunk.
LEMMA LeadIs ==
  ASSUME NEW ctx \in Contexts, Rested(ctx), NEW ch, NEW need \in 1 .. 3, NEW bits \in Nat,
         NEW s \in Strings, NEW i \in 1 .. Len(s) + 1, NEW n,
         Follow(need, LeadLower(ch), LeadUpper(ch), s, i, n)
  PROVE  LET d == Lead(ctx, ch, need, bits, s, i)
         IN  /\ Outcome(d, bits, need, s, i, n)
             /\ i <= Len(s) => d.ctx.lower = 0
             /\ i > Len(s) => Lower(d.ctx) = LeadLower(ch) /\ Upper(d.ctx) = LeadUpper(ch)
  <1> DEFINE start == [ctx EXCEPT !.codepoint = bits]
             d == Lead(ctx, ch, need, bits, s, i)
  <1>0. Len(s) \in Nat /\ n \in 0 .. need
    BY ByteType DEF Follow
  <1>1. start \in Contexts /\ start.codepoint = bits /\ start.need = 0 /\ start.lower = 0
    BY SetCodepoint DEF Rested
  <1>2. /\ i > Len(s) => d = [cp |-> NJS_UNICODE_CONTINUE,
                              ctx |-> [boundary_set(start, ch) EXCEPT !.need = need], next |-> i]
        /\ i <= Len(s) /\ SecondByte(ch) = <<0, 0>> => d = Continue(start, need, s, i)
        /\ i <= Len(s) /\ SecondByte(ch) # <<0, 0>> =>
             d = Boundary(start, need, SecondByte(ch)[1], SecondByte(ch)[2], s, i)
    BY <1>0 DEF Lead
  <1> HIDE DEF start, d
  <1>3. CASE i > Len(s)
    <2> DEFINE b == boundary_set(start, ch)
               e == [b EXCEPT !.need = need]
    <2>1. n = 0
      <3>1. n # 0 => 0 \in 0 .. n - 1 /\ i + 0 = i
        BY <1>0
      <3> QED
        BY <1>0, <1>3, <3>1 DEF Follow
    <2>2. b \in Contexts /\ b.codepoint = bits /\ Lower(b) = LeadLower(ch) /\ Upper(b) = LeadUpper(ch)
      <3>1. CASE SecondByte(ch) = <<0, 0>>
        BY <1>1, <3>1 DEF boundary_set, Lower, Upper, LeadLower, LeadUpper
      <3>2. CASE SecondByte(ch) # <<0, 0>>
        <4> DEFINE lo == SecondByte(ch)[1]
                   hi == SecondByte(ch)[2]
        <4>1. /\ lo \in 128 .. 191 /\ hi \in 128 .. 191
              /\ LeadLower(ch) = lo /\ LeadUpper(ch) = hi
          BY <3>2, LeadBounds
        <4>2. b = [start EXCEPT !.lower = lo, !.upper = hi]
          BY <3>2 DEF boundary_set
        <4>3. lo \in 0 .. 255 /\ hi \in 0 .. 255
          BY <4>1
        <4> HIDE DEF lo, hi, b
        <4>4. b \in Contexts /\ b.lower = lo /\ b.upper = hi /\ b.codepoint = bits
          BY <1>1, <4>2, <4>3, ZenonT(40) DEF Contexts
        <4>5. b.lower # 0
          BY <4>1, <4>4
        <4> QED
          BY <4>1, <4>4, <4>5 DEF Lower, Upper
      <3> QED
        BY <3>1, <3>2
    <2> HIDE DEF b
    <2>3. e \in Contexts /\ e.codepoint = bits /\ e.need = need /\ e.lower = b.lower /\ e.upper = b.upper
      BY <2>2, SetNeed, need \in 0 .. 3
    <2> HIDE DEF e
    <2>4. d = [cp |-> NJS_UNICODE_CONTINUE, ctx |-> e, next |-> i]
      BY <1>2, <1>3 DEF e, b
    <2>5. d \in Steps /\ d.cp = NJS_UNICODE_CONTINUE /\ d.ctx = e /\ d.next = i
      BY <1>0, <2>3, <2>4, StepIs, CodeType
    <2>6. Bits(bits, s, i, 0) = bits
      BY <1>0, BitsAre
    <2>7. 0 # need /\ ~(i + 0 <= Len(s)) /\ i + 0 = i /\ ~(i <= Len(s)) /\ need - 0 = need
      BY <1>0, <1>3
    <2> QED
      BY <2>1, <2>2, <2>3, <2>5, <2>6, <2>7 DEF Outcome, Lower, Upper, d
  <1>4. CASE i <= Len(s) /\ SecondByte(ch) = <<0, 0>>
    <2>1. d = Continue(start, need, s, i)
      BY <1>2, <1>4
    <2>2. Run(need, s, i, n)
      BY <1>4, FollowIsRun DEF LeadLower, LeadUpper
    <2>3. Outcome(d, bits, need, s, i, n) /\ d.ctx.lower \in {0, 0}
      BY <1>1, <2>1, <2>2, ContinueIs
    <2> QED
      BY <1>0, <1>4, <2>3 DEF d
  <1>5. CASE i <= Len(s) /\ SecondByte(ch) # <<0, 0>>
    <2>1. d = Boundary(start, need, LeadLower(ch), LeadUpper(ch), s, i)
      BY <1>2, <1>5, LeadBounds
    <2>2. i \in 1 .. Len(s)
      BY <1>0, <1>5
    <2>3. Outcome(d, bits, need, s, i, n) /\ d.ctx.lower \in {0, 0}
      BY <1>1, <2>1, <2>2, BoundaryIs
    <2> QED
      BY <1>0, <1>5, <2>3 DEF d
  <1> QED
    BY <1>0, <1>3, <1>4, <1>5

\* A context that is waiting for bytes finds its bounds again.
LEMMA ResumeIs ==
  ASSUME NEW ctx \in Contexts, ctx.need # 0, NEW s \in Strings, NEW i \in 1 .. Len(s), NEW n,
         Follow(ctx.need, Lower(ctx), Upper(ctx), s, i, n)
  PROVE  LET d == utf8_decode(ctx, s, i)
         IN  Outcome(d, ctx.codepoint, ctx.need, s, i, n) /\ d.ctx.lower = 0
  <1> DEFINE rest == [ctx EXCEPT !.need = 0]
             d == utf8_decode(ctx, s, i)
             b == Boundary(rest, ctx.need, ctx.lower, ctx.upper, s, i)
  <1>0. Len(s) \in Nat /\ ctx.need \in 1 .. 3
    BY ByteType, ContextType
  <1>1. rest \in Contexts /\ rest.codepoint = ctx.codepoint /\ rest.need = 0 /\ rest.lower = ctx.lower
    BY SetNeed, ZeroIs, Zenon
  <1>2. /\ ctx.lower # 0 => d = [b EXCEPT !.ctx.lower = 0]
        /\ ctx.lower = 0 => d = Continue(rest, ctx.need, s, i)
    BY DEF utf8_decode
  <1> HIDE DEF rest, d
  <1>3. CASE ctx.lower # 0
    <2>1. Outcome(b, ctx.codepoint, ctx.need, s, i, n)
      BY <1>0, <1>1, <1>3, BoundaryIs DEF Lower, Upper
    <2> HIDE DEF b
    <2> DEFINE e == [b.ctx EXCEPT !.lower = 0]
    <2>2. b \in Steps /\ b.ctx \in Contexts /\ b.cp \in Nat /\ b.next \in Nat
      BY <2>1 DEF Outcome, Steps
    <2>3. e \in Contexts /\ e.codepoint = b.ctx.codepoint /\ e.need = b.ctx.need /\ e.lower = 0
      BY <2>2, SetLower, ZeroIs, ZenonT(30)
    <2>4. d = [b EXCEPT !.ctx = e]
      BY <1>2, <1>3
    <2> HIDE DEF e
    <2>5. d \in Steps /\ d.cp = b.cp /\ d.ctx = e /\ d.next = b.next
      BY <2>2, <2>3, <2>4 DEF Steps
    <2>6. Outcome(d, ctx.codepoint, ctx.need, s, i, n)
      BY <2>1, <2>3, <2>5 DEF Outcome
    <2> QED
      BY <2>3, <2>5, <2>6 DEF d
  <1>4. CASE ctx.lower = 0
    <2>1. Run(ctx.need, s, i, n)
      BY <1>0, <1>4, FollowIsRun DEF Lower, Upper
    <2>2. ctx.need \in 0 .. 3 /\ i \in 1 .. Len(s) + 1
      BY <1>0
    <2>3. Outcome(d, ctx.codepoint, ctx.need, s, i, n) /\ d.ctx.lower \in {0, 0}
      BY <1>1, <1>2, <1>4, <2>1, <2>2, ContinueIs
    <2> QED
      BY <2>3 DEF d
  <1> QED
    BY <1>3, <1>4

-----------------------------------------------------------------------------
\* The bytes of two strings that are put together.
LEMMA Concatenated ==
  ASSUME NEW a \in Strings, NEW b \in Strings
  PROVE  /\ a \o b \in Strings /\ Len(a \o b) = Len(a) + Len(b)
         /\ \A p \in 1 .. Len(a) : (a \o b)[p] = a[p]
         /\ \A p \in 1 .. Len(b) : (a \o b)[Len(a) + p] = b[p]
  BY ConcatProperties DEF Strings

\* The code point does not depend on where the bytes were cut.
LEMMA BitsJoin ==
  ASSUME NEW codepoint, NEW a \in Strings, NEW b \in Strings, NEW i \in 1 .. Len(a) + 1,
         NEW n \in 0 .. 3, NEW m \in 0 .. n, i + m = Len(a) + 1, n - m <= Len(b)
  PROVE  Bits(Bits(codepoint, a, i, m), b, 1, n - m) = Bits(codepoint, a \o b, i, n)
  <1> DEFINE t == a \o b
  <1>0. Len(a) \in Nat /\ Len(b) \in Nat
    BY ByteType
  <1>1. \A p \in 0 .. 2 : p < m => t[i + p] = a[i + p]
    <2>1. \A p \in 0 .. 2 : p < m => i + p \in 1 .. Len(a)
      BY <1>0
    <2> QED
      BY <2>1, Concatenated
  <1>2. \A p \in 1 .. 3 : p <= n - m => t[i + m + p - 1] = b[p]
    <2> SUFFICES ASSUME NEW p \in 1 .. 3, p <= n - m PROVE t[i + m + p - 1] = b[p]
      OBVIOUS
    <2>1. p \in 1 .. Len(b) /\ i + m + p - 1 = Len(a) + p
      BY <1>0
    <2>2. t[Len(a) + p] = b[p]
      BY <2>1, Concatenated
    <2> HIDE DEF t
    <2> QED
      BY <2>1, <2>2
  <1> HIDE DEF t
  <1>3. i \in Nat /\ 1 \in Nat /\ m \in 0 .. 3 /\ n - m \in 0 .. 3
    BY <1>0
  <1> DEFINE c == Bits(codepoint, a, i, m)
  <1>4. /\ m = 0 => c = codepoint
        /\ m = 1 => c = AddBits(codepoint, a[i])
        /\ m = 2 => c = AddBits(AddBits(codepoint, a[i]), a[i + 1])
        /\ m = 3 => c = AddBits(AddBits(AddBits(codepoint, a[i]), a[i + 1]), a[i + 2])
    BY <1>3, BitsAre
  <1> HIDE DEF c
  <1>5. /\ n - m = 0 => Bits(c, b, 1, n - m) = c
        /\ n - m = 1 => Bits(c, b, 1, n - m) = AddBits(c, b[1])
        /\ n - m = 2 => Bits(c, b, 1, n - m) = AddBits(AddBits(c, b[1]), b[2])
        /\ n - m = 3 => Bits(c, b, 1, n - m) = AddBits(AddBits(AddBits(c, b[1]), b[2]), b[3])
    <2>1. 1 + 1 = 2 /\ 1 + 2 = 3
      OBVIOUS
    <2> QED
      BY <1>3, <2>1, BitsAre
  <1>6. /\ n = 0 => Bits(codepoint, t, i, n) = codepoint
        /\ n = 1 => Bits(codepoint, t, i, n) = AddBits(codepoint, t[i])
        /\ n = 2 => Bits(codepoint, t, i, n) = AddBits(AddBits(codepoint, t[i]), t[i + 1])
        /\ n = 3 => Bits(codepoint, t, i, n) =
                      AddBits(AddBits(AddBits(codepoint, t[i]), t[i + 1]), t[i + 2])
    BY <1>3, BitsAre
  <1>7. /\ m >= 1 => t[i] = a[i]
        /\ m >= 2 => t[i + 1] = a[i + 1]
        /\ m >= 3 => t[i + 2] = a[i + 2]
    <2>1. i + 0 = i
      BY <1>3
    <2> QED
      BY <1>1, <2>1
  <1>8. CASE m = 0
    <2>1. /\ i + m + 1 - 1 = i /\ i + m + 2 - 1 = i + 1 /\ i + m + 3 - 1 = i + 2
          /\ n - m = n /\ c = codepoint
      BY <1>3, <1>4, <1>8
    <2>2. (n >= 1 => t[i] = b[1]) /\ (n >= 2 => t[i + 1] = b[2]) /\ (n >= 3 => t[i + 2] = b[3])
      BY <1>2, <2>1
    <2>3. n = 0 \/ n = 1 \/ n = 2 \/ n = 3
      OBVIOUS
    <2>4. Bits(c, b, 1, n) = Bits(codepoint, t, i, n)
      BY <1>5, <1>6, <2>1, <2>2, <2>3
    <2> QED
      BY <2>1, <2>4 DEF c, t
  <1>9. CASE m = 1
    <2>1. /\ i + m + 1 - 1 = i + 1 /\ i + m + 2 - 1 = i + 2
          /\ n - m = n - 1 /\ c = AddBits(codepoint, t[i]) /\ n \in 1 .. 3
      BY <1>3, <1>4, <1>7, <1>9
    <2>2. (n >= 2 => t[i + 1] = b[1]) /\ (n >= 3 => t[i + 2] = b[2])
      BY <1>2, <2>1
    <2>3. n = 1 \/ n = 2 \/ n = 3
      BY <2>1
    <2> QED
      BY <1>5, <1>6, <2>1, <2>2, <2>3 DEF c, t
  <1>10. CASE m = 2
    <2>1. /\ i + m + 1 - 1 = i + 2
          /\ n - m = n - 2 /\ c = AddBits(AddBits(codepoint, t[i]), t[i + 1]) /\ n \in 2 .. 3
      BY <1>3, <1>4, <1>7, <1>10
    <2>2. n >= 3 => t[i + 2] = b[1]
      BY <1>2, <2>1
    <2>3. n = 2 \/ n = 3
      BY <2>1
    <2> QED
      BY <1>5, <1>6, <2>1, <2>2, <2>3 DEF c, t
  <1>11. CASE m = 3
    BY <1>4, <1>5, <1>6, <1>7, <1>11 DEF c, t
  <1> QED
    BY <1>8, <1>9, <1>10, <1>11

\* The cut comes when m bytes have followed.
LEMMA FollowJoin ==
  ASSUME NEW need \in 1 .. 3, NEW lo, NEW hi, NEW a \in Strings, NEW b \in Strings,
         NEW i \in 1 .. Len(a) + 1,
         NEW m, Follow(need, lo, hi, a, i, m), m < need, i + m > Len(a),
         NEW n, Follow(need, lo, hi, a \o b, i, n)
  PROVE  /\ m \in 0 .. n /\ i + m = Len(a) + 1 /\ n - m <= Len(b)
         /\ m = 0 => Follow(need - m, lo, hi, b, 1, n - m)
         /\ m # 0 => Follow(need - m, 128, 191, b, 1, n - m)
  <1> DEFINE t == a \o b
  <1>0. /\ Len(a) \in Nat /\ Len(b) \in Nat /\ m \in 0 .. need /\ n \in 0 .. need
        /\ Len(t) = Len(a) + Len(b)
    BY ByteType, Concatenated DEF Follow
  <1>1. i + m = Len(a) + 1
    <2>1. m > 0 => m - 1 \in 0 .. m - 1 /\ i + (m - 1) <= Len(a)
      BY <1>0 DEF Follow
    <2> QED
      BY <1>0, <2>1
  <1>2. \A p \in 0 .. 2 : p < m => t[i + p] = a[i + p]
    <2>1. \A p \in 0 .. 2 : p < m => i + p \in 1 .. Len(a)
      BY <1>0, <1>1
    <2> QED
      BY <2>1, Concatenated
  <1>3. \A p \in 0 .. 3 : 1 + p <= Len(b) => t[i + (m + p)] = b[1 + p]
    <2> SUFFICES ASSUME NEW p \in 0 .. 3, 1 + p <= Len(b) PROVE t[i + (m + p)] = b[1 + p]
      OBVIOUS
    <2>1. 1 + p \in 1 .. Len(b) /\ i + (m + p) = Len(a) + (1 + p)
      BY <1>0, <1>1
    <2> HIDE DEF t
    <2> QED
      BY <2>1, Concatenated DEF t
  <1> HIDE DEF t
  <1>4. m <= n
    <2> SUFFICES ASSUME n < m PROVE FALSE
      BY <1>0
    <2>1. n \in 0 .. m - 1 /\ n \in 0 .. 2 /\ n # need
      BY <1>0
    <2>2. i + n <= Len(a) /\ a[i + n] \in Allowed(n, lo, hi)
      BY <2>1 DEF Follow
    <2>3. i + n <= Len(t)
      BY <1>0, <2>2
    <2>5. n < m => t[i + n] = a[i + n]
      BY <1>2, <2>1
    <2>4. i + n > Len(t) \/ t[i + n] \notin Allowed(n, lo, hi)
      BY <2>1 DEF Follow, t
    <2> QED
      BY <1>0, <2>2, <2>3, <2>4, <2>5
  <1>5. n - m <= Len(b)
    <2>2. n > m => n - 1 \in 0 .. n - 1
      BY <1>0
    <2>1. n > m => n - 1 \in 0 .. n - 1 /\ i + (n - 1) <= Len(t)
      BY <2>2 DEF Follow, t
    <2> QED
      BY <1>0, <1>1, <2>1
  <1>6. ASSUME NEW l, NEW h, m = 0 => l = lo /\ h = hi, m # 0 => l = 128 /\ h = 191
        PROVE  Follow(need - m, l, h, b, 1, n - m)
    <2>1. ASSUME NEW p \in 0 .. 3 PROVE Allowed(p, l, h) = Allowed(m + p, lo, hi)
      <3>1. CASE m = 0
        <4>1. m + p = p
          BY <3>1
        <4> QED
          BY <1>6, <3>1, <4>1
      <3>2. CASE m # 0
        <4>1. m + p # 0
          BY <1>0, <3>2
        <4> QED
          BY <1>6, <3>2, <4>1 DEF Allowed
      <3> QED
        BY <3>1, <3>2
    <2>2. ASSUME NEW p \in 0 .. (n - m) - 1 PROVE 1 + p <= Len(b) /\ b[1 + p] \in Allowed(p, l, h)
      <3>1. p \in 0 .. 3 /\ m + p \in 0 .. n - 1 /\ 1 + p <= Len(b)
        BY <1>0, <1>4, <1>5
      <3>2. t[i + (m + p)] \in Allowed(m + p, lo, hi)
        BY <3>1 DEF Follow, t
      <3> QED
        BY <1>3, <2>1, <3>1, <3>2
    <2>3. n - m = need - m \/ 1 + (n - m) > Len(b) \/ b[1 + (n - m)] \notin Allowed(n - m, l, h)
      <3> SUFFICES ASSUME n # need, 1 + (n - m) <= Len(b)
                   PROVE  b[1 + (n - m)] \notin Allowed(n - m, l, h)
        BY <1>0
      <3>1. n - m \in 0 .. 3 /\ m + (n - m) = n /\ i + n <= Len(t)
        BY <1>0, <1>1, <1>4
      <3>2. t[i + n] \notin Allowed(n, lo, hi)
        BY <1>0, <3>1 DEF Follow, t
      <3>3. t[i + n] = b[1 + (n - m)] /\ Allowed(n - m, l, h) = Allowed(n, lo, hi)
        BY <1>3, <2>1, <3>1
      <3> QED
        BY <3>2, <3>3
    <2>4. n - m \in 0 .. need - m
      BY <1>0, <1>4
    <2> QED
      BY <2>2, <2>3, <2>4 DEF Follow
  <1> QED
    BY <1>0, <1>1, <1>4, <1>5, <1>6

\* Nobody reads upper while lower is 0.
Agree(c, d) ==
    /\ c.need = d.need /\ c.codepoint = d.codepoint /\ c.lower = d.lower
    /\ c.lower # 0 => c.upper = d.upper

\* d is what e is, p bytes further on.
SameStep(d, e, p) == d.cp = e.cp /\ p + d.next = e.next /\ Agree(d.ctx, e.ctx)

\* What is decoded behind a cut is what would have been decoded without it.
LEMMA CutAt ==
  ASSUME NEW need \in 1 .. 3, NEW lo, NEW hi, NEW codepoint \in Nat,
         NEW a \in Strings, NEW b \in Strings, b # <<>>, NEW j \in 1 .. Len(a) + 1,
         NEW m, Follow(need, lo, hi, a, j, m),
         NEW n, Follow(need, lo, hi, a \o b, j, n),
         NEW cut, Outcome(cut, codepoint, need, a, j, m), cut.ctx.need # 0,
         NEW whole, Outcome(whole, codepoint, need, a \o b, j, n), whole.ctx.lower = 0,
         m = 0 => Lower(cut.ctx) = lo /\ Upper(cut.ctx) = hi,
         m # 0 => cut.ctx.lower = 0,
         NEW now \in Contexts, Agree(now, cut.ctx)
  PROVE  SameStep(utf8_decode(now, b, 1), whole, Len(a))
  <1> DEFINE t == a \o b
             c == Bits(codepoint, a, j, m)
             d == utf8_decode(now, b, 1)
  <1>0. /\ Len(a) \in Nat /\ Len(b) \in Nat /\ Len(b) # 0 /\ m \in 0 .. need /\ n \in 0 .. need
        /\ Len(t) = Len(a) + Len(b)
    BY ByteType, Concatenated, EmptySeq DEF Follow, Strings
  <1>1. m < need /\ j + m > Len(a) /\ cut.ctx.need = need - m /\ cut.ctx.codepoint = c
        /\ cut.ctx \in Contexts
    BY <1>0 DEF Outcome, Steps
  <1>2. /\ m \in 0 .. n /\ j + m = Len(a) + 1 /\ n - m <= Len(b)
        /\ m = 0 => Follow(need - m, lo, hi, b, 1, n - m)
        /\ m # 0 => Follow(need - m, 128, 191, b, 1, n - m)
    BY <1>1, FollowJoin
  <1>3. /\ now.need = need - m /\ now.need # 0 /\ now.codepoint = c
        /\ m = 0 => Lower(now) = lo /\ Upper(now) = hi
        /\ m # 0 => Lower(now) = 128 /\ Upper(now) = 191
    BY <1>1 DEF Agree, Lower, Upper
  <1>4. Follow(now.need, Lower(now), Upper(now), b, 1, n - m)
    BY <1>2, <1>3
  <1>5. 1 \in 1 .. Len(b)
    BY <1>0
  <1>6. Outcome(d, c, need - m, b, 1, n - m) /\ d.ctx.lower = 0
    <2>1. Outcome(d, now.codepoint, now.need, b, 1, n - m) /\ d.ctx.lower = 0
      <3>1. now.need # 0
        BY <1>3
      <3> QED
        BY <1>4, <1>5, <3>1, ResumeIs
    <2> QED
      BY <1>3, <2>1, Zenon
  <1>7. Bits(c, b, 1, n - m) = Bits(codepoint, t, j, n)
    <2>1. n \in 0 .. 3 /\ m \in 0 .. n /\ j + m = Len(a) + 1 /\ n - m <= Len(b)
      BY <1>0, <1>2
    <2> QED
      BY <2>1, BitsJoin, SMTT(20)
  <1>8. d.ctx.codepoint = whole.ctx.codepoint
    BY <1>6, <1>7 DEF Outcome
  <1> HIDE DEF t, c, d
  <1> DEFINE la == Len(a)
             lb == Len(b)
             lt == Len(t)
  <1>15. /\ la \in Nat /\ lb \in Nat /\ m \in Nat /\ n \in Nat /\ j \in Nat /\ lt = la + lb
         /\ j + m = la + 1 /\ need \in Nat /\ m <= n
    BY <1>0, <1>2
  <1>9. Len(a) + (1 + (n - m)) = j + n
    <2> HIDE DEF la, lb, lt
    <2>1. la + (1 + (n - m)) = j + n
      BY <1>15
    <2> QED
      BY <2>1 DEF la
  <1>10. Len(a) + d.next = whole.next
    BY <1>6, <1>9 DEF Outcome
  <1>11. /\ n - m = need - m <=> n = need
         /\ n - m < need - m <=> n < need
         /\ 1 + (n - m) > Len(b) <=> j + n > Len(t)
         /\ 1 + (n - m) <= Len(b) <=> j + n <= Len(t)
         /\ (need - m) - (n - m) = need - n
    <2> HIDE DEF la, lb, lt
    <2>1. /\ n - m = need - m <=> n = need
          /\ n - m < need - m <=> n < need
          /\ 1 + (n - m) > lb <=> j + n > lt
          /\ 1 + (n - m) <= lb <=> j + n <= lt
          /\ (need - m) - (n - m) = need - n
      BY <1>15
    <2> QED
      BY <2>1 DEF la, lb, lt
  <1>12. CASE n = need
    BY <1>6, <1>8, <1>10, <1>11, <1>12 DEF Outcome, SameStep, Agree, d, t
  <1>13. CASE n < need /\ j + n > Len(t)
    BY <1>6, <1>8, <1>10, <1>11, <1>13 DEF Outcome, SameStep, Agree, d, t
  <1>14. CASE n < need /\ j + n <= Len(t)
    BY <1>6, <1>8, <1>10, <1>11, <1>14 DEF Outcome, SameStep, Agree, d, t
  <1> QED
    BY <1>0, <1>12, <1>13, <1>14

\* The lead bytes, with the bytes to come and the bits of the code point.
LeadNeed(ch) == IF ch < 224 THEN 1 ELSE IF ch < 240 THEN 2 ELSE 3
LeadBits(ch) == IF ch < 224 THEN ch % 32 ELSE IF ch < 240 THEN ch % 16 ELSE ch % 8

\* What a lead byte says of the bytes to come.
LEMMA LeadType ==
  ASSUME NEW ch \in 194 .. 244
  PROVE  LeadNeed(ch) \in 1 .. 3 /\ LeadBits(ch) \in Nat
  BY DEF LeadNeed, LeadBits

\* The first byte of a character decides between character, lead byte and error.
LEMMA DecodeIs ==
  ASSUME NEW ctx \in Contexts, ctx.need = 0, NEW s \in Strings, NEW i \in 1 .. Len(s)
  PROVE  LET d == utf8_decode(ctx, s, i)
         IN  /\ s[i] < 128 => d = [cp |-> s[i], ctx |-> ctx, next |-> i + 1]
             /\ s[i] \in 194 .. 244 =>
                  d = Lead(ctx, s[i], LeadNeed(s[i]), LeadBits(s[i]), s, i + 1)
             /\ s[i] >= 128 /\ s[i] \notin 194 .. 244 =>
                  d = [cp |-> NJS_UNICODE_ERROR, ctx |-> ctx, next |-> i + 1]
  <1> DEFINE d == utf8_decode(ctx, s, i)
             ch == s[i]
             ascii == [cp |-> ch, ctx |-> ctx, next |-> i + 1]
             two == Lead(ctx, ch, 1, ch % 32, s, i + 1)
             three == Lead(ctx, ch, 2, ch % 16, s, i + 1)
             four == Lead(ctx, ch, 3, ch % 8, s, i + 1)
             none == [cp |-> NJS_UNICODE_ERROR, ctx |-> ctx, next |-> i + 1]
             lead == Lead(ctx, ch, LeadNeed(ch), LeadBits(ch), s, i + 1)
  <1>1. ch \in 0 .. 255
    BY ByteType
  <1>2. d = CASE ch < 128 -> ascii [] ch \in 194 .. 223 -> two [] ch \in 224 .. 239 -> three
              [] ch \in 240 .. 244 -> four [] OTHER -> none
    BY Zenon DEF utf8_decode
  <1> HIDE DEF d, ch
  <1>3. /\ ch \in 194 .. 223 => LeadNeed(ch) = 1 /\ LeadBits(ch) = ch % 32
        /\ ch \in 224 .. 239 => LeadNeed(ch) = 2 /\ LeadBits(ch) = ch % 16
        /\ ch \in 240 .. 244 => LeadNeed(ch) = 3 /\ LeadBits(ch) = ch % 8
    BY <1>1 DEF LeadNeed, LeadBits
  <1>4. /\ ch \in 194 .. 223 => lead = two
        /\ ch \in 224 .. 239 => lead = three
        /\ ch \in 240 .. 244 => lead = four
    BY <1>3, Zenon
  <1> HIDE DEF ascii, two, three, four, none, lead
  <1>5. CASE ch < 128
    <2>1. /\ ~(ch >= 128) /\ ch \notin 194 .. 244 /\ ch \notin 194 .. 223 /\ ch \notin 224 .. 239
          /\ ch \notin 240 .. 244
      BY <1>1, <1>5
    <2>2. d = ascii
      BY <1>2, <1>5, <2>1
    <2> QED
      BY <2>1, <2>2 DEF d, ch, ascii
  <1>6. CASE ch \in 194 .. 223
    <2>1. ~(ch < 128) /\ ch \notin 224 .. 239 /\ ch \notin 240 .. 244 /\ ch \in 194 .. 244
      BY <1>1, <1>6
    <2>2. d = two
      BY <1>2, <1>6, <2>1
    <2> QED
      BY <1>4, <1>6, <2>1, <2>2 DEF d, ch, lead
  <1>7. CASE ch \in 224 .. 239
    <2>1. ~(ch < 128) /\ ch \notin 194 .. 223 /\ ch \notin 240 .. 244 /\ ch \in 194 .. 244
      BY <1>1, <1>7
    <2>2. d = three
      BY <1>2, <1>7, <2>1
    <2> QED
      BY <1>4, <1>7, <2>1, <2>2 DEF d, ch, lead
  <1>8. CASE ch \in 240 .. 244
    <2>1. ~(ch < 128) /\ ch \notin 194 .. 223 /\ ch \notin 224 .. 239 /\ ch \in 194 .. 244
      BY <1>1, <1>8
    <2>2. d = four
      BY <1>2, <1>8, <2>1
    <2> QED
      BY <1>4, <1>8, <2>1, <2>2 DEF d, ch, lead
  <1>9. CASE ch >= 128 /\ ch \notin 194 .. 244
    <2>1. /\ ~(ch < 128) /\ ch \notin 194 .. 223 /\ ch \notin 224 .. 239 /\ ch \notin 240 .. 244
          /\ ch \notin 194 .. 244
      BY <1>1, <1>9
    <2>2. d = none
      BY <1>2, <2>1
    <2> QED
      BY <2>1, <2>2 DEF d, ch, none
  <1>10. \/ ch < 128 \/ ch \in 194 .. 223 \/ ch \in 224 .. 239 \/ ch \in 240 .. 244
         \/ (ch >= 128 /\ ch \notin 194 .. 244)
    BY <1>1
  <1> QED
    BY <1>5, <1>6, <1>7, <1>8, <1>9, <1>10

\* A character that is cut anywhere by the end of a chunk is decoded from the next one as if
\* it had not been cut: njs_utf8_decode gives the same code point or error, stops at the same
\* byte and leaves the same context.  The context now may itself come from such a step, so
\* this holds for a character that is cut several times.
THEOREM CutResumes ==
  ASSUME NEW ctx \in Contexts, ctx.need = 0 => ctx.lower = 0,
         NEW a \in Strings, NEW b \in Strings, b # <<>>, NEW i \in 1 .. Len(a),
         utf8_decode(ctx, a, i).ctx.need # 0,
         NEW now \in Contexts, Agree(now, utf8_decode(ctx, a, i).ctx)
  PROVE  SameStep(utf8_decode(now, b, 1), utf8_decode(ctx, a \o b, i), Len(a))
  <1> DEFINE t == a \o b
             cut == utf8_decode(ctx, a, i)
             whole == utf8_decode(ctx, t, i)
  <1>0. /\ Len(a) \in Nat /\ Len(b) \in Nat /\ Len(b) # 0 /\ Len(t) = Len(a) + Len(b)
        /\ t \in Strings /\ t[i] = a[i] /\ a[i] \in 0 .. 255
    BY ByteType, Concatenated, EmptySeq DEF Strings
  <1> HIDE DEF t, cut, whole
  <1>1. CASE ctx.need # 0
    <2> DEFINE need == ctx.need
               lo == Lower(ctx)
               hi == Upper(ctx)
    <2>1. need \in 1 .. 3 /\ need \in 0 .. 3 /\ ctx.codepoint \in Nat
      BY <1>1, ContextType
    <2>2. i \in 1 .. Len(a) + 1 /\ i \in 1 .. Len(t) /\ i \in 1 .. Len(t) + 1
      BY <1>0
    <2>3. PICK m : Follow(need, lo, hi, a, i, m)
      BY <2>1, <2>2, FollowExists
    <2>4. PICK n : Follow(need, lo, hi, t, i, n)
      BY <1>0, <2>1, <2>2, FollowExists
    <2>5. Outcome(cut, ctx.codepoint, need, a, i, m) /\ cut.ctx.lower = 0
      BY <1>1, <2>3, ResumeIs DEF cut
    <2>6. Outcome(whole, ctx.codepoint, need, t, i, n) /\ whole.ctx.lower = 0
      BY <1>0, <1>1, <2>2, <2>4, ResumeIs DEF whole
    <2>7. cut.ctx.need # 0 /\ Agree(now, cut.ctx)
      BY DEF cut
    <2>8. m # 0
      <3>1. m \in 0 .. need
        BY <2>3 DEF Follow
      <3>2. m = 0 => i + m = i /\ m < need /\ i + m <= Len(a)
        BY <1>0, <2>1
      <3> QED
        BY <2>5, <2>7, <3>2 DEF Outcome
    <2> HIDE DEF need, lo, hi
    <2> QED
      BY <2>1, <2>2, <2>3, <2>4, <2>5, <2>6, <2>7, <2>8, CutAt DEF t, cut, whole
  <1>2. CASE ctx.need = 0
    <2> DEFINE ch == a[i]
               need == LeadNeed(ch)
               bits == LeadBits(ch)
               lo == LeadLower(ch)
               hi == LeadUpper(ch)
               j == i + 1
    <2>1. Rested(ctx)
      BY <1>2 DEF Rested
    <2>2. ch \in 194 .. 244
      <3>1. /\ ch < 128 => cut = [cp |-> ch, ctx |-> ctx, next |-> i + 1]
            /\ ch >= 128 /\ ch \notin 194 .. 244 =>
                  cut = [cp |-> NJS_UNICODE_ERROR, ctx |-> ctx, next |-> i + 1]
        BY <1>2, DecodeIs, ZenonT(40) DEF cut
      <3>3. ch < 128 \/ (ch >= 128 /\ ch \notin 194 .. 244) => cut.ctx = ctx
        BY <3>1
      <3>2. cut.ctx.need # 0
        BY DEF cut
      <3> QED
        <4> HIDE DEF ch
        <4>1. ch \in 0 .. 255
          BY <1>0 DEF ch
        <4>2. ch < 128 \/ ch >= 128
          BY <4>1
        <4>3. ~(ch < 128 \/ (ch >= 128 /\ ch \notin 194 .. 244))
          BY <1>2, <3>2, <3>3
        <4> QED
          BY <4>2, <4>3, Zenon
    <2>3. i \in 1 .. Len(t) /\ j \in 1 .. Len(a) + 1 /\ j \in 1 .. Len(t) + 1 /\ j <= Len(t)
      BY <1>0
    <2>4. need \in 1 .. 3 /\ need \in 0 .. 3 /\ bits \in Nat
      <3> HIDE DEF ch
      <3>1. need \in 1 .. 3 /\ bits \in Nat
        BY <2>2, LeadType
      <3> HIDE DEF need
      <3> QED
        BY <3>1
    <2>5. cut = Lead(ctx, ch, need, bits, a, j)
      BY <1>2, <2>2, DecodeIs DEF cut
    <2>6. whole = Lead(ctx, ch, need, bits, t, j)
      <3>1. t[i] \in 194 .. 244 /\ t[i] = ch
        BY <1>0, <2>2
      <3>2. whole = Lead(ctx, t[i], LeadNeed(t[i]), LeadBits(t[i]), t, j)
        BY <1>0, <1>2, <2>3, <3>1, DecodeIs, Zenon DEF whole
      <3> QED
        BY <3>1, <3>2, Zenon
    <2> HIDE DEF ch, need, bits, lo, hi, j
    <2>7. PICK m : Follow(need, lo, hi, a, j, m)
      BY <2>3, <2>4, FollowExists
    <2>8. PICK n : Follow(need, lo, hi, t, j, n)
      BY <1>0, <2>3, <2>4, FollowExists
    <2>9. /\ Outcome(cut, bits, need, a, j, m)
          /\ j <= Len(a) => cut.ctx.lower = 0
          /\ j > Len(a) => Lower(cut.ctx) = lo /\ Upper(cut.ctx) = hi
      BY <2>1, <2>3, <2>4, <2>5, <2>7, LeadIs DEF lo, hi
    <2>10. Outcome(whole, bits, need, t, j, n) /\ whole.ctx.lower = 0
      BY <1>0, <2>1, <2>3, <2>4, <2>6, <2>8, LeadIs DEF lo, hi
    <2>11. cut.ctx.need # 0 /\ Agree(now, cut.ctx)
      BY DEF cut
    <2>12. m \in 0 .. need
      BY <2>7 DEF Follow
    <2>13. m = 0 => j > Len(a)
      <3>1. m = 0 /\ j <= Len(a) => m < need /\ j + m <= Len(a)
        BY <1>0, <2>3, <2>4
      <3>2. ~(m < need /\ j + m <= Len(a))
        BY <2>9, <2>11 DEF Outcome
      <3> QED
        BY <1>0, <2>3, <3>1, <3>2
    <2>14. m # 0 => j <= Len(a)
      <3>1. m # 0 => 0 \in 0 .. m - 1 /\ j + 0 = j
        BY <2>3, <2>4, <2>12
      <3> QED
        BY <2>7, <3>1 DEF Follow
    <2> QED
      BY <2>3, <2>4, <2>7, <2>8, <2>9, <2>10, <2>11, <2>13, <2>14, CutAt DEF t, cut, whole
  <1> QED
    BY <1>1, <1>2

-----------------------------------------------------------------------------
\* Shifting six bits in and out again.
LEMMA Shift6 ==
  ASSUME NEW q \in Nat, NEW z \in 0 .. 63
  PROVE  (q * 64 + z) \div 64 = q
  OBVIOUS

\* The size of a code point, by ranges.
LEMMA SizeIs ==
  ASSUME NEW cp \in Nat
  PROVE  /\ utf8_size(cp) = 1 <=> cp < 128
         /\ utf8_size(cp) = 2 <=> cp >= 128 /\ cp < 2048
         /\ utf8_size(cp) = 3 <=> cp >= 2048 /\ cp < 65536
         /\ utf8_size(cp) = 4 <=> cp >= 65536
  BY SMT DEF utf8_size

\* njs_utf8_encode, by size.
LEMMA Encode1 ==
  ASSUME NEW cp, utf8_size(cp) = 1
  PROVE  utf8_encode(cp) =
           <<cp>>
  BY SMT DEF utf8_encode

LEMMA Encode2 ==
  ASSUME NEW cp, utf8_size(cp) = 2
  PROVE  utf8_encode(cp) =
           <<192 + (cp \div 64), 128 + (cp % 64)>>
  BY SMT DEF utf8_encode

LEMMA Encode3 ==
  ASSUME NEW cp, utf8_size(cp) = 3
  PROVE  utf8_encode(cp) =
           <<224 + (cp \div 4096), 128 + ((cp \div 64) % 64), 128 + (cp % 64)>>
  BY SMT DEF utf8_encode

LEMMA Encode4 ==
  ASSUME NEW cp, utf8_size(cp) = 4
  PROVE  utf8_encode(cp) =
           <<240 + (cp \div 262144), 128 + ((cp \div 4096) % 64), 128 + ((cp \div 64) % 64),
             128 + (cp % 64)>>
  BY SMT DEF utf8_encode

\* Encoding a character gives its bytes back: no encoding is overlong.
LEMMA RoundTrip2 ==
  ASSUME NEW b1 \in 194 .. 223, NEW b2 \in 128 .. 191
  PROVE  LET cp == AddBits(b1 % 32, b2)
         IN  cp <= NJS_UNICODE_MAX_CODEPOINT /\ utf8_encode(cp) = <<b1, b2>>
  <1> DEFINE w == b1 - 192
             x == b2 - 128
             cp == w * 64 + x
  <1>1. b1 % 32 = w /\ b2 % 64 = x /\ w \in 2 .. 31 /\ x \in 0 .. 63
    BY SMT
  <1>2. 192 + w = b1 /\ 128 + x = b2
    BY SMT
  <1>3. AddBits(b1 % 32, b2) = cp
    BY <1>1, SMT DEF AddBits
  <1> HIDE DEF w, x
  <1>4. cp \in 128 .. 2047 /\ cp \div 64 = w /\ cp % 64 = x
    BY <1>1, SMT
  <1> HIDE DEF cp
  <1>5. utf8_encode(cp) = <<192 + (cp \div 64), 128 + (cp % 64)>>
    <2>1. cp \in Nat
      BY <1>4, SMT
    <2>2. utf8_size(cp) = 2
      BY <1>4, <2>1, SizeIs, SMTT(20)
    <2> QED
      BY <2>2, Encode2, SMT
  <1>6. utf8_encode(cp) = <<b1, b2>>
    BY <1>2, <1>4, <1>5, SMT
  <1>7. cp <= NJS_UNICODE_MAX_CODEPOINT
    BY <1>4, SMT DEF NJS_UNICODE_MAX_CODEPOINT
  <1> QED
    BY <1>3, <1>6, <1>7, SMT

LEMMA RoundTrip3 ==
  ASSUME NEW b1 \in 224 .. 239, NEW b2 \in 128 .. 191, b1 = 224 => b2 >= 160, NEW b3 \in 128 .. 191
  PROVE  LET cp == AddBits(AddBits(b1 % 16, b2), b3)
         IN  cp <= NJS_UNICODE_MAX_CODEPOINT /\ utf8_encode(cp) = <<b1, b2, b3>>
  <1> DEFINE w == b1 - 224
             x == b2 - 128
             y == b3 - 128
             cp == (w * 64 + x) * 64 + y
  <1>1. /\ b1 % 16 = w /\ b2 % 64 = x /\ b3 % 64 = y
        /\ w \in 0 .. 15 /\ x \in 0 .. 63 /\ y \in 0 .. 63 /\ (w = 0 => x >= 32)
    BY SMT
  <1>2. 224 + w = b1 /\ 128 + x = b2 /\ 128 + y = b3
    BY SMT
  <1>3. AddBits(AddBits(b1 % 16, b2), b3) = cp
    BY <1>1, SMT DEF AddBits
  <1> HIDE DEF w, x, y
  <1>4. /\ cp \in Nat /\ cp >= 2048 /\ cp < 65536
        /\ cp \div 4096 = w /\ (cp \div 64) % 64 = x /\ cp % 64 = y
    BY <1>1, SMT
  <1> HIDE DEF cp
  <1>5. utf8_encode(cp) = <<224 + (cp \div 4096), 128 + ((cp \div 64) % 64), 128 + (cp % 64)>>
    <2>1. cp \in Nat
      BY <1>4, SMT
    <2>2. utf8_size(cp) = 3
      BY <1>4, <2>1, SizeIs, SMTT(20)
    <2> QED
      BY <2>2, Encode3, SMT
  <1>6. utf8_encode(cp) = <<b1, b2, b3>>
    BY <1>2, <1>4, <1>5, SMT
  <1>7. cp <= NJS_UNICODE_MAX_CODEPOINT
    BY <1>4, SMT DEF NJS_UNICODE_MAX_CODEPOINT
  <1> QED
    BY <1>3, <1>6, <1>7, SMT

LEMMA RoundTrip4 ==
  ASSUME NEW b1 \in 240 .. 244, NEW b2 \in 128 .. 191, b1 = 240 => b2 >= 144, b1 = 244 => b2 < 144,
         NEW b3 \in 128 .. 191, NEW b4 \in 128 .. 191
  PROVE  LET cp == AddBits(AddBits(AddBits(b1 % 8, b2), b3), b4)
         IN  cp <= NJS_UNICODE_MAX_CODEPOINT /\ utf8_encode(cp) = <<b1, b2, b3, b4>>
  <1> DEFINE w == b1 - 240
             x == b2 - 128
             y == b3 - 128
             z == b4 - 128
             cp == ((w * 64 + x) * 64 + y) * 64 + z
  <1>1. /\ b1 % 8 = w /\ b2 % 64 = x /\ b3 % 64 = y /\ b4 % 64 = z
        /\ w \in 0 .. 4 /\ x \in 0 .. 63 /\ y \in 0 .. 63 /\ z \in 0 .. 63
        /\ w = 0 => x >= 16
        /\ w = 4 => x < 16
    BY SMT
  <1>2. 240 + w = b1 /\ 128 + x = b2 /\ 128 + y = b3 /\ 128 + z = b4
    BY SMT
  <1>3. AddBits(AddBits(AddBits(b1 % 8, b2), b3), b4) = cp
    BY <1>1, SMT DEF AddBits
  <1> HIDE DEF w, x, y, z
  <1>4. /\ cp \in Nat /\ cp >= 65536 /\ cp <= 1114111
        /\ cp \div 262144 = w /\ (cp \div 4096) % 64 = x /\ (cp \div 64) % 64 = y /\ cp % 64 = z
    <2>1. cp \in Nat /\ cp >= 65536 /\ cp <= 1114111
      BY <1>1, SMT
    <2>2. cp \div 262144 = w
      BY <1>1, SMT
    <2>3. (cp \div 4096) % 64 = x
      <3> DEFINE v == w * 64 + x
                 q == v * 64 + y
      <3>1. v \in Nat /\ v % 64 = x
        BY <1>1, SMT
      <3>2. cp = q * 64 + z
        BY SMT
      <3> HIDE DEF v, cp
      <3>3. (q * 64 + z) \div 4096 = v
        BY <1>1, <3>1, SMT
      <3> HIDE DEF q
      <3> QED
        BY <3>1, <3>2, <3>3, SMT
    <2>4. (cp \div 64) % 64 = y
      <3> DEFINE v == w * 64 + x
                 q == v * 64 + y
      <3>1. v \in Nat
        BY <1>1, SMT
      <3>2. cp = q * 64 + z
        BY SMT
      <3> HIDE DEF v, cp
      <3>3. q \in Nat /\ q % 64 = y
        BY <1>1, <3>1, SMT
      <3> HIDE DEF q
      <3>4. z \in 0 .. 63
        BY <1>1, SMT
      <3>5. (q * 64 + z) \div 64 = q
        BY <3>3, <3>4, Shift6, SMT
      <3> QED
        BY <3>2, <3>3, <3>5, SMT
    <2>5. cp % 64 = z
      BY <1>1, SMT
    <2> QED
      BY <2>1, <2>2, <2>3, <2>4, <2>5, SMT
  <1> HIDE DEF cp
  <1>5. utf8_encode(cp) = <<240 + (cp \div 262144), 128 + ((cp \div 4096) % 64),
                            128 + ((cp \div 64) % 64), 128 + (cp % 64)>>
    <2>1. cp \in Nat
      BY <1>4, SMT
    <2>2. utf8_size(cp) = 4
      BY <1>4, <2>1, SizeIs, SMTT(20)
    <2> QED
      BY <2>2, Encode4, SMT
  <1>6. utf8_encode(cp) = <<b1, b2, b3, b4>>
    BY <1>2, <1>4, <1>5, SMT
  <1>7. cp <= NJS_UNICODE_MAX_CODEPOINT
    BY <1>4, SMT DEF NJS_UNICODE_MAX_CODEPOINT
  <1> QED
    BY <1>3, <1>6, <1>7, SMT

-----------------------------------------------------------------------------
\* A character has four bytes at most.
LEMMA Min4 ==
  ASSUME NEW l \in Nat, NEW m \in Nat
  PROVE  m <= Min2(4, l) <=> m <= 4 /\ m <= l
  BY DEF Min2

\* The largest initial length is a character or a maximal subpart.
LEMMA SubpartIs ==
  ASSUME NEW s, NEW n \in Nat \ {0}, InitialLengths(s) = 1 .. n
  PROVE  InitialLengths(s) # {} /\ Subpart(s) = n
  <1> DEFINE L == InitialLengths(s)
             P(p) == p \in L /\ \A m \in L : m <= p
             c == CHOOSE p \in L : \A m \in L : m <= p
  <1>1. n \in L /\ \A m \in L : m <= n
    OBVIOUS
  <1>2. c \in L /\ \A m \in L : m <= c
    <2> HIDE DEF L
    <2> QED
      BY <1>1
  <1>3. c = n
    <2>1. c \in 1 .. n /\ n <= c
      BY <1>1, <1>2
    <2> HIDE DEF c
    <2> QED
      BY <2>1
  <1>4. L # {}
    BY <1>1
  <1> QED
    BY <1>3, <1>4 DEF Subpart

\* The narrower bounds are those of Unicode's table.
LEMMA LeadByteIs ==
  ASSUME NEW ch \in 194 .. 244
  PROVE  /\ LengthByLead(ch) = LeadNeed(ch) + 1
         /\ ch = 224 => LeadLower(ch) = 160 /\ LeadUpper(ch) = 191
         /\ ch = 237 => LeadLower(ch) = 128 /\ LeadUpper(ch) = 159
         /\ ch = 240 => LeadLower(ch) = 144 /\ LeadUpper(ch) = 191
         /\ ch = 244 => LeadLower(ch) = 128 /\ LeadUpper(ch) = 143
  <1>1. LengthByLead(ch) = LeadNeed(ch) + 1
    BY DEF LengthByLead, LeadNeed
  <1>2. ch = 224 => LeadLower(ch) = 160 /\ LeadUpper(ch) = 191
    BY SecondIs DEF LeadLower, LeadUpper
  <1>3. ch = 237 => LeadLower(ch) = 128 /\ LeadUpper(ch) = 159
    BY SecondIs DEF LeadLower, LeadUpper
  <1>4. ch = 240 => LeadLower(ch) = 144 /\ LeadUpper(ch) = 191
    BY SecondIs DEF LeadLower, LeadUpper
  <1>5. ch = 244 => LeadLower(ch) = 128 /\ LeadUpper(ch) = 143
    BY SecondIs DEF LeadLower, LeadUpper
  <1> QED
    BY <1>1, <1>2, <1>3, <1>4, <1>5

LEMMA OtherLead ==
  ASSUME NEW ch, ch # 224, ch # 237, ch # 240, ch # 244
  PROVE  LeadLower(ch) = 128 /\ LeadUpper(ch) = 191
  BY SecondIs DEF LeadLower, LeadUpper

\* The bytes that a character may begin with.
LEMMA FirstByteIs ==
  ASSUME NEW s, s[1] \in 0 .. 255
  PROVE  WellFormedAt(s, 1) <=> s[1] < 128 \/ s[1] \in 194 .. 244
  <1> DEFINE b == s[1]
  <1>1. WellFormedAt(s, 1) <=> b \in 0 .. 127 \cup 194 .. 244
    <2> DEFINE P == s[1] \in 0 .. 127 \cup 194 .. 244
    <2> HIDE DEF P
    <2> QED
      BY SMT DEF WellFormedAt, P
  <1> HIDE DEF b
  <1>2. b \in 0 .. 255
    BY DEF b
  <1>3. b \in 0 .. 127 \cup 194 .. 244 <=> b < 128 \/ b \in 194 .. 244
    BY <1>2
  <1> QED
    BY <1>1, <1>3 DEF b

\* The bounds of the code are those of the table.
LEMMA TableIs ==
  ASSUME NEW t \in Strings, Len(t) >= 1, t[1] \in 194 .. 244, NEW p \in 1 .. Len(t)
  PROVE  WellFormedAt(t, p) <=>
           p = 1 \/ t[p] \in Allowed(p - 2, LeadLower(t[1]), LeadUpper(t[1]))
  <1> DEFINE ch == t[1]
             lo == LeadLower(ch)
             hi == LeadUpper(ch)
  <1>0. Len(t) \in Nat /\ t[p] \in 0 .. 255 /\ ch \in 194 .. 244
    BY ByteType
  <1>1. CASE p = 1
    <2>1. t[1] \in 0 .. 255
      BY <1>0, <1>1
    <2> QED
      BY <1>0, <1>1, <2>1, FirstByteIs
  <1>2. CASE p = 2
    <2>1. WellFormedAt(t, p) <=>
            /\ t[2] \in 128 .. 191 /\ (ch = 224 => t[2] >= 160) /\ (ch = 237 => t[2] < 160)
            /\ (ch = 240 => t[2] >= 144) /\ (ch = 244 => t[2] < 144)
      BY <1>2 DEF WellFormedAt
    <2>2. Allowed(p - 2, lo, hi) = lo .. hi
      BY <1>2 DEF Allowed
    <2> DEFINE b == t[2]
    <2>9. p # 1
      BY <1>2
    <2> HIDE DEF ch, lo, hi, b
    <2>3. b \in 0 .. 255 /\ ch \in 194 .. 244
      BY <1>0, <1>2 DEF b, ch
    <2>11. \/ ch = 224 /\ lo = 160 /\ hi = 191
           \/ ch = 237 /\ lo = 128 /\ hi = 159
           \/ ch = 240 /\ lo = 144 /\ hi = 191
           \/ ch = 244 /\ lo = 128 /\ hi = 143
           \/ ch # 224 /\ ch # 237 /\ ch # 240 /\ ch # 244 /\ lo = 128 /\ hi = 191
      <3>1. ch = 224 => lo = 160 /\ hi = 191
        BY <2>3, LeadByteIs DEF lo, hi
      <3>2. ch = 237 => lo = 128 /\ hi = 159
        BY <2>3, LeadByteIs DEF lo, hi
      <3>3. ch = 240 => lo = 144 /\ hi = 191
        BY <2>3, LeadByteIs DEF lo, hi
      <3>4. ch = 244 => lo = 128 /\ hi = 143
        BY <2>3, LeadByteIs DEF lo, hi
      <3>5. ch # 224 /\ ch # 237 /\ ch # 240 /\ ch # 244 => lo = 128 /\ hi = 191
        BY OtherLead DEF lo, hi
      <3> QED
        BY <3>1, <3>2, <3>3, <3>4, <3>5
    <2>12. b \in lo .. hi <=>
            /\ b \in 128 .. 191 /\ (ch = 224 => b >= 160) /\ (ch = 237 => b < 160)
            /\ (ch = 240 => b >= 144) /\ (ch = 244 => b < 144)
      <3>1. CASE ch = 224 /\ lo = 160 /\ hi = 191
        BY <2>3, <3>1
      <3>2. CASE ch = 237 /\ lo = 128 /\ hi = 159
        BY <2>3, <3>2
      <3>3. CASE ch = 240 /\ lo = 144 /\ hi = 191
        BY <2>3, <3>3
      <3>4. CASE ch = 244 /\ lo = 128 /\ hi = 143
        BY <2>3, <3>4
      <3>5. CASE ch # 224 /\ ch # 237 /\ ch # 240 /\ ch # 244 /\ lo = 128 /\ hi = 191
        BY <2>3, <3>5
      <3> QED
        BY <2>11, <3>1, <3>2, <3>3, <3>4, <3>5
    <2>13. WellFormedAt(t, p) <=> b \in lo .. hi
      BY <2>1, <2>12, Zenon DEF b
    <2>14. t[p] = b
      BY <1>2 DEF b
    <2> QED
      BY <2>2, <2>9, <2>13, <2>14, Zenon DEF ch, lo, hi
  <1>3. CASE p > 2
    <2>1. p - 2 # 0 /\ p # 1 /\ p # 2
      BY <1>0, <1>3
    <2>2. WellFormedAt(t, p) <=> t[p] \in 128 .. 191
      BY <1>3, <2>1 DEF WellFormedAt
    <2> QED
      BY <2>1, <2>2 DEF Allowed
  <1> QED
    BY <1>0, <1>1, <1>2, <1>3

\* After a lead byte, the bytes that follow are the longest initial part.
LEMMA LeadInitial ==
  ASSUME NEW t \in Strings, Len(t) >= 1, t[1] \in 194 .. 244, NEW n,
         Follow(LeadNeed(t[1]), LeadLower(t[1]), LeadUpper(t[1]), t, 2, n)
  PROVE  /\ Subpart(t) = n + 1
         /\ Whole(t) <=> n = LeadNeed(t[1])
         /\ Incomplete(t) <=> n < LeadNeed(t[1]) /\ 2 + n > Len(t)
  <1> DEFINE need == LeadNeed(t[1])
             lo == LeadLower(t[1])
             hi == LeadUpper(t[1])
             l == Len(t)
  <1>0. need \in 1 .. 3 /\ l \in Nat /\ n \in 0 .. need /\ LengthByLead(t[1]) = need + 1
    <2>1. need \in 1 .. 3 /\ LengthByLead(t[1]) = need + 1
      <3> DEFINE ch == t[1]
      <3>1. ch \in 194 .. 244
        OBVIOUS
      <3> HIDE DEF ch
      <3>2. LeadNeed(ch) \in 1 .. 3 /\ LengthByLead(ch) = LeadNeed(ch) + 1
        BY <3>1, LeadType, LeadByteIs
      <3> QED
        BY <3>2 DEF ch
    <2>2. l \in Nat
      BY ByteType
    <2>3. n \in 0 .. need
      BY DEF Follow
    <2> QED
      BY <2>1, <2>2, <2>3
  <1>1. \A p \in 1 .. l : WellFormedAt(t, p) <=> p = 1 \/ t[p] \in Allowed(p - 2, lo, hi)
    BY TableIs
  <1>2. \A p \in 0 .. n - 1 : 2 + p <= l /\ t[2 + p] \in Allowed(p, lo, hi)
    BY DEF Follow
  <1>3. n = need \/ 2 + n > l \/ t[2 + n] \notin Allowed(n, lo, hi)
    BY DEF Follow
  <1>4. n + 1 <= l
    <2>1. n > 0 => n - 1 \in 0 .. n - 1 /\ 2 + (n - 1) = n + 1
      BY <1>0
    <2>2. n > 0 => n + 1 <= l
      BY <1>2, <2>1
    <2> QED
      BY <1>0, <2>2
  <1> HIDE DEF need, lo, hi, l
  <1>5. ASSUME NEW m \in 1 .. n + 1 PROVE m \in InitialLengths(t)
    <2>1. m \in Nat /\ m >= 1 /\ m <= 4 /\ m <= l /\ m <= need + 1
      BY <1>0, <1>4
    <2>2. m <= Min2(4, l)
      BY <1>0, <2>1, Min4
    <2>3. ASSUME NEW p \in 1 .. m PROVE WellFormedAt(t, p)
      <3>1. p \in 1 .. l
        BY <1>0, <2>1
      <3>2. p # 1 => p - 2 \in 0 .. n - 1 /\ 2 + (p - 2) = p
        BY <1>0
      <3>3. p # 1 => t[p] \in Allowed(p - 2, lo, hi)
        BY <1>2, <3>2
      <3> QED
        BY <1>1, <3>1, <3>3
    <2>4. Initial(t, m)
      BY <1>0, <2>1, <2>3 DEF Initial
    <2>5. m \in 1 .. Min2(4, Len(t))
      BY <1>0, <2>1, <2>2 DEF l, Min2
    <2> QED
      BY <2>4, <2>5 DEF InitialLengths
  <1>6. ASSUME NEW m \in InitialLengths(t) PROVE m \in 1 .. n + 1
    <2>1. m \in 1 .. Min2(4, l) /\ Initial(t, m)
      BY DEF InitialLengths, l
    <2>2. m \in Nat /\ m >= 1 /\ m <= l /\ m <= need + 1
      BY <1>0, <2>1 DEF Min2, Initial
    <2> SUFFICES ASSUME m > n + 1 PROVE FALSE
      BY <1>0, <2>2
    <2>3. n # need /\ n + 2 \in 1 .. m /\ 2 + n \in 1 .. l /\ 2 + n # 1 /\ (2 + n) - 2 = n /\ n + 2 = 2 + n
      BY <1>0, <2>2
    <2>4. WellFormedAt(t, 2 + n)
      BY <2>1, <2>3 DEF Initial
    <2>5. t[2 + n] \in Allowed(n, lo, hi)
      BY <1>1, <2>3, <2>4
    <2>6. ~(2 + n > l)
      BY <1>0, <2>2, <2>3
    <2> QED
      BY <1>3, <2>3, <2>5, <2>6
  <1>7. InitialLengths(t) = 1 .. n + 1
    BY <1>5, <1>6
  <1>8. InitialLengths(t) # {} /\ Subpart(t) = n + 1
    BY <1>0, <1>7, SubpartIs, n + 1 \in Nat \ {0}
  <1>9. Whole(t) <=> n = need
    BY <1>0, <1>8 DEF Whole
  <1>10. Incomplete(t) <=> n < need /\ 2 + n > l
    <2>1. n # need <=> n < need
      BY <1>0
    <2>2. n + 1 = l <=> 2 + n > l
      BY <1>0, <1>4
    <2>3. Incomplete(t) <=> n # need /\ n + 1 = l
      BY <1>8, <1>9 DEF Incomplete, l
    <2> QED
      BY <2>1, <2>2, <2>3
  <1> QED
    BY <1>8, <1>9, <1>10 DEF need, l

\* An ASCII character is whole.
LEMMA AsciiInitial ==
  ASSUME NEW t \in Strings, Len(t) >= 1, t[1] < 128
  PROVE  Subpart(t) = 1 /\ Whole(t) /\ ~Incomplete(t)
  <1>0. Len(t) \in Nat /\ t[1] \in 0 .. 255
    BY ByteType
  <1>1. LengthByLead(t[1]) = 1
    BY DEF LengthByLead
  <1>2. WellFormedAt(t, 1)
    BY <1>0, FirstByteIs
  <1>3. ASSUME NEW m \in InitialLengths(t) PROVE m \in 1 .. 1
    <2>1. m \in 1 .. Min2(4, Len(t)) /\ m <= 1
      BY <1>1 DEF InitialLengths, Initial
    <2> QED
      BY <1>0, <2>1 DEF Min2
  <1>4. 1 \in InitialLengths(t)
    <2>1. 1 \in 1 .. Min2(4, Len(t))
      BY <1>0 DEF Min2
    <2>2. \A p \in 1 .. 1 : p = 1
      OBVIOUS
    <2>3. Initial(t, 1)
      BY <1>1, <1>2, <2>2 DEF Initial
    <2> QED
      BY <2>1, <2>3 DEF InitialLengths
  <1>5. InitialLengths(t) = 1 .. 1
    BY <1>3, <1>4
  <1>6. InitialLengths(t) # {} /\ Subpart(t) = 1
    BY <1>5, SubpartIs, 1 \in Nat \ {0}
  <1> QED
    BY <1>1, <1>6 DEF Whole, Incomplete

\* Other bytes begin nothing.
LEMMA NoInitial ==
  ASSUME NEW t \in Strings, Len(t) >= 1, t[1] >= 128, t[1] \notin 194 .. 244
  PROVE  Subpart(t) = 1 /\ ~Whole(t) /\ ~Incomplete(t)
  <1>0. Len(t) \in Nat /\ t[1] \in 0 .. 255
    BY ByteType
  <1>1. ~WellFormedAt(t, 1)
    <2> DEFINE b == t[1]
    <2>2. b \in 0 .. 255 /\ b >= 128
      BY <1>0
    <2> HIDE DEF b
    <2>3. ~(b < 128)
      BY <2>2
    <2>1. ~(t[1] < 128)
      BY <2>3 DEF b
    <2> QED
      BY <1>0, <2>1, FirstByteIs
  <1>2. InitialLengths(t) = {}
    <2> SUFFICES ASSUME NEW m \in InitialLengths(t) PROVE FALSE
      OBVIOUS
    <2>1. m \in 1 .. Min2(4, Len(t)) /\ \A p \in 1 .. m : WellFormedAt(t, p)
      BY DEF InitialLengths, Initial
    <2>2. 1 \in 1 .. m
      BY <1>0, <2>1 DEF Min2
    <2> QED
      BY <1>1, <2>1, <2>2
  <1> QED
    BY <1>2 DEF Subpart, Whole, Incomplete

-----------------------------------------------------------------------------
\* The first bytes of a string.
LEMMA PrefixIs ==
  ASSUME NEW t \in Strings, NEW n \in Nat, Len(t) >= n
  PROVE  LET u == SubSeq(t, 1, n)
         IN  u \in Strings /\ Len(u) = n /\ \A p \in 1 .. n : u[p] = t[p]
  <1> DEFINE u == SubSeq(t, 1, n)
  <1>1. \A p \in 1 .. n : t[p] \in 0 .. 255
    BY ByteType
  <1>2. u \in Seq(0 .. 255) /\ Len(u) = (IF 1 <= n THEN n - 1 + 1 ELSE 0)
        /\ \A p \in 1 .. n - 1 + 1 : u[p] = t[1 + p - 1]
    BY <1>1, SubSeqProperties, 1 \in Int, n \in Int
  <1> HIDE DEF u
  <1>3. Len(u) = n
    BY <1>2
  <1>4. ASSUME NEW p \in 1 .. n PROVE u[p] = t[p]
    <2>1. p \in 1 .. n - 1 + 1 /\ 1 + p - 1 = p
      OBVIOUS
    <2> QED
      BY <1>2, <2>1
  <1> QED
    BY <1>2, <1>3, <1>4 DEF u, Strings

LEMMA Prefix1 ==
  ASSUME NEW t \in Strings, Len(t) >= 1
  PROVE  SubSeq(t, 1, 1) = <<t[1]>>
  <1> DEFINE u == SubSeq(t, 1, 1)
             v == <<t[1]>>
  <1>1. t[1] \in 0 .. 255
    BY ByteType
  <1>2. u \in Strings /\ Len(u) = 1 /\ \A p \in 1 .. 1 : u[p] = t[p]
    BY PrefixIs, 1 \in Nat
  <1>3. v \in Strings /\ Len(v) = 1 /\ v[1] = t[1]
    BY <1>1 DEF Strings
  <1>4. u[1] = t[1]
    BY <1>2
  <1> HIDE DEF u, v
  <1>5. \A p \in 1 .. 1 : p = 1
    OBVIOUS
  <1>6. \A p \in 1 .. Len(u) : u[p] = v[p]
    BY <1>2, <1>3, <1>4, <1>5
  <1>7. u = v
    BY <1>2, <1>3, <1>6, SeqEqual DEF Strings
  <1> QED
    BY <1>7 DEF u, v

LEMMA Prefix2 ==
  ASSUME NEW t \in Strings, Len(t) >= 2
  PROVE  SubSeq(t, 1, 2) = <<t[1], t[2]>>
  <1> DEFINE u == SubSeq(t, 1, 2)
             v == <<t[1], t[2]>>
  <1>1. t[1] \in 0 .. 255 /\ t[2] \in 0 .. 255
    BY ByteType
  <1>2. u \in Strings /\ Len(u) = 2 /\ \A p \in 1 .. 2 : u[p] = t[p]
    BY PrefixIs, 2 \in Nat
  <1>3. v \in Strings /\ Len(v) = 2 /\ v[1] = t[1] /\ v[2] = t[2]
    BY <1>1 DEF Strings
  <1>4. u[1] = t[1] /\ u[2] = t[2]
    BY <1>2
  <1> HIDE DEF u, v
  <1>5. \A p \in 1 .. 2 : p = 1 \/ p = 2
    OBVIOUS
  <1>6. \A p \in 1 .. Len(u) : u[p] = v[p]
    BY <1>2, <1>3, <1>4, <1>5
  <1>7. u = v
    BY <1>2, <1>3, <1>6, SeqEqual DEF Strings
  <1> QED
    BY <1>7 DEF u, v

LEMMA Prefix3 ==
  ASSUME NEW t \in Strings, Len(t) >= 3
  PROVE  SubSeq(t, 1, 3) = <<t[1], t[2], t[3]>>
  <1> DEFINE u == SubSeq(t, 1, 3)
             v == <<t[1], t[2], t[3]>>
  <1>1. t[1] \in 0 .. 255 /\ t[2] \in 0 .. 255 /\ t[3] \in 0 .. 255
    BY ByteType
  <1>2. u \in Strings /\ Len(u) = 3 /\ \A p \in 1 .. 3 : u[p] = t[p]
    BY PrefixIs, 3 \in Nat
  <1>3. v \in Strings /\ Len(v) = 3 /\ v[1] = t[1] /\ v[2] = t[2] /\ v[3] = t[3]
    BY <1>1 DEF Strings
  <1>4. u[1] = t[1] /\ u[2] = t[2] /\ u[3] = t[3]
    BY <1>2
  <1> HIDE DEF u, v
  <1>5. \A p \in 1 .. 3 : p = 1 \/ p = 2 \/ p = 3
    OBVIOUS
  <1>6. \A p \in 1 .. Len(u) : u[p] = v[p]
    BY <1>2, <1>3, <1>4, <1>5
  <1>7. u = v
    BY <1>2, <1>3, <1>6, SeqEqual DEF Strings
  <1> QED
    BY <1>7 DEF u, v

LEMMA Prefix4 ==
  ASSUME NEW t \in Strings, Len(t) >= 4
  PROVE  SubSeq(t, 1, 4) = <<t[1], t[2], t[3], t[4]>>
  <1> DEFINE u == SubSeq(t, 1, 4)
             v == <<t[1], t[2], t[3], t[4]>>
  <1>1. t[1] \in 0 .. 255 /\ t[2] \in 0 .. 255 /\ t[3] \in 0 .. 255 /\ t[4] \in 0 .. 255
    BY ByteType
  <1>2. u \in Strings /\ Len(u) = 4 /\ \A p \in 1 .. 4 : u[p] = t[p]
    BY PrefixIs, 4 \in Nat
  <1>3. v \in Strings /\ Len(v) = 4 /\ v[1] = t[1] /\ v[2] = t[2] /\ v[3] = t[3] /\ v[4] = t[4]
    BY <1>1 DEF Strings
  <1>4. u[1] = t[1] /\ u[2] = t[2] /\ u[3] = t[3] /\ u[4] = t[4]
    BY <1>2
  <1> HIDE DEF u, v
  <1>5. \A p \in 1 .. 4 : p = 1 \/ p = 2 \/ p = 3 \/ p = 4
    OBVIOUS
  <1>6. \A p \in 1 .. Len(u) : u[p] = v[p]
    BY <1>2, <1>3, <1>4, <1>5
  <1>7. u = v
    BY <1>2, <1>3, <1>6, SeqEqual DEF Strings
  <1> QED
    BY <1>7 DEF u, v

\* The bytes of a string from an index on.
LEMMA SuffixIs ==
  ASSUME NEW s \in Strings, NEW i \in 1 .. Len(s)
  PROVE  LET t == SubSeq(s, i, Len(s))
         IN  t \in Strings /\ Len(t) = Len(s) - i + 1 /\ \A p \in 1 .. Len(t) : t[p] = s[i + p - 1]
  <1> DEFINE t == SubSeq(s, i, Len(s))
             l == Len(s)
  <1>0. l \in Nat /\ \A p \in 1 .. l : s[p] \in 0 .. 255
    BY ByteType
  <1>1. \A p \in i .. l : s[p] \in 0 .. 255
    BY <1>0
  <1>2. /\ t \in Seq(0 .. 255) /\ Len(t) = (IF i <= l THEN l - i + 1 ELSE 0)
        /\ \A p \in 1 .. l - i + 1 : t[p] = s[i + p - 1]
    BY <1>0, <1>1, SubSeqProperties, i \in Int, l \in Int
  <1> HIDE DEF t
  <1>3. Len(t) = l - i + 1
    BY <1>0, <1>2
  <1> QED
    BY <1>2, <1>3 DEF t, Strings

\* Decoding at an index is decoding the suffix there.
LEMMA FollowSuffix ==
  ASSUME NEW s \in Strings, NEW i \in 1 .. Len(s), NEW t \in Strings, Len(t) = Len(s) - i + 1,
         \A p \in 1 .. Len(t) : t[p] = s[i + p - 1],
         NEW need \in 1 .. 3, NEW lo, NEW hi, NEW n, Follow(need, lo, hi, s, i + 1, n)
  PROVE  Follow(need, lo, hi, t, 2, n)
  <1>0. Len(s) \in Nat /\ Len(t) \in Nat /\ n \in 0 .. need
    BY ByteType DEF Follow
  <1>1. ASSUME NEW p \in 0 .. 3
        PROVE  /\ 2 + p <= Len(t) <=> (i + 1) + p <= Len(s)
               /\ 2 + p <= Len(t) => t[2 + p] = s[(i + 1) + p]
    <2>1. 2 + p <= Len(t) <=> (i + 1) + p <= Len(s)
      BY <1>0
    <2>2. 2 + p <= Len(t) => 2 + p \in 1 .. Len(t) /\ i + (2 + p) - 1 = (i + 1) + p
      BY <1>0
    <2> QED
      BY <2>1, <2>2
  <1>2. ASSUME NEW p \in 0 .. n - 1 PROVE 2 + p <= Len(t) /\ t[2 + p] \in Allowed(p, lo, hi)
    <2>1. p \in 0 .. 3
      BY <1>0
    <2>2. (i + 1) + p <= Len(s) /\ s[(i + 1) + p] \in Allowed(p, lo, hi)
      BY DEF Follow
    <2> QED
      BY <1>1, <2>1, <2>2
  <1>3. n = need \/ 2 + n > Len(t) \/ t[2 + n] \notin Allowed(n, lo, hi)
    <2>1. n \in 0 .. 3
      BY <1>0
    <2>2. n = need \/ (i + 1) + n > Len(s) \/ s[(i + 1) + n] \notin Allowed(n, lo, hi)
      BY DEF Follow
    <2>3. (i + 1) + n > Len(s) => 2 + n > Len(t)
      BY <1>0
    <2>4. 2 + n > Len(t) \/ 2 + n <= Len(t)
      BY <1>0
    <2> QED
      BY <1>1, <2>1, <2>2, <2>3, <2>4
  <1> QED
    BY <1>0, <1>2, <1>3 DEF Follow

LEMMA BitsSuffix ==
  ASSUME NEW s \in Strings, NEW i \in 1 .. Len(s), NEW t \in Strings, Len(t) = Len(s) - i + 1,
         \A p \in 1 .. Len(t) : t[p] = s[i + p - 1],
         NEW codepoint, NEW n \in 1 .. 3, n + 1 <= Len(t)
  PROVE  Bits(codepoint, s, i + 1, n) = Bits(codepoint, t, 2, n)
  <1>0. Len(s) \in Nat /\ Len(t) \in Nat /\ i \in Nat
    BY ByteType
  <1>1. ASSUME NEW p \in 2 .. 4, p <= n + 1
        PROVE  t[p] = s[i + p - 1]
    BY <1>0, <1>1
  <1>2. /\ t[2] = s[i + 1]
        /\ n >= 2 => t[3] = s[(i + 1) + 1]
        /\ n >= 3 => t[4] = s[(i + 1) + 2]
    <2>1. i + 2 - 1 = i + 1 /\ i + 3 - 1 = (i + 1) + 1 /\ i + 4 - 1 = (i + 1) + 2
      BY <1>0
    <2>2. t[2] = s[i + 2 - 1]
      BY <1>1
    <2>3. n >= 2 => t[3] = s[i + 3 - 1]
      BY <1>1
    <2>4. n >= 3 => t[4] = s[i + 4 - 1]
      BY <1>1
    <2> QED
      BY <2>1, <2>2, <2>3, <2>4
  <1>3. i + 1 \in Nat /\ 2 \in Nat /\ n \in 0 .. 3 /\ 2 + 1 = 3 /\ 2 + 2 = 4
    BY <1>0
  <1>4. CASE n = 1
    BY <1>2, <1>3, <1>4, BitsAre
  <1>5. CASE n = 2
    BY <1>2, <1>3, <1>5, BitsAre
  <1>6. CASE n = 3
    BY <1>2, <1>3, <1>6, BitsAre
  <1> QED
    BY <1>4, <1>5, <1>6

\* The code point of a character, encoded, is the character.
LEMMA CharacterIs ==
  ASSUME NEW t \in Strings, Len(t) >= 1, t[1] \in 194 .. 244,
         LET need == LeadNeed(t[1])
         IN  Follow(need, LeadLower(t[1]), LeadUpper(t[1]), t, 2, need)
  PROVE  LET need == LeadNeed(t[1])
             cp == Bits(LeadBits(t[1]), t, 2, need)
         IN  cp <= NJS_UNICODE_MAX_CODEPOINT /\ utf8_encode(cp) = SubSeq(t, 1, need + 1)
  <1> DEFINE b1 == t[1]
             b2 == t[2]
             b3 == t[3]
             b4 == t[4]
             need == LeadNeed(b1)
             cp == Bits(LeadBits(b1), t, 2, need)
  <1>0. Len(t) \in Nat /\ b1 \in 194 .. 244
    BY ByteType
  <1> HIDE DEF b1, b2, b3, b4
  <1>1. \/ b1 \in 194 .. 223 /\ need = 1 /\ LeadBits(b1) = b1 % 32
        \/ b1 \in 224 .. 239 /\ need = 2 /\ LeadBits(b1) = b1 % 16
        \/ b1 \in 240 .. 244 /\ need = 3 /\ LeadBits(b1) = b1 % 8
    <2>1. b1 \in 194 .. 223 => need = 1 /\ LeadBits(b1) = b1 % 32
      BY DEF LeadNeed, LeadBits
    <2>2. b1 \in 224 .. 239 => need = 2 /\ LeadBits(b1) = b1 % 16
      BY DEF LeadNeed, LeadBits
    <2>3. b1 \in 240 .. 244 => need = 3 /\ LeadBits(b1) = b1 % 8
      BY DEF LeadNeed, LeadBits
    <2>4. b1 \in 194 .. 223 \/ b1 \in 224 .. 239 \/ b1 \in 240 .. 244
      BY <1>0
    <2>5. CASE b1 \in 194 .. 223
      BY <2>1, <2>5
    <2>6. CASE b1 \in 224 .. 239
      BY <2>2, <2>6
    <2>7. CASE b1 \in 240 .. 244
      BY <2>3, <2>7
    <2> QED
      BY <2>4, <2>5, <2>6, <2>7
  <1> HIDE DEF need
  <1>2. \A p \in 0 .. need - 1 : 2 + p <= Len(t) /\ t[2 + p] \in Allowed(p, LeadLower(b1), LeadUpper(b1))
    BY DEF Follow, need, b1
  <1>3. need >= 1 => 2 <= Len(t) /\ b2 \in LeadLower(b1) .. LeadUpper(b1)
    <2>1. need >= 1 => 0 \in 0 .. need - 1
      BY <1>1
    <2>2. 2 + 0 = 2 /\ Allowed(0, LeadLower(b1), LeadUpper(b1)) = LeadLower(b1) .. LeadUpper(b1)
      BY DEF Allowed
    <2>3. need >= 1 => 2 + 0 <= Len(t) /\ t[2 + 0] \in Allowed(0, LeadLower(b1), LeadUpper(b1))
      BY <1>2, <2>1
    <2> QED
      BY <2>2, <2>3, ZenonT(40) DEF b2
  <1>4. need >= 2 => 3 <= Len(t) /\ b3 \in 128 .. 191
    <2>1. need >= 2 => 1 \in 0 .. need - 1
      BY <1>1
    <2> QED
      BY <1>2, <2>1 DEF Allowed, b3
  <1>5. need >= 3 => 4 <= Len(t) /\ b4 \in 128 .. 191
    <2>1. need >= 3 => 2 \in 0 .. need - 1
      BY <1>1
    <2> QED
      BY <1>2, <2>1 DEF Allowed, b4
  <1>6. /\ b1 = 224 => LeadLower(b1) = 160 /\ LeadUpper(b1) = 191
        /\ b1 = 237 => LeadLower(b1) = 128 /\ LeadUpper(b1) = 159
        /\ b1 = 240 => LeadLower(b1) = 144 /\ LeadUpper(b1) = 191
        /\ b1 = 244 => LeadLower(b1) = 128 /\ LeadUpper(b1) = 143
    BY <1>0, LeadByteIs
  <1>7. b1 # 224 /\ b1 # 237 /\ b1 # 240 /\ b1 # 244 => LeadLower(b1) = 128 /\ LeadUpper(b1) = 191
    BY OtherLead
  <1>8. need >= 1 => /\ b2 \in 128 .. 191
                     /\ b1 = 224 => b2 >= 160
                     /\ b1 = 240 => b2 >= 144
                     /\ b1 = 244 => b2 < 144
    <2> SUFFICES ASSUME need >= 1
                 PROVE  /\ b2 \in 128 .. 191
                        /\ b1 = 224 => b2 >= 160
                        /\ b1 = 240 => b2 >= 144
                        /\ b1 = 244 => b2 < 144
      OBVIOUS
    <2>0. b2 \in LeadLower(b1) .. LeadUpper(b1)
      BY <1>3
    <2>1. CASE b1 = 224
      BY <1>6, <2>0, <2>1
    <2>2. CASE b1 = 237
      BY <1>6, <2>0, <2>2
    <2>3. CASE b1 = 240
      BY <1>6, <2>0, <2>3
    <2>4. CASE b1 = 244
      BY <1>6, <2>0, <2>4
    <2>5. CASE b1 # 224 /\ b1 # 237 /\ b1 # 240 /\ b1 # 244
      BY <1>7, <2>0, <2>5
    <2> QED
      BY <2>1, <2>2, <2>3, <2>4, <2>5
  <1>9. CASE b1 \in 194 .. 223 /\ need = 1 /\ LeadBits(b1) = b1 % 32
    <2>1. cp = AddBits(b1 % 32, b2)
      BY <1>9, BitsAre, 2 \in Nat, 1 \in 0 .. 3 DEF b2
    <2>2. SubSeq(t, 1, need + 1) = <<b1, b2>>
      BY <1>3, <1>9, Prefix2 DEF b1, b2
    <2>3. b2 \in 128 .. 191
      BY <1>8, <1>9
    <2> HIDE DEF cp
    <2>4. cp <= NJS_UNICODE_MAX_CODEPOINT /\ utf8_encode(cp) = <<b1, b2>>
      BY <1>9, <2>1, <2>3, RoundTrip2
    <2> QED
      BY <2>2, <2>4, Zenon DEF cp, need, b1
  <1>10. CASE b1 \in 224 .. 239 /\ need = 2 /\ LeadBits(b1) = b1 % 16
    <2>1. cp = AddBits(AddBits(b1 % 16, b2), b3)
      BY <1>10, BitsAre, 2 \in Nat, 2 \in 0 .. 3 DEF b2, b3
    <2>2. SubSeq(t, 1, need + 1) = <<b1, b2, b3>>
      BY <1>4, <1>10, Prefix3 DEF b1, b2, b3
    <2>3. b2 \in 128 .. 191 /\ b3 \in 128 .. 191 /\ (b1 = 224 => b2 >= 160)
      <3>1. need >= 1 /\ need >= 2
        BY <1>10
      <3> QED
        BY <1>4, <1>8, <3>1, ZenonT(40)
    <2> HIDE DEF cp
    <2>4. cp <= NJS_UNICODE_MAX_CODEPOINT /\ utf8_encode(cp) = <<b1, b2, b3>>
      <3>1. b1 \in 224 .. 239
        BY <1>10
      <3> DEFINE e == AddBits(AddBits(b1 % 16, b2), b3)
      <3>2. e <= NJS_UNICODE_MAX_CODEPOINT /\ utf8_encode(e) = <<b1, b2, b3>>
        BY <2>3, <3>1, RoundTrip3, ZenonT(40)
      <3> HIDE DEF e
      <3> QED
        BY <2>1, <3>2 DEF e
    <2> QED
      BY <2>2, <2>4, Zenon DEF cp, need, b1
  <1>11. CASE b1 \in 240 .. 244 /\ need = 3 /\ LeadBits(b1) = b1 % 8
    <2>1. cp = AddBits(AddBits(AddBits(b1 % 8, b2), b3), b4)
      BY <1>11, BitsAre, 2 \in Nat, 3 \in 0 .. 3 DEF b2, b3, b4
    <2>2. SubSeq(t, 1, need + 1) = <<b1, b2, b3, b4>>
      BY <1>5, <1>11, Prefix4 DEF b1, b2, b3, b4
    <2>3. /\ b2 \in 128 .. 191 /\ b3 \in 128 .. 191 /\ b4 \in 128 .. 191
          /\ b1 = 240 => b2 >= 144
          /\ b1 = 244 => b2 < 144
      BY <1>4, <1>5, <1>8, <1>11
    <2> HIDE DEF cp
    <2>4. cp <= NJS_UNICODE_MAX_CODEPOINT /\ utf8_encode(cp) = <<b1, b2, b3, b4>>
      <3>1. b1 \in 240 .. 244
        BY <1>11
      <3> DEFINE e == AddBits(AddBits(AddBits(b1 % 8, b2), b3), b4)
      <3>2. e <= NJS_UNICODE_MAX_CODEPOINT /\ utf8_encode(e) = <<b1, b2, b3, b4>>
        BY <2>3, <3>1, RoundTrip4, ZenonT(40)
      <3> HIDE DEF e
      <3> QED
        BY <2>1, <3>2 DEF e
    <2> QED
      BY <2>2, <2>4, Zenon DEF cp, need, b1
  <1> QED
    BY <1>1, <1>9, <1>10, <1>11

\* Between two characters, one call of njs_utf8_decode does what the reference does: it takes
\* exactly the character, or the maximal subpart of one, that stands there; the code point of
\* a character encodes to those bytes again, what may become one is kept back, anything else
\* is one error, and the context is ready for the next character.
THEOREM StepsAsReference ==
  ASSUME NEW ctx \in Contexts, Rested(ctx), NEW s \in Strings, NEW i \in 1 .. Len(s)
  PROVE  LET d == utf8_decode(ctx, s, i)
             t == SubSeq(s, i, Len(s))
         IN  /\ d.next = i + Subpart(t)
             /\ Whole(t) => /\ d.cp <= NJS_UNICODE_MAX_CODEPOINT /\ Rested(d.ctx)
                            /\ utf8_encode(d.cp) = SubSeq(t, 1, Subpart(t))
             /\ Incomplete(t) => d.cp = NJS_UNICODE_CONTINUE /\ d.ctx.need # 0
             /\ ~Whole(t) /\ ~Incomplete(t) => d.cp = NJS_UNICODE_ERROR /\ Rested(d.ctx)
  <1> DEFINE d == utf8_decode(ctx, s, i)
             t == SubSeq(s, i, Len(s))
             ch == s[i]
  <1>0. /\ Len(s) \in Nat /\ Len(t) \in Nat /\ ch \in 0 .. 255 /\ i \in Nat
        /\ t \in Strings /\ Len(t) = Len(s) - i + 1 /\ \A p \in 1 .. Len(t) : t[p] = s[i + p - 1]
    BY ByteType, SuffixIs
  <1> HIDE DEF d, t
  <1>1. Len(t) >= 1 /\ t[1] = ch
    <2>1. 1 \in 1 .. Len(t) /\ i + 1 - 1 = i
      BY <1>0
    <2> QED
      BY <1>0, <2>1
  <1>2. ctx.need = 0
    BY DEF Rested
  <1>3. CASE ch < 128
    <2>1. d = [cp |-> ch, ctx |-> ctx, next |-> i + 1]
      BY <1>2, <1>3, DecodeIs DEF d
    <2>2. d.cp = ch /\ d.ctx = ctx /\ d.next = i + 1
      BY <2>1
    <2>3. Subpart(t) = 1 /\ Whole(t) /\ ~Incomplete(t)
      BY <1>0, <1>1, <1>3, AsciiInitial
    <2>4. SubSeq(t, 1, 1) = <<ch>>
      BY <1>0, <1>1, Prefix1
    <2> HIDE DEF ch
    <2>5. ch \in Nat /\ utf8_size(ch) = 1
      BY <1>0, <1>3 DEF utf8_size
    <2>6. utf8_encode(ch) = <<ch>>
      BY <2>5, Encode1
    <2>7. ch <= NJS_UNICODE_MAX_CODEPOINT
      BY <1>0, SMT DEF NJS_UNICODE_MAX_CODEPOINT
    <2> QED
      BY <2>2, <2>3, <2>4, <2>6, <2>7 DEF d, t
  <1>4. CASE ch >= 128 /\ ch \notin 194 .. 244
    <2>1. d = [cp |-> NJS_UNICODE_ERROR, ctx |-> ctx, next |-> i + 1]
      BY <1>2, <1>4, DecodeIs, ZenonT(40) DEF d
    <2>2. d.cp = NJS_UNICODE_ERROR /\ d.ctx = ctx /\ d.next = i + 1
      BY <2>1
    <2>3. Subpart(t) = 1 /\ ~Whole(t) /\ ~Incomplete(t)
      <3> HIDE DEF ch
      <3>1. t[1] >= 128 /\ t[1] \notin 194 .. 244
        BY <1>1, <1>4
      <3>2. t \in Strings /\ Len(t) >= 1
        BY <1>0, <1>1
      <3> QED
        BY <3>1, <3>2, NoInitial, Zenon
    <2> QED
      BY <2>2, <2>3 DEF d, t
  <1>5. CASE ch \in 194 .. 244
    <2> DEFINE need == LeadNeed(ch)
               bits == LeadBits(ch)
               lo == LeadLower(ch)
               hi == LeadUpper(ch)
               j == i + 1
    <2>1. d = Lead(ctx, ch, need, bits, s, j)
      BY <1>2, <1>5, DecodeIs DEF d
    <2> HIDE DEF ch
    <2>2. need \in 1 .. 3 /\ bits \in Nat
      BY <1>5, LeadType
    <2> HIDE DEF need, bits, lo, hi, j
    <2>3. j \in 1 .. Len(s) + 1 /\ j = i + 1 /\ need \in 0 .. 3
      BY <1>0, <2>2 DEF j
    <2>4. PICK n : Follow(need, lo, hi, s, j, n)
      BY <2>3, FollowExists
    <2>5. /\ Outcome(d, bits, need, s, j, n)
          /\ j <= Len(s) => d.ctx.lower = 0
      BY <2>1, <2>2, <2>3, <2>4, LeadIs DEF lo, hi
    <2>6. Follow(need, lo, hi, t, 2, n)
      BY <1>0, <2>2, <2>4, FollowSuffix DEF j
    <2>7. /\ Subpart(t) = n + 1
          /\ Whole(t) <=> n = need
          /\ Incomplete(t) <=> n < need /\ 2 + n > Len(t)
      BY <1>0, <1>1, <1>5, <2>6, LeadInitial DEF need, lo, hi
    <2>8. n \in 0 .. need
      BY <2>4 DEF Follow
    <2>9. d.next = i + Subpart(t)
      <3>1. j + n = i + (n + 1)
        BY <1>0, <2>2, <2>3, <2>8
      <3> QED
        BY <2>5, <2>7, <3>1 DEF Outcome
    <2>10. ASSUME Whole(t)
           PROVE  /\ d.cp <= NJS_UNICODE_MAX_CODEPOINT /\ Rested(d.ctx)
                  /\ utf8_encode(d.cp) = SubSeq(t, 1, Subpart(t))
      <3>1. n = need
        BY <2>7, <2>10
      <3>2. d.cp = Bits(bits, s, j, need) /\ d.ctx.need = 0
        BY <2>5, <3>1 DEF Outcome
      <3>3. need - 1 \in 0 .. need - 1 /\ 2 + (need - 1) = need + 1 /\ need - 1 \in 0 .. n - 1
        BY <2>2, <3>1
      <3>4. need + 1 <= Len(t)
        BY <2>6, <3>3 DEF Follow
      <3>5. j <= Len(s)
        BY <1>0, <2>2, <2>3, <3>4
      <3>6. d.cp = Bits(bits, t, 2, need)
        BY <1>0, <2>2, <3>2, <3>4, BitsSuffix DEF j
      <3>7. Follow(need, lo, hi, t, 2, need)
        BY <2>6, <3>1
      <3>8. /\ Bits(bits, t, 2, need) <= NJS_UNICODE_MAX_CODEPOINT
            /\ utf8_encode(Bits(bits, t, 2, need)) = SubSeq(t, 1, need + 1)
        BY <1>0, <1>1, <1>5, <3>7, CharacterIs DEF need, bits, lo, hi
      <3> QED
        BY <2>5, <2>7, <3>1, <3>2, <3>5, <3>6, <3>8 DEF Rested
    <2>11. ASSUME Incomplete(t)
           PROVE  d.cp = NJS_UNICODE_CONTINUE /\ d.ctx.need # 0
      <3>1. n < need /\ 2 + n > Len(t)
        BY <2>7, <2>11
      <3>2. j + n > Len(s) /\ need - n # 0
        BY <1>0, <2>2, <2>3, <2>8, <3>1
      <3> QED
        BY <2>5, <3>1, <3>2 DEF Outcome
    <2>12. ASSUME ~Whole(t), ~Incomplete(t)
           PROVE  d.cp = NJS_UNICODE_ERROR /\ Rested(d.ctx)
      <3>1. n < need /\ 2 + n <= Len(t)
        BY <1>0, <2>2, <2>7, <2>8, <2>12
      <3>2. j + n <= Len(s) /\ j <= Len(s)
        BY <1>0, <2>2, <2>3, <2>8, <3>1
      <3> QED
        BY <2>5, <3>1, <3>2 DEF Outcome, Rested
    <2> QED
      BY <2>9, <2>10, <2>11, <2>12 DEF d, t
  <1>6. ch < 128 \/ (ch >= 128 /\ ch \notin 194 .. 244) \/ ch \in 194 .. 244
    <2> HIDE DEF ch
    <2> QED
      BY <1>0
  <1> QED
    BY <1>3, <1>4, <1>5, <1>6
=============================================================================
