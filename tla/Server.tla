------------------------------- MODULE Server -------------------------------
(***************************************************************************)
(* The life of the whole server process (main of main.c): main creates one  *)
(* thread per socket, waits on a wait group (wait_group.c) until all have   *)
(* reported, prints READY, joins the threads and destroys their states.     *)
(* What a thread does with its client is the subject of CommandThread; here *)
(* it accepts, serves, has a background thread running or not, and exits.   *)
(***************************************************************************)
EXTENDS Sockets, FiniteSets

CONSTANTS
    InitMayFail,   \* may init_thread_state, pthread_create or the wait in main fail?
    AnyThread,     \* may the kernel run the signal handler on any thread, or on main only?
    MaxBg          \* bound: background threads that one socket starts

ASSUME FlagsAssumption == InitMayFail \in BOOLEAN /\ AnyThread \in BOOLEAN
ASSUME MaxBgAssumption == MaxBg \in Nat

VARIABLES
    tpc,           \* program counter of each listen thread
    exit_status,   \* of each ThreadState
    bg,            \* is a background thread of the socket running?
    bgs,           \* how many were started
    interrupted,   \* g_interrupted_or_error
    sig,           \* g_sig_triggered
    n_remaining, mutex, signalled,   \* the WaitGroup; signalled: cond has woken main
    mpc,           \* program counter of main
    k,             \* main's loop variable
    ready,         \* has READY been printed?
    destroyed,     \* indices for which destroy_thread_state has run
    result         \* what main returns

threadVars == <<tpc, exit_status, bg, bgs, interrupted, sig>>
wgVars == <<n_remaining, mutex, signalled>>
mainVars == <<mpc, k, ready, destroyed, result>>
vars == <<threadVars, wgVars, mainVars>>

Init ==
    /\ tpc = [t \in Threads |-> "none"]
    /\ exit_status = [t \in Threads |-> 0]
    /\ bg = [t \in Threads |-> FALSE] /\ bgs = [t \in Threads |-> 0]
    /\ interrupted = FALSE /\ sig = "none"
    /\ n_remaining = NThreads /\ mutex = "free" /\ signalled = FALSE
    /\ mpc = "create" /\ k = 0 /\ ready = FALSE /\ destroyed = {} /\ result = "none"

\* Where a thread is; the process, and all its threads, end with main.
At(t, labels) == mpc # "done" /\ tpc[t] \in labels

Goto(t, label) == tpc' = [tpc EXCEPT ![t] = label]

-----------------------------------------------------------------------------
(***************************************************************************)
(* wait_group_inc, called once by every listen thread                       *)
(***************************************************************************)

\* After the call: a thread without a socket leaves command_loop, the others accept.
AfterInc(t) == IF exit_status[t] # 0 THEN "leaving" ELSE "accepting"

\* The atomic fetch-and-add; only the thread that gets to zero signals.
Increment(t) ==
    /\ At(t, {"inc"})
    /\ n_remaining' = n_remaining - 1
    /\ Goto(t, IF n_remaining = 1 THEN "wg_lock" ELSE AfterInc(t))
    /\ UNCHANGED <<exit_status, bg, bgs, interrupted, sig, mutex, signalled, mainVars>>

\* Mutant: the signal is sent without taking the mutex.
WgLockMissing(t) ==
    /\ At(t, {"wg_lock"})
    /\ Goto(t, "wg_signal")
    /\ UNCHANGED <<exit_status, bg, bgs, interrupted, sig, wgVars, mainVars>>

WgLock(t) ==
    /\ At(t, {"wg_lock"}) /\ mutex = "free"
    /\ mutex' = "thread"
    /\ Goto(t, "wg_signal")
    /\ UNCHANGED <<exit_status, bg, bgs, interrupted, sig, n_remaining, signalled, mainVars>>

\* pthread_cond_signal does nothing unless main is waiting; then the unlock.
WgSignal(t) ==
    /\ At(t, {"wg_signal"})
    /\ signalled' = (signalled \/ mpc = "waiting")
    /\ mutex' = IF mutex = "thread" THEN "free" ELSE mutex
    /\ Goto(t, AfterInc(t))
    /\ UNCHANGED <<exit_status, bg, bgs, interrupted, sig, n_remaining, mainVars>>

-----------------------------------------------------------------------------
(***************************************************************************)
(* command_loop, as far as the other threads can tell                       *)
(***************************************************************************)

Listen(t) ==
    /\ At(t, {"listen"})
    /\ Goto(t, "inc")
    /\ UNCHANGED <<exit_status, bg, bgs, interrupted, sig, wgVars, mainVars>>

\* initialize_and_listen_on_unix_socket fails: the thread reports all the same.
ListenFails(t) ==
    /\ At(t, {"listen"})
    /\ exit_status' = [exit_status EXCEPT ![t] = -1]
    /\ Goto(t, "inc")
    /\ UNCHANGED <<bg, bgs, interrupted, sig, wgVars, mainVars>>

\* A client connects; accept blocks for one if poll_fd said READY without one.
Accept(t) ==
    /\ At(t, {"accepting", "accept_blocked"})
    /\ Goto(t, "serving")
    /\ UNCHANGED <<exit_status, bg, bgs, interrupted, sig, wgVars, mainVars>>

\* accept or clock_gettime fails.
AcceptFails(t) ==
    /\ At(t, {"accepting", "accept_blocked"})
    /\ exit_status' = [exit_status EXCEPT ![t] = -1]
    /\ Goto(t, "leaving")
    /\ UNCHANGED <<bg, bgs, interrupted, sig, wgVars, mainVars>>

\* The client starts to send so fast that every poll finds something to read, and goes
\* on until it pauses for SOCKET_POLL_TIMEOUT_MS.
KeepSending(t) ==
    /\ At(t, {"serving"})
    /\ Goto(t, "busy")
    /\ UNCHANGED <<exit_status, bg, bgs, interrupted, sig, wgVars, mainVars>>

Pause(t) ==
    /\ At(t, {"busy"})
    /\ Goto(t, "serving")
    /\ UNCHANGED <<exit_status, bg, bgs, interrupted, sig, wgVars, mainVars>>

\* Mutant: only the read loop looks at the result SIG_INTERRUPT_OR_ERROR.
NoticeInterruptServing(t) ==
    /\ At(t, {"serving"}) /\ interrupted
    /\ Goto(t, "leaving")
    /\ UNCHANGED <<exit_status, bg, bgs, interrupted, sig, wgVars, mainVars>>

\* poll_fd times out and finds g_interrupted_or_error set; it does not look at the flag
\* when there is something to read.
NoticeInterrupt(t) ==
    /\ At(t, {"accepting", "serving"}) /\ interrupted
    /\ Goto(t, "leaving")
    /\ UNCHANGED <<exit_status, bg, bgs, interrupted, sig, wgVars, mainVars>>

\* The client sends something to a thread whose read is blocking.
ReadReturns(t) ==
    /\ At(t, {"read_blocked"})
    /\ Goto(t, "serving")
    /\ UNCHANGED <<exit_status, bg, bgs, interrupted, sig, wgVars, mainVars>>

\* The client closes the socket or sends ?quit, or a read or a handler fails.
StopServing(t, failed) ==
    /\ At(t, {"serving", "busy", "read_blocked"})
    /\ exit_status' = IF failed THEN [exit_status EXCEPT ![t] = -1] ELSE exit_status
    /\ Goto(t, "leaving")
    /\ UNCHANGED <<bg, bgs, interrupted, sig, wgVars, mainVars>>

\* The label error_no_inc of command_loop.
Leave(t) ==
    /\ At(t, {"leaving"})
    /\ interrupted' = TRUE
    /\ Goto(t, "exited")
    /\ UNCHANGED <<exit_status, bg, bgs, sig, wgVars, mainVars>>

\* The client is gone and the thread writes to its socket: nothing ignores SIGPIPE.
BrokenPipe(t) ==
    /\ At(t, {"serving", "busy"})
    /\ result' = "killed"
    /\ mpc' = "done"
    /\ UNCHANGED <<threadVars, wgVars, k, ready, destroyed>>

\* The background threads of a memory reset.
StartBg(t) ==
    /\ At(t, {"serving", "busy"}) /\ ~bg[t] /\ bgs[t] < MaxBg
    /\ bg' = [bg EXCEPT ![t] = TRUE]
    /\ bgs' = [bgs EXCEPT ![t] = @ + 1]
    /\ UNCHANGED <<tpc, exit_status, interrupted, sig, wgVars, mainVars>>

EndBg(t) ==
    /\ bg[t] /\ mpc # "done"
    /\ bg' = [bg EXCEPT ![t] = FALSE]
    /\ UNCHANGED <<tpc, exit_status, bgs, interrupted, sig, wgVars, mainVars>>

\* reset_thread_state_thread cannot initialize the replacement.
BgFails(t) ==
    /\ bg[t] /\ mpc # "done" /\ InitMayFail
    /\ bg' = [bg EXCEPT ![t] = FALSE]
    /\ interrupted' = TRUE
    /\ exit_status' = [exit_status EXCEPT ![t] = 1]
    /\ UNCHANGED <<tpc, bgs, sig, wgVars, mainVars>>

-----------------------------------------------------------------------------
(***************************************************************************)
(* SIGINT_and_SIGTERM_handler; the first signal counts.  A poll that it     *)
(* interrupts returns -1, which poll_fd takes for READY.                    *)
(***************************************************************************)

Signal(s) ==
    /\ sig = "none" /\ result = "none"
    /\ sig' = s
    /\ interrupted' = TRUE
    /\ UNCHANGED <<exit_status, bg, bgs, wgVars, mainVars>>

SignalMain(s) == Signal(s) /\ UNCHANGED tpc

SignalThread(s, t) ==
    /\ AnyThread /\ tpc[t] \in {"accepting", "serving"}
    /\ Signal(s)
    /\ Goto(t, IF tpc[t] = "accepting" THEN "accept_blocked" ELSE "read_blocked")

-----------------------------------------------------------------------------
(***************************************************************************)
(* main                                                                     *)
(***************************************************************************)

CreateThread ==
    /\ mpc = "create" /\ k < NThreads
    /\ Goto(k, "listen")
    /\ k' = k + 1
    /\ UNCHANGED <<exit_status, bg, bgs, interrupted, sig, wgVars, mpc, ready, destroyed, result>>

\* init_thread_state, a pthread_attr call or pthread_create fails.
CreateFails ==
    /\ mpc = "create" /\ k < NThreads /\ InitMayFail
    /\ mpc' = "init_error"
    /\ UNCHANGED <<threadVars, wgVars, k, ready, destroyed, result>>

\* wait_group_timed_wait takes the mutex, at first and whenever the wait returns.
TakeMutex ==
    /\ \/ mpc = "create" /\ k = NThreads
       \/ mpc = "waiting" /\ signalled
    /\ mutex = "free"
    /\ mutex' = "main"
    /\ signalled' = FALSE
    /\ mpc' = "locked"
    /\ UNCHANGED <<threadVars, n_remaining, k, ready, destroyed, result>>

\* pthread_cond_timedwait returns 0 although nobody signalled.
SpuriousWakeup ==
    /\ mpc = "waiting" /\ ~signalled
    /\ signalled' = TRUE
    /\ UNCHANGED <<threadVars, n_remaining, mutex, mainVars>>

\* Mutant: the wait is not repeated in a loop.
TestRemainingOnce ==
    /\ mpc = "locked"
    /\ \/ mpc' = "about_to_wait" /\ n_remaining > 0 /\ UNCHANGED mutex
       \/ mpc' = "report_ready" /\ mutex' = "free"
    /\ UNCHANGED <<threadVars, n_remaining, signalled, k, ready, destroyed, result>>

\* The test before the wait and the loop around it.
TestRemaining ==
    /\ mpc = "locked"
    /\ IF n_remaining > 0
       THEN mpc' = "about_to_wait" /\ UNCHANGED mutex
       ELSE mpc' = "report_ready" /\ mutex' = "free"
    /\ UNCHANGED <<threadVars, n_remaining, signalled, k, ready, destroyed, result>>

\* pthread_cond_timedwait releases the mutex and waits.
CondWait ==
    /\ mpc = "about_to_wait"
    /\ mpc' = "waiting"
    /\ mutex' = "free"
    /\ UNCHANGED <<threadVars, n_remaining, signalled, k, ready, destroyed, result>>

\* The 10 seconds are over, whether or not the last thread has just reported.
WaitTimesOut ==
    /\ mpc = "waiting" /\ mutex = "free" /\ InitMayFail
    /\ mpc' = "init_error"
    /\ UNCHANGED <<threadVars, wgVars, k, ready, destroyed, result>>

PrintReady ==
    /\ mpc = "report_ready"
    /\ ready' = TRUE
    /\ mpc' = "join" /\ k' = 0
    /\ UNCHANGED <<threadVars, wgVars, destroyed, result>>

\* Mutant: the background thread is not joined.
JoinListenThreadOnly ==
    /\ mpc = "join" /\ k < NThreads
    /\ tpc[k] = "exited"
    /\ k' = k + 1
    /\ UNCHANGED <<threadVars, wgVars, mpc, ready, destroyed, result>>

\* Join the listen thread, then the background thread it may have left behind.
JoinThread ==
    /\ mpc = "join" /\ k < NThreads
    /\ tpc[k] = "exited" /\ ~bg[k]
    /\ k' = k + 1
    /\ UNCHANGED <<threadVars, wgVars, mpc, ready, destroyed, result>>

DestroyAll ==
    /\ mpc = "join" /\ k = NThreads
    /\ destroyed' = Threads
    /\ mpc' = "exit"
    /\ UNCHANGED <<threadVars, wgVars, k, ready, result>>

\* Mutant: only the exit status of the first thread counts.
ReturnFirst ==
    /\ mpc = "exit"
    /\ result' = IF exit_status[0] # 0 \/ sig = "SIGINT" THEN "EXIT_FAILURE" ELSE "EXIT_SUCCESS"
    /\ mpc' = "done"
    /\ UNCHANGED <<threadVars, wgVars, k, ready, destroyed>>

Return ==
    /\ mpc = "exit"
    /\ result' = IF (\E t \in Threads : exit_status[t] # 0) \/ sig \notin {"none", "SIGTERM"}
                 THEN "EXIT_FAILURE" ELSE "EXIT_SUCCESS"
    /\ mpc' = "done"
    /\ UNCHANGED <<threadVars, wgVars, k, ready, destroyed>>

\* The label thread_init_error: nobody is told to stop and nobody is joined.
InitError ==
    /\ mpc = "init_error"
    /\ destroyed' = 0 .. k
    /\ result' = "EXIT_FAILURE"
    /\ mpc' = "done"
    /\ UNCHANGED <<threadVars, wgVars, k, ready>>

-----------------------------------------------------------------------------
Reporting(t) == Listen(t) \/ Increment(t) \/ WgLock(t) \/ WgSignal(t)

Thread(t) == Reporting(t) \/ NoticeInterrupt(t) \/ Leave(t)

\* What a client or a failing system call does to a thread.
Clients(t) ==
    \/ ListenFails(t) \/ Accept(t) \/ AcceptFails(t) \/ KeepSending(t) \/ Pause(t)
    \/ ReadReturns(t) \/ BrokenPipe(t) \/ StartBg(t) \/ BgFails(t)
    \/ \E failed \in BOOLEAN : StopServing(t, failed)

Signals ==
    \E s \in {"SIGINT", "SIGTERM"} : SignalMain(s) \/ \E t \in Threads : SignalThread(s, t)

Main ==
    \/ CreateThread \/ CreateFails \/ TakeMutex \/ TestRemaining \/ CondWait
    \/ PrintReady \/ JoinThread \/ DestroyAll \/ Return \/ InitError

\* main has returned.
Done == mpc = "done" /\ UNCHANGED vars

Next ==
    \/ Signals \/ SpuriousWakeup \/ WaitTimesOut \/ Main
    \/ \E t \in Threads : Thread(t) \/ Clients(t) \/ EndBg(t)
    \/ Done

Spec == Init /\ [][Next]_vars

\* The OS runs main, the threads and their background threads.  No client has to connect,
\* to send or to pause, and startup may not rely on the timeout of the wait.
Fairness ==
    /\ WF_vars(Main)
    /\ \A t \in Threads : WF_vars(Thread(t)) /\ WF_vars(EndBg(t))

FairSpec == Spec /\ Fairness

-----------------------------------------------------------------------------
(***************************************************************************)
(* Properties                                                               *)
(***************************************************************************)

Reported(t) == tpc[t] \notin {"none", "listen", "inc"}

\* READY is printed only when every thread has reported, whatever wakeups
\* wait_group_timed_wait sees.
ReadyMeansReported == ready => \A t \in Threads : Reported(t)

\* Once READY was printed, a ThreadState is destroyed only when neither its thread nor a
\* background thread can still use it: main joins both before destroy_thread_state.
\* (Before READY, thread_init_error joins nobody: see README.)
DestroyedAfterJoin ==
    ready => \A t \in Threads \cap destroyed : tpc[t] = "exited" /\ ~bg[t]

\* A thread that failed is not forgotten in the exit status of the process.
FailureIsReported == result = "EXIT_SUCCESS" => \A t \in Threads : exit_status[t] = 0

\* The wait group loses no wakeup: main gets past it once every thread has been created.
StartupCompletes == (mpc = "create" /\ k = NThreads) ~> (ready \/ mpc = "done")

Blocked(t) == tpc[t] \in {"accept_blocked", "read_blocked"}

\* A signal, a closed socket, ?quit or a failed thread ends the process ("The other threads
\* will notice", main.c), provided that each client pauses for good in the end, as poll_fd
\* looks at the flag only when nothing arrives, and unless the signal interrupted the poll of
\* a listen thread, which then waits for its client.
StopEndsProcess ==
    (\A t \in Threads : <>[](tpc[t] # "busy"))
      => ((interrupted /\ ready) ~> (mpc = "done" \/ \E t \in Threads : Blocked(t)))
=============================================================================
