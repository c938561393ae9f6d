---------------------------- MODULE ElixirClient ----------------------------
(***************************************************************************)
(* The Elixir client: JsServerManager, a GenServer that owns the jsockd     *)
(* process and its sockets, one linked process per socket, callers in       *)
(* send_js, and the supervisor.  Whatever goes wrong is an exception in the *)
(* manager, either directly or because no clause of handle_info matches;    *)
(* then terminate closes the sockets, the linked processes die and the      *)
(* supervisor starts a new manager with a new jsockd.                       *)
(*                                                                         *)
(* The mailbox of the manager is a sequence, as messages are handled in the *)
(* order in which they arrive.                                              *)
(***************************************************************************)
EXTENDS Integers, Sequences

CONSTANTS
    Callers,        \* processes that call send_js, once each
    NThreads,       \* sockets
    max_restarts,   \* of the supervisor, within max_seconds (3 by default)
    MaxFaults       \* bound: crashes of jsockd and failures of socket processes

ASSUME NThreadsAssumption == NThreads \in Nat \ {0}
ASSUME BoundsAssumption == max_restarts \in Nat /\ MaxFaults \in Nat

Threads == 1 .. NThreads
Gens == 1 .. max_restarts + 1

VARIABLES
    app,        \* is the supervisor running
    mgr,        \* "up" or "down"
    gen,        \* the generation of manager and jsockd
    ready,      \* unix_sockets_with_threads # []
    mailbox,    \* of the manager
    thread,     \* thread[i]: "none", "idle", "busy" or "dead"
    inbox,      \* inbox[i]: callers whose commands socket process i has yet to take
    current,    \* current[i]: the caller whose command i is working on
    caller,     \* caller[c]: "new", "calling", "exited", "replied" or "failed"
    jsockd,     \* jsockd[g]: "none", "starting", "serving" or "gone"
    connected,  \* generations whose jsockd had its sockets connected
    faults

mgrVars == <<app, mgr, gen, ready>>
threadVars == <<thread, inbox, current>>
serverVars == <<jsockd, connected>>
vars == <<mgrVars, mailbox, threadVars, caller, serverVars, faults>>

NoThreads == [i \in Threads |-> "none"]
NoInbox == [i \in Threads |-> <<>>]
NoCurrent == [i \in Threads |-> "none"]

\* init: the port is open and jsockd starts.
Init ==
    /\ app = "up" /\ mgr = "up" /\ gen = 1 /\ ready = FALSE /\ mailbox = <<>>
    /\ thread = NoThreads /\ inbox = NoInbox /\ current = NoCurrent
    /\ caller = [c \in Callers |-> "new"]
    /\ jsockd = [g \in Gens |-> IF g = 1 THEN "starting" ELSE "none"]
    /\ connected = {} /\ faults = 0

Msg(kind) == [kind |-> kind]
MsgOf(kind, x) == [kind |-> kind, of |-> x]

\* Messages to a name that is not registered, or from a port that is closed, are lost.
Deliver(msg) == mailbox' = IF mgr = "up" THEN Append(mailbox, msg) ELSE mailbox

-----------------------------------------------------------------------------
(***************************************************************************)
(* send_js                                                                  *)
(***************************************************************************)

Call(c) ==
    /\ caller[c] = "new"
    /\ caller' = [caller EXCEPT ![c] = IF mgr = "up" THEN "calling" ELSE "exited"]
    /\ Deliver(MsgOf("send_command", c))
    /\ UNCHANGED <<mgrVars, threadVars, serverVars, faults>>

\* The GenServer.call gives up; the command stays where it is.
CallTimesOut(c) ==
    /\ caller[c] = "calling"
    /\ caller' = [caller EXCEPT ![c] = "exited"]
    /\ UNCHANGED <<mgrVars, mailbox, threadVars, serverVars, faults>>

\* The catch clause, for every reason of the exit.
SendHup(c) ==
    /\ caller[c] = "exited"
    /\ caller' = [caller EXCEPT ![c] = "failed"]
    /\ Deliver(Msg("hup"))
    /\ UNCHANGED <<mgrVars, threadVars, serverVars, faults>>

-----------------------------------------------------------------------------
(***************************************************************************)
(* The manager                                                              *)
(***************************************************************************)

\* Mutant: terminate leaves the sockets open.
CloseSocketsMissing == UNCHANGED serverVars

\* terminate.  jsockd ends when a socket is closed, and not when only the port is.
CloseSockets ==
    /\ jsockd' = [jsockd EXCEPT ![gen] = IF ready /\ @ = "serving" THEN "closing" ELSE @]
    /\ UNCHANGED connected

\* An exception in a callback: terminate, then the exit reaches the linked processes and
\* the callers, which monitor the manager.
Raise ==
    /\ mgr' = "down" /\ mailbox' = <<>> /\ ready' = FALSE
    /\ CloseSockets
    /\ thread' = NoThreads /\ inbox' = NoInbox /\ current' = NoCurrent
    /\ caller' = [c \in Callers |-> IF caller[c] = "calling" THEN "exited" ELSE caller[c]]
    /\ UNCHANGED <<app, gen, faults>>

\* The supervisor restarts the manager, or gives up.
Restart ==
    /\ app = "up" /\ mgr = "down"
    /\ IF gen <= max_restarts
       THEN /\ mgr' = "up" /\ gen' = gen + 1
            /\ jsockd' = [jsockd EXCEPT ![gen + 1] = "starting"]
            /\ UNCHANGED app
       ELSE app' = "down" /\ UNCHANGED <<mgr, gen, jsockd>>
    /\ UNCHANGED <<ready, mailbox, threadVars, caller, connected, faults>>

NextMessage == Head(mailbox)
Receive(kind) == mgr = "up" /\ mailbox # <<>> /\ NextMessage.kind = kind
Take == mailbox' = Tail(mailbox)

\* READY: connect to each socket and start a process for it, or fail to connect.
HandleReady ==
    /\ Receive("ready")
    /\ IF ready \/ jsockd[gen] # "serving" THEN Raise
       ELSE /\ Take /\ ready' = TRUE
            /\ connected' = connected \cup {gen}
            /\ thread' = [i \in Threads |-> "idle"]
            /\ UNCHANGED <<app, mgr, gen, inbox, current, caller, jsockd, faults>>

\* get_thread takes the first process whose message queue is empty, be it at work or not,
\* and any of them if there is none; process_info of a dead one has no clause.
Searched == {i \in Threads : \A j \in 1 .. i - 1 : thread[j] # "dead" /\ inbox[j] # <<>>}
get_thread ==
    LET free == {i \in Searched : inbox[i] = <<>>}
    IN  IF free = {} THEN Threads ELSE free

HandleSendCommand ==
    /\ Receive("send_command")
    /\ IF ~ready \/ \E i \in Searched : thread[i] = "dead" THEN Raise
       ELSE \E i \in get_thread :
            /\ Take
            /\ inbox' = [inbox EXCEPT ![i] = Append(@, NextMessage.of)]
            /\ UNCHANGED <<mgrVars, thread, current, caller, serverVars, faults>>

\* A late reply finds that its caller has given up.
HandleSendReply ==
    /\ Receive("send_reply") /\ Take
    /\ caller' = [caller EXCEPT ![NextMessage.of] = IF @ = "calling" THEN "replied" ELSE @]
    /\ UNCHANGED <<mgrVars, threadVars, serverVars, faults>>

\* Mutant: a clause that takes any EXIT and only logs it.
HandleExitLogged ==
    Receive("EXIT") /\ Take /\ UNCHANGED <<mgrVars, threadVars, caller, serverVars, faults>>

\* Only the reason :client_down has a clause, and no process exits with it.
HandleExit == Receive("EXIT") /\ Raise

HandleExitStatus == Receive("exit_status") /\ Raise

\* No clause matches :hup.
HandleHup == Receive("hup") /\ Raise

\* The timer of init goes off before READY has arrived.  Later it does nothing.
ReadyTimesOut ==
    /\ mgr = "up" /\ ~ready /\ \A k \in DOMAIN mailbox : mailbox[k].kind # "ready"
    /\ Raise

-----------------------------------------------------------------------------
(***************************************************************************)
(* Socket processes and jsockd                                              *)
(***************************************************************************)

\* The command is written to the socket.
ThreadSends(i) ==
    /\ thread[i] = "idle" /\ inbox[i] # <<>> /\ jsockd[gen] = "serving"
    /\ thread' = [thread EXCEPT ![i] = "busy"]
    /\ current' = [current EXCEPT ![i] = Head(inbox[i])]
    /\ inbox' = [inbox EXCEPT ![i] = Tail(@)]
    /\ UNCHANGED <<mgrVars, mailbox, caller, serverVars, faults>>

\* A record with the uuid of the command arrives, after any messages and their answers.
ThreadReplies(i) ==
    /\ thread[i] = "busy" /\ jsockd[gen] = "serving"
    /\ thread' = [thread EXCEPT ![i] = "idle"]
    /\ current' = [current EXCEPT ![i] = "none"]
    /\ Deliver(MsgOf("send_reply", current[i]))
    /\ UNCHANGED <<mgrVars, inbox, caller, serverVars, faults>>

ThreadDies(i) ==
    /\ thread' = [thread EXCEPT ![i] = "dead"]
    /\ Deliver(MsgOf("EXIT", i))

\* The message handler raises, the command has a null byte, or the record is not JSON.
ThreadFails(i) ==
    /\ thread[i] = "busy" /\ faults < MaxFaults
    /\ faults' = faults + 1
    /\ ThreadDies(i)
    /\ UNCHANGED <<mgrVars, inbox, current, caller, serverVars>>

\* send or recv on the socket of a jsockd that has gone returns an error, which is no match.
ThreadLosesServer(i) ==
    /\ thread[i] = "busy" \/ (thread[i] = "idle" /\ inbox[i] # <<>>)
    /\ jsockd[gen] = "gone"
    /\ ThreadDies(i)
    /\ UNCHANGED <<mgrVars, inbox, current, caller, serverVars, faults>>

\* External: jsockd prints READY when its threads listen.
ServerReady(g) ==
    /\ jsockd[g] = "starting"
    /\ jsockd' = [jsockd EXCEPT ![g] = "serving"]
    /\ IF g = gen THEN Deliver(Msg("ready")) ELSE UNCHANGED mailbox
    /\ UNCHANGED <<mgrVars, threadVars, caller, connected, faults>>

\* External: it exits; the manager that has the port is told.
ServerExits(g) ==
    /\ jsockd[g] \in {"starting", "serving"} /\ faults < MaxFaults
    /\ faults' = faults + 1
    /\ jsockd' = [jsockd EXCEPT ![g] = "gone"]
    /\ IF g = gen THEN Deliver(Msg("exit_status")) ELSE UNCHANGED mailbox
    /\ UNCHANGED <<mgrVars, threadVars, caller, connected>>

\* External: its sockets are all closed, which ends it (CommandThread, CloseEndsServer); no
\* traffic is left that could keep its threads from noticing.
ServerEnds(g) ==
    /\ jsockd[g] = "closing"
    /\ jsockd' = [jsockd EXCEPT ![g] = "gone"]
    /\ UNCHANGED <<mgrVars, mailbox, threadVars, caller, connected, faults>>

ManagerStep ==
    \/ HandleReady \/ HandleSendCommand \/ HandleSendReply \/ HandleExit \/ HandleExitStatus
    \/ HandleHup

ThreadStep(i) == ThreadSends(i) \/ ThreadReplies(i) \/ ThreadLosesServer(i)

Next ==
    \/ \E c \in Callers : Call(c) \/ CallTimesOut(c) \/ SendHup(c)
    \/ ManagerStep \/ ReadyTimesOut \/ Restart
    \/ \E i \in Threads : ThreadStep(i) \/ ThreadFails(i)
    \/ \E g \in Gens : ServerReady(g) \/ ServerExits(g) \/ ServerEnds(g)

\* Erlang schedules every process; jsockd starts and ends.  Nothing need time out, fail or
\* be called.
Fairness ==
    /\ WF_vars(ManagerStep) /\ WF_vars(Restart)
    /\ \A c \in Callers : WF_vars(SendHup(c))
    /\ \A i \in Threads : WF_vars(ThreadStep(i))
    /\ \A g \in Gens : WF_vars(ServerReady(g)) /\ WF_vars(ServerEnds(g))

Spec == Init /\ [][Next]_vars /\ Fairness

-----------------------------------------------------------------------------
(***************************************************************************)
(* Properties                                                               *)
(***************************************************************************)

\* Whatever jsockd, handlers and callers do, in the end either all sockets are served by
\* living processes and a living jsockd, or the supervisor has given up.
Recovers ==
    <>[](app = "down" \/ (ready /\ jsockd[gen] = "serving" /\ \A i \in Threads : thread[i] # "dead"))

\* A jsockd whose sockets had been connected ends after its manager has; one that was
\* still waiting for connections is left behind.
OldServersEnd ==
    \A g \in Gens : g \in connected /\ (gen > g \/ mgr = "down") ~> jsockd[g] = "gone"
=============================================================================
