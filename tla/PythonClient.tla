---------------------------- MODULE PythonClient ----------------------------
(***************************************************************************)
(* The Python client (jsockdclient/__init__.py): the constructor starts a   *)
(* jsockd process and dials its sockets; each connection has a queue of     *)
(* commands and a thread (_conn_handler); the thread _reaper waits for the  *)
(* process and starts another one, within a budget, with the same socket    *)
(* paths; close ends everything.  A generation is one process with the      *)
(* connections, queues and handlers that were made for it.                  *)
(*                                                                         *)
(* socket.close() only marks a socket while its makefile() objects exist:   *)
(* a connection is closed when its handler returns, and not by close or by  *)
(* _reaper.  The server exits when a connection is closed (CommandThread).  *)
(***************************************************************************)
EXTENDS Integers, Sequences, FiniteSets

CONSTANTS
    Callers,       \* threads that send commands
    NConns,        \* config.n_threads
    MaxRestarts,   \* config.max_restarts_per_minute
    MaxPause,      \* bound: time between two restarts, in half minutes
    MaxCommands,   \* bound: commands that all callers together send
    MaxGens        \* bound: processes

ASSUME NConnsAssumption == NConns \in Nat \ {0}
ASSUME MaxRestartsAssumption == MaxRestarts \in Nat
ASSUME BoundsAssumption == MaxPause \in Nat /\ MaxCommands \in Nat /\ MaxGens \in Nat \ {0}

Gens == 1 .. MaxGens
Conns == 1 .. NConns
Links == Gens \X Conns
None == 0

VARIABLES
    c,         \* the _Client: process and cmd_queues (as generations), fatal_error, quit_event,
               \* restart_count, last_restart_time
    proc,      \* of each generation: "none", "starting", "ready", "exited" or "crashed"
    bound,     \* the generations whose sockets are in the file system
    dir,       \* does socket_tmpdir exist?
    signalled, \* the generation that close has told to terminate, or None
    queue,     \* the commands in the queues of each generation
    handler,   \* of each connection: where _conn_handler is, and its command
    caller,    \* of each caller: where send_raw_command is, its command and its queue
    reaper,    \* where _reaper (or the constructor, before it) is, and its process
    closing,   \* where close is
    nextCmd,   \* next_cmd_id
    now,       \* time.time() when it was last looked at, in half minutes
    restarts   \* history: the times of the restarts

vars == <<c, proc, bound, dir, signalled, queue, handler, caller, reaper, closing, nextCmd, now,
          restarts>>

Running(g) == proc[g] \in {"starting", "ready"}
Connected(l) == proc[l[1]] = "ready"
HandlerAt(l, label) == handler[l].pc = label
ReaperAt(label) == reaper.pc = label

Init ==
    /\ c = [process |-> 1, queues |-> None, fatal |-> FALSE, quit |-> FALSE,
            restart_count |-> 0, last_restart_time |-> 0]
    /\ proc = [g \in Gens |-> IF g = 1 THEN "starting" ELSE "none"]
    /\ bound = {} /\ dir = TRUE /\ signalled = None
    /\ queue = [l \in Links |-> <<>>]
    /\ handler = [l \in Links |-> [pc |-> "none", cmd |-> None]]
    /\ caller = [k \in Callers |-> [pc |-> "idle", cmd |-> None]]
    /\ reaper = [pc |-> "construct", proc |-> 1]
    /\ closing = "none" /\ nextCmd = 0 /\ now = 1 /\ restarts = <<>>

-----------------------------------------------------------------------------
(***************************************************************************)
(* The server                                                               *)
(***************************************************************************)

\* READY is printed even if a socket could not be opened (module Server).
ServerReady(g) ==
    /\ proc[g] = "starting"
    /\ proc' = [proc EXCEPT ![g] = "ready"]
    /\ bound' = IF dir THEN bound \cup {g} ELSE bound
    /\ UNCHANGED <<c, dir, signalled, queue, handler, caller, reaper, closing, nextCmd, now, restarts>>

ServerEnds(g, how) ==
    /\ proc' = [proc EXCEPT ![g] = how]
    /\ UNCHANGED <<c, bound, dir, signalled, queue, handler, caller, reaper, closing, nextCmd, now,
                   restarts>>

\* SIGTERM, or a handler that has returned and so closed its connection: status 0.
ServerExits(g) ==
    /\ \/ Running(g) /\ signalled = g
       \/ proc[g] = "ready" /\ \E k \in Conns : handler[<<g, k>>].pc \in {"gone", "raised"}
    /\ ServerEnds(g, "exited")

\* A server that could not open its sockets.
ServerFails(g) == proc[g] = "ready" /\ g \notin bound /\ ServerEnds(g, "crashed")

ServerCrashes(g) == Running(g) /\ ServerEnds(g, "crashed")

\* ?quit from some client, or a SIGTERM from elsewhere.
ServerQuits(g) == proc[g] = "ready" /\ ServerEnds(g, "exited")

-----------------------------------------------------------------------------
(***************************************************************************)
(* The constructor                                                          *)
(***************************************************************************)

StartWorkers(g) ==
    handler' = [l \in Links |-> IF l[1] = g THEN [pc |-> "loop", cmd |-> None] ELSE handler[l]]

\* READY, dial, the _Client, the handlers and _reaper.
Construct ==
    /\ ReaperAt("construct") /\ Connected(<<1, 1>>) /\ 1 \in bound
    /\ c' = [c EXCEPT !.queues = 1]
    /\ StartWorkers(1)
    /\ reaper' = [reaper EXCEPT !.pc = "wait"]
    /\ UNCHANGED <<proc, bound, dir, signalled, queue, caller, closing, nextCmd, now, restarts>>

\* No READY in time, an error before it, too many sockets or a failing dial: kill and wait.
ConstructFails ==
    /\ ReaperAt("construct")
    /\ proc' = [proc EXCEPT ![1] = IF Running(1) THEN "crashed" ELSE @]
    /\ dir' = FALSE
    /\ reaper' = [reaper EXCEPT !.pc = "failed"]
    /\ UNCHANGED <<c, bound, signalled, queue, handler, caller, closing, nextCmd, now, restarts>>

-----------------------------------------------------------------------------
(***************************************************************************)
(* send_raw_command                                                         *)
(***************************************************************************)

CallerGoes(k, pc, cmd) == caller' = [caller EXCEPT ![k] = [pc |-> pc, cmd |-> cmd]]

BeginCommand(k) ==
    /\ caller[k].pc = "idle" /\ c.queues # None /\ nextCmd < MaxCommands
    /\ ~c.fatal /\ ~c.quit
    /\ nextCmd' = nextCmd + 1
    /\ CallerGoes(k, "put", nextCmd')
    /\ UNCHANGED <<c, proc, bound, dir, signalled, queue, handler, reaper, closing, now, restarts>>

\* The queue is one of those that c has now; the tests are older.
PutCommand(k) ==
    /\ caller[k].pc = "put"
    /\ \E n \in Conns : queue' = [queue EXCEPT ![<<c.queues, n>>] = Append(@, caller[k].cmd)]
    /\ CallerGoes(k, "get", caller[k].cmd)
    /\ UNCHANGED <<c, proc, bound, dir, signalled, handler, reaper, closing, nextCmd, now, restarts>>

\* queue.Empty: the response, if it still comes, stays in a queue that nobody reads.
CallerTimesOut(k) ==
    /\ caller[k].pc = "get"
    /\ CallerGoes(k, "idle", None)
    /\ UNCHANGED <<c, proc, bound, dir, signalled, queue, handler, reaper, closing, nextCmd, now,
                   restarts>>

-----------------------------------------------------------------------------
(***************************************************************************)
(* _conn_handler                                                            *)
(***************************************************************************)

HandlerGoes(l, pc, cmd) == handler' = [handler EXCEPT ![l] = [pc |-> pc, cmd |-> cmd]]

HandlerUnchanged ==
    UNCHANGED <<proc, bound, dir, signalled, reaper, closing, nextCmd, now, restarts>>

\* _set_fatal_error, and return.
HandlerFails(l) ==
    /\ c' = [c EXCEPT !.fatal = TRUE]
    /\ HandlerGoes(l, "gone", None)
    /\ UNCHANGED caller /\ HandlerUnchanged

\* Mutant: the loop does not look at quit_event.
TestQuitMissing(l) ==
    /\ HandlerAt(l, "loop")
    /\ HandlerGoes(l, "get", None)
    /\ UNCHANGED <<c, queue, caller>> /\ HandlerUnchanged

\* while not quit_event.is_set()
TestQuit(l) ==
    /\ HandlerAt(l, "loop")
    /\ HandlerGoes(l, IF c.quit THEN "gone" ELSE "get", None)
    /\ UNCHANGED <<c, queue, caller>> /\ HandlerUnchanged

\* cmd_q.get: nothing for 0.1 s, or the None of close.
GetNothing(l) ==
    /\ HandlerAt(l, "get")
    /\ \/ queue[l] = <<>> /\ HandlerGoes(l, "loop", None)
       \/ queue[l] # <<>> /\ Head(queue[l]) = None /\ HandlerGoes(l, "gone", None)
    /\ UNCHANGED <<c, queue, caller>> /\ HandlerUnchanged

\* A command, which is written to the connection or not.
TakeCommand(l) ==
    /\ HandlerAt(l, "get") /\ queue[l] # <<>> /\ Head(queue[l]) # None
    /\ queue' = [queue EXCEPT ![l] = Tail(@)]
    /\ \/ /\ Connected(l)
          /\ HandlerGoes(l, "read", Head(queue[l]))
          /\ UNCHANGED <<c, caller>> /\ HandlerUnchanged
       \/ ~Connected(l) /\ HandlerFails(l)

\* A command whose text is not Unicode (a lone surrogate): encode raises outside the inner
\* try, and the handler ends through its finally, without _set_fatal_error.
EncodeFails(l) ==
    /\ HandlerAt(l, "get") /\ queue[l] # <<>> /\ Head(queue[l]) # None
    /\ queue' = [queue EXCEPT ![l] = Tail(@)]
    /\ HandlerGoes(l, "raised", None)
    /\ UNCHANGED <<c, caller>> /\ HandlerUnchanged

\* The response goes to the caller if it still waits.
ReadResponse(l) ==
    /\ HandlerAt(l, "read") /\ Connected(l)
    /\ HandlerGoes(l, "loop", None)
    /\ caller' = [k \in Callers |-> IF caller[k] = [pc |-> "get", cmd |-> handler[l].cmd]
                                    THEN [pc |-> "idle", cmd |-> None] ELSE caller[k]]
    /\ UNCHANGED <<c, queue>> /\ HandlerUnchanged

\* The connection is closed, or the record is malformed or has another id.
ReadFails(l) == HandlerAt(l, "read") /\ HandlerFails(l) /\ UNCHANGED queue

ReadMessage(l) ==
    /\ HandlerAt(l, "read") /\ Connected(l)
    /\ HandlerGoes(l, "message", handler[l].cmd)
    /\ UNCHANGED <<c, queue, caller>> /\ HandlerUnchanged

AnswerMessage(l) ==
    /\ HandlerAt(l, "message") /\ Connected(l)
    /\ HandlerGoes(l, "read", handler[l].cmd)
    /\ UNCHANGED <<c, queue, caller>> /\ HandlerUnchanged

\* There is no message_handler, it raises, or the write fails.
AnswerMessageFails(l) == HandlerAt(l, "message") /\ HandlerFails(l) /\ UNCHANGED queue

-----------------------------------------------------------------------------
(***************************************************************************)
(* _reaper                                                                  *)
(***************************************************************************)

ReaperGoes(pc) == reaper' = [reaper EXCEPT !.pc = pc]
ReaperUnchanged == UNCHANGED <<signalled, queue, caller, closing, nextCmd>>

\* fatal_error (unless there is one already), quit_event and rmtree.
GiveUp ==
    /\ c' = [c EXCEPT !.fatal = TRUE, !.quit = TRUE]
    /\ dir' = FALSE
    /\ ReaperGoes("done")

\* proc.wait() returns: close has been called, or the process has ended with status 0 (no
\* restart), or it has not.
WaitReturns ==
    /\ ReaperAt("wait") /\ ~Running(reaper.proc)
    /\ \/ c.quit /\ ReaperGoes("done") /\ UNCHANGED <<c, dir>>
       \/ /\ ~c.quit /\ proc[reaper.proc] = "exited"
          /\ c' = [c EXCEPT !.quit = TRUE] /\ dir' = FALSE /\ ReaperGoes("done")
       \/ ~c.quit /\ proc[reaper.proc] = "crashed" /\ ReaperGoes("budget") /\ UNCHANGED <<c, dir>>
    /\ UNCHANGED <<proc, bound, handler, now, restarts>> /\ ReaperUnchanged

\* Mutant: a minute that has begun counts as one that has passed.
effective_count_rounded_up(at) ==
    LET minutes_passed == IF c.last_restart_time > 0 THEN (at - c.last_restart_time + 1) \div 2 ELSE 0
    IN  c.restart_count - minutes_passed * MaxRestarts

\* effective_count of _reaper, at the given time.
effective_count(at) ==
    LET minutes_passed == IF c.last_restart_time > 0 THEN (at - c.last_restart_time) \div 2 ELSE 0
    IN  c.restart_count - minutes_passed * MaxRestarts

\* Time is looked at nowhere else, so it may pass here only.
Budget ==
    /\ ReaperAt("budget")
    /\ \E pause \in 0 .. MaxPause :
         /\ now' = now + pause
         /\ \/ /\ effective_count(now') >= MaxRestarts
               /\ GiveUp /\ UNCHANGED restarts
            \/ /\ effective_count(now') < MaxRestarts /\ reaper.proc < MaxGens
               /\ c' = [c EXCEPT !.restart_count = @ + 1, !.last_restart_time = now']
               /\ restarts' = Append(restarts, now')
               /\ ReaperGoes("start") /\ UNCHANGED dir
    /\ UNCHANGED <<proc, bound, handler>> /\ ReaperUnchanged

\* quit_event is not looked at again before the next turn of the loop.
StartProcess ==
    /\ ReaperAt("start")
    /\ reaper' = [pc |-> "ready", proc |-> reaper.proc + 1]
    /\ proc' = [proc EXCEPT ![reaper.proc + 1] = "starting"]
    /\ UNCHANGED <<c, bound, dir, handler, now, restarts>> /\ ReaperUnchanged

ReadyArrives ==
    /\ ReaperAt("ready") /\ proc[reaper.proc] = "ready"
    /\ ReaperGoes("dial")
    /\ UNCHANGED <<c, proc, bound, dir, handler, now, restarts>> /\ ReaperUnchanged

\* The end of stdout, a timeout or too many sockets: kill and wait.
NoReady ==
    /\ ReaperAt("ready")
    /\ proc' = [proc EXCEPT ![reaper.proc] = IF Running(reaper.proc) THEN "crashed" ELSE @]
    /\ GiveUp
    /\ UNCHANGED <<bound, handler, now, restarts>> /\ ReaperUnchanged

Dial ==
    /\ ReaperAt("dial") /\ dir /\ reaper.proc \in bound /\ proc[reaper.proc] = "ready"
    /\ ReaperGoes("process")
    /\ UNCHANGED <<c, proc, bound, dir, handler, now, restarts>> /\ ReaperUnchanged

\* connect fails, and the new process is left as it is.
DialFails ==
    /\ ReaperAt("dial") /\ ~(dir /\ reaper.proc \in bound /\ proc[reaper.proc] = "ready")
    /\ GiveUp
    /\ UNCHANGED <<proc, bound, handler, now, restarts>> /\ ReaperUnchanged

ReplaceProcess ==
    /\ ReaperAt("process")
    /\ c' = [c EXCEPT !.process = reaper.proc]
    /\ ReaperGoes("queues")
    /\ UNCHANGED <<proc, bound, dir, handler, now, restarts>> /\ ReaperUnchanged

\* Mutant: the queues of the old connections are kept.
ReplaceQueuesMissing ==
    /\ ReaperAt("queues")
    /\ ReaperGoes("workers")
    /\ UNCHANGED <<c, proc, bound, dir, handler, now, restarts>> /\ ReaperUnchanged

ReplaceQueues ==
    /\ ReaperAt("queues")
    /\ c' = [c EXCEPT !.queues = reaper.proc]
    /\ ReaperGoes("workers")
    /\ UNCHANGED <<proc, bound, dir, handler, now, restarts>> /\ ReaperUnchanged

\* The new handlers, and the next turn of the loop.
NewWorkers ==
    /\ ReaperAt("workers")
    /\ StartWorkers(reaper.proc)
    /\ ReaperGoes(IF c.quit THEN "done" ELSE "wait")
    /\ UNCHANGED <<c, proc, bound, dir, now, restarts>> /\ ReaperUnchanged

-----------------------------------------------------------------------------
(***************************************************************************)
(* close                                                                    *)
(***************************************************************************)

CloseUnchanged == UNCHANGED <<bound, handler, caller, reaper, nextCmd, now, restarts>>

\* quit_event, and None for each worker.
CloseBegins ==
    /\ closing = "none" /\ c.queues # None
    /\ c' = [c EXCEPT !.quit = TRUE]
    /\ queue' = [l \in Links |-> IF l[1] = c.queues THEN Append(queue[l], None) ELSE queue[l]]
    /\ closing' = "terminate"
    /\ UNCHANGED <<proc, dir, signalled>> /\ CloseUnchanged

Terminate ==
    /\ closing = "terminate"
    /\ signalled' = c.process
    /\ closing' = "wait"
    /\ UNCHANGED <<c, proc, dir, queue>> /\ CloseUnchanged

\* ic.process is read again: it may by now be another one.  After the timeout it is killed.
WaitProcess ==
    /\ closing = "wait"
    /\ proc' = [proc EXCEPT ![c.process] = IF Running(c.process) THEN "crashed" ELSE @]
    /\ closing' = "rmtree"
    /\ UNCHANGED <<c, dir, signalled, queue>> /\ CloseUnchanged

RemoveDir ==
    /\ closing = "rmtree"
    /\ dir' = FALSE
    /\ closing' = "closed"
    /\ UNCHANGED <<c, proc, signalled, queue>> /\ CloseUnchanged

-----------------------------------------------------------------------------
Server(g) == ServerExits(g) \/ ServerFails(g)

Handler(l) ==
    \/ TestQuit(l) \/ GetNothing(l) \/ TakeCommand(l) \/ EncodeFails(l)
    \/ (ReadFails(l) /\ ~Connected(l)) \/ AnswerMessageFails(l)

Reaper ==
    \/ WaitReturns \/ Budget \/ StartProcess \/ ReadyArrives \/ NoReady \/ Dial \/ DialFails
    \/ ReplaceProcess \/ ReplaceQueues \/ NewWorkers

Close == Terminate \/ WaitProcess \/ RemoveDir

Next ==
    \/ \E g \in Gens : ServerReady(g) \/ Server(g) \/ ServerCrashes(g) \/ ServerQuits(g)
    \/ Construct \/ ConstructFails
    \/ \E k \in Callers : BeginCommand(k) \/ PutCommand(k) \/ CallerTimesOut(k)
    \/ \E l \in Links : Handler(l) \/ ReadResponse(l) \/ ReadFails(l) \/ ReadMessage(l) \/ AnswerMessage(l)
    \/ Reaper
    \/ CloseBegins \/ Close

Spec == Init /\ [][Next]_vars

\* Threads run, a message handler returns, timers fire, and a server that was told to
\* terminate, lost a connection or has no socket exits.  (Traffic on other connections can
\* keep a server from noticing, see poll_fd in module Server, but the one property that needs
\* fairness is about the time after close, when all handlers return.)  Nobody has to send, to
\* answer, to crash or to call close.
Fairness ==
    /\ \A g \in Gens : WF_vars(Server(g))
    /\ \A l \in Links : WF_vars(Handler(l))
    /\ WF_vars(Reaper) /\ WF_vars(Close)

FairSpec == Spec /\ Fairness

-----------------------------------------------------------------------------
(***************************************************************************)
(* Properties                                                               *)
(***************************************************************************)

\* While _reaper waits for a process and no error is known, the queues that callers get
\* from the client are those of that very process, and a handler serves each of them: no
\* command can end up in the queue of a connection that was given up.  One exception: a
\* handler that a command it could not encode has ended leaves its queue to callers that
\* will time out, until the server has exited.
CurrentQueuesServed ==
    ReaperAt("wait") /\ ~c.fatal /\ ~c.quit =>
        /\ c.process = reaper.proc /\ c.queues = reaper.proc
        /\ \A n \in Conns : handler[<<reaper.proc, n>>].pc \in {"loop", "get", "read", "message", "raised"}

\* config.max_restarts_per_minute: no minute has more restarts, however the crashes and
\* the pauses between them fall.
RestartsBounded ==
    \A i \in DOMAIN restarts :
        Cardinality({j \in DOMAIN restarts : restarts[j] - restarts[i] \in {0, 1}}) <= MaxRestarts

\* The one server that is forgotten: close has removed the sockets' directory between its
\* READY and the dial (README).
Forgotten(g) == proc[g] = "ready" /\ ReaperAt("done") /\ g # c.process

\* After close no server is left in the end and the directory is gone, even if a restart
\* was under way.
NothingLeft ==
    closing = "closed" ~> ~dir /\ \A g \in Gens : ~Running(g) \/ Forgotten(g)
=============================================================================
