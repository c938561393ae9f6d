------------------------------ MODULE GoClient ------------------------------
(***************************************************************************)
(* The Go client (jsockd.go): it starts a jsockd process, keeps one         *)
(* goroutine (connHandler) with a channel of commands per socket, hands     *)
(* commands of any number of callers to them, and starts a new process when *)
(* one exits.  A generation is one jSockDInternalClient: a process with its *)
(* connections, channels and handlers, and the goroutine that watches it.   *)
(*                                                                         *)
(* The server is what the other modules promise: it answers a command or    *)
(* not, may send messages first, may answer with a wrong id (README), may   *)
(* crash, and exits when one of its sockets is closed, unless the others    *)
(* keep it busy: their threads look whether to stop only when they wait     *)
(* 100 ms for a line (poll_fd).                                             *)
(***************************************************************************)
EXTENDS Integers, Sequences, FiniteSets

CONSTANTS
    Callers,      \* goroutines that send commands
    NConns,       \* connections that are followed, at most config.NThreads
    MoreConns,    \* are there more, whose commands and handlers are not followed?
    ChanCap,      \* chanBufferSize
    MaxCommands,  \* bound: commands that all callers together send
    MaxGens,      \* bound: generations
    MaxCrashes    \* bound: crashes of a server

ASSUME CallersAssumption == IsFiniteSet(Callers)
ASSUME NConnsAssumption == NConns \in Nat \ {0} /\ MoreConns \in BOOLEAN
ASSUME ChanCapAssumption == ChanCap \in Nat \ {0}
ASSUME BoundsAssumption == MaxCommands \in Nat /\ MaxGens \in Nat \ {0} /\ MaxCrashes \in Nat

Gens == 1 .. MaxGens
Conns == 1 .. NConns
Links == Gens \X Conns

VARIABLES
    iclient,      \* the generation that the user's JSockDClient points to
    gens,         \* generations started
    \* of each generation
    alive,        \* is the process running?
    fatal,        \* fatalError is set
    quit,
    wpc,          \* the goroutine that waits for the process
    busy,         \* do commands follow each other so closely that no poll times out?
    \* of each connection of each generation
    open,         \* is the connection open on this side?
    closed,       \* is the channel closed?
    queue,        \* the commands in the channel
    hpc,          \* program counter of connHandler
    hcmd,         \* its command
    hresp,        \* the response it is handing over, by the command it answers
    hlast,        \* does it return after handing over?
    \* of each caller
    cpc, cgen, cconn,
    cid,          \* the id of its command
    outcome,      \* the command whose response it was given, NoCommand after an error
    \* the rest
    xpc,          \* Close
    xgen,
    nextCommandId,
    crashes,
    panicked      \* a send on a closed channel has ended the program

genVars == <<iclient, gens, alive, fatal, quit, wpc, busy>>
linkVars == <<open, closed, queue, hpc, hcmd, hresp, hlast>>
callerVars == <<cpc, cgen, cconn, cid, outcome, nextCommandId>>
closeVars == <<xpc, xgen>>
vars == <<genVars, linkVars, callerVars, closeVars, crashes, panicked>>

NoCommand == 0
OtherCommand == MaxCommands + 1   \* what the server answers without having been asked

Init ==
    /\ iclient = 1 /\ gens = 1
    /\ alive = [g \in Gens |-> g = 1]
    /\ fatal = [g \in Gens |-> FALSE] /\ quit = [g \in Gens |-> FALSE]
    /\ wpc = [g \in Gens |-> IF g = 1 THEN "watching" ELSE "none"]
    /\ busy = [g \in Gens |-> FALSE]
    /\ open = [l \in Links |-> l[1] = 1] /\ closed = [l \in Links |-> FALSE]
    /\ queue = [l \in Links |-> <<>>]
    /\ hpc = [l \in Links |-> IF l[1] = 1 THEN "range" ELSE "none"]
    /\ hcmd = [l \in Links |-> NoCommand] /\ hresp = [l \in Links |-> NoCommand]
    /\ hlast = [l \in Links |-> FALSE]
    /\ cpc = [c \in Callers |-> "idle"] /\ cgen = [c \in Callers |-> 1]
    /\ cconn = [c \in Callers |-> 1] /\ cid = [c \in Callers |-> NoCommand]
    /\ outcome = [c \in Callers |-> NoCommand]
    /\ xpc = "none" /\ xgen = 1 /\ nextCommandId = 0 /\ crashes = 0 /\ panicked = FALSE

\* Where the goroutines are; a panic ends them all.
CallerAt(c, label) == ~panicked /\ cpc[c] = label
HandlerAt(l, labels) == ~panicked /\ hpc[l] \in labels
WatcherAt(g, label) == ~panicked /\ wpc[g] = label
CloseAt(label) == ~panicked /\ xpc = label

-----------------------------------------------------------------------------
(***************************************************************************)
(* sendRawCommand                                                           *)
(***************************************************************************)

\* The command ends; cgen, cconn and cid, its local variables, are gone.
End(c, response) ==
    /\ cpc' = [cpc EXCEPT ![c] = "idle"]
    /\ outcome' = [outcome EXCEPT ![c] = response]
    /\ cgen' = [cgen EXCEPT ![c] = 1]
    /\ cconn' = [cconn EXCEPT ![c] = 1]

\* chooseChan: the first empty channel, or any one.
ChosenConns(g) ==
    LET empty == {k \in Conns : queue[<<g, k>>] = <<>>}
    IN  IF empty = {} THEN Conns ELSE {k \in empty : \A j \in empty : k <= j}

\* client.iclient.Load(), the tests of fatalError and quit, and the choice of a channel.
BeginCommand(c) ==
    /\ CallerAt(c, "idle") /\ nextCommandId < MaxCommands
    /\ ~fatal[iclient] /\ ~quit[iclient]
    /\ nextCommandId' = nextCommandId + 1
    /\ cid' = [cid EXCEPT ![c] = nextCommandId']
    /\ outcome' = [outcome EXCEPT ![c] = NoCommand]
    /\ cgen' = [cgen EXCEPT ![c] = iclient]
    /\ \E k \in ChosenConns(iclient) : cconn' = [cconn EXCEPT ![c] = k]
    /\ cpc' = [cpc EXCEPT ![c] = "send"]
    /\ UNCHANGED <<genVars, linkVars, closeVars, crashes, panicked>>

\* fatalError or quit is set: the caller gets an error at once.
BeginFails(c) ==
    /\ CallerAt(c, "idle") /\ (fatal[iclient] \/ quit[iclient])
    /\ End(c, NoCommand)
    /\ UNCHANGED <<cid, nextCommandId, genVars, linkVars, closeVars, crashes, panicked>>

Link(c) == <<cgen[c], cconn[c]>>

\* The send blocks while the channel is full, with no timeout.
SendToChan(c) ==
    /\ CallerAt(c, "send") /\ ~closed[Link(c)] /\ Len(queue[Link(c)]) < ChanCap
    /\ queue' = [queue EXCEPT ![Link(c)] = Append(@, cid[c])]
    /\ cpc' = [cpc EXCEPT ![c] = "wait"]
    /\ UNCHANGED <<cgen, cconn, cid, nextCommandId, outcome, genVars, open, closed, hpc, hcmd, hresp, hlast,
                   closeVars, crashes, panicked>>

SendPanics(c) ==
    /\ CallerAt(c, "send") /\ closed[Link(c)]
    /\ panicked' = TRUE
    /\ UNCHANGED <<callerVars, genVars, linkVars, closeVars, crashes>>

\* Mutant: only a command that is still in the channel times out.
CallerTimesOutInQueue(c) ==
    /\ CallerAt(c, "wait") /\ cid[c] \in {queue[Link(c)][j] : j \in 1 .. Len(queue[Link(c)])}
    /\ End(c, NoCommand)
    /\ UNCHANGED <<cid, nextCommandId, genVars, linkVars, closeVars, crashes, panicked>>

CallerTimesOut(c) ==
    /\ CallerAt(c, "wait")
    /\ End(c, NoCommand)
    /\ UNCHANGED <<cid, nextCommandId, genVars, linkVars, closeVars, crashes, panicked>>

-----------------------------------------------------------------------------
(***************************************************************************)
(* connHandler                                                              *)
(***************************************************************************)

Connected(l) == open[l] /\ alive[l[1]]

\* Mutant: the connection is not closed when the handler returns.
HandlerReturnsOpen(l) ==
    /\ hpc' = [hpc EXCEPT ![l] = "returned"]
    /\ UNCHANGED open

\* return, with the deferred conn.Close().
HandlerReturns(l) ==
    /\ hpc' = [hpc EXCEPT ![l] = "returned"]
    /\ open' = [open EXCEPT ![l] = FALSE]

SetFatalError(g) == fatal' = [fatal EXCEPT ![g] = TRUE]

\* setFatalError; return.
HandlerFails(l) ==
    /\ SetFatalError(l[1])
    /\ HandlerReturns(l)
    /\ hcmd' = [hcmd EXCEPT ![l] = NoCommand]
    /\ UNCHANGED <<hresp, hlast, iclient, gens, alive, quit, wpc, busy, closed, callerVars, closeVars,
                   crashes, panicked>>

\* The next command: written to the socket, or not.
TakeCommand(l) ==
    /\ HandlerAt(l, {"range"}) /\ queue[l] # <<>> /\ Connected(l)
    /\ hcmd' = [hcmd EXCEPT ![l] = Head(queue[l])]
    /\ queue' = [queue EXCEPT ![l] = Tail(@)]
    /\ hpc' = [hpc EXCEPT ![l] = "read"]
    /\ UNCHANGED <<open, closed, hresp, hlast, genVars, callerVars, closeVars, crashes, panicked>>

WriteFails(l) ==
    /\ HandlerAt(l, {"range"}) /\ queue[l] # <<>> /\ ~Connected(l)
    /\ queue' = [queue EXCEPT ![l] = Tail(@)]
    /\ HandlerFails(l)

\* The channel is closed and empty.
RangeEnds(l) ==
    /\ HandlerAt(l, {"range"}) /\ queue[l] = <<>> /\ closed[l]
    /\ HandlerReturns(l)
    /\ UNCHANGED <<closed, queue, hcmd, hresp, hlast, genVars, callerVars, closeVars, crashes,
                   panicked>>

\* readRecord fails: the connection is closed or the server gone.
ReadFails(l) ==
    /\ HandlerAt(l, {"read", "read_again"}) /\ ~Connected(l)
    /\ HandlerFails(l)
    /\ UNCHANGED queue

\* The record is malformed or answers another command.  (A record that is nothing but the
\* id would make the loop over messages panic; the server never sends one.)
ReadWrongRecord(l) ==
    /\ HandlerAt(l, {"read", "read_again"}) /\ Connected(l)
    /\ HandlerFails(l)
    /\ UNCHANGED queue

\* Mutant: the id of the record is not compared with the one of the command.
ReadResponseOfOther(l, exception, of) ==
    /\ HandlerAt(l, {"read", "read_again"}) /\ Connected(l)
    /\ hresp' = [hresp EXCEPT ![l] = of]
    /\ hlast' = [hlast EXCEPT ![l] = exception /\ hpc[l] = "read_again"]
    /\ hpc' = [hpc EXCEPT ![l] = "respond"]
    /\ UNCHANGED <<open, closed, queue, hcmd, genVars, callerVars, closeVars, crashes, panicked>>

\* A response of the server, to this command or to another one.  An exception after a
\* message ends the handler, an exception without one does not.
ReadResponse(l, exception, of) ==
    /\ HandlerAt(l, {"read", "read_again"}) /\ Connected(l)
    /\ of = hcmd[l]
    /\ hresp' = [hresp EXCEPT ![l] = of]
    /\ hlast' = [hlast EXCEPT ![l] = exception /\ hpc[l] = "read_again"]
    /\ hpc' = [hpc EXCEPT ![l] = "respond"]
    /\ UNCHANGED <<open, closed, queue, hcmd, genVars, callerVars, closeVars, crashes, panicked>>

ReadMessage(l) ==
    /\ HandlerAt(l, {"read", "read_again"}) /\ Connected(l)
    /\ hpc' = [hpc EXCEPT ![l] = "message"]
    /\ UNCHANGED <<open, closed, queue, hcmd, hresp, hlast, genVars, callerVars, closeVars, crashes,
                   panicked>>

\* messageHandler returns, and its result is written to the socket.
AnswerMessage(l) ==
    /\ HandlerAt(l, {"message"}) /\ Connected(l)
    /\ hpc' = [hpc EXCEPT ![l] = "read_again"]
    /\ UNCHANGED <<open, closed, queue, hcmd, hresp, hlast, genVars, callerVars, closeVars, crashes,
                   panicked>>

\* There is no messageHandler, it fails, or the write fails.
AnswerMessageFails(l) ==
    /\ HandlerAt(l, {"message"})
    /\ HandlerFails(l)
    /\ UNCHANGED queue

\* The unbuffered responseChan: the handler blocks until the caller takes the response,
\* for ever if the caller has timed out.
Respond(l) ==
    /\ HandlerAt(l, {"respond"})
    /\ \E c \in Callers :
         /\ cpc[c] = "wait" /\ cid[c] = hcmd[l]
         /\ End(c, hresp[l])
    /\ IF hlast[l] THEN HandlerReturns(l) ELSE hpc' = [hpc EXCEPT ![l] = "range"] /\ UNCHANGED open
    /\ hcmd' = [hcmd EXCEPT ![l] = NoCommand]
    /\ hresp' = [hresp EXCEPT ![l] = NoCommand]
    /\ hlast' = [hlast EXCEPT ![l] = FALSE]
    /\ UNCHANGED <<cid, nextCommandId, closed, queue, genVars, closeVars, crashes, panicked>>

-----------------------------------------------------------------------------
(***************************************************************************)
(* The process, and the goroutine that initJSockDClient starts to watch it  *)
(***************************************************************************)

Exit(g) ==
    /\ alive[g] /\ ~panicked
    /\ alive' = [alive EXCEPT ![g] = FALSE]
    /\ UNCHANGED <<iclient, gens, fatal, quit, wpc, busy, linkVars, callerVars, closeVars, panicked>>

\* A connection of the process g is closed, another one can still be sent commands.
HalfOpen(g) ==
    /\ alive[g] /\ ~fatal[g] /\ ~quit[g]
    /\ \E k \in Conns : ~open[<<g, k>>]
    /\ \E k \in Conns : ~closed[<<g, k>>] /\ (open[<<g, k>>] \/ MoreConns)

\* Callers send the next command before the poll of the server has timed out, again and
\* again: far more commands than MaxCommands, so these are not the ones of cpc and queue.
KeepBusy(g) ==
    /\ HalfOpen(g) /\ ~panicked /\ ~busy[g]
    /\ busy' = [busy EXCEPT ![g] = TRUE]
    /\ UNCHANGED <<iclient, gens, alive, fatal, quit, wpc, linkVars, callerVars, closeVars, crashes,
                   panicked>>

Pause(g) ==
    /\ ~panicked /\ busy[g]
    /\ busy' = [busy EXCEPT ![g] = FALSE]
    /\ UNCHANGED <<iclient, gens, alive, fatal, quit, wpc, linkVars, callerVars, closeVars, crashes,
                   panicked>>

\* Closing any socket ends the server, once the threads of the others look.
ServerExits(g) ==
    /\ Exit(g) /\ UNCHANGED crashes
    /\ \E k \in Conns : ~open[<<g, k>>]
    /\ ~(busy[g] /\ HalfOpen(g))

Crash(g) == Exit(g) /\ crashes < MaxCrashes /\ crashes' = crashes + 1

\* Mutant: a handler that has returned is taken for the end of the process.
ProcessWaitReturnsEarly(g) ==
    /\ WatcherAt(g, "watching") /\ (~alive[g] \/ \E k \in Conns : hpc[<<g, k>>] = "returned")
    /\ quit' = [quit EXCEPT ![g] = TRUE]
    /\ SetFatalError(g)
    /\ wpc' = [wpc EXCEPT ![g] = "restart"]
    /\ UNCHANGED <<iclient, gens, alive, busy, linkVars, callerVars, closeVars, crashes, panicked>>

\* The process has exited, which is always a fatal error: jsockdKillCount is 0 whenever
\* this goroutine exists, also after Close.
ProcessWaitReturns(g) ==
    /\ WatcherAt(g, "watching") /\ ~alive[g]
    /\ quit' = [quit EXCEPT ![g] = TRUE]
    /\ SetFatalError(g)
    /\ wpc' = [wpc EXCEPT ![g] = "restart"]
    /\ UNCHANGED <<iclient, gens, alive, busy, linkVars, callerVars, closeVars, crashes, panicked>>

\* initJSockDClient once more.  restartCount and inProgressRestarts belong to the
\* generation that has ended, so both tests always succeed (MaxRestartsPerMinute > 0).
Restart(g) ==
    /\ WatcherAt(g, "restart") /\ gens < MaxGens
    /\ gens' = gens + 1
    /\ alive' = [alive EXCEPT ![gens'] = TRUE]
    /\ wpc' = [wpc EXCEPT ![g] = "store", ![gens'] = "watching"]
    /\ open' = [l \in Links |-> open[l] \/ l[1] = gens']
    /\ hpc' = [l \in Links |-> IF l[1] = gens' THEN "range" ELSE hpc[l]]
    /\ UNCHANGED <<iclient, fatal, quit, busy, closed, queue, hcmd, hresp, hlast, callerVars, closeVars,
                   crashes, panicked>>

\* initJSockDClient returns an error; MaxRestartsPerMinute = 0 has the same effect.  All its
\* errors after cmd.Start kill the process, but for a count in READY above the number of
\* sockets, and jsockd prints at most that number (main.c:1266, 1337).
RestartFails(g) ==
    /\ WatcherAt(g, "restart")
    /\ wpc' = [wpc EXCEPT ![g] = "failed"]
    /\ UNCHANGED <<iclient, gens, alive, fatal, quit, busy, linkVars, callerVars, closeVars, crashes,
                   panicked>>

\* Mutant: the new generation is not stored.
StoreClientMissing(g) ==
    /\ WatcherAt(g, "store")
    /\ wpc' = [wpc EXCEPT ![g] = "done"]
    /\ UNCHANGED <<iclient, gens, alive, fatal, quit, busy, linkVars, callerVars, closeVars, crashes,
                   panicked>>

\* client.iclient.Store(newIclient), where client is the JSockDClient that the same call of
\* initJSockDClient made: the user's one only for the first generation.
StoreClient(g) ==
    /\ WatcherAt(g, "store")
    /\ iclient' = IF g = 1 THEN gens ELSE iclient
    /\ wpc' = [wpc EXCEPT ![g] = "done"]
    /\ UNCHANGED <<gens, alive, fatal, quit, busy, linkVars, callerVars, closeVars, crashes, panicked>>

-----------------------------------------------------------------------------
(***************************************************************************)
(* Close; a second call does nothing, unless the process was restarted in   *)
(* between (quitCount belongs to the generation)                            *)
(***************************************************************************)

CloseChannels ==
    /\ (CloseAt("none") \/ CloseAt("closed")) /\ ~closed[<<iclient, 1>>]
    /\ xgen' = iclient
    /\ closed' = [l \in Links |-> closed[l] \/ l[1] = iclient]
    /\ xpc' = "closing"
    /\ UNCHANGED <<genVars, open, queue, hpc, hcmd, hresp, hlast, callerVars, crashes, panicked>>

CloseConns ==
    /\ CloseAt("closing")
    /\ open' = [l \in Links |-> open[l] /\ l[1] # xgen]
    /\ xpc' = "waiting"
    /\ UNCHANGED <<genVars, closed, queue, hpc, hcmd, hresp, hlast, callerVars, xgen, crashes,
                   panicked>>

CloseReturns ==
    /\ CloseAt("waiting") /\ ~alive[xgen]
    /\ xpc' = "closed"
    /\ UNCHANGED <<genVars, linkVars, callerVars, xgen, crashes, panicked>>

-----------------------------------------------------------------------------
Caller(c) == SendToChan(c) \/ SendPanics(c) \/ CallerTimesOut(c)

Handler(l) ==
    \/ TakeCommand(l) \/ WriteFails(l) \/ RangeEnds(l) \/ ReadFails(l) \/ AnswerMessage(l)
    \/ AnswerMessageFails(l) \/ Respond(l)

\* What the server sends; it also answers commands that nobody sent (module Messages).
Records(l) ==
    \/ ReadWrongRecord(l) \/ ReadMessage(l)
    \/ \E exception \in BOOLEAN, of \in {hcmd[l], OtherCommand} : ReadResponse(l, exception, of)

Watcher(g) ==
    \/ ProcessWaitReturns(g) \/ Restart(g) \/ RestartFails(g) \/ StoreClient(g)

Close == CloseConns \/ CloseReturns

Next ==
    \/ \E c \in Callers : BeginCommand(c) \/ BeginFails(c) \/ Caller(c)
    \/ \E l \in Links : Handler(l) \/ Records(l)
    \/ \E g \in Gens : KeepBusy(g) \/ Pause(g) \/ ServerExits(g) \/ Crash(g) \/ Watcher(g)
    \/ CloseChannels \/ Close

Spec == Init /\ [][Next]_vars

\* Goroutines are scheduled, timers fire, a closed socket ends a server that is not kept
\* busy, and the client notices that the server is gone.  Nobody has to send, to answer,
\* to pause or to call Close.
Fairness ==
    /\ \A c \in Callers : WF_vars(Caller(c))
    /\ \A l \in Links : WF_vars(Handler(l))
    /\ \A g \in Gens : WF_vars(ServerExits(g) \/ Watcher(g))
    /\ WF_vars(Close)

FairSpec == Spec /\ Fairness

-----------------------------------------------------------------------------
(***************************************************************************)
(* Properties                                                               *)
(***************************************************************************)

\* A caller is never given the response to another command, whatever the server sends
\* and however responses and timeouts cross.
OwnResponse ==
    \A c \in Callers :
        cpc[c] = "idle" => outcome[c] \in {NoCommand, cid[c]}

\* A server is started only when the one before it has exited: the client never has two.
AtMostOneServer == Cardinality({g \in Gens : alive[g]}) <= 1

\* The channel is full and its handler is busy, perhaps for good: it has returned, the
\* server does not answer, or it hands a response to a caller that has timed out.
StuckSend(c) == cpc[c] = "send" /\ Len(queue[Link(c)]) = ChanCap /\ hpc[Link(c)] # "range"

\* Every command ends with a response, an error or a timeout, even if the server dies;
\* but the send to the channel has no timeout, and Close may make it panic.
CommandEnds ==
    \A c \in Callers : cpc[c] # "idle" ~> (cpc[c] = "idle" \/ StuckSend(c) \/ panicked)

\* When a handler returns, whatever the reason, callers get an error instead of timeouts
\* before long: its connection closes, the server exits and the watcher sets fatalError.
\* Only if the other connections are not kept busy for ever: while they are, the server
\* stays, no error is set, and commands sent to the dead connection time out.
DeadConnectionNoticed ==
    (\A g \in Gens : <>[]~busy[g])
        => \A l \in Links : hpc[l] = "returned" ~> (fatal[l[1]] \/ panicked)

\* A server that exits although Close was not called is replaced ("if it crashes",
\* config.go:30), if a new one can be started at all; of the first generation only: see
\* README.
FirstRestartServes ==
    (~alive[1] /\ xpc = "none") ~> (iclient > 1 \/ wpc[1] = "failed" \/ xpc # "none" \/ panicked)
=============================================================================
