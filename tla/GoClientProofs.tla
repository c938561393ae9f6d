--------------------------- MODULE GoClientProofs ----------------------------
(***************************************************************************)
(* Proofs about GoClient, for every number of callers, connections,         *)
(* commands, generations and crashes: who is given a response, and how many *)
(* servers the client has.                                                  *)
(***************************************************************************)
EXTENDS GoClient, FiniteSetTheorems, TLAPS

USE NConnsAssumption, ChanCapAssumption, BoundsAssumption

-----------------------------------------------------------------------------
(***************************************************************************)
(* The inductive invariant                                                  *)
(***************************************************************************)

Commands == 0 .. MaxCommands

WatcherLabels == {"none", "watching", "restart", "failed", "store", "done"}
HandlerLabels == {"none", "range", "read", "message", "read_again", "respond", "returned"}

TypeOK ==
    /\ iclient \in Gens /\ gens \in Gens
    /\ alive \in [Gens -> BOOLEAN]
    /\ wpc \in [Gens -> WatcherLabels]
    /\ hpc \in [Links -> HandlerLabels]
    /\ queue \in [Links -> Seq(Commands)]
    /\ hcmd \in [Links -> Commands] /\ hresp \in [Links -> Commands]
    /\ cpc \in [Callers -> {"idle", "send", "wait"}]
    /\ cgen \in [Callers -> Gens] /\ cconn \in [Callers -> Conns]
    /\ cid \in [Callers -> Commands] /\ outcome \in [Callers -> Commands]
    /\ nextCommandId \in Commands

\* Only the last generation can have a process, and only its watcher can restart it, which
\* it does when the process is gone.
Generations ==
    \A g \in Gens :
        /\ alive[g] => g = gens
        /\ wpc[g] \in {"watching", "restart", "failed"} => g = gens
        /\ wpc[g] \in {"restart", "failed"} => ~alive[g]

\* A handler hands over nothing but the response to its own command.
Handover == \A l \in Links : hpc[l] = "respond" => hresp[l] = hcmd[l]

\* Ids are given out once: responseChan of a command has one receiver.
OneCallerPerCommand ==
    \A c, d \in Callers : cid[c] = cid[d] /\ cid[c] # NoCommand => c = d

\* Ids that have been given out.
Issued == \A c \in Callers : cid[c] <= nextCommandId

Inv == TypeOK /\ Generations /\ Handover /\ OwnResponse /\ OneCallerPerCommand /\ Issued

\* The parts of the invariant, by what they depend on.
ServerPart == <<gens, alive, wpc>>
HandlerPart == <<hpc, hcmd, hresp>>
CallerPart == <<cpc, cid, outcome, nextCommandId>>

-----------------------------------------------------------------------------
\* The first generation is set up, and nobody has sent anything.
LEMMA InitInv == Init => Inv
  <1> SUFFICES ASSUME Init PROVE Inv
    OBVIOUS
  <1>1. 1 \in Gens /\ 1 \in Conns /\ 0 \in Commands /\ <<>> \in Seq(Commands)
    BY DEF Gens, Conns, Commands
  <1>2. TypeOK
    <2>1. alive \in [Gens -> BOOLEAN]
      BY DEF Init
    <2>2. wpc \in [Gens -> WatcherLabels] /\ hpc \in [Links -> HandlerLabels]
      BY DEF Init, WatcherLabels, HandlerLabels
    <2>3. /\ queue \in [Links -> Seq(Commands)]
          /\ hcmd \in [Links -> Commands] /\ hresp \in [Links -> Commands]
      BY <1>1 DEF Init, NoCommand
    <2>4. /\ cpc \in [Callers -> {"idle", "send", "wait"}]
          /\ cgen \in [Callers -> Gens] /\ cconn \in [Callers -> Conns]
          /\ cid \in [Callers -> Commands] /\ outcome \in [Callers -> Commands]
      BY <1>1 DEF Init, NoCommand
    <2> QED
      BY <1>1, <2>1, <2>2, <2>3, <2>4 DEF Init, TypeOK
  <1>3. Generations /\ Handover
    BY <1>1 DEF Init, Generations, Handover
  <1>4. OwnResponse /\ OneCallerPerCommand /\ Issued
    BY DEF Init, OwnResponse, OneCallerPerCommand, Issued, NoCommand
  <1> QED
    BY <1>2, <1>3, <1>4 DEF Inv

\* What does not concern the processes keeps Generations, and so on.
LEMMA Frame ==
  ASSUME Inv
  PROVE  /\ UNCHANGED ServerPart => Generations'
         /\ UNCHANGED HandlerPart => Handover'
         /\ UNCHANGED CallerPart => OwnResponse' /\ OneCallerPerCommand' /\ Issued'
  <1>1. UNCHANGED ServerPart => Generations'
    BY DEF Inv, Generations, ServerPart
  <1>2. UNCHANGED HandlerPart => Handover'
    BY DEF Inv, Handover, HandlerPart
  <1>3. UNCHANGED CallerPart => OwnResponse' /\ OneCallerPerCommand' /\ Issued'
    BY DEF Inv, OwnResponse, OneCallerPerCommand, Issued, CallerPart
  <1> QED
    BY <1>1, <1>2, <1>3

\* A command ends with no response, or with the one to the command.
LEMMA EndKeeps ==
  ASSUME Inv, NEW c \in Callers, NEW response \in {NoCommand, cid[c]}, End(c, response),
         UNCHANGED <<cid, nextCommandId>>
  PROVE  /\ OwnResponse' /\ OneCallerPerCommand' /\ Issued'
         /\ cpc' \in [Callers -> {"idle", "send", "wait"}]
         /\ cgen' \in [Callers -> Gens] /\ cconn' \in [Callers -> Conns]
         /\ outcome' \in [Callers -> Commands]
  <1>1. 1 \in Gens /\ 1 \in Conns /\ response \in Commands
    BY DEF Inv, TypeOK, Gens, Conns, Commands, NoCommand
  <1>2. /\ cpc' \in [Callers -> {"idle", "send", "wait"}]
        /\ cgen' \in [Callers -> Gens] /\ cconn' \in [Callers -> Conns]
        /\ outcome' \in [Callers -> Commands]
    BY <1>1 DEF Inv, TypeOK, End
  <1>3. OneCallerPerCommand' /\ Issued'
    BY DEF Inv, OneCallerPerCommand, Issued
  <1>4. OwnResponse'
    BY DEF Inv, TypeOK, OwnResponse, End
  <1> QED
    BY <1>2, <1>3, <1>4

\* sendRawCommand.
LEMMA CallerInv ==
  ASSUME Inv, NEW c \in Callers, BeginCommand(c) \/ BeginFails(c) \/ Caller(c)
  PROVE  Inv'
  <1> USE DEF genVars, linkVars, closeVars, callerVars, ServerPart, HandlerPart, CallerPart
  <1>1. CASE BeginCommand(c)
    <2>1. nextCommandId' \in Commands /\ nextCommandId' = nextCommandId + 1
      BY <1>1 DEF Inv, TypeOK, BeginCommand, Commands
    <2>2. /\ cid' = [cid EXCEPT ![c] = nextCommandId'] /\ cpc' = [cpc EXCEPT ![c] = "send"]
          /\ outcome' = [outcome EXCEPT ![c] = NoCommand]
          /\ cgen' = [cgen EXCEPT ![c] = iclient]
          /\ UNCHANGED <<iclient, ServerPart, HandlerPart, queue>>
      BY <1>1 DEF BeginCommand
    <2>3. PICK k \in ChosenConns(iclient) : cconn' = [cconn EXCEPT ![c] = k]
      BY <1>1 DEF BeginCommand
    <2>4. k \in Conns
      BY <2>3 DEF ChosenConns
    <2>5. TypeOK'
      <3>1. cid' \in [Callers -> Commands] /\ outcome' \in [Callers -> Commands]
        BY <2>1, <2>2 DEF Inv, TypeOK, Commands, NoCommand
      <3>2. /\ cpc' \in [Callers -> {"idle", "send", "wait"}]
            /\ cgen' \in [Callers -> Gens] /\ cconn' \in [Callers -> Conns]
        BY <2>2, <2>3, <2>4 DEF Inv, TypeOK
      <3> QED
        BY <2>1, <2>2, <3>1, <3>2 DEF Inv, TypeOK
    <2>6. OwnResponse'
      BY <2>2 DEF Inv, TypeOK, OwnResponse
    <2>7. OneCallerPerCommand' /\ Issued'
      BY <2>1, <2>2 DEF Inv, TypeOK, OneCallerPerCommand, Issued, Commands
    <2> QED
      BY <2>2, <2>5, <2>6, <2>7, Frame DEF Inv
  <1>2. CASE BeginFails(c) \/ CallerTimesOut(c)
    <2>1. /\ End(c, NoCommand)
          /\ UNCHANGED <<cid, nextCommandId, iclient, queue, ServerPart, HandlerPart>>
      BY <1>2 DEF BeginFails, CallerTimesOut
    <2> QED
      BY <2>1, EndKeeps, Frame DEF Inv, TypeOK
  <1>3. CASE SendToChan(c)
    <2>1. /\ cpc[c] = "send" /\ cpc' = [cpc EXCEPT ![c] = "wait"]
          /\ queue' = [queue EXCEPT ![Link(c)] = Append(@, cid[c])]
          /\ UNCHANGED <<cgen, cconn, cid, outcome, nextCommandId, iclient, ServerPart, HandlerPart>>
      BY <1>3 DEF SendToChan, CallerAt
    <2>2. Link(c) \in Links /\ cid[c] \in Commands
      BY DEF Inv, TypeOK, Link, Links
    <2>3. queue' \in [Links -> Seq(Commands)]
      BY <2>1, <2>2 DEF Inv, TypeOK
    <2>4. TypeOK'
      BY <2>1, <2>3 DEF Inv, TypeOK
    <2>5. OwnResponse' /\ OneCallerPerCommand' /\ Issued'
      BY <2>1 DEF Inv, TypeOK, OwnResponse, OneCallerPerCommand, Issued
    <2> QED
      BY <2>1, <2>4, <2>5, Frame DEF Inv
  <1>4. CASE SendPanics(c)
    <2>1. UNCHANGED <<cgen, cconn, CallerPart, iclient, queue, ServerPart, HandlerPart>>
      BY <1>4 DEF SendPanics
    <2> QED
      BY <2>1, Frame DEF Inv, TypeOK
  <1> QED
    BY <1>1, <1>2, <1>3, <1>4 DEF Caller

\* setFatalError; return, from wherever connHandler is.
LEMMA HandlerEnds ==
  ASSUME Inv, NEW l \in Links, hpc' = [hpc EXCEPT ![l] = "returned"],
         hcmd' \in {hcmd, [hcmd EXCEPT ![l] = NoCommand]}, hresp' = hresp,
         queue' \in [Links -> Seq(Commands)],
         UNCHANGED <<iclient, ServerPart, CallerPart, cgen, cconn>>
  PROVE  Inv'
  <1> USE DEF ServerPart, HandlerPart, CallerPart
  <1>1. NoCommand \in Commands
    BY DEF NoCommand, Commands
  <1>2. hpc' \in [Links -> HandlerLabels] /\ hcmd' \in [Links -> Commands]
    BY <1>1 DEF Inv, TypeOK, HandlerLabels
  <1>3. TypeOK'
    BY <1>2 DEF Inv, TypeOK
  <1>4. Handover'
    BY DEF Inv, TypeOK, Handover
  <1> QED
    BY <1>3, <1>4, Frame DEF Inv

\* connHandler, before it has a response to hand over.
LEMMA HandlerInv ==
  ASSUME Inv, NEW l \in Links, Handler(l) \/ Records(l)
  PROVE  Inv'
  <1> USE DEF genVars, linkVars, closeVars, callerVars, ServerPart, HandlerPart, CallerPart
  <1>1. queue[l] # <<>> => Head(queue[l]) \in Commands /\ Tail(queue[l]) \in Seq(Commands)
    BY DEF Inv, TypeOK
  <1>2. CASE TakeCommand(l)
    <2>1. /\ queue[l] # <<>> /\ hcmd' = [hcmd EXCEPT ![l] = Head(queue[l])]
          /\ queue' = [queue EXCEPT ![l] = Tail(@)] /\ hpc' = [hpc EXCEPT ![l] = "read"]
          /\ UNCHANGED <<hresp, iclient, ServerPart, CallerPart, cgen, cconn>>
      BY <1>2 DEF TakeCommand
    <2>2. /\ hpc' \in [Links -> HandlerLabels] /\ hcmd' \in [Links -> Commands]
          /\ queue' \in [Links -> Seq(Commands)]
      BY <1>1, <2>1 DEF Inv, TypeOK, HandlerLabels
    <2>3. TypeOK'
      BY <2>1, <2>2 DEF Inv, TypeOK
    <2>4. Handover'
      BY <2>1 DEF Inv, TypeOK, Handover
    <2> QED
      BY <2>1, <2>3, <2>4, Frame DEF Inv
  <1>3. CASE WriteFails(l) \/ RangeEnds(l) \/ ReadFails(l) \/ ReadWrongRecord(l) \/ AnswerMessageFails(l)
    <2>1. /\ hpc' = [hpc EXCEPT ![l] = "returned"]
          /\ hcmd' \in {hcmd, [hcmd EXCEPT ![l] = NoCommand]} /\ hresp' = hresp
          /\ UNCHANGED <<iclient, ServerPart, CallerPart, cgen, cconn>>
      BY <1>3 DEF WriteFails, RangeEnds, ReadFails, ReadWrongRecord, AnswerMessageFails,
                  HandlerFails, HandlerReturns
    <2>2. \/ queue' = queue
          \/ queue[l] # <<>> /\ queue' = [queue EXCEPT ![l] = Tail(@)]
      BY <1>3 DEF WriteFails, RangeEnds, ReadFails, ReadWrongRecord, AnswerMessageFails
    <2>3. queue' \in [Links -> Seq(Commands)]
      BY <1>1, <2>2 DEF Inv, TypeOK
    <2> QED
      BY <2>1, <2>3, HandlerEnds
  <1>4. CASE ReadMessage(l) \/ AnswerMessage(l)
    <2>1. PICK label \in {"message", "read_again"} : hpc' = [hpc EXCEPT ![l] = label]
      BY <1>4 DEF ReadMessage, AnswerMessage
    <2>2. UNCHANGED <<hcmd, hresp, queue, iclient, ServerPart, CallerPart, cgen, cconn>>
      BY <1>4 DEF ReadMessage, AnswerMessage
    <2>3. hpc' \in [Links -> HandlerLabels]
      BY <2>1 DEF Inv, TypeOK, HandlerLabels
    <2>4. TypeOK'
      BY <2>2, <2>3 DEF Inv, TypeOK
    <2>5. Handover'
      BY <2>1, <2>2 DEF Inv, TypeOK, Handover
    <2> QED
      BY <2>2, <2>4, <2>5, Frame DEF Inv
  <1>5. ASSUME NEW exception \in BOOLEAN, NEW of, ReadResponse(l, exception, of)
        PROVE  Inv'
    <2>1. /\ hresp' = [hresp EXCEPT ![l] = hcmd[l]] /\ hpc' = [hpc EXCEPT ![l] = "respond"]
          /\ UNCHANGED <<hcmd, queue, iclient, ServerPart, CallerPart, cgen, cconn>>
      BY <1>5 DEF ReadResponse
    <2>2. hpc' \in [Links -> HandlerLabels] /\ hresp' \in [Links -> Commands]
      BY <2>1 DEF Inv, TypeOK, HandlerLabels
    <2>3. TypeOK'
      BY <2>1, <2>2 DEF Inv, TypeOK
    <2>4. Handover'
      BY <2>1 DEF Inv, TypeOK, Handover
    <2> QED
      BY <2>1, <2>3, <2>4, Frame DEF Inv
  <1>6. CASE Respond(l)
    <2>1. /\ hpc[l] = "respond" /\ (\E label \in {"returned", "range"} : hpc' = [hpc EXCEPT ![l] = label])
          /\ hcmd' = [hcmd EXCEPT ![l] = NoCommand] /\ hresp' = [hresp EXCEPT ![l] = NoCommand]
          /\ UNCHANGED <<cid, nextCommandId, queue, iclient, ServerPart>>
      BY <1>6 DEF Respond, HandlerAt, HandlerReturns
    <2>2. PICK c \in Callers : cid[c] = hcmd[l] /\ End(c, hresp[l])
      BY <1>6 DEF Respond
    <2>3. hresp[l] = cid[c]
      BY <2>1, <2>2 DEF Inv, Handover
    <2>4. NoCommand \in Commands
      BY DEF NoCommand, Commands
    <2>5. PICK label \in {"returned", "range"} : hpc' = [hpc EXCEPT ![l] = label]
      BY <2>1
    <2>6. /\ hpc' \in [Links -> HandlerLabels] /\ hcmd' \in [Links -> Commands]
          /\ hresp' \in [Links -> Commands]
      BY <2>1, <2>4, <2>5 DEF Inv, TypeOK, HandlerLabels
    <2>7. /\ OwnResponse' /\ OneCallerPerCommand' /\ Issued'
          /\ cpc' \in [Callers -> {"idle", "send", "wait"}]
          /\ cgen' \in [Callers -> Gens] /\ cconn' \in [Callers -> Conns]
          /\ outcome' \in [Callers -> Commands]
      BY <2>1, <2>2, <2>3, EndKeeps
    <2>8. TypeOK'
      BY <2>1, <2>6, <2>7 DEF Inv, TypeOK
    <2>9. Handover'
      BY <2>1, <2>5 DEF Inv, TypeOK, Handover
    <2> QED
      BY <2>1, <2>7, <2>8, <2>9, Frame DEF Inv
  <1> QED
    BY <1>2, <1>3, <1>4, <1>5, <1>6 DEF Handler, Records

\* A process exits, or its watcher makes a step.
LEMMA ProcessInv ==
  ASSUME Inv, NEW g \in Gens, ServerExits(g) \/ Crash(g) \/ Watcher(g)
  PROVE  Inv'
  <1> USE DEF genVars, linkVars, closeVars, callerVars, ServerPart, HandlerPart, CallerPart
  <1>1. CASE ServerExits(g) \/ Crash(g)
    <2>1. /\ alive' = [alive EXCEPT ![g] = FALSE]
          /\ UNCHANGED <<iclient, gens, wpc, queue, HandlerPart, CallerPart, cgen, cconn>>
      BY <1>1 DEF ServerExits, Crash, Exit
    <2>2. alive' \in [Gens -> BOOLEAN]
      BY <2>1, Zenon DEF Inv, TypeOK
    <2>3. TypeOK'
      BY <2>1, <2>2 DEF Inv, TypeOK
    <2>4. Generations'
      BY <2>1 DEF Inv, TypeOK, Generations
    <2> QED
      BY <2>1, <2>3, <2>4, Frame DEF Inv
  <1>2. CASE ProcessWaitReturns(g) \/ RestartFails(g) \/ StoreClient(g)
    <2>1. /\ UNCHANGED <<gens, alive, queue, HandlerPart, CallerPart, cgen, cconn>>
          /\ iclient' \in {iclient, gens}
      BY <1>2 DEF ProcessWaitReturns, RestartFails, StoreClient
    <2>2. \/ wpc[g] = "watching" /\ ~alive[g] /\ wpc' = [wpc EXCEPT ![g] = "restart"]
          \/ wpc[g] = "restart" /\ wpc' = [wpc EXCEPT ![g] = "failed"]
          \/ wpc[g] = "store" /\ wpc' = [wpc EXCEPT ![g] = "done"]
      BY <1>2 DEF ProcessWaitReturns, RestartFails, StoreClient, WatcherAt
    <2>3. wpc' \in [Gens -> WatcherLabels]
      BY <2>2 DEF Inv, TypeOK, WatcherLabels
    <2>4. TypeOK'
      BY <2>1, <2>3 DEF Inv, TypeOK
    <2>5. Generations'
      BY <2>1, <2>2 DEF Inv, TypeOK, Generations
    <2> QED
      BY <2>1, <2>4, <2>5, Frame DEF Inv
  <1>3. CASE Restart(g)
    <2>1. /\ wpc[g] = "restart" /\ gens < MaxGens /\ gens' = gens + 1
          /\ alive' = [alive EXCEPT ![gens'] = TRUE]
          /\ wpc' = [wpc EXCEPT ![g] = "store", ![gens'] = "watching"]
          /\ hpc' = [l \in Links |-> IF l[1] = gens' THEN "range" ELSE hpc[l]]
          /\ UNCHANGED <<iclient, queue, hcmd, hresp, CallerPart, cgen, cconn>>
      BY <1>3 DEF Restart, WatcherAt
    <2>2. gens' \in Gens /\ gens' # gens /\ gens = g
      BY <2>1 DEF Inv, TypeOK, Generations, Gens
    <2>3. \A h \in Gens : ~alive[h]
      BY <2>1, <2>2 DEF Inv, Generations
    <2>4. alive' \in [Gens -> BOOLEAN]
      BY <2>1, Zenon DEF Inv, TypeOK
    <2>5. wpc' \in [Gens -> WatcherLabels] /\ hpc' \in [Links -> HandlerLabels]
      BY <2>1, <2>2 DEF Inv, TypeOK, WatcherLabels, HandlerLabels
    <2>6. TypeOK'
      BY <2>1, <2>2, <2>4, <2>5 DEF Inv, TypeOK
    <2>7. Generations'
      BY <2>1, <2>2, <2>3 DEF Inv, TypeOK, Generations
    <2>8. Handover'
      BY <2>1 DEF Inv, TypeOK, Handover
    <2> QED
      BY <2>1, <2>6, <2>7, <2>8, Frame DEF Inv
  <1> QED
    BY <1>1, <1>2, <1>3 DEF Watcher

\* Every step keeps the invariant.
LEMMA NextInv == Inv /\ [Next]_vars => Inv'
  <1> SUFFICES ASSUME Inv, [Next]_vars PROVE Inv'
    OBVIOUS
  <1>1. CASE CloseChannels \/ Close \/ UNCHANGED vars \/ \E g \in Gens : KeepBusy(g) \/ Pause(g)
    <2>1. UNCHANGED <<iclient, queue, cgen, cconn, ServerPart, HandlerPart, CallerPart>>
      BY <1>1 DEF KeepBusy, Pause, CloseChannels, Close, CloseConns, CloseReturns, vars, genVars, linkVars,
                  callerVars, ServerPart, HandlerPart, CallerPart
    <2>2. TypeOK'
      BY <2>1 DEF Inv, TypeOK, ServerPart, HandlerPart, CallerPart
    <2> QED
      BY <2>1, <2>2, Frame DEF Inv
  <1> QED
    BY <1>1, CallerInv, HandlerInv, ProcessInv DEF Next

-----------------------------------------------------------------------------
(***************************************************************************)
(* The theorems                                                             *)
(***************************************************************************)

\* The state of callers, handlers and watchers fits together at all times.
THEOREM ClientState == Spec => []Inv
  BY InitInv, NextInv, PTL DEF Spec

\* Whatever the server sends, and however responses, timeouts, exits and restarts cross, a
\* caller of sendRawCommand gets its own response or an error.
THEOREM ResponsesAreOwn == Spec => []OwnResponse
  <1>1. Inv => OwnResponse
    BY DEF Inv
  <1> QED
    BY <1>1, ClientState, PTL

\* initJSockDClient starts a process only when the one before it has exited, however often
\* it is started again.
THEOREM OneServer == Spec => []AtMostOneServer
  <1>1. Inv => AtMostOneServer
    <2> SUFFICES ASSUME Inv PROVE AtMostOneServer
      OBVIOUS
    <2>1. {g \in Gens : alive[g]} \in SUBSET {gens}
      BY DEF Inv, Generations
    <2>2. IsFiniteSet({gens}) /\ Cardinality({gens}) = 1
      BY FS_Singleton
    <2> HIDE DEF AtMostOneServer
    <2>3. Cardinality({g \in Gens : alive[g]}) <= Cardinality({gens})
      BY <2>1, <2>2, FS_Subset
    <2> QED
      BY <2>2, <2>3 DEF AtMostOneServer
  <1> QED
    BY <1>1, ClientState, PTL

\* The id of a command belongs to one caller: the response that connHandler hands over
\* reaches nobody else.
THEOREM IdsAreUnique == Spec => []OneCallerPerCommand
  <1>1. Inv => OneCallerPerCommand
    BY DEF Inv
  <1> QED
    BY <1>1, ClientState, PTL
=============================================================================
