---------------------------- MODULE CommandThread ----------------------------
(***************************************************************************)
(* One socket of jsockd: the thread that runs command_loop (main.c), the    *)
(* client at the other end of its socket, the background threads that build *)
(* a replacement interpreter and clean the old one up, and main's joining   *)
(* and destroying of it all.                                                *)
(*                                                                         *)
(* A ThreadState is a record `ts'; its malloc'ed replacement is `r'.  A     *)
(* QuickJS runtime is [id, intr]: intr is the address (of ts or of r) that  *)
(* JS_SetInterruptHandler was given.  Lines are abstracted to their kind:   *)
(* "text" is a field of a command, "cut" a field that did not fit into the  *)
(* buffer, and the others are the ? commands ("?stat" stands for those that *)
(* only write an answer: ?exectime, ?memusage and the bad ones).            *)
(***************************************************************************)
EXTENDS Integers, Sequences

CONSTANTS
    LineKinds,       \* the kinds of line that the client sends
    IdleShutdown,    \* thread_index # 0 and max_idle_time_us # 0
    MayFail,         \* may system calls and the interpreter's initialisation fail?
    CheckInterval,   \* MEMORY_CHECK_INTERVAL
    MaxIncreases,    \* MEMORY_INCREASE_MAX_COUNT
    MaxUsage,        \* bound: memory usage of an interpreter
    MaxPipeline,     \* bound: lines in the socket's buffer
    MaxRuntimes      \* bound: interpreters created

ASSUME LineKindsAssumption == LineKinds \subseteq {"text", "cut", "?quit", "?reset", "?stat"}
ASSUME FlagsAssumption == IdleShutdown \in BOOLEAN /\ MayFail \in BOOLEAN
ASSUME BoundsAssumption ==
    /\ CheckInterval \in Nat \ {0} /\ MaxIncreases \in Nat /\ MaxUsage \in Nat
    /\ MaxPipeline \in Nat \ {0} /\ MaxRuntimes \in Nat \ {0}

VARIABLES
    \* the client and the socket
    pos,            \* fields of the current command that the client has sent
    inbox,          \* lines sent and not yet handled
    eof,            \* has the client closed the socket?
    \* the interpreter thread
    pc,
    ts,
    exit_status,
    interrupted,    \* g_interrupted_or_error
    stream_io_err,
    reply,          \* the answer to the last command, until the next one begins
    cut,            \* history: the fields of the current command that were cut
    lost,           \* history: was a reference to a cached function overwritten?
    \* its replacement
    rts,            \* replacement_thread_state
    bg,             \* replacement_thread
    r,              \* my_replacement
    live,           \* the runtimes that exist
    created,        \* how many were created
    failed,         \* history: did a call fail?
    \* the main thread
    main

clientVars == <<pos, inbox, eof>>
threadVars == <<pc, exit_status, interrupted, stream_io_err, reply, cut, lost>>
replVars == <<rts, bg, r, live, created>>
vars == <<clientVars, threadVars, ts, replVars, failed, main>>

NULL == [id |-> 0, intr |-> "none"]
NoStruct == [rt |-> NULL]
NoReply == [status |-> "none", uuid |-> "none", cut |-> {}]

\* What init_thread_state leaves in a ThreadState.
FreshStruct(rt) ==
    [line_n |-> 0, compiled_query |-> "undefined", current_uuid |-> "none",
     memory_check_count |-> 0, memory_increase_count |-> 0, last_memory_usage |-> 0,
     dangling_bytecode |-> FALSE, cached_function_in_use |-> FALSE,
     idle |-> FALSE, rt |-> rt]

NewRuntime(address) == [id |-> created + 1, intr |-> address]

\* Mutant: dangling_bytecode is freed but not set to NULL.
CleanupCommandStateKeepsDangling(s) ==
    [s EXCEPT !.compiled_query = "undefined", !.cached_function_in_use = FALSE]

\* cleanup_command_state and cleanup_thread_state.
CleanupCommandState(s) ==
    [s EXCEPT !.compiled_query = "undefined", !.dangling_bytecode = FALSE,
              !.cached_function_in_use = FALSE]

CleanupThreadState(s) == [CleanupCommandState(s) EXCEPT !.rt = NULL]

Init ==
    /\ pos = 0 /\ inbox = <<>> /\ eof = FALSE
    /\ pc = "accept" /\ exit_status = 0 /\ interrupted = FALSE /\ stream_io_err = FALSE
    /\ reply = NoReply /\ cut = {} /\ lost = FALSE
    /\ ts = FreshStruct([id |-> 1, intr |-> "ts"])
    /\ rts = "NONE" /\ bg = "none" /\ r = NoStruct /\ live = {1} /\ created = 1
    /\ failed = FALSE /\ main = "joining"

-----------------------------------------------------------------------------
(***************************************************************************)
(* The environment: the client, the clock, and whatever else stops jsockd   *)
(***************************************************************************)

\* Once the thread has ended nobody looks at what happens on its socket.
Running == pc \notin {"exited", "aborted", "killed"}

\* The field that the client sends next, after a line of this kind.
NextField(p, kind) ==
    CASE kind \in {"text", "cut"} -> (p + 1) % 3
      [] kind = "?reset" -> 0
      [] OTHER -> p

ClientSend(kind) ==
    /\ Running /\ ~eof /\ Len(inbox) < MaxPipeline
    /\ inbox' = Append(inbox, [kind |-> kind, field |-> pos])
    /\ pos' = NextField(pos, kind)
    /\ UNCHANGED <<eof, threadVars, ts, replVars, failed, main>>

ClientClose ==
    /\ Running /\ ~eof /\ pc # "accept"
    /\ eof' = TRUE
    /\ UNCHANGED <<pos, inbox, threadVars, ts, replVars, failed, main>>

\* A signal, or the end of another thread.
Interrupt ==
    /\ Running /\ ~interrupted
    /\ interrupted' = TRUE
    /\ UNCHANGED <<clientVars, pc, exit_status, stream_io_err, reply, cut, lost, ts,
                   replVars, failed, main>>

\* max_idle_time_us go by since last_active_time.
TimePasses ==
    /\ IdleShutdown /\ ~ts.idle /\ created < MaxRuntimes
    /\ pc \in {"tick", "poll", "js"}
    /\ ts' = [ts EXCEPT !.idle = TRUE]
    /\ UNCHANGED <<clientVars, threadVars, replVars, failed, main>>

-----------------------------------------------------------------------------
(***************************************************************************)
(* command_loop                                                             *)
(***************************************************************************)

Exit(status) ==
    /\ pc' = "exited"
    /\ interrupted' = TRUE
    /\ exit_status' = IF status = 0 THEN exit_status ELSE status

Accept ==
    /\ pc = "accept"
    /\ pc' = "tick"
    /\ UNCHANGED <<clientVars, exit_status, interrupted, stream_io_err, reply, cut, lost, ts,
                   replVars, failed, main>>

\* poll_fd times out and finds g_interrupted_or_error set before a client came.
AcceptInterrupted ==
    /\ pc = "accept" /\ interrupted
    /\ Exit(0)
    /\ UNCHANGED <<clientVars, stream_io_err, reply, cut, lost, ts, replVars, failed, main>>

AcceptFails ==
    /\ pc = "accept" /\ MayFail
    /\ Exit(-1)
    /\ failed' = TRUE
    /\ UNCHANGED <<clientVars, stream_io_err, reply, cut, lost, ts, replVars, main>>

\* Mutant: an interpreter is shut down in the middle of a command.
MayShutDownMidCommand(s) == IdleShutdown /\ s.rt # NULL /\ s.idle /\ rts = "NONE"

\* Mutant: the test for an interpreter that is already shut down is inverted.
MayShutDownInverted(s) == IdleShutdown /\ s.line_n = 0 /\ s.rt = NULL /\ s.idle /\ rts = "NONE"

\* tick_handler: may the idle interpreter be shut down?
MayShutDown(s) == IdleShutdown /\ s.line_n = 0 /\ s.rt # NULL /\ s.idle /\ rts = "NONE"

Tick ==
    /\ pc = "tick"
    /\ pc' = "poll"
    /\ IF MayShutDown(ts)
       THEN ts' = CleanupThreadState(ts) /\ live' = live \ {ts.rt.id}
       ELSE UNCHANGED <<ts, live>>
    /\ UNCHANGED <<clientVars, exit_status, interrupted, stream_io_err, reply, cut, lost,
                   rts, bg, r, created, failed, main>>

\* poll_fd looks at g_interrupted_or_error only when it times out.
PollTimeout ==
    /\ pc = "poll" /\ inbox = <<>> /\ ~eof
    /\ IF interrupted THEN Exit(0) ELSE pc' = "tick" /\ UNCHANGED <<interrupted, exit_status>>
    /\ UNCHANGED <<clientVars, stream_io_err, reply, cut, lost, ts, replVars, failed, main>>

\* The socket is readable: wake a shut down interpreter, then read.
PollReady ==
    /\ pc = "poll" /\ (inbox # <<>> \/ eof)
    /\ IF ts.rt # NULL
       THEN pc' = "handle" /\ UNCHANGED <<ts, live, created>>
       ELSE IF rts # "NONE"
       THEN pc' = "aborted" /\ UNCHANGED <<ts, live, created>>
       ELSE /\ pc' = "handle"
            /\ ts' = FreshStruct(NewRuntime("ts"))
            /\ created' = created + 1
            /\ live' = live \cup {created + 1}
    /\ UNCHANGED <<clientVars, exit_status, interrupted, stream_io_err, reply, cut, lost,
                   rts, bg, r, failed, main>>

\* The result of init_thread_state is ignored, and there is no runtime to register.
WakeFails ==
    /\ pc = "poll" /\ (inbox # <<>> \/ eof) /\ ts.rt = NULL /\ MayFail
    /\ pc' = "aborted"
    /\ failed' = TRUE
    /\ UNCHANGED <<clientVars, exit_status, interrupted, stream_io_err, reply, cut, lost, ts,
                   replVars, main>>

\* The result is ignored as well when the module does not load: the interpreter is
\* used without its interrupt handler, and nothing remembers the failure.
WakeHalfInitialised ==
    /\ pc = "poll" /\ (inbox # <<>> \/ eof) /\ ts.rt = NULL /\ rts = "NONE" /\ MayFail
    /\ pc' = "handle"
    /\ ts' = FreshStruct(NewRuntime("none"))
    /\ created' = created + 1
    /\ live' = live \cup {created + 1}
    /\ UNCHANGED <<clientVars, exit_status, interrupted, stream_io_err, reply, cut, lost,
                   rts, bg, r, failed, main>>

ReadEof ==
    /\ pc = "handle" /\ inbox = <<>> /\ eof
    /\ Exit(0)
    /\ UNCHANGED <<clientVars, stream_io_err, reply, cut, lost, ts, replVars, failed, main>>

\* read or clock_gettime fails.
ReadFails ==
    /\ pc = "handle" /\ MayFail
    /\ Exit(-1)
    /\ failed' = TRUE
    /\ UNCHANGED <<clientVars, stream_io_err, reply, cut, lost, ts, replVars, main>>

-----------------------------------------------------------------------------
(***************************************************************************)
(* line_handler.  One read may hold several lines; as the clock has just    *)
(* been read for last_active_time, going round command_loop between two of  *)
(* them changes nothing, and the model always does.                         *)
(***************************************************************************)

Handling(kinds) == pc = "handle" /\ inbox # <<>> /\ Head(inbox).kind \in kinds

\* The handler returned 0: line_buf_replay moves past the line.
Consumed == inbox' = Tail(inbox) /\ pc' = "tick" /\ UNCHANGED <<interrupted, exit_status>>

\* The handler failed; command_loop ends the thread.
HandlerFails == Exit(-1) /\ UNCHANGED inbox

\* A write to the socket, which fails when the client is gone.
Write == stream_io_err' \in {stream_io_err, stream_io_err \/ eof}

Answer(status, cuts) ==
    /\ reply' = [status |-> status, uuid |-> ts.current_uuid, cut |-> cuts]
    /\ Write

\* The lines that make the thread write to the socket.
Answers ==
    \/ pc = "js"
    \/ Handling({"?quit", "?reset", "?stat"})
    \/ Handling({"cut"}) /\ ts.line_n = 2
    \/ Handling({"text"}) /\ ts.line_n = 2 /\ ts.compiled_query = "exception"

\* Nothing ignores SIGPIPE: unless the parent process did, a write to a socket that the
\* client has closed kills the server on the spot.
BrokenPipe ==
    /\ Answers /\ eof
    /\ pc' = "killed"
    /\ UNCHANGED <<clientVars, exit_status, interrupted, stream_io_err, reply, cut, lost, ts,
                   replVars, failed, main>>

\* A line that was cut.  ts->truncated is set here but nothing ever reads it.
HandleCut ==
    /\ Handling({"cut"})
    /\ Consumed
    /\ cut' = IF ts.line_n = 0 THEN {0} ELSE cut \cup {ts.line_n}
    /\ IF ts.line_n = 2
       THEN /\ ts' = [ts EXCEPT !.line_n = 0, !.compiled_query = "undefined", !.idle = FALSE]
            /\ Answer("exception", cut')
       ELSE /\ ts' = [ts EXCEPT !.line_n = @ + 1, !.idle = FALSE,
                                !.current_uuid = IF ts.line_n = 0 /\ @ # "none" THEN "stale" ELSE @]
            /\ reply' = NoReply /\ UNCHANGED stream_io_err
    /\ UNCHANGED <<pos, eof, lost, replVars, failed, main>>

HandleQuit ==
    /\ Handling({"?quit"})
    /\ ts' = [ts EXCEPT !.compiled_query = "undefined", !.idle = FALSE]
    /\ Write
    /\ Exit(0)
    /\ UNCHANGED <<clientVars, reply, cut, lost, replVars, failed, main>>

\* Mutant: ?reset resets line_n but leaves the compiled query in place.
HandleResetKeepsQuery ==
    /\ Handling({"?reset"})
    /\ ts' = [ts EXCEPT !.line_n = 0, !.idle = FALSE]
    /\ Write
    /\ Consumed
    /\ UNCHANGED <<pos, eof, reply, cut, lost, replVars, failed, main>>


HandleReset ==
    /\ Handling({"?reset"})
    /\ ts' = [CleanupCommandState(ts) EXCEPT !.line_n = 0, !.idle = FALSE]
    /\ Write
    /\ Consumed
    /\ UNCHANGED <<pos, eof, reply, cut, lost, replVars, failed, main>>

HandleStat ==
    /\ Handling({"?stat"})
    /\ ts' = [ts EXCEPT !.idle = FALSE]
    /\ Write
    /\ Consumed
    /\ UNCHANGED <<pos, eof, reply, cut, lost, replVars, failed, main>>

-----------------------------------------------------------------------------
(***************************************************************************)
(* handle_line_1_message_uid                                                *)
(***************************************************************************)

\* The replacement is ready: swap the two structures and replay the line.
SwapStructs ==
    /\ rts = "INIT_COMPLETE"
    /\ ts' = r
    /\ r' = [ts EXCEPT !.idle = FALSE]

\* Mutant: the swap is not confined to the first line of a command.
TrampolineAnyLine ==
    /\ Handling({"text"})
    /\ SwapStructs
    /\ rts' = "CLEANUP"
    /\ bg' = "cleaning"
    /\ UNCHANGED <<clientVars, threadVars, live, created, failed, main>>


TrampolineLine1 ==
    /\ Handling({"text"}) /\ ts.line_n = 0
    /\ SwapStructs
    /\ rts' = "CLEANUP"
    /\ bg' = "cleaning"
    /\ UNCHANGED <<clientVars, threadVars, live, created, failed, main>>

\* pthread_create of the cleanup thread fails.
TrampolineFails ==
    /\ Handling({"text"}) /\ ts.line_n = 0 /\ MayFail
    /\ SwapStructs
    /\ rts' = "NONE"
    /\ bg' = "none"
    /\ failed' = TRUE
    /\ HandlerFails
    /\ UNCHANGED <<pos, eof, stream_io_err, reply, cut, lost, live, created, main>>

\* Mutant: the cleanup thread is not joined.
HandleLine1NoJoin ==
    /\ Handling({"text"}) /\ ts.line_n = 0 /\ rts # "INIT_COMPLETE"
    /\ ts' = [ts EXCEPT !.line_n = 1, !.current_uuid = "current", !.idle = FALSE]
    /\ cut' = {}
    /\ reply' = NoReply
    /\ rts' = IF rts = "CLEANUP_COMPLETE" THEN "NONE" ELSE rts
    /\ Consumed
    /\ UNCHANGED <<pos, eof, stream_io_err, lost, bg, r, live, created, failed, main>>


HandleLine1 ==
    /\ Handling({"text"}) /\ ts.line_n = 0 /\ rts # "INIT_COMPLETE"
    /\ ts' = [ts EXCEPT !.line_n = 1, !.current_uuid = "current", !.idle = FALSE]
    /\ cut' = {}
    /\ reply' = NoReply
    /\ IF rts = "CLEANUP_COMPLETE"
       THEN rts' = "NONE" /\ bg' = "none"
       ELSE UNCHANGED <<rts, bg>>
    /\ Consumed
    /\ UNCHANGED <<pos, eof, stream_io_err, lost, r, live, created, failed, main>>

-----------------------------------------------------------------------------
(***************************************************************************)
(* handle_line_2_query                                                      *)
(***************************************************************************)

\* func_from_bytecode may still fail on bytecode that was compiled or found.
Line2(query, cached, dangling) ==
    /\ Handling({"text"}) /\ ts.line_n = 1
    /\ ts' = [ts EXCEPT !.line_n = 2, !.compiled_query = query, !.idle = FALSE,
                        !.cached_function_in_use = cached, !.dangling_bytecode = dangling]
    /\ Consumed
    /\ UNCHANGED <<pos, eof, stream_io_err, reply, cut, replVars, failed, main>>

Queries == {"current", "exception"}

QueryFound ==
    /\ \E q \in Queries : Line2(q, ts.cached_function_in_use, ts.dangling_bytecode)
    /\ UNCHANGED lost

QueryDoesNotCompile ==
    /\ Line2("exception", ts.cached_function_in_use, ts.dangling_bytecode)
    /\ UNCHANGED lost

QueryCached ==
    /\ \E q \in Queries : Line2(q, TRUE, ts.dangling_bytecode)
    /\ lost' = (lost \/ ts.cached_function_in_use)

QueryNotCached ==
    /\ ~ts.dangling_bytecode
    /\ \E q \in Queries : Line2(q, FALSE, TRUE)
    /\ lost' = (lost \/ ts.cached_function_in_use)

\* assert(ts->dangling_bytecode == NULL)
DanglingAssertFails ==
    /\ Handling({"text"}) /\ ts.line_n = 1 /\ ts.dangling_bytecode
    /\ pc' = "aborted"
    /\ UNCHANGED <<clientVars, exit_status, interrupted, stream_io_err, reply, cut, lost, ts,
                   replVars, failed, main>>

-----------------------------------------------------------------------------
(***************************************************************************)
(* handle_line_3_parameter                                                  *)
(***************************************************************************)

\* The end of every command: cleanup_command_state, line_n = 0.
EndOfCommand(s) == [CleanupCommandState(s) EXCEPT !.line_n = 0, !.idle = FALSE]

\* The handler returns stream_io_err.
ReturnStreamIoErr == IF stream_io_err' THEN HandlerFails ELSE Consumed

AnswerCompileError ==
    /\ Handling({"text"}) /\ ts.line_n = 2 /\ ts.compiled_query = "exception"
    /\ ts' = EndOfCommand(ts)
    /\ Answer("exception", cut)
    /\ ReturnStreamIoErr
    /\ UNCHANGED <<pos, eof, cut, lost, replVars, failed, main>>

StartJs ==
    /\ Handling({"text"}) /\ ts.line_n = 2 /\ ts.compiled_query # "exception"
    /\ pc' = "js"
    /\ ts' = [ts EXCEPT !.idle = FALSE]
    /\ UNCHANGED <<clientVars, exit_status, interrupted, stream_io_err, reply, cut, lost,
                   replVars, failed, main>>

\* The parameter is no JSON, the call throws or is interrupted, the result cannot
\* be serialized.  Calling the undefined query of a cut line always throws.
AnswerException ==
    /\ pc = "js"
    /\ ts' = EndOfCommand(ts)
    /\ Answer("exception", cut)
    /\ ReturnStreamIoErr
    /\ UNCHANGED <<pos, eof, cut, lost, replVars, failed, main>>

\* clock_gettime fails before or after the call: no answer is written.
CommandClockFails ==
    /\ pc = "js" /\ MayFail
    /\ ts' = EndOfCommand(ts)
    /\ failed' = TRUE
    /\ HandlerFails
    /\ UNCHANGED <<pos, eof, stream_io_err, reply, cut, lost, replVars, main>>

\* The answer "ok", with no memory check or one that finds no reset necessary.
AnswerOk ==
    /\ pc = "js" /\ ts.compiled_query = "current"
    /\ Answer("ok", cut)
    /\ LET count == (ts.memory_check_count + 1) % CheckInterval
           s == [EndOfCommand(ts) EXCEPT !.memory_check_count = count]
       IN  IF count = 0 /\ rts = "NONE"
           THEN \E usage \in 1 .. MaxUsage :
                  IF usage > ts.last_memory_usage
                  THEN /\ ts.memory_increase_count + 1 <= MaxIncreases
                       /\ ts' = [s EXCEPT !.last_memory_usage = usage,
                                          !.memory_increase_count = @ + 1]
                  ELSE ts' = [s EXCEPT !.memory_increase_count = 0]
           ELSE ts' = s
    /\ ReturnStreamIoErr
    /\ UNCHANGED <<pos, eof, cut, lost, replVars, failed, main>>

\* The memory check finds one increase too many.
NeedsReset(usage) ==
    /\ pc = "js" /\ ts.compiled_query = "current"
    /\ (ts.memory_check_count + 1) % CheckInterval = 0 /\ rts = "NONE"
    /\ usage > ts.last_memory_usage
    /\ ts.memory_increase_count + 1 > MaxIncreases

AnswerOkAndReset(usage) ==
    /\ NeedsReset(usage) /\ created < MaxRuntimes
    /\ Answer("ok", cut)
    /\ ts' = [EndOfCommand(ts) EXCEPT !.memory_check_count = 0, !.last_memory_usage = usage,
                                      !.memory_increase_count = 0]
    /\ rts' = "INIT"
    /\ bg' = "starting"
    /\ ReturnStreamIoErr
    /\ UNCHANGED <<pos, eof, cut, lost, r, live, created, failed, main>>

\* pthread_create fails.
ResetFails(usage) ==
    /\ NeedsReset(usage) /\ MayFail
    /\ Answer("ok", cut)
    /\ ts' = [EndOfCommand(ts) EXCEPT !.memory_check_count = 0, !.last_memory_usage = usage,
                                      !.memory_increase_count = @ + 1]
    /\ failed' = TRUE
    /\ HandlerFails
    /\ UNCHANGED <<pos, eof, cut, lost, replVars, main>>

Line1 == TrampolineLine1 \/ TrampolineFails \/ HandleLine1
Line2Query == QueryFound \/ QueryDoesNotCompile \/ QueryCached \/ QueryNotCached \/ DanglingAssertFails
Line3 ==
    \/ AnswerCompileError \/ StartJs \/ AnswerException \/ CommandClockFails \/ AnswerOk
    \/ \E usage \in 1 .. MaxUsage : AnswerOkAndReset(usage) \/ ResetFails(usage)

-----------------------------------------------------------------------------
(***************************************************************************)
(* reset_thread_state_thread                                                *)
(***************************************************************************)

BgAllocate ==
    /\ bg = "starting"
    /\ bg' = "allocated"
    /\ r' = FreshStruct(NULL)
    /\ UNCHANGED <<clientVars, threadVars, ts, rts, live, created, failed, main>>

BgInit ==
    /\ bg = "allocated"
    /\ bg' = "finished"
    /\ r' = FreshStruct(NewRuntime("r"))
    /\ created' = created + 1
    /\ live' = live \cup {created + 1}
    /\ rts' = "INIT_COMPLETE"
    /\ UNCHANGED <<clientVars, threadVars, ts, failed, main>>

\* No runtime, or one whose module does not load; the state stays INIT for good.
BgInitFails ==
    /\ bg = "allocated" /\ MayFail
    /\ bg' = "finished"
    /\ interrupted' = TRUE
    /\ exit_status' = 1
    /\ failed' = TRUE
    /\ \/ UNCHANGED <<r, live, created>>
       \/ /\ r' = FreshStruct(NewRuntime("none"))
          /\ created' = created + 1
          /\ live' = live \cup {created + 1}
    /\ UNCHANGED <<clientVars, pc, stream_io_err, reply, cut, lost, ts, rts, main>>

(***************************************************************************)
(* cleanup_old_runtime, run by                                              *)
(* reset_thread_state_cleanup_old_runtime_thread                            *)
(***************************************************************************)

BgCleanup ==
    /\ bg = "cleaning"
    /\ bg' = "cleaned"
    /\ live' = live \ {r.rt.id}
    /\ r' = CleanupThreadState(r)
    /\ UNCHANGED <<clientVars, threadVars, ts, rts, created, failed, main>>

BgFree ==
    /\ bg = "cleaned"
    /\ bg' = "freed"
    /\ r' = NoStruct
    /\ UNCHANGED <<clientVars, threadVars, ts, rts, live, created, failed, main>>

BgComplete ==
    /\ bg = "freed"
    /\ bg' = "finished"
    /\ rts' = "CLEANUP_COMPLETE"
    /\ UNCHANGED <<clientVars, threadVars, ts, r, live, created, failed, main>>

-----------------------------------------------------------------------------
(***************************************************************************)
(* main: join the thread, then its background thread, then destroy          *)
(***************************************************************************)

\* Mutant: main joins a background thread even if there is none.
JoinThreadAlwaysBg ==
    /\ main = "joining" /\ pc = "exited"
    /\ main' = "joining_bg"
    /\ UNCHANGED <<clientVars, threadVars, ts, replVars, failed>>


JoinThread ==
    /\ main = "joining" /\ pc = "exited"
    /\ main' = IF rts = "NONE" THEN "joined" ELSE "joining_bg"
    /\ UNCHANGED <<clientVars, threadVars, ts, replVars, failed>>

JoinBg ==
    /\ main = "joining_bg" /\ bg = "finished"
    /\ main' = "joined"
    /\ bg' = "none"
    /\ UNCHANGED <<clientVars, threadVars, ts, rts, r, live, created, failed>>

\* Mutant: a replacement that was built and never used is forgotten.
DestroyThreadStateForgets ==
    /\ main = "joined"
    /\ main' = "done"
    /\ ts' = CleanupThreadState(ts)
    /\ live' = live \ {ts.rt.id}
    /\ UNCHANGED <<clientVars, threadVars, rts, r, bg, created, failed>>

\* destroy_thread_state
DestroyThreadState ==
    /\ main = "joined"
    /\ main' = "done"
    /\ ts' = CleanupThreadState(ts)
    /\ IF rts \in {"INIT_COMPLETE", "CLEANUP"}
       THEN r' = NoStruct /\ rts' = "CLEANUP_COMPLETE" /\ live' = live \ {ts.rt.id, r.rt.id}
       ELSE UNCHANGED <<r, rts>> /\ live' = live \ {ts.rt.id}
    /\ UNCHANGED <<clientVars, threadVars, bg, created, failed>>

-----------------------------------------------------------------------------
Loop == Accept \/ AcceptInterrupted \/ AcceptFails \/ Tick \/ PollTimeout \/ PollReady
        \/ WakeFails \/ WakeHalfInitialised \/ ReadEof \/ ReadFails

Lines == BrokenPipe \/ HandleCut \/ HandleQuit \/ HandleReset \/ HandleStat \/ Line1 \/ Line2Query \/ Line3

Background == BgAllocate \/ BgInit \/ BgInitFails \/ BgCleanup \/ BgFree \/ BgComplete

Main == JoinThread \/ JoinBg \/ DestroyThreadState

Environment ==
    \/ \E kind \in LineKinds : ClientSend(kind)
    \/ ClientClose \/ Interrupt \/ TimePasses

\* main has returned, an assertion has failed or SIGPIPE has killed the process.
ProcessEnded == main = "done" \/ pc \in {"aborted", "killed"}

Ended == ProcessEnded /\ UNCHANGED vars

Next == Loop \/ Lines \/ Background \/ Main \/ Environment \/ Ended

Spec == Init /\ [][Next]_vars

\* The OS runs every thread, poll_fd returns within SOCKET_POLL_TIMEOUT_MS, and the
\* interrupt handler ends every script; nothing forces the environment.
Fairness == WF_vars(Loop \/ Lines) /\ WF_vars(Background) /\ WF_vars(Main)

FairSpec == Spec /\ Fairness

-----------------------------------------------------------------------------
(***************************************************************************)
(* Properties                                                               *)
(***************************************************************************)

\* The server takes every line for the field as which the client sent it: no replay,
\* shutdown, cut line or ?reset makes line_n and the client disagree.
ParserInSync ==
    pc \in {"tick", "poll", "handle", "js"} =>
        ts.line_n = IF inbox = <<>> THEN pos ELSE Head(inbox).field

\* The interpreter in use and its replacement both exist and are different ones, and
\* every interpreter that exists is one of these two: cleanup_old_runtime never frees
\* the live one, none is freed twice and none is forgotten.
RuntimeOwnership ==
    /\ ts.rt # NULL => ts.rt.id \in live
    /\ r.rt # NULL => r.rt.id \in live /\ r.rt.id # ts.rt.id
    /\ live \subseteq {ts.rt.id, r.rt.id}

\* replacement_thread_state tells the three threads who owns my_replacement: the
\* interpreter thread only in INIT_COMPLETE, a background thread in INIT and CLEANUP.
ReplacementHandshake ==
    main \in {"joining", "joining_bg"} =>
        \/ rts = "NONE" /\ bg = "none" /\ (r = NoStruct \/ failed)
        \/ rts = "INIT" /\ (bg \in {"starting", "allocated"} \/ (failed /\ bg = "finished"))
        \/ rts = "INIT_COMPLETE" /\ bg = "finished" /\ r.rt # NULL /\ r.rt.intr = "r"
        \/ rts = "CLEANUP" /\ bg = "cleaning" /\ r # NoStruct /\ r.rt # NULL
        \/ rts = "CLEANUP" /\ bg \in {"cleaned", "freed"} /\ r.rt = NULL
        \/ rts = "CLEANUP_COMPLETE" /\ bg = "finished" /\ r = NoStruct

\* The replacement of an interpreter while commands come in is safe: no thread frees or
\* forgets an interpreter that another one uses, and my_replacement has one owner at any
\* moment, the one that replacement_thread_state names.
ReplacementSafe == RuntimeOwnership /\ ReplacementHandshake

\* Whatever the moment at which the thread stops, at the end of main every
\* interpreter and every background thread is gone, or the exit status says that
\* something failed.
CleanExit ==
    main = "done" =>
        IF failed THEN exit_status # 0
        ELSE live = {} /\ r = NoStruct /\ bg = "none"

\* A command is answered "ok" only if its query and its parameter arrived whole, and
\* the answer carries its own id unless that very field was cut.
OkMeansWholeQuery ==
    reply.status = "ok" =>
        reply.cut \subseteq {0} /\ (reply.uuid = "current" \/ 0 \in reply.cut)

\* Between two commands the thread holds no compiled query, no bytecode and no
\* reference to a cached function, it has not lost one, and no assert of the command
\* loop (dangling_bytecode == NULL, replacement state NONE) fails.  Only cut lines can
\* break this: see README.
CommandStateReleased ==
    /\ ~lost /\ pc # "aborted"
    /\ pc \in {"tick", "poll"} /\ ts.line_n = 0 =>
         /\ ts.compiled_query = "undefined"
         /\ ~ts.dangling_bytecode
         /\ ~ts.cached_function_in_use

Service == INSTANCE CommandService WITH
    fields <- ts.line_n, interpreter <- ts.rt.id, answer <- reply.status, ended <- ~Running

\* The command loop, with all its shutting down, waking and swapping of interpreters, its
\* replays and its failures, is a command service: the three lines of a command meet the
\* same living interpreter, a command is answered exactly once, and nothing but the next
\* command takes its answer back.
ImplementsCommandService == Service!Spec

\* Closing the socket ends the thread and, in the end, the server.
CloseEndsServer == eof ~> ProcessEnded

Unused ==
    /\ pc \in {"tick", "poll"} /\ inbox = <<>> /\ ~eof /\ ~interrupted
    /\ ts.idle /\ ts.line_n = 0

\* The interpreter of a socket that stays unused is shut down, if no replacement was
\* pending when it fell idle (if one was, it is not: see README).
IdleInterpreterShutDown == <>[](Unused /\ rts = "NONE") => <>[](ts.rt = NULL)
=============================================================================
