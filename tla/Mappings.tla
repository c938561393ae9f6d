------------------------------ MODULE Mappings ------------------------------
(***************************************************************************)
(* The two files that jsockd maps into memory: the module's bytecode        *)
(* (g_module_bytecode), which every new interpreter reads, and the source   *)
(* map (g_source_map), which an interpreter copies before its first         *)
(* backtrace and which get_backtrace unmaps after as many copies as there   *)
(* are threads.  Modes: "server" (main of main.c) and "eval" (its eval).    *)
(* Whoever can run init_thread_state or get_backtrace is an agent: main,    *)
(* the thread of a socket and the background thread of its replacement.     *)
(***************************************************************************)
EXTENDS Sockets

CONSTANTS
    DebugBuild,        \* CMAKE_BUILD_TYPE_IS_DEBUG
    MaxInterpreters,   \* bound: interpreters that one socket starts
    MaxLoads           \* bound: backtraces counted when there is no source map

ASSUME DebugAssumption == DebugBuild \in BOOLEAN
ASSUME BoundsAssumption == MaxInterpreters \in Nat /\ MaxLoads \in Nat

MainThread == <<"main", 0>>
Listener(t) == <<"listen", t>>
Bg(t) == <<"bg", t>>
Agents == {MainThread} \cup {Listener(t) : t \in Threads} \cup {Bg(t) : t \in Threads}
Files == {"module", "map"}

VARIABLES
    mode, args,      \* "server" or "eval"; the files named on the command line
    pc, ret,         \* of each agent: where it is, and where get_backtrace returns to
    pointer,         \* is g_module_bytecode, g_source_map other than NULL?
    size,            \* is g_module_bytecode_size, g_source_map_size other than 0?
    mapped,          \* is the memory still mapped?
    unmaps,          \* history: calls of munmap on each file's memory
    load_count,      \* g_source_map_load_count
    loaded,          \* is sourcemap_str of the thread's interpreter a string?
    interpreters,    \* history: interpreters started for each socket
    init_failed,     \* history: has main given up while starting?
    crashed          \* the file whose unmapped memory was read, or "no"

inputs == <<mode, args>>
fileVars == <<pointer, size, mapped, unmaps>>
countVars == <<load_count, loaded, interpreters>>
endVars == <<init_failed, crashed>>
mappingVars == <<inputs, pc, ret, fileVars, countVars, endVars>>

NoFile == [f \in Files |-> FALSE]

\* parse_cmd_args takes -sm only together with -m.
FilesInit ==
    /\ mode \in {"server", "eval"} /\ args \in {{}, {"module"}, Files}
    /\ pc = [a \in Agents |-> IF a = MainThread THEN "load_module" ELSE "none"]
    /\ ret = [a \in Agents |-> "none"]
    /\ pointer = NoFile /\ size = NoFile /\ mapped = NoFile
    /\ unmaps = [f \in Files |-> 0]
    /\ load_count = 0 /\ loaded = [t \in Threads |-> FALSE]
    /\ interpreters = [t \in Threads |-> 0]
    /\ init_failed = FALSE /\ crashed = "no"

\* The process, and all its agents, end with main.
AgentAt(a, label) == pc[MainThread] # "done" /\ pc[a] = label

AgentGoto(a, label) == pc' = [pc EXCEPT ![a] = label]

\* A step that only control takes part in.
Move(a, from, to) ==
    /\ AgentAt(a, from) /\ AgentGoto(a, to)
    /\ UNCHANGED <<inputs, ret, fileVars, countVars, endVars>>

\* The call of get_backtrace.
CallBacktrace(a, from, to) ==
    /\ AgentAt(a, from) /\ AgentGoto(a, "read_pointer")
    /\ ret' = [ret EXCEPT ![a] = to]
    /\ UNCHANGED <<inputs, fileVars, endVars>>

\* atomic_load(&g_n_threads): eval never sets it.
g_n_threads == IF mode = "eval" THEN 0 ELSE NThreads

Crash(f) ==
    /\ crashed' = f
    /\ AgentGoto(MainThread, "done")
    /\ UNCHANGED <<inputs, ret, fileVars, countVars, init_failed>>

munmap(f) ==
    /\ mapped' = [mapped EXCEPT ![f] = FALSE]
    /\ unmaps' = [unmaps EXCEPT ![f] = @ + 1]
    /\ UNCHANGED <<pointer, size>>

\* The guarded munmap of main, eval and global_cleanup, which leaves the pointer alone.
munmap_if_set(f) == IF size[f] /\ pointer[f] THEN munmap(f) ELSE UNCHANGED fileVars

-----------------------------------------------------------------------------
(***************************************************************************)
(* Loading                                                                  *)
(***************************************************************************)

\* mmap_file succeeds.
mmap(f) ==
    /\ pointer' = [pointer EXCEPT ![f] = TRUE]
    /\ size' = [size EXCEPT ![f] = TRUE]
    /\ mapped' = [mapped EXCEPT ![f] = TRUE]
    /\ UNCHANGED <<inputs, ret, unmaps, countVars, endVars>>

\* A module file and the environment, as far as load_module_bytecode looks at them.
ModuleFiles == [opens : BOOLEAN, long_enough : BOOLEAN, version : BOOLEAN, signature : BOOLEAN]
PublicKeys == {"magic", "hex", "bad"}

AnySignature(key) == DebugBuild /\ key = "magic"

load_module_bytecode(file, key) ==
    /\ file.opens /\ file.long_enough
    /\ file.version \/ AnySignature(key)
    /\ AnySignature(key) \/ (key = "hex" /\ file.signature)

LoadModule(file, key) ==
    /\ AgentAt(MainThread, "load_module") /\ "module" \in args
    /\ load_module_bytecode(file, key)
    /\ mmap("module") /\ AgentGoto(MainThread, "load_map")

\* A file that was opened and rejected is unmapped before load_module_bytecode returns.
LoadModuleFails(file, key) ==
    /\ AgentAt(MainThread, "load_module") /\ "module" \in args
    /\ ~load_module_bytecode(file, key)
    /\ unmaps' = [unmaps EXCEPT !["module"] = IF file.opens THEN 1 ELSE 0]
    /\ AgentGoto(MainThread, "done")
    /\ UNCHANGED <<inputs, ret, pointer, size, mapped, countVars, endVars>>

NoModule == args = {} /\ Move(MainThread, "load_module", "load_map")

AfterLoad == IF mode = "eval" THEN "eval" ELSE "init_wait_group"

LoadMap ==
    /\ AgentAt(MainThread, "load_map") /\ "map" \in args
    /\ mmap("map") /\ AgentGoto(MainThread, AfterLoad)

\* mmap_file returns NULL; it has set the size if only mmap itself failed.  eval unmaps
\* the module, keeps its pointer and continues.
LoadMapFails(size_set) ==
    /\ AgentAt(MainThread, "load_map") /\ "map" \in args
    /\ size' = [size EXCEPT !["map"] = size_set]
    /\ IF mode = "eval"
       THEN /\ mapped' = [mapped EXCEPT !["module"] = FALSE]
            /\ unmaps' = [unmaps EXCEPT !["module"] = @ + 1]
       ELSE UNCHANGED <<mapped, unmaps>>
    /\ AgentGoto(MainThread, AfterLoad)
    /\ UNCHANGED <<inputs, ret, pointer, countVars, endVars>>

NoMap == "map" \notin args /\ Move(MainThread, "load_map", AfterLoad)

-----------------------------------------------------------------------------
(***************************************************************************)
(* init_thread_state: agent a, on its way from label from to label to,      *)
(* makes an interpreter for thread t and reads the module for it.           *)
(***************************************************************************)

ModuleReadable == pointer["module"] => mapped["module"]

\* sourcemap_str becomes undefined; a replacement has its own until the swap.
NewInterpreter(a, t) ==
    /\ ModuleReadable /\ interpreters[t] < MaxInterpreters
    /\ interpreters' = [interpreters EXCEPT ![t] = @ + 1]
    /\ loaded' = IF a = Bg(t) THEN loaded ELSE [loaded EXCEPT ![t] = FALSE]
    /\ UNCHANGED load_count

InitThreadState(a, t, from, to) ==
    /\ AgentAt(a, from) /\ AgentGoto(a, to) /\ NewInterpreter(a, t)
    /\ UNCHANGED <<inputs, ret, fileVars, endVars>>

\* load_binary_module returns an exception, which is reported with its backtrace.
InitThreadStateThrows(a, t, from, to) ==
    /\ pointer["module"] /\ NewInterpreter(a, t) /\ CallBacktrace(a, from, to)

InitThreadStateCrashes(a, from) == AgentAt(a, from) /\ ~ModuleReadable /\ Crash("module")

-----------------------------------------------------------------------------
(***************************************************************************)
(* get_backtrace, for an interpreter whose sourcemap_str is undefined       *)
(***************************************************************************)

\* The arguments of JS_NewStringLen are read; a NULL pointer is as bad as unmapped memory.
ReadPointer(a) ==
    /\ size["map"] => pointer["map"]
    /\ Move(a, "read_pointer", IF size["map"] THEN "copy" ELSE "count")

ReadNull(a) == AgentAt(a, "read_pointer") /\ size["map"] /\ ~pointer["map"] /\ Crash("map")

\* JS_NewStringLen; the copy outlasts the call if it was made for a thread's interpreter.
Copy(a) ==
    /\ AgentAt(a, "copy") /\ mapped["map"] /\ AgentGoto(a, "count")
    /\ loaded' = [t \in Threads |-> loaded[t] \/ a = Listener(t)]
    /\ UNCHANGED <<inputs, ret, fileVars, load_count, interpreters, endVars>>

CopyUnmapped(a) == AgentAt(a, "copy") /\ ~mapped["map"] /\ Crash("map")

\* The atomic_fetch_add and the test of its result.
Count(a) ==
    /\ AgentAt(a, "count")
    /\ load_count' = load_count + 1
    /\ AgentGoto(a, IF load_count + 1 = g_n_threads /\ size["map"] /\ pointer["map"]
                    THEN "unmap" ELSE ret[a])
    /\ UNCHANGED <<inputs, ret, fileVars, loaded, interpreters, endVars>>

Unmap(a) ==
    /\ AgentAt(a, "unmap") /\ AgentGoto(a, "set_null")
    /\ munmap("map")
    /\ UNCHANGED <<inputs, ret, countVars, endVars>>

\* Mutant: the pointer is left alone.
SetNullMissing(a) == Move(a, "set_null", ret[a])

SetNull(a) ==
    /\ AgentAt(a, "set_null") /\ AgentGoto(a, ret[a])
    /\ pointer' = [pointer EXCEPT !["map"] = FALSE]
    /\ UNCHANGED <<inputs, ret, size, mapped, unmaps, countVars, endVars>>

get_backtrace(a) ==
    ReadPointer(a) \/ ReadNull(a) \/ Copy(a) \/ CopyUnmapped(a) \/ Count(a) \/ Unmap(a) \/ SetNull(a)

-----------------------------------------------------------------------------
(***************************************************************************)
(* A thread and the background thread that builds its replacement           *)
(***************************************************************************)

\* Mutant: an interpreter that has its copy makes, and counts, another one.
ScriptThrowsAlwaysCounts(t) ==
    /\ load_count < MaxLoads /\ UNCHANGED countVars
    /\ CallBacktrace(Listener(t), "serving", "serving")

\* A command ends with an exception and the interpreter has no source map yet.
ScriptThrows(t) ==
    /\ ~loaded[t] /\ load_count < MaxLoads /\ UNCHANGED countVars
    /\ CallBacktrace(Listener(t), "serving", "serving")

\* Idle shutdown and waking up; command_loop ignores what init_thread_state returns.
Wake(t) == pc[Bg(t)] = "none" /\ InitThreadState(Listener(t), t, "serving", "serving")

WakeThrows(t) == pc[Bg(t)] = "none" /\ InitThreadStateThrows(Listener(t), t, "serving", "serving")

WakeCrashes(t) == pc[Bg(t)] = "none" /\ InitThreadStateCrashes(Listener(t), "serving")

StartReplacement(t) ==
    /\ pc[Listener(t)] = "serving" /\ interpreters[t] < MaxInterpreters
    /\ Move(Bg(t), "none", "init")

BuildReplacement(t) == InitThreadState(Bg(t), t, "init", "built")

\* replacement_thread_state stays INIT, so that there is no other replacement.
BuildThrows(t) == InitThreadStateThrows(Bg(t), t, "init", "failed")

BuildCrashes(t) == InitThreadStateCrashes(Bg(t), "init")

\* The swap; the background thread that frees the old interpreter uses no mapping.
Swap(t) ==
    /\ AgentAt(Listener(t), "serving") /\ pc[Bg(t)] = "built" /\ AgentGoto(Bg(t), "none")
    /\ loaded' = [loaded EXCEPT ![t] = FALSE]
    /\ UNCHANGED <<inputs, ret, fileVars, load_count, interpreters, endVars>>

\* The thread leaves command_loop.
Exit(t) == Move(Listener(t), "serving", "exited")

-----------------------------------------------------------------------------
(***************************************************************************)
(* main and eval                                                            *)
(***************************************************************************)

InitWaitGroup == Move(MainThread, "init_wait_group", "create")

\* wait_group_init has failed.
InitWaitGroupFails == Move(MainThread, "init_wait_group", "unmap_module")

\* t is thread_init_n, the next thread to create.
IsNext(t) == pc[Listener(t)] = "none" /\ \A s \in 0 .. t - 1 : pc[Listener(s)] # "none"

AllStarted == \A t \in Threads : pc[Listener(t)] # "none"

InitThread(t) == IsNext(t) /\ InitThreadState(MainThread, t, "create", "start_thread")

InitThreadThrows(t) == IsNext(t) /\ InitThreadStateThrows(MainThread, t, "create", "unmap_module")

\* The clock or the creation of the runtime or context fails.
InitThreadFails == ~AllStarted /\ Move(MainThread, "create", "unmap_module")

StartThread(t) ==
    /\ AgentAt(MainThread, "start_thread") /\ IsNext(t)
    /\ pc' = [pc EXCEPT ![MainThread] = "create", ![Listener(t)] = "serving"]
    /\ UNCHANGED <<inputs, ret, fileVars, countVars, endVars>>

\* main gives up; the threads that run are neither stopped nor joined.
GiveUp ==
    /\ init_failed' = TRUE
    /\ AgentGoto(MainThread, "cleanup")
    /\ UNCHANGED <<inputs, ret, countVars, crashed>>

\* main unmaps the module, and global_cleanup will do it again.
UnmapModule == AgentAt(MainThread, "unmap_module") /\ munmap_if_set("module") /\ GiveUp

\* A pthread call fails.
StartFails == AgentAt(MainThread, "start_thread") /\ GiveUp /\ UNCHANGED fileVars

\* The threads are not ready in time.
WaitFails == AgentAt(MainThread, "create") /\ AllStarted /\ GiveUp /\ UNCHANGED fileVars

JoinAll ==
    /\ \A t \in Threads : pc[Listener(t)] = "exited" /\ pc[Bg(t)] \in {"none", "built", "failed"}
    /\ Move(MainThread, "create", "cleanup")

EvalRuns == InitThreadState(MainThread, 0, "eval", "cleanup")

EvalThrows == InitThreadStateThrows(MainThread, 0, "eval", "cleanup")

EvalCrashes == InitThreadStateCrashes(MainThread, "eval")

\* As InitThreadFails.
EvalFails == Move(MainThread, "eval", "cleanup")

\* global_cleanup, and the end of eval: first the module, then the source map.
CleanupModule ==
    /\ AgentAt(MainThread, "cleanup") /\ AgentGoto(MainThread, "cleanup_map")
    /\ munmap_if_set("module")
    /\ UNCHANGED <<inputs, ret, countVars, endVars>>

CleanupMap ==
    /\ AgentAt(MainThread, "cleanup_map") /\ AgentGoto(MainThread, "return")
    /\ munmap_if_set("map")
    /\ UNCHANGED <<inputs, ret, countVars, endVars>>

\* Until then threads that were not joined keep running.
ReturnFromMain == Move(MainThread, "return", "done")

-----------------------------------------------------------------------------
Loading ==
    \/ \E file \in ModuleFiles, key \in PublicKeys :
           LoadModule(file, key) \/ LoadModuleFails(file, key)
    \/ NoModule \/ LoadMap \/ NoMap
    \/ \E size_set \in BOOLEAN : LoadMapFails(size_set)

Starting ==
    \/ InitWaitGroup \/ InitWaitGroupFails \/ InitThreadFails
    \/ \E t \in Threads : InitThread(t) \/ InitThreadThrows(t) \/ StartThread(t)
    \/ UnmapModule \/ StartFails \/ WaitFails

Eval == EvalRuns \/ EvalThrows \/ EvalCrashes \/ EvalFails

ThreadSteps(t) ==
    \/ ScriptThrows(t) \/ Wake(t) \/ WakeThrows(t) \/ WakeCrashes(t) \/ StartReplacement(t)
    \/ BuildReplacement(t) \/ BuildThrows(t) \/ BuildCrashes(t) \/ Swap(t) \/ Exit(t)

ProcessDone == pc[MainThread] = "done" /\ UNCHANGED mappingVars

FilesNext ==
    \/ Loading \/ Starting \/ Eval \/ JoinAll \/ CleanupModule \/ CleanupMap \/ ReturnFromMain
    \/ \E a \in Agents : get_backtrace(a)
    \/ \E t \in Threads : ThreadSteps(t)
    \/ ProcessDone

FilesSpec == FilesInit /\ [][FilesNext]_mappingVars

-----------------------------------------------------------------------------
(***************************************************************************)
(* Properties                                                               *)
(***************************************************************************)

\* -sm was given and the file could not be mapped.
MapMissing == "map" \in args /\ ~pointer["map"] /\ unmaps["map"] = 0

\* No interpreter reads memory that is not mapped, with these exceptions.  The module:
\* main unmaps it when a thread cannot be started, while other threads run, and eval when
\* there is no source map.  The source map: mmap_file sets the size although mmap fails,
\* and get_backtrace counts the copies of replaced interpreters, so that it may unmap
\* the file before all threads have theirs, and a later interpreter finds NULL.
ReadsFindMapping ==
    /\ crashed = "module" => init_failed \/ (mode = "eval" /\ MapMissing)
    /\ crashed = "map" => \/ init_failed \/ MapMissing
                          \/ \E t \in Threads : interpreters[t] > 1

\* Whichever of get_backtrace, main, eval and global_cleanup comes to it, a mapping is
\* released, and exactly once, when the process ends; the exceptions are main's error
\* paths and an eval without its source map, which release the module twice.
MappingsReleasedOnce ==
    (pc[MainThread] = "done" /\ crashed = "no") =>
        /\ ~mapped["module"] /\ ~mapped["map"]
        /\ init_failed \/ \A f \in Files : unmaps[f] <= 1 \/ (mode = "eval" /\ MapMissing)
=============================================================================
