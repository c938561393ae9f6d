# jsockd: TLA+ models, checks and proofs

jsockd is a server that keeps warm QuickJS interpreters behind Unix domain sockets.
A client sends a command as three lines (an id, a JavaScript function, a JSON
parameter) and gets back `ok` or `exception` with the id. This directory models the
server, its three clients (Go, Python, Elixir), its text encoder and decoder and its
command line tools in TLA+, checks small instances with TLC and proves the safety
properties of ten of its modules, both refinements included, with TLAPS.

## 1. Inventory

### Components, their state and their operations

| Component | Source | State | Operations | Module |
|---|---|---|---|---|
| Bytecode cache | `hash_cache.c/.h`, used by `main.c` | per bucket: uid, refcount, update_count, payload | `get_hash_cache_entry_`, `add_to_hash_cache_`, release in `cleanup_command_state` | `HashCache` |
| Command loop and protocol | `main.c` (`command_loop`, `tick_handler`, `line_handler`, `handle_line_*`) | `ThreadState`, `SocketState` | accept, tick, poll, read, the three lines, `?quit`, `?reset`, statistics, cut lines | `CommandThread`, abstractly `CommandService` |
| Interpreter replacement | `main.c`, `threadstate.c/.h` | `my_replacement`, `replacement_thread_state`, memory counters | memory check, build, swap (trampoline), clean up, idle shutdown and wakeup, destroy | `CommandThread` |
| Line buffer | `line_buf.c/.h` | buf, start, n, afsep, truncated | `line_buf_read`, `line_buf_replay` | `LineBuf`, abstractly `LineSource` |
| Process life cycle | `main.c` (`main`, signal handler), `wait_group.c` | thread table, wait group, `g_interrupted_or_error`, exit statuses | create, report, wait, print READY, join, destroy, return | `Server` |
| Messages to the client | `messages.c`, `ppoll_fd` | the socket, the input buffer, the command's start time | `JSockD.sendMessage` | `Messages` |
| Go client | `src/clients/go/jsockdclient/jsockd.go` | process, connections, channels, fatal error, restart counters | send, handle a connection, watch and restart the process, close | `GoClient` |
| Python client | `src/clients/python/.../__init__.py` | process, queues, fatal error, restart budget, socket directory | construct, send, handle a connection, reap and restart, close | `PythonClient` |
| Elixir client | `src/clients/elixir/lib` | manager state, mailbox, socket processes, supervisor's count | start, READY, send, reply, exit, restart | `ElixirClient` |
| Mapped files: module and source map | `main.c` (`load_module_bytecode`, `eval`, `global_cleanup`), `mmap_file.c`, `backtrace.c` | two pointers with sizes, a load count | map, verify, read, copy, unmap | `Mappings` |
| Text encoder and decoder | `textencodedecode.c` | the decoder's context between chunks | `decode`, `encodeInto` | `Utf8`, `TextCodec` |
| Command line, keys and module compiler | `cmdargs.c`, `modcompiler.c`, `verify_bytecode.c`, `hex.c` | options parsed so far; key files and output file | parse a word, check, dispatch; `-k`; `-c` | `Tools` |
| Logging, console, vendored libraries | see `PROJECT.json` | | | not modelled, section 8 |

### How they interact

`main` starts one *interpreter thread* per socket. Each opens its socket, reports to
the wait group and serves one client with `command_loop`. The loop asks `line_buf`
for lines and gets a callback per line; a callback may answer TRAMPOLINE, which makes
the buffer deliver the same line again (this is how an interpreter is exchanged
between two commands). The second line of a command goes to the bytecode cache, the
only data that all interpreter threads share and change while serving. Every memory
check may start a *background thread* that builds a replacement structure; after the
swap another one frees the old one. An interpreter thread and its background thread
talk through the atomic `replacement_thread_state`. All threads stop through the flag
`g_interrupted_or_error`, which signals, `?quit`, a closed socket and failures set.

In the middle of a command a script may send a *message* and wait for its response on
the very socket from which the command loop takes lines. The Go client starts the
process, keeps one goroutine and one channel per socket, hands commands to them and has
one more goroutine that waits for the process and starts another when it exits. The
Python client does the same with threads and queues and keeps its socket paths over a
restart; in the Elixir client one process owns all sockets and everything that goes
wrong ends it, so that its supervisor starts another. All three rely on one promise of
the server: a closed connection ends it (`CloseEndsServer` of CommandThread).

The files that `-k` and `-c` write are what the server later maps and verifies
(Mappings); nothing but the file system orders the processes that write them.

### What is hard here

* a lock-free table that combines a seqlock with reference counts (`hash_cache.c`);
* one command spread over three callbacks, any of which may see a cut line, a
  `?reset`, an idle shutdown before it or an interpreter exchange;
* a structure that is swapped by value while other code remembers its address;
* a stop that can arrive in each of the five replacement states;
* a wait group with a condition variable, spurious wakeups and a timeout;
* poll results that stand for several things (`poll_fd`);
* two mapped files that threads, background threads and `main`'s error paths release,
  one of them by a count of its readers (`backtrace.c`);
* message responses whose end is where a read happens to end;
* a client in which callers, connections, a watcher and `Close` meet at channels, a
  process and one atomic pointer, with timeouts on some of the waits and not on others;
* a Python client whose `close` may come at any point of a restart, and whose sockets
  outlive `socket.close()` as long as their handlers run;
* an Elixir client in which messages of callers that have died reach the next manager;
* a decoder whose input is cut anywhere and that runs twice over each chunk, first to
  measure and then to write into a buffer of that size;
* tools that fail, or are killed, between two writes to files that others use.

The full list, with the line at which each one bites and the properties that guard it,
is `hazards` in `PROJECT.json`.

### What makes each component correct

* *Cache*: refcounts are exact; one writer per bucket; a published entry is never half
  of an entry; what a thread uses is not freed under it; no call loops forever; the
  cache keeps accepting entries.
* *Command loop*: server and client agree on the next field; `ok` only for a command
  that arrived whole; nothing is held between commands; a stop ends the thread.
* *Replacement*: no interpreter is freed while in use, freed twice or forgotten; a
  command meets one interpreter; the state variable always names the owner.
* *Line buffer*: every line once, in order, byte for byte or flagged; in bounds.
* *Process*: READY waits for all; no wakeup is lost; a stop of any kind ends the
  process; failures reach the exit status; nothing is destroyed under a thread.
* *Mapped files*: nobody reads a file that is no longer mapped; each is released once.
* *Messages*: a script gets the answer to its own message; afterwards the command loop
  is still in step; client and server never wait for each other.
* *Go client*: a caller gets its own response or an error, in bounded time; one server
  at a time; a dead connection or server is noticed and replaced.
* *Python client*: no command goes to a connection that was given up; restarts keep
  their budget; `close` leaves neither a server nor a directory.
* *Elixir client*: after any fault it serves again or has given up for good, and no
  server outlives its manager.
* *Text codec*: the result does not depend on how the input is cut; writes stay inside
  the buffer.
* *Tools*: what the usage text allows is accepted and nothing else; two key files belong
  together; a module that was reported as signed is accepted by the server.

## 2. Modules and the code

Definitions carry the names of the code where TLA+ allows; `map` in `PROJECT.json`
gives the lines of each. Operators marked `Mutant:` are wrong variants of the
definition that follows; no specification uses them, and `mutants` lists which property
notices each. Every `MC*` module only instantiates its component for TLC, and every
`*Proofs` module holds the theorems about its component (section 5).

**HashCache.** One step per atomic access. `key`, `refcount`, `update_count` and
`payload` are the bucket; a payload is the uid of the query it was compiled from.
`LoadUpdateCount`, `CheckUid`, `IncRef`, `Validate`, `UndoRef` are the reader;
`ClaimBucket`, `MakeOdd`, `CleanupBucket`, `CopyPayload`, `StoreUid`, `MakeEven` the
writer. `UseAdded` and `UseDangling` store what `add_to_hash_cache_` returned in
`cached_function_in_use`, over whatever a cut third line has left there; `EndCommand`
releases it through `cleanup_command_state`, `CutCommand` does not. Between commands
`ReleaseBetween` (`?reset`, the shutdown of an idle interpreter) releases what is left,
and `ReplaceInterpreter` hands it to the thread that frees the old interpreter
(`retired`, `FreeReplaced`). Nothing in `main.c` releases a hit (`ForgetHit`).
`leaked` and `raced` are history. Steps interleave sequentially consistently; the
code's relaxed accesses are weaker (section 8).

**CommandThread.** One interpreter thread, its background thread and `main`'s joining
of both. `ts` is the `ThreadState` that the thread uses, `r` the structure
`my_replacement` points to, `rts` is `replacement_thread_state`. Interpreters are
numbered, `live` holds those that exist, and `rt.intr` records the structure whose
address the interrupt handler of an interpreter was given. A line is its kind and the
field as which the client meant it; `inbox` is the pipeline, `pos` the field that the
client sends next. The JavaScript call is a step of its own, as it may take any time.

**LineBuf.** The buffer as an array with its five fields. `Read` is one call of the
read function with any bytes and any count that fit; the scan finds the next separator
and the handler accepts, trampolines or stops. `stream` and `lines` are history.

**Server.** `main` and `NThreads` interpreter threads (Sockets, which Mappings shares), seen
from outside: create, open the socket, report, accept, serve, leave. The wait group is
modelled to the single lock, test, wait and signal. A thread is `busy` while its client
leaves `poll_fd` no timeout; a background thread ends (`EndBg`) or fails to make the
replacement, which raises the flag and sets the exit status (`BgFails`). A signal handled on a listen thread makes its `poll` fail,
which `poll_fd` takes for READY, so the thread blocks in `accept` or `read`;
`AnyThread` says whether that may happen.

**Messages.** One connection: the command loop (`TakeLine`, reduced to the order of
lines), the script, `send_message` and a client that follows the protocol, one command
at a time. The socket is a sequence of fields; `ReadDone(k)` is a read that ends with a
separator after any number `k` of fields, `ReadPart(k)` one that ends inside a field.
`abandoned` is history: a wait has ended while part of its response was still to come.
The separator is NUL, as with all clients of the repository.

**GoClient.** A generation is one `jSockDInternalClient` with its process, connections,
channels, handlers and watcher; `iclient` is the one that the user's `JSockDClient`
points to. `cpc`, `hpc`, `wpc` and `xpc` are the program counters of callers, handlers,
watchers and `Close`. A response is the command it answers. The server is a process that
may answer, send messages, send nonsense, crash, and that exits when a socket is closed
(`CloseEndsServer`) unless the other connections keep it `busy`: then none of its polls
times out, and it does not see that it should stop (`KeepBusy`, `Pause`). A send on a closed channel sets `panicked`, which stops everything.

**Mappings.** The specification is `FilesSpec`. Agents are `main`, the thread of each socket and the background thread of
its replacement; each may run `init_thread_state`, which reads the module, and
`get_backtrace`, which copies the source map, counts the copy and perhaps unmaps the
file, in steps of their own. A file is a pointer (NULL or not), a size (0 or not) and
whether its memory is still mapped: the three differ after an error, after `munmap`
without an assignment, and when `mmap_file` sets the size and then fails. What
`load_module_bytecode` looks at (length, version, key, signature) is a record of
Booleans and a kind of key. `crashed` names the file that was read when it was gone.

**PythonClient.** A generation is one process with its connections, queues and handler
threads; `c` is the `_Client` as callers see it, whose process and queues may be of
different generations while `_reaper` replaces them. `reaper.pc` is first the constructor
and then the thread. Time is counted in half minutes and only where the code looks at it.
A socket is closed when its handler returns, as its `makefile()` objects keep it open.
`restarts` is history.

**ElixirClient.** The manager's mailbox is a sequence, as Erlang delivers it. A clause of
`handle_info` or `handle_call` is an action; a message without a clause, a failed match
and a raised exception are the one outcome `Raise`: `terminate` closes the sockets, the
linked processes die, and `Restart` is the supervisor, which gives up after
`max_restarts`. `jsockd[g]` is the server that generation `g` of the manager started.

**Utf8** and **TextCodec.** Utf8 has what happens to one character: `utf8_decode` is
`njs_utf8_decode` with its context, `utf8_encode` the encoder. TextCodec has the streams:
`decode` makes the counting pass on a copy of the context and the writing pass on the
context itself, and `encodeInto` fills a buffer. Characters are numbers and strings are sequences of bytes, since the conversion is what
the properties are about. `RefDecode` is Unicode's definition of well-formed sequences
and maximal subparts, without state, and is no model of code.

**Tools.** The parser takes one word of the command line at a time (`TakeWord`); `Checks`
are the conditions behind its loop and `RunMode` is `main`'s choice. The modes that make
files are sequences of steps on three files shared by all processes: a stream's buffer is
flushed in any portions, each call may fail, and each process may be killed. A file is a
sequence of cells (a key, a piece of bytecode, the version, a signature of what precedes
it).

**LineSource** and **CommandService** are what the two layers of a connection promise.
LineSource has the bytes that arrived and the lines that were handed out;
`ImplementsLineSource` maps them to `stream` and to the lines that LineBuf's handler has
taken, and shows that no line is lost, repeated, reordered or changed, that one too long
is flagged, and that the buffer reads only when no whole line waits. CommandService has
the number of fields taken, the interpreter, the last answer and whether the server has
ended; `ImplementsCommandService` maps them to `ts.line_n`, `ts.rt.id`, `reply.status` and
to whether the thread still runs. It shows that a command gets one answer, after its third
field, and that no swap, idle shutdown or wakeup falls between its fields, whatever
failures, `?reset`s, cut lines and stops come in between.

The modules meet at interfaces that are kept small: CommandThread takes whole or cut
lines (what LineBuf shows the buffer delivers) and `QueryFound`/`QueryCached`/
`QueryNotCached` as the cache's three answers; Server takes from CommandThread that a
thread serves, may have a background thread and in the end leaves.

## 3. Runs

| Run | Bounds | Shows |
|---|---|---|
| `cache` | 3 threads, three queries between them of uids 0, 1, 5; 4 buckets (three probes), 2 tries | refcounts, the seqlock, stable hits, a quiescent cache accepts, every query terminates |
| `command_thread` | all kinds of line, pipeline of 1, 3 interpreters, a check after each command, failing calls | the loop implements CommandService; parser, ownership, handshake, exit |
| `command_whole_lines` | no cut lines, check every second command | nothing held between commands, no assertion fails; close and idleness take effect |
| `line_buffer` | buffer of 3, bytes a, b and the separator, streams up to 8 | indices in bounds; the buffer implements LineSource |
| `server` | 2 threads, failures, signals on any thread, one background thread each | READY, joining, exit status, stop; no wakeup is lost (`StartupCompletes`; `NoLostWakeup`, the invariant behind it, is proved) |
| `messages` | 3 commands, 2 messages, good, bad, too long and missing answers | results and lines match the client's, every wait ends |
| `go_client` | 1 caller, 1 connection followed beside others that may be busy, channel of 1, 4 commands, 2 processes, 1 crash | own response, one server, commands end, a dead connection is noticed when the traffic on the others pauses, restart after a crash |
| `python_client` | 1 caller, 1 connection, 3 processes, 1 restart per minute, pauses up to a minute | current queues are served, restart budget, `close` leaves nothing |
| `elixir_client` | 2 callers, 2 sockets, 2 restarts, 2 faults | recovers or gives up; old servers end |
| `mappings` | 2 threads, 3 interpreters each, every failure while starting, both modes | reads find their mapping; one release |
| `text_codec` | strings of up to 4 bytes of 16 classes, cut in every way; up to 3 characters into room for up to 12 bytes | the decoder equals the reference; `encodeInto` fits |
| `tools` | every command line, up to 2 sockets; 3 processes on one key pair and one output file | usage, key pairs, signed modules |

Why the bounds are enough to be interesting:

* *Cache*: uids 1 and 5 start at the same bucket, and 0 is the uid that an empty bucket
  has. Three threads are a writer, a reader in the middle of its two loads and a second
  writer that evicts what the first has added; three probes wrap around and overlap. A
  thread that has hit or added holds its reference while the others run. Three queries
  are one of each thread, or two or three of one thread: the second of two loses what a
  cut third line has left, or releases it. The tries matter
  for `QueryTerminates` only; the proofs hold for any number.
* *Command thread*: three interpreters are the first, its replacement and one after a
  wakeup or a second replacement. Lines are taken one at a time by the server, so a
  pipeline of one already separates sending from handling, and the time between any
  two lines can hold an idle shutdown, a finished background thread or a stop.
* *Line buffer*: streams of 8 bytes hold lines shorter than, equal to, one longer than
  and more than twice the buffer, and a line after a cut one.
* *Server*: two threads are the one that signals and one that does not.
* *Messages*: two messages fit in one command or in two, so a late response can meet the
  next message or the next command, and the third command shows whether the loop is
  still in step.
* *Mappings*: two threads are one that counts last and one that may still be copying;
  three interpreters are the first, one after a wakeup and one from a replacement.
* *Go client*: a caller that times out leaves its command behind, so one caller with
  four commands has a handler that is stuck, a full channel and a blocked send at once.
  `Close` may come at any point, before and after the restart. The connections that are
  not followed (`MoreConns`) matter for one thing: their traffic keeps the server from
  seeing that the one that is followed was closed. With two that are both followed and two
  commands `DeadConnectionNoticed` holds as well, and without its premise fails.
* *Python client*: three processes are the first, one within the budget and one that is
  allowed only after a pause; `close` meets each step of each restart.
* *Elixir client*: two callers are one whose fault ends the manager and one whose late
  message reaches the next; two restarts are one that is used and one that exhausts the
  count.
* *Text codec*: the bytes are both ends of each range that the decoder tells apart and
  those of the byte order mark; four bytes hold every complete character and every way to
  cut one short. Twelve bytes of room hold three characters of any length.
* *Tools*: three processes are two that make keys and one that compiles, or two that
  compile modules of different length with the key of a third. Only one of them parses its
  words, as parsing touches nothing shared.

Bounds that belong to the model and not to the program: `MaxCalls`, `MaxRuntimes`,
`MaxPipeline`, `MaxUsage`, `MaxStream`, `MaxBg`, `MaxCommands`, `MaxMessages`,
`MaxGens`, `MaxCrashes`, `MaxInterpreters`, `MaxLoads`, `MaxPause`, `MaxFaults`,
`MaxChars`, `MaxRoom`. They only disable actions. The clients and the tools may stop: when
nobody sends and everything is closed, or each process has ended, nothing is left to do,
so deadlock is not checked in `go_client`, `python_client`, `elixir_client` and `tools`.

### Fairness

* HashCache: weak fairness of each thread's steps. The code never blocks.
* CommandThread: weak fairness of the thread, of its background thread and of `main`.
  `poll` returns within `SOCKET_POLL_TIMEOUT_MS`; scripts are ended by the interrupt
  handler. The client is never forced, and it may always have another line ready.
* Server: weak fairness of `main`, each thread and each background thread. Clients need not
  connect, send or pause: `NoticeInterrupt` stands for a poll that times out, which a client
  that keeps sending prevents (`KeepSending`), and that clients pause in the end is a
  premise of `StopEndsProcess`. Neither the 10 s timeout nor spurious wakeups are fair, so
  `StartupCompletes` does not rest on them.
* Messages: weak fairness of the server and of a client that takes records and answers
  messages. `EveryWaitEnds` needs the latter: no timeout of the server replaces it.
* GoClient: weak fairness of callers (their timer included), handlers, the watcher
  together with the exit of a server that lost a socket, and `Close` once it was called.
  That exit is not enabled while traffic on other connections keeps the server busy, and
  that it pauses in the end is a premise of `DeadConnectionNoticed`. The server need not answer, crash or send anything; no timer is assumed where the
  code has none.
* PythonClient: weak fairness of the connection threads, whose `get` has a timeout, of the
  reaper and of a `close` that has begun. A server that was told to terminate, has lost a
  connection or cannot open its socket exits. `NothingLeft` needs that only after `close`,
  when all handlers return, so there is no traffic left that could delay it. Nobody has to
  send, answer or crash.
* ElixirClient: weak fairness of the manager, the socket processes, the supervisor and of
  the messages of callers that exit; jsockd gets ready, and ends when its sockets were closed.
  Nothing need fail, and no timeout need expire.
* TextCodec and Tools have no liveness properties.

## 4. Where the code and its comments or documents disagree

The models follow the code. Where a property has to make an exception for one of these
places, the exception is a named part of it, so the run also shows that there is no other.

### Server

* `hash_cache.c:59`: the comment at lines 121-124 says that an entry that changed underneath
  the reader is noticed by the second load of `update_count`. The writer claims the bucket
  first and makes the count odd later; a reader that validates in between uses bytecode
  that the writer frees. This is the exception `raced` of `UnracedHitIsStable`, which is
  proved: it is the only window.
* `main.c:543`: a hit's reference is never released, so a bucket that was hit once is never
  reused (`Readme.md:43` speaks of a cache). `main.c:556`: after a cut third line
  (`main.c:854`) the next query that misses overwrites `cached_function_in_use`, and its
  bucket is pinned in the same way, hit or not. These are the two ways in which `leaked`
  grows, and the exceptions in `QuiescentCacheAccepts`.
* `main.c:491`: after a swap the interrupt handler reads the start time in the structure
  that was swapped out (`threadstate.c:224` hands out its address), so the time limit of
  `Readme.md:401` is measured from another command. `rt.intr` records it.
* `main.c:559`: a cut third line skips `cleanup_command_state` (`HandleCut`), so that
  `assert(ts->dangling_bytecode == NULL)` fails if the next query is not cached either
  (`DanglingAssertFails`). `CommandStateReleased` holds for whole lines.
* `backtrace.c:32`: "All threads have loaded the sourcemap" is not so when an interpreter
  was replaced or woken, as its successor counts again. Another thread may then be
  copying the map, and whoever comes later reads NULL, where `Readme.md:244` promises
  mapped positions. With one socket, a script that fails before and one that fails after
  an idle shutdown are enough. Third exception of `ReadsFindMapping`.
* `main.c:1119`: "Continuing without source map": eval unmaps the module there and reads
  it next. And when only `mmap` itself fails, `mmap_file` has set the size already
  (`mmap_file.c:36`), so the first backtrace reads NULL, in both modes.
* `main.c:1295`: when a thread cannot be started the module is unmapped twice, and
  threads that run may still need it.
* `main.c:1070`: the length given to `munmap` lacks `VERSION_STRING_SIZE`, so the last page
  may stay mapped until the process ends. Lengths are not in the model.
* `main.c:352`: a thread whose socket could not be opened reports to the wait group as
  well, so READY is printed although not all sockets are open (`Readme.md:322`). The
  process then ends with a failure (`FailureIsReported`, `StopEndsProcess`).
* `utils.c:190`: an interrupted `poll` is taken for READY. If the kernel runs the
  handler on a listen thread, SIGTERM (`Readme.md:386`) does not end the process until
  that thread's client connects, sends or closes. This is the exception in
  `StopEndsProcess`. Linux picks the main thread if it can, POSIX does not say.
* `utils.c:185`: `poll_fd` looks at `g_interrupted_or_error` only when nothing has arrived
  for `SOCKET_POLL_TIMEOUT_MS`. A thread whose client never pauses so long goes on serving
  after a signal, after `?quit` on another socket and after another thread's failure,
  where the comment at `main.c:349-351` says that the other threads "will notice"; the
  process does not end meanwhile. Hence the premise of `StopEndsProcess`.
* `main.c:1401`: `thread_init_error` destroys the states of threads that are running,
  unlike the comment at `main.c:441-443`, and its loop runs to `thread_init_n`
  inclusive, one past the array when the wait on the group failed. `InitError` models
  both (`destroyed' = 0 .. k`), and `DestroyedAfterJoin` speaks of the time after READY.
* `main.c:955`: an interpreter whose replacement is pending when it falls idle is not
  shut down (`Readme.md:415`); hence the premise of `IdleInterpreterShutDown`.
* `main.c:866`: `ts->truncated` is set and never read, so a command whose id was cut runs
  and is answered `ok` under the previous id, unlike the comment there ("we'll signal an
  error once the client has sent the third line"). `OkMeansWholeQuery` is what holds.
* `utils.c:45`: SIGPIPE keeps its default action, so a client that closes its socket
  before its answer is written may end the whole process (`BrokenPipe` in CommandThread
  and Server, `SendMessageFails` in Messages); the error paths behind the writes are
  reached only when the write fails otherwise.
* `messages.c:87`: the time limit (`Readme.md:401`) does not hold for a client that stays
  silent after a message. If it does expire in the middle of a response, or a read ends
  right behind the id, the rest of the response is taken for the response to the next
  message, which has the same id, or for the lines of the next command. This is the
  exception `abandoned` of `ResultIsTheAnswer` and `LinesInSync`.
* `messages.c:163`: with a separator other than NUL the string compared still ends with
  it, so `internal_error` is not recognised and reported as bad JSON.

### Clients

* `jsockd.go:365`: "If messageHandler is nil then all messages receive a `null`
  response"; the code sets a fatal error (`AnswerMessageFails`). And `:370`: the handler
  is "guaranteed to have finished executing" when the call returns; not after a timeout.
* `jsockd.go:276`: each call of `initJSockDClient` has its own `client`, so only the first
  restart reaches the user's one; hence `FirstRestartServes`. `restartCount` belongs to
  the process that ended and is always 1, so `MaxRestartsPerMinute` (`config.go:30`)
  only tells 0 from the rest.
* `jsockd.go:258`: `jsockdKillCount` is 0 when `Close` ends the process, so the watcher
  starts a new one after `Close`, whose comment says that it "waits for the JSockD
  process to terminate"; a second `Close` then ends that one. `FirstRestartServes` is
  about the time before `Close` only.
* `jsockd.go:514-516`: an exception after a message ends the handler of a connection with
  no fatal error. As long as the other connections are in steady use the server does not
  notice (`utils.c:185`, above), so commands that `chooseChan` gives to the dead connection
  time out or block. Hence the premise of `DeadConnectionNoticed`.
* `jsockd.go:220`: a READY count above the number of sockets is returned as an error without
  killing the process. jsockd never prints such a count (`main.c:1266`), so `RestartFails`
  leaves no process behind.
* `jsockd.go:399`: the send to the channel has no timeout (`StuckSend`) and panics if
  `Close` comes first (`panicked`): the two exceptions of `CommandEnds`.
* Python `__init__.py`, restart: a command that is in flight when the process crashes, or
  that is put into an old queue before the restart has finished, sets `fatal_error`, and
  the restart does not take it back: the new process serves nobody. Hence the premise
  `~c.fatal` of `CurrentQueuesServed`.
* The same, `:265`: a command is encoded outside the inner `try`, so one with a lone
  surrogate ends the handler without `_set_fatal_error` (`EncodeFails`). Its queue stays
  among those that callers are given until the server has noticed the closed connection
  and exited. This is the exception `"raised"` of `CurrentQueuesServed`.
* The same, `:587-595`: `restart_count` only grows, and what is subtracted from it counts
  the minutes since the last restart, not since the first. So a process that crashes once
  in a while is given up on after a few restarts, although no minute ever had more than
  `max_restarts_per_minute`. `RestartsBounded` shows that the other direction holds.
* The same: `close` between READY and the dial removes the socket directory, the dial fails
  and the new process, which waits for a connection, is forgotten (`Forgotten`, the
  exception of `NothingLeft`). The constructor leaves the temporary directory behind when
  the executable is missing.
* `js_server_manager.ex:352`: a thread is chosen by the length of its queue only, so one
  that is busy with an empty queue is as good as an idle one.
* The same: no clause of `handle_info` matches `:hup`, and the clause for `:client_down`
  has another shape than the message. So each caller that exits sends a message that ends
  the manager, the restarted one included: one fault with several callers can use up
  `max_restarts` and end the application (`app = "down"` in `Recovers`).
* The same: a jsockd whose manager dies before READY is left behind (`connected` in
  `OldServersEnd`). At `:225` a line of output that is no log line makes the logger's
  result the state of the manager; at `:229` the version is compared only when the check is to
  be skipped. Neither is in the model.

### Text codec and tools

* `textencodedecode.c`: the byte order mark is removed at the start of every chunk and not
  of the stream, and is kept when it is cut in two; a fatal decoder that throws keeps the
  bytes of the last character for the next call; `encodeInto` makes three replacement
  characters of one lone surrogate (hence `valid` in `EncodeIntoFits`).
* `cmdargs.c:285-287` and `Readme.md:159` allow `-pk` together with `-ss` or `-sd`; the
  check counts two flags and rejects three (`StrippedAndSigned` in `AcceptsUsage`). The
  usage text (`cmdargs.c:283-288`) also has `-e` on the line of `-s`, which is rejected at
  line 221 (`EvalWithSocket`), and `-sm` without `-m`, rejected at 225 and 267
  (`MapWithoutModule`; `Readme.md:173` has it too); it lacks `-v` and `-e` without sockets
  (`VersionOrEval`), which `Readme.md:145` and `173` have.
* `modcompiler.c`: the result of `fclose` is not looked at, so a full disk can end with exit
  status 0 (`lost`). A failed key generation leaves the files it has created, and as they
  must not exist, every retry fails; two that run at once may both fail so. Two compilers
  with one output file may mix their bytes (`disturbed`).
* `hex.c`: a digit that is none counts as zero, so a damaged key file gives a module that
  no server accepts, with exit status 0. Keys are whole in the model.

## 5. Proofs

The proofs hold for every value of the constants that satisfies the named ASSUMEs, which
say that bounds are natural numbers, that there is at least one bucket, byte, socket,
connection or cell of bytecode where the code has at least one, and that the threads and
callers are finitely many where they are counted. TLC evaluates the assumptions in every
run, and has checked each inductive invariant below before it was proved. Each proof
module has one lemma per action (or per group of actions that change the same variables)
and combines them; every theorem named here is listed in `PROJECT.json`, with the
property that it states where a run checks it.

**HashCacheProofs.**

* `TypeCorrect`: `TypeOK` is not inductive alone, since a decrement keeps a refcount
  natural only if somebody holds a reference. It is proved from
  `RefcountAccounting` (`RefcountsAreExact`), which is proved with it: each action
  moves one thread into or out of `Holders(b)` (it works on the bucket) or `Users(b)` (it
  has the bucket in `cached_function_in_use`), and a few lemmas about the cardinality
  of a set with one element more or less say what that does to the sum.
* `SeqlockInvariant`: the inductive invariant `SeqlockInv` behind everything else. It
  says at most one thread owns a bucket and none owns what is in a
  `cached_function_in_use`, `update_count` is odd exactly
  while its owner is between the two increments, what key and payload are at each of
  the writer's program counters, and that `before` never exceeds `update_count`, with
  what equality implies. Without the last part nothing follows from a reader's
  successful comparison; without exclusion the parity says nothing.
* `WritersExclude`, `PublishedEntriesAreWhole`, `AddersOwn`, `HitsAreStable`
  follow from it. `HitsAreStable` has the
  exception `raced`, the first entry of section 4.
* `UnpinnedCacheAccepts`: by the accounting, a quiescent cache has a refcount above zero
  only where `leaked` is or where a cut third line still keeps a reference, so every query
  finds a bucket unless all those it probes are pinned or kept.

**LineBufProofs.**

* `BufferInBounds`: `InBounds` is inductive as it stands, as it relates `start`, `n`,
  `afsep` and `i` while a scan is under way. The step that needs care is the trampoline,
  which moves `start` and shortens `n` together.
* `HandsOutLines`: LineBuf implements LineSource. The invariant `InStream` says which part
  of the stream the buffer holds (`Offset` bytes came before index 0) and that the last
  accepted line ends with a separator behind which none was overlooked. With it a read is
  `Arrive`, because no whole line waits; an accepted line is `HandOut`, because the next
  separator of the stream is the one that the scan has found; the rest stutters. That
  LineSource picks lines with CHOOSE and counts separators with Cardinality needs the
  lemmas `SepsGrow` and `LineEndIs`. A cut line is one of which at least `Size` bytes were
  dropped, which is where "flagged exactly when it does not fit" comes from.

**CommandThreadProofs.** `CommandLoop` is the invariant: `InSync` (each line in the pipeline
is meant as the field behind the one before it, and the first as `ts.line_n`), `Command`
(what is known of id and query at each field, given which lines were cut), and
`Replacement`: interpreters are numbered and owned (`RuntimeOwnership`), only a thread
between two commands may be without one (`Awake`), and each pair of
`replacement_thread_state` and background thread says what is in `my_replacement`
(`Handshake`), until and after `main` has joined both (`AfterJoin`). The parts need each
other: the swap is safe because INIT_COMPLETE comes with a finished thread, and a wakeup
makes no third interpreter because a thread without one has no replacement pending.

* `LinesKeepTheirMeaning`, `OkIsWhole`, `ReplacementIsSafe` and `ExitIsClean` follow from
  it, with cut lines and failing calls.
* `ServesCommands`: every step is a step of CommandService or a stutter; the steps that
  change `ts.rt` (swap, shutdown, wakeup, exit) fall between two commands by `Awake` and
  `InSync`.
* `NothingHeldBetweenCommands` assumes that no line is cut and no call fails, as its run
  does: with a cut third line the code does not have the property (section 4,
  `main.c:559`).

**ServerProofs.** `StartAndStop`: the wait group's count equals the number of threads that
have not reported (`WaitGroupCount`), and `Phases` says what main knows at each of its
places: threads are created and joined in order, and states destroyed when all are joined.
`ReadyWaitsForAll`, `NothingDestroyedInUse` and `NoFailureLost` follow. `NoWakeupLost`
has its own invariant: the mutex has one holder, and while main is between its test and
its wait it is main, so the thread that counted down to zero is still before its signal.

The same module has the theorems about the other things that the one process does without
regard to commands: its mapped files (Mappings) and its text decoder (Utf8).

* `FilesFollowed`, with `MappedWhenRead` (`ReadsFindMapping`) and `ReleasedOnce`
  (`MappingsReleasedOnce`), for every number of threads, interpreters and loads. A thread
  that reads `g_source_map` and then copies from it is safe only if nobody unmaps in
  between, and the code unmaps when as many loads are counted as there are threads. That
  is right if no thread counts twice. `Copies` says so: in a server in which no interpreter
  was replaced (`Undisturbed`), the count is at most the number of threads that have a copy
  and have counted it (`Counted`). A count of `NThreads` then means that all threads have
  theirs, and a thread that has one does not read the file again. `Counted` has a second
  case, because main itself counts when the first interpreter of a thread that it has not
  started throws. `Unmapping` (one agent releases the map, and once), `FileState` (what the
  pointers say of the mappings) and `Control` (who can be where, and that main cleans up
  after the threads) are needed with it. The exceptions that the two properties have are
  the entries of section 4; `Excused` is the one for the module.
* `CutResumes`: a character that the end of a chunk cuts, any number of times, gives the
  code point or error, the position and the context that it gives uncut. `Follow` is what
  the loop of `njs_utf8_decode` makes of the following bytes when `need` of them are
  missing, and `Outcome` what the call returns: both depend on the context only through the
  number of bytes missing, the bits so far and the bounds for the next byte, and a cut
  keeps all three.
* `StepsAsReference`: between two characters, one call of the decoder takes the bytes that
  Unicode's definition (`Whole`, `Subpart`, `Incomplete`) takes, reports an error when that
  does, and otherwise gives the code point that encodes to these bytes again. The bounds
  that the code sets for the second byte (`LeadLower`, `LeadUpper`) are what makes the
  two agree on overlong forms, surrogates and values above U+10FFFF.

The decoder's theorems use no constant and no assumption. Together they are the step of the
induction over chunks behind `DecodesAsReference`.

**MessagesProofs.** `ConversationFollowed`: unless a wait was abandoned, server and client
are in one of five situations (between commands, sending, executing, asking, answering),
and in each of them the fields in the socket and the server's buffers are determined.
`AnswersArrive` and `LinesStayInSync` follow.

**GoClientProofs.** `ClientState`: only the last generation has a process, and its watcher
restarts only when that is gone (`OneServer`); an id has been given out once
(`IdsAreUnique`), and a handler hands over only the response to its own command, so a
caller that waits under an id gets its own (`ResponsesAreOwn`).

**PythonClientProofs.** `ClientState`: `Replacing` says which of process, queues and workers
are of the new generation at each step of a restart, and `HandlersWork` that outside of a
restart no handler has returned without setting an error, but for one that could not encode
a command (`QueuesServed`). `BudgetIsKept`
needs more than the count that the code keeps: from restart number
`max_restarts_per_minute` + 1 on, each restart is at least a minute after every one
before it. This holds because the count is never reset, which is also what makes the
client give up too early (section 4).

**ToolsProofs.** `ToolsState`: `Control` (which steps belong to which mode), `KeyFiles` and
`OutFile`.

* `OnlyUsageAccepted`: counting flags is as good as naming them. Given the options that the
  loop can leave (`Parsing`), the sum that each check asks for is the cardinality of the
  options of its mode that are given, and a subset with as many elements is the whole set.
  This gives the accepted lines by mode (`ChecksByMode`), which are then compared with the
  lines of the usage text and the five exceptions of section 4.
* `KeysBelongTogether`: a key file has one creator (fopen with "x"), who writes only when
  it has created both.
* `SignedModulesLoad`: what an undisturbed process has written is in the file as far as it
  got, so that a complete file is its output, whose last cell signs all the others.

Only model-checked: all liveness (`QueryTerminates`, `CloseEndsServer`,
`IdleInterpreterShutDown`, `StartupCompletes`, `StopEndsProcess`, `EveryWaitEnds`,
`CommandEnds`, `DeadConnectionNoticed`, `FirstRestartServes`, `NothingLeft`, `Recovers`,
`OldServersEnd`), which is out of this prover's reach, and with it ElixirClient, whose
properties are of this kind; and `DecodesAsReference` and `EncodeIntoFits` of TextCodec.
These two are about whole texts, which the code handles in loops that the model writes as
recursive functions; what those compute for every input needs induction over data, which
is out of reach too. The step of the decoder that both use is proved (`CutResumes`,
`StepsAsReference`).

## 6. What a theorem would add

Every safety property that a run checks is proved, but for the two of TextCodec. An
induction over the chunks of a text, if a prover can be given one, would close that gap
from the two theorems about single steps.

## 7. Plan

Done: HashCache, CommandThread, LineBuf, Server, Messages, GoClient, Mappings, then LineSource
and CommandService with their refinements, PythonClient, ElixirClient, TextCodec with Utf8, Tools. The
theorems of section 5 were proved in the order HashCache, LineBuf, Server, CommandThread,
GoClient, Messages, PythonClient, Tools, Mappings, Utf8.

## 8. Not modelled

* Memory orders weaker than sequential consistency, and the wraparound of the `int32_t`
  counters after 2^31 evictions or references.
* Failures of `pthread_join`, of mutex calls and of `malloc` in the middle of a handler.
* The debug-only commands `?tsreset` and `?truncated`, and the macOS branch of
  `wait_group_timed_wait`, which polls in slices.
* The counter of memory increases against the rule of `Readme.md:254-259`: the code compares
  with `> 3` from a baseline of 0 (`main.c:788`). CommandThread takes the limit as the
  constant `MaxIncreases`; the difference is one comparison that a test reaches.
* Logging and the console (`log.c`, `console.c`): formatting under a mutex that is held for
  one message, and the threads of the clients that forward these lines.
* Parsing and formatting of backtraces and log lines, the JSON conversion and the download
  of the executable in the clients, `getjsockd.go` and `backtrace.mjs`: pure I/O or string
  processing that changes no state of the modelled parts. The cryptography.
* QuickJS, xxHash, ed25519: third-party. JavaScript execution is an arbitrary outcome
  after an arbitrary time. Of the repository's implementation lines about two thirds are
  these libraries (`src/jsockd_server/src/lib`), to which no model maps.
