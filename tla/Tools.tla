------------------------------- MODULE Tools --------------------------------
(***************************************************************************)
(* jsockd as a command line tool: how argv becomes a CmdArgs (cmdargs.c),   *)
(* which mode main then chooses, and what the two modes that make files do  *)
(* to them (modcompiler.c): -k, which makes a key pair, and -c, which       *)
(* compiles and signs a module.  Several processes may work on the same     *)
(* files, and each may be killed, or fail, at any step.                     *)
(*                                                                         *)
(* A key is named after the process that made it, and a file is a sequence  *)
(* of cells: a key, a part of the bytecode, the version or a signature.     *)
(***************************************************************************)
EXTENDS Integers, Sequences, FiniteSets

CONSTANTS
    Procs,          \* processes, each of which runs jsockd once
    Parser,         \* the one whose command line is parsed word by word
    BodyLen,        \* BodyLen[p]: cells of the bytecode that p compiles
    MAX_THREADS

ASSUME ProcsAssumption == Parser \in Procs
ASSUME BodyLenAssumption == BodyLen \in [Procs -> Nat \ {0}]
ASSUME MaxThreadsAssumption == MAX_THREADS \in Nat \ {0}

VARIABLES
    opts,       \* the options that the CmdArgs holds
    n_sockets,
    want,       \* what the parser takes the next word for
    pc,
    mode,       \* mode[p]: what main dispatched to
    status,     \* status[p]: "running", "ok", "failed" or "killed"
    files,      \* the key pair and the output file
    opened,     \* opened[p]: the key files that p has created
    buffered,   \* buffered[p]: those whose key is in the stream's buffer
    pos,        \* pos[p]: cells of its output that p has written
    key,        \* key[p]: the private key that p read
    lost,       \* history: processes whose last write failed in fclose
    disturbed   \* history: processes whose output another process wrote to

parserVars == <<opts, n_sockets, want>>
fileVars == <<files, opened, buffered, pos, key, lost, disturbed>>
vars == <<parserVars, pc, mode, status, fileVars>>

-----------------------------------------------------------------------------
(***************************************************************************)
(* parse_cmd_args                                                           *)
(***************************************************************************)

Options == {"-v", "-m", "-t", "-i", "-s", "-sm", "-b", "-k", "-pk", "-c", "-ss", "-sd", "-e"}

\* Words that are no option: "10" is a number and two hex digits, "0" only a number, and
\* "-x" stands for all others that begin with a dash.
Words == Options \cup {"--", "-", "-x", "word", "10", "0"}

BeginsWithDash(w) == w \notin {"word", "10", "0"}

Absent == <<[kind |-> "absent"]>>

OptionNext == [kind |-> "option"]
ArgumentNext(w, n) == [kind |-> "argument", of |-> w, left |-> n]
SocketNext(dashes, added) == [kind |-> "socket", dashes |-> dashes, added |-> added]

\* What is done with an argument of w: the number or the hex digits in it may be wrong.
Valid(w, argument) ==
    CASE w = "-t" -> argument = "10"
      [] w = "-i" -> argument \in {"10", "0"}
      [] w = "-b" -> argument = "10"
      [] OTHER    -> TRUE

\* Mutant: -i is not among the flags that are counted.
n_flags_set_without_idle == Cardinality(opts \ {"-i"})

\* At most one of -ss and -sd is ever set, as is one field for both.
n_flags_set == Cardinality(opts)

Given(S) == IF S \cap opts = {} THEN 0 ELSE 1

\* The checks after the loop, in the order of the code.
Checks ==
    /\ ~("-v" \in opts /\ n_flags_set > 1)
    /\ "-e" \in opts => /\ n_flags_set = 1 + Given({"-sm"}) + Given({"-m"})
                        /\ ~("-sm" \in opts /\ "-m" \notin opts)
    /\ "-k" \in opts => n_flags_set = 1
    /\ "-pk" \in opts => n_flags_set = 2 /\ "-c" \in opts
    /\ Given({"-ss", "-sd"}) = 1 => "-c" \in opts
    /\ "-c" \in opts => 1 >= n_flags_set - Given({"-pk"}) - Given({"-ss", "-sd"})
    /\ \/ {"-v", "-k", "-c", "-e"} \cap opts # {}
       \/ /\ n_sockets # 0
          /\ ~("-sm" \in opts /\ "-m" \notin opts)

\* The order in which main asks for the mode.
Dispatch ==
    CASE "-v" \in opts -> "version" [] "-e" \in opts -> "eval" [] "-c" \in opts -> "compile"
      [] "-k" \in opts -> "key" [] OTHER -> "server"

Init ==
    /\ opts = {} /\ n_sockets = 0 /\ want = OptionNext
    /\ pc = [p \in Procs |-> IF p = Parser THEN "parse" ELSE "start"]
    /\ mode = [p \in Procs |-> "none"]
    /\ status = [p \in Procs |-> "running"]
    /\ files = [f \in {"priv", "pub", "out"} |-> Absent]
    /\ opened = [p \in Procs |-> {}] /\ buffered = opened
    /\ pos = [p \in Procs |-> 0]
    /\ key = [p \in Procs |-> "none"]
    /\ lost = {} /\ disturbed = {}

Goto(p, label) == pc' = [pc EXCEPT ![p] = label]

End(p, how) == Goto(p, "done") /\ status' = [status EXCEPT ![p] = how]

\* A word in the place of an option.  A second -v or -s is no error.
Option(w) ==
    /\ w \in Options /\ (w \in opts => w \in {"-v", "-s"})
    /\ w \in {"-ss", "-sd"} => {"-ss", "-sd"} \cap opts = {}
    /\ opts' = IF w \in {"-v", "-ss", "-sd"} THEN opts \cup {w} ELSE opts
    /\ want' = CASE w \in {"-v", "-ss", "-sd"} -> OptionNext
                 [] w = "-s"                   -> SocketNext(FALSE, FALSE)
                 [] w = "-c"                   -> ArgumentNext(w, 2)
                 [] OTHER                      -> ArgumentNext(w, 1)
    /\ UNCHANGED n_sockets

\* The field is set when the last argument has been seen.
Argument(w) ==
    /\ Valid(want.of, w)
    /\ IF want.left = 1
       THEN opts' = opts \cup {want.of} /\ want' = OptionNext
       ELSE want' = ArgumentNext(want.of, want.left - 1) /\ UNCHANGED opts
    /\ UNCHANGED n_sockets

\* The inner loop of -s.  Sockets beyond MAX_THREADS are dropped.
Socket(w) ==
    IF w = "--" THEN want' = SocketNext(TRUE, want.added) /\ UNCHANGED <<opts, n_sockets>>
    ELSE /\ want' = SocketNext(want.dashes, TRUE)
         /\ n_sockets' = IF n_sockets < MAX_THREADS THEN n_sockets + 1 ELSE n_sockets
         /\ opts' = opts \cup {"-s"}

EndsSockets(w) == want.kind = "socket" /\ ~want.dashes /\ BeginsWithDash(w) /\ w # "--"

TakeWord(w) ==
    /\ pc[Parser] = "parse"
    /\ CASE want.kind = "option"                          -> Option(w)
         [] want.kind = "argument"                        -> Argument(w)
         [] want.kind = "socket" /\ EndsSockets(w)        -> want.added /\ Option(w)
         [] want.kind = "socket" /\ ~EndsSockets(w)       -> Socket(w)
    /\ UNCHANGED <<pc, mode, status, fileVars>>

NothingMissing == want.kind = "option" \/ (want.kind = "socket" /\ want.added)

\* A word that is in no place, the end of argv in the middle of an option, or a failed
\* check.  Only behind -- every word is in place.
ParseFails ==
    /\ pc[Parser] = "parse"
    /\ ~(want = SocketNext(TRUE, TRUE) /\ Checks)
    /\ End(Parser, "failed")
    /\ UNCHANGED <<parserVars, mode, fileVars>>

\* The end of argv.
Parsed ==
    /\ pc[Parser] = "parse"
    /\ NothingMissing
    /\ Checks
    /\ mode' = [mode EXCEPT ![Parser] = Dispatch]
    /\ Goto(Parser, "dispatch")
    /\ UNCHANGED <<parserVars, status, fileVars>>

\* main goes on in the mode; the CmdArgs is only read from here on.
RunMode ==
    /\ pc[Parser] = "dispatch"
    /\ CASE mode[Parser] = "key"     -> Goto(Parser, "open_priv") /\ UNCHANGED <<status, parserVars>>
         [] mode[Parser] = "compile" -> Goto(Parser, "compile") /\ UNCHANGED <<status, parserVars>>
         [] OTHER                    -> End(Parser, "ok") /\ UNCHANGED parserVars
    /\ UNCHANGED <<mode, fileVars>>

\* The other processes have been given one of these command lines.  Parsing and the other
\* modes share no state with them, so they start when the first one makes files too.
Start(p, m) ==
    /\ p # Parser /\ pc[p] = "start"
    /\ mode[Parser] \in {"key", "compile"} /\ pc[Parser] # "dispatch"
    /\ mode' = [mode EXCEPT ![p] = m]
    /\ Goto(p, IF m = "key" THEN "open_priv" ELSE "compile")
    /\ UNCHANGED <<parserVars, status, fileVars>>

-----------------------------------------------------------------------------
(***************************************************************************)
(* output_key_file                                                          *)
(***************************************************************************)

\* Mutant: "w" instead of "wx".
MayCreateAlways(f) == TRUE

\* fopen(f, "wx")
MayCreate(f) == files[f] = Absent

Created(p, f) ==
    /\ MayCreate(f)
    /\ files' = [files EXCEPT ![f] = <<>>]
    /\ opened' = [opened EXCEPT ![p] = @ \cup {f}]
    /\ UNCHANGED <<buffered, pos, key, lost, disturbed>>

\* Both files are tried, whether the first could be created or not.
OpenPriv(p) ==
    /\ pc[p] = "open_priv"
    /\ Created(p, "priv") \/ UNCHANGED fileVars
    /\ Goto(p, "open_pub")
    /\ UNCHANGED <<parserVars, mode, status>>

OpenPub(p) ==
    /\ pc[p] = "open_pub"
    /\ Created(p, "pub") \/ UNCHANGED fileVars
    /\ Goto(p, "write_pub")
    /\ UNCHANGED <<parserVars, mode, status>>

KeysFail(p) ==
    /\ Goto(p, "close_priv")
    /\ status' = [status EXCEPT ![p] = "failing"]
    /\ UNCHANGED <<parserVars, mode, fileVars>>

\* A file could not be created, there is no seed, or the public key cannot be written.
NoKeyPair(p) == pc[p] = "write_pub" /\ KeysFail(p)

\* hex_encode; the stream's buffer is longer than a key, so nothing is in the file yet.
WriteKey(p, f, from, to) ==
    /\ pc[p] = from /\ opened[p] = {"priv", "pub"}
    /\ buffered' = [buffered EXCEPT ![p] = @ \cup {f}]
    /\ Goto(p, to)
    /\ UNCHANGED <<parserVars, mode, status, files, opened, pos, key, lost, disturbed>>

WritePub(p) == WriteKey(p, "pub", "write_pub", "write_priv")
WritePriv(p) == WriteKey(p, "priv", "write_priv", "close_priv")

WritePrivFails(p) == pc[p] = "write_priv" /\ KeysFail(p)

Whole(p) == <<[kind |-> "key", by |-> p]>>

\* fclose writes what is in the buffer; its result is not looked at.  Part of a key counts
\* as none.
CloseKey(p, f, from, to) ==
    /\ pc[p] = from
    /\ \/ f \in buffered[p] /\ files' = [files EXCEPT ![f] = Whole(p)] /\ UNCHANGED lost
       \/ f \in buffered[p] /\ lost' = lost \cup {p} /\ UNCHANGED files
       \/ f \notin buffered[p] /\ UNCHANGED <<files, lost>>
    /\ IF to = "done" THEN End(p, IF status[p] = "failing" THEN "failed" ELSE "ok")
       ELSE Goto(p, to) /\ UNCHANGED status
    /\ UNCHANGED <<parserVars, mode, opened, buffered, pos, key, disturbed>>

ClosePriv(p) == CloseKey(p, "priv", "close_priv", "close_pub")
ClosePub(p) == CloseKey(p, "pub", "close_pub", "done")

-----------------------------------------------------------------------------
(***************************************************************************)
(* compile_module_file                                                      *)
(***************************************************************************)

WithKey(p) == IF p = Parser THEN "-pk" \in opts ELSE mode[p] = "compile_signed"

Body(p) == [i \in 1 .. BodyLen[p] |-> [kind |-> "bytecode", by |-> p, part |-> i]]

Version == [kind |-> "version"]

\* Mutant: the version is appended after the signature has been made.
SignedDataWithoutVersion(p) == Body(p)

\* out_buf, with the version string behind the bytecode.
SignedData(p) == Append(Body(p), Version)

\* The signature of an unsigned module is all zeros.
Signature(p) ==
    IF key[p] = "none" THEN [kind |-> "zeros"]
    ELSE [kind |-> "signature", by |-> key[p], of |-> SignedData(p)]

Output(p) == Append(Append(Body(p), Version), Signature(p))

\* The source cannot be loaded or compiled.
CompileFails(p) ==
    /\ pc[p] = "compile" /\ End(p, "failed")
    /\ UNCHANGED <<parserVars, mode, fileVars>>

\* fopen and fread of the key file: 128 characters or an error.
ReadKey(p) ==
    /\ pc[p] = "compile"
    /\ IF WithKey(p)
       THEN files["priv"] \notin {Absent, <<>>} /\ key' = [key EXCEPT ![p] = files["priv"][1].by]
       ELSE UNCHANGED key
    /\ Goto(p, "open_out")
    /\ UNCHANGED <<parserVars, mode, status, files, opened, buffered, pos, lost, disturbed>>

\* The others whose output is, or becomes, mixed with what p writes.
Disturb(p) ==
    disturbed' = disturbed \cup
        {q \in Procs \ {p} : pos[q] > 0 \/ pc[q] \in {"write_body", "write_signature", "close_out"}}

\* fopen(output_filename, "wb")
OpenOut(p) ==
    /\ pc[p] = "open_out"
    /\ files' = [files EXCEPT !["out"] = <<>>]
    /\ Disturb(p)
    /\ Goto(p, "write_body")
    /\ UNCHANGED <<parserVars, mode, status, opened, buffered, pos, key, lost>>

OpenOutFails(p) ==
    /\ pc[p] = "open_out" /\ End(p, "failed")
    /\ UNCHANGED <<parserVars, mode, fileVars>>

\* A write of the stream's buffer to the file, at the offset of this process; when it
\* happens is up to stdio.
Flush(p) ==
    LET i == pos[p] + 1
        old == files["out"]
    IN  /\ \/ pc[p] = "write_body" /\ i <= BodyLen[p] + 1
           \/ pc[p] \in {"write_signature", "close_out"} /\ i <= Len(Output(p))
        /\ files' = [files EXCEPT !["out"] =
                        [j \in 1 .. (IF Len(old) > i THEN Len(old) ELSE i) |->
                            IF j = i THEN Output(p)[i] ELSE IF j <= Len(old) THEN old[j] ELSE [kind |-> "hole"]]]
        /\ pos' = [pos EXCEPT ![p] = i]
        /\ Disturb(p)
        /\ UNCHANGED <<parserVars, pc, mode, status, opened, buffered, key, lost>>

FwriteBody(p) ==
    /\ pc[p] = "write_body" /\ Goto(p, "write_signature")
    /\ UNCHANGED <<parserVars, mode, status, fileVars>>

FwriteSignature(p) ==
    /\ pc[p] = "write_signature" /\ Goto(p, "close_out")
    /\ UNCHANGED <<parserVars, mode, status, fileVars>>

\* fwrite reports that a write has failed.  What fclose then adds to a broken file makes
\* no difference.
FwriteFails(p) ==
    /\ pc[p] \in {"write_body", "write_signature"} /\ End(p, "failed")
    /\ UNCHANGED <<parserVars, mode, fileVars>>

\* fclose, whose result is not looked at.
CloseOut(p) ==
    /\ pc[p] = "close_out" /\ End(p, "ok")
    /\ lost' = IF pos[p] < Len(Output(p)) THEN lost \cup {p} ELSE lost
    /\ UNCHANGED <<parserVars, mode, files, opened, buffered, pos, key, disturbed>>

\* The signal handler of SIGINT and SIGTERM only sets a flag; SIGKILL loses the buffers.
Killed(p) ==
    /\ pc[p] \notin {"parse", "dispatch", "start", "done"} /\ End(p, "killed")
    /\ UNCHANGED <<parserVars, mode, fileVars>>

KeyStep(p) ==
    \/ OpenPriv(p) \/ OpenPub(p) \/ NoKeyPair(p) \/ WritePub(p) \/ WritePriv(p) \/ WritePrivFails(p)
    \/ ClosePriv(p) \/ ClosePub(p)

CompileStep(p) ==
    \/ CompileFails(p) \/ ReadKey(p) \/ OpenOut(p) \/ OpenOutFails(p) \/ Flush(p)
    \/ FwriteBody(p) \/ FwriteSignature(p) \/ FwriteFails(p) \/ CloseOut(p)

Next ==
    \/ \E w \in Words : TakeWord(w)
    \/ Parsed \/ ParseFails \/ RunMode
    \/ \E p \in Procs, m \in {"key", "compile", "compile_signed"} : Start(p, m)
    \/ \E p \in Procs : KeyStep(p) \/ CompileStep(p) \/ Killed(p)

Spec == Init /\ [][Next]_vars

\* verify_bytecode: the signature stands at the end and covers all before it.
verify_bytecode(s, k) == s[Len(s)] = [kind |-> "signature", by |-> k, of |-> SubSeq(s, 1, Len(s) - 1)]

\* load_module_bytecode of a release build of the same version, with the public key k.
load_module_bytecode(s, k) ==
    Len(s) >= 3 /\ s[Len(s) - 1] = Version /\ verify_bytecode(s, k)

-----------------------------------------------------------------------------
(***************************************************************************)
(* Properties                                                               *)
(***************************************************************************)

\* The three command lines of the usage text of parse_cmd_args, as sets of options.
UsageText ==
    \/ "-s" \in opts /\ opts \subseteq {"-m", "-sm", "-b", "-t", "-i", "-e", "-s"}
    \/ "-c" \in opts /\ opts \subseteq {"-c", "-pk", "-ss", "-sd"}
    \/ opts = {"-k"}

\* In the text, but rejected: the text has -e on the line of -s and -sm without -m, and
\* the check of -pk counts exactly two flags.
EvalWithSocket == {"-e", "-s"} \subseteq opts
MapWithoutModule == "-sm" \in opts /\ "-m" \notin opts
StrippedAndSigned == {"-c", "-pk"} \subseteq opts /\ Given({"-ss", "-sd"}) = 1

\* Not in the text, but accepted: -v alone, and -e without a socket.
VersionOrEval ==
    \/ opts = {"-v"}
    \/ "-e" \in opts /\ opts \subseteq {"-e", "-m", "-sm"} /\ ~MapWithoutModule

\* parse_cmd_args accepts the command lines of its usage text and no others, apart from
\* the three combinations that the checks forbid and the two modes that the text forgets.
\* So the mode that main finds first is the only one that was asked for, and it uses every
\* option given.
AcceptsUsage ==
    pc[Parser] = "parse" /\ NothingMissing =>
        (Checks <=> \/ UsageText /\ ~EvalWithSocket /\ ~MapWithoutModule /\ ~StrippedAndSigned
                    \/ VersionOrEval)

\* However many processes make keys with one prefix, and wherever they fail or are killed:
\* two whole key files belong together, and a pair once reported as made stays, unless
\* fclose lost it unnoticed.
PairMatches ==
    /\ files["priv"] \in {Absent, <<>>} \/ files["pub"] \in {Absent, <<>>} \/ files["priv"] = files["pub"]
    /\ \A p \in Procs : mode[p] = "key" /\ status[p] = "ok" /\ p \notin lost =>
                            files["priv"] = Whole(p) /\ files["pub"] = Whole(p)

\* A module that was compiled with a key and reported as written is accepted by a server
\* with the public key of the pair, unless another process wrote to the file or fclose
\* lost the end of it unnoticed.
SignedModuleLoads ==
    \A p \in Procs : status[p] = "ok" /\ key[p] # "none" /\ p \notin lost \cup disturbed =>
                        load_module_bytecode(files["out"], key[p])
=============================================================================
