----------------------------- MODULE ToolsProofs -----------------------------
(***************************************************************************)
(* Proofs about Tools, for any number of processes and any bytecode: which  *)
(* command lines are accepted, that two key files belong together, and that *)
(* a signed module can be loaded.                                           *)
(***************************************************************************)
EXTENDS Tools, FiniteSetTheorems, SequenceTheorems, TLAPS

USE ProcsAssumption, BodyLenAssumption, MaxThreadsAssumption

-----------------------------------------------------------------------------
(***************************************************************************)
(* The inductive invariant                                                  *)
(***************************************************************************)

KeyLabels == {"open_priv", "open_pub", "write_pub", "write_priv", "close_priv", "close_pub"}
WriteLabels == {"write_body", "write_signature", "close_out"}
CompileLabels == {"compile", "open_out"} \cup WriteLabels
StartLabels == {"parse", "start", "dispatch"}
Labels == StartLabels \cup KeyLabels \cup CompileLabels \cup {"done"}

Modes == {"none", "version", "eval", "compile", "compile_signed", "key", "server"}
Ended == {"ok", "failed", "killed"}

KeyNames == {"priv", "pub"}
FileNames == KeyNames \cup {"out"}

TypeOK ==
    /\ opts \in SUBSET Options /\ n_sockets \in Nat
    /\ pc \in [Procs -> Labels]
    /\ mode \in [Procs -> Modes]
    /\ status \in [Procs -> {"running", "failing"} \cup Ended]
    /\ files = [f \in FileNames |-> files[f]]
    /\ opened \in [Procs -> SUBSET KeyNames] /\ buffered \in [Procs -> SUBSET KeyNames]
    /\ pos \in [Procs -> Nat]
    /\ key \in [Procs -> Procs \cup {"none"}]
    /\ lost \in SUBSET Procs /\ disturbed \in SUBSET Procs

\* What has been parsed: only an option that takes arguments waits for one, and there is one
\* field for -ss and -sd.
WithArguments == Options \ {"-v", "-s", "-ss", "-sd"}

Parsing ==
    /\ want.kind \in {"option", "argument", "socket"}
    /\ want.kind = "argument" => want.of \in WithArguments
    /\ "-s" \in opts <=> n_sockets # 0
    /\ ~({"-ss", "-sd"} \subseteq opts)

\* Which steps belong to which mode, and what is done only in later steps.
Control(p) ==
    /\ status[p] \in Ended <=> pc[p] = "done"
    /\ status[p] = "failing" => pc[p] \in {"close_priv", "close_pub"}
    /\ pc[p] \in KeyLabels => mode[p] = "key"
    /\ pc[p] \in CompileLabels => mode[p] # "key"
    /\ mode[p] = "key" \/ pc[p] \in StartLabels \cup {"compile"} => key[p] = "none"
    /\ pc[p] \notin WriteLabels \cup {"done"} => pos[p] = 0

\* A key file is created by one process, which alone writes to it, and only if it has
\* created the other one too.
SoleCreator(p) ==
    /\ \A q \in Procs : q # p => opened[p] \cap opened[q] = {}
    /\ \A f \in opened[p] : files[f] # Absent
    /\ buffered[p] # {} => opened[p] = KeyNames

KeyFile(f) ==
    \/ files[f] = Absent \/ files[f] = <<>>
    \/ \E p \in Procs : files[f] = Whole(p) /\ opened[p] = KeyNames

\* How far p is in writing a pair.
Written(p) ==
    /\ pc[p] = "write_priv" => "pub" \in buffered[p]
    /\ pc[p] \in {"close_priv", "close_pub"} /\ status[p] # "failing" => buffered[p] = KeyNames
    /\ pc[p] = "close_pub" /\ status[p] # "failing" /\ p \notin lost => files["priv"] = Whole(p)
    /\ mode[p] = "key" /\ status[p] = "ok" /\ p \notin lost =>
           files["priv"] = Whole(p) /\ files["pub"] = Whole(p)

KeyFiles ==
    /\ \A f \in KeyNames : KeyFile(f)
    /\ \A p \in Procs : SoleCreator(p) /\ Written(p)

\* The output of a process that nobody disturbed is in the file as far as it was written.
Complete(p) == status[p] = "ok" /\ key[p] # "none" /\ p \notin lost

OutOf(p) ==
    /\ pos[p] <= BodyLen[p] + 2
    /\ Complete(p) => pos[p] = BodyLen[p] + 2
    /\ p \notin disturbed /\ (pc[p] \in WriteLabels \/ Complete(p)) =>
           files["out"] = [j \in 1 .. pos[p] |-> Output(p)[j]]

OutFile == \A p \in Procs : OutOf(p)

Inv == TypeOK /\ Parsing /\ (\A p \in Procs : Control(p)) /\ KeyFiles /\ OutFile
-----------------------------------------------------------------------------
(***************************************************************************)
(* Which command lines are accepted                                         *)
(***************************************************************************)

\* The number of flags that parse_cmd_args counts, for as many as its checks tell apart.
LEMMA FewFlags ==
    ASSUME NEW S \in SUBSET Options
    PROVE  /\ IsFiniteSet(S) /\ Cardinality(S) \in Nat
           /\ \A T \in SUBSET S : Cardinality(T) <= Cardinality(S)
           /\ \A T \in SUBSET S : Cardinality(T) = Cardinality(S) => T = S
<1>1. IsFiniteSet(Options)
  <2>1. \A T, x : IsFiniteSet(T) => IsFiniteSet(T \cup {x})
    BY FS_AddElement
  <2>2. IsFiniteSet({} \cup {"-v"} \cup {"-m"} \cup {"-t"} \cup {"-i"} \cup {"-s"} \cup {"-sm"})
    BY <2>1, FS_EmptySet
  <2>3. IsFiniteSet({} \cup {"-b"} \cup {"-k"} \cup {"-pk"} \cup {"-c"}
                     \cup {"-ss"} \cup {"-sd"} \cup {"-e"})
    BY <2>1, FS_EmptySet
  <2>4. Options = ({} \cup {"-v"} \cup {"-m"} \cup {"-t"} \cup {"-i"} \cup {"-s"} \cup {"-sm"})
                  \cup ({} \cup {"-b"} \cup {"-k"} \cup {"-pk"} \cup {"-c"}
                     \cup {"-ss"} \cup {"-sd"} \cup {"-e"})
    BY DEF Options
  <2> QED BY <2>2, <2>3, <2>4, FS_Union
<1>2. IsFiniteSet(S)
  BY <1>1, FS_Subset
<1> QED BY <1>2, FS_Subset, FS_CardinalityType

LEMMA SmallSets ==
    /\ \A a : Cardinality({a}) = 1
    /\ \A a, b : a # b => Cardinality({a, b}) = 2
    /\ \A a, b, c : a # b /\ a # c /\ b # c => Cardinality({a, b, c}) = 3
<1>1. \A a : IsFiniteSet({a}) /\ Cardinality({a}) = 1
  BY FS_Singleton
<1>2. \A a, b : a # b => IsFiniteSet({a, b}) /\ Cardinality({a, b}) = 2
  <2> SUFFICES ASSUME NEW a, NEW b, a # b PROVE IsFiniteSet({a, b}) /\ Cardinality({a, b}) = 2
    OBVIOUS
  <2>1. {a, b} = {a} \cup {b} /\ b \notin {a}
    OBVIOUS
  <2>2. /\ IsFiniteSet({a} \cup {b})
        /\ Cardinality({a} \cup {b}) = IF b \in {a} THEN Cardinality({a}) ELSE Cardinality({a}) + 1
    BY ONLY <1>1, FS_AddElement
  <2>3. Cardinality({a}) = 1
    BY <1>1
  <2> QED BY <2>1, <2>2, <2>3
<1>3. \A a, b, c : a # b /\ a # c /\ b # c => Cardinality({a, b, c}) = 3
  <2> SUFFICES ASSUME NEW a, NEW b, NEW c, a # b, a # c, b # c PROVE Cardinality({a, b, c}) = 3
    OBVIOUS
  <2>1. {a, b, c} = {a, b} \cup {c} /\ c \notin {a, b}
    OBVIOUS
  <2>2. IsFiniteSet({a, b}) /\ Cardinality({a, b}) = 2
    BY <1>2
  <2>3. Cardinality({a, b} \cup {c}) =
            IF c \in {a, b} THEN Cardinality({a, b}) ELSE Cardinality({a, b}) + 1
    BY ONLY <2>2, FS_AddElement
  <2> QED BY <2>1, <2>2, <2>3
<1> QED BY <1>1, <1>2, <1>3

\* How many of the options that go with -e, or with -c, are given.
LEMMA EvalFlags ==
    ASSUME "-e" \in opts
    PROVE  Cardinality(opts \cap {"-e", "-m", "-sm"}) = 1 + Given({"-sm"}) + Given({"-m"})
<1> DEFINE T == opts \cap {"-e", "-m", "-sm"}
<1>1. CASE "-m" \in opts /\ "-sm" \in opts
  <2>1. T = {"-e", "-m", "-sm"}
    BY <1>1
  <2>2. Cardinality({"-e", "-m", "-sm"}) = 3
    BY SmallSets
  <2>3. Given({"-sm"}) = 1 /\ Given({"-m"}) = 1
    BY <1>1 DEF Given
  <2> QED BY <2>1, <2>2, <2>3
<1>2. CASE "-m" \in opts /\ "-sm" \notin opts
  <2>1. T = {"-e", "-m"}
    BY <1>2
  <2>2. Cardinality({"-e", "-m"}) = 2
    BY SmallSets
  <2>3. Given({"-sm"}) = 0 /\ Given({"-m"}) = 1
    BY <1>2 DEF Given
  <2> QED BY <2>1, <2>2, <2>3
<1>3. CASE "-m" \notin opts /\ "-sm" \in opts
  <2>1. T = {"-e", "-sm"}
    BY <1>3
  <2>2. Cardinality({"-e", "-sm"}) = 2
    BY SmallSets
  <2>3. Given({"-sm"}) = 1 /\ Given({"-m"}) = 0
    BY <1>3 DEF Given
  <2> QED BY <2>1, <2>2, <2>3
<1>4. CASE "-m" \notin opts /\ "-sm" \notin opts
  <2>1. T = {"-e"}
    BY <1>4
  <2>2. Cardinality({"-e"}) = 1
    BY SmallSets
  <2>3. Given({"-sm"}) = 0 /\ Given({"-m"}) = 0
    BY <1>4 DEF Given
  <2> QED BY <2>1, <2>2, <2>3
<1> QED BY <1>1, <1>2, <1>3, <1>4

LEMMA CompileFlags ==
    ASSUME "-c" \in opts, ~({"-ss", "-sd"} \subseteq opts)
    PROVE  Cardinality(opts \cap {"-c", "-pk", "-ss", "-sd"}) =
               1 + Given({"-pk"}) + Given({"-ss", "-sd"})
<1> DEFINE T == opts \cap {"-c", "-pk", "-ss", "-sd"}
<1>1. ASSUME NEW strip \in {"-ss", "-sd"}, strip \in opts
      PROVE  Cardinality(T) = 1 + Given({"-pk"}) + Given({"-ss", "-sd"})
  <2>1. Given({"-ss", "-sd"}) = 1
    BY <1>1 DEF Given
  <2>2. CASE "-pk" \in opts
    <3>1. T = {"-c", "-pk", strip}
      BY <1>1, <2>2
    <3>2. Cardinality({"-c", "-pk", strip}) = 3
      BY <1>1, SmallSets
    <3>3. Given({"-pk"}) = 1
      BY <2>2 DEF Given
    <3> QED BY <2>1, <3>1, <3>2, <3>3
  <2>3. CASE "-pk" \notin opts
    <3>1. T = {"-c", strip}
      BY <1>1, <2>3
    <3>2. Cardinality({"-c", strip}) = 2
      BY <1>1, SmallSets
    <3>3. Given({"-pk"}) = 0
      BY <2>3 DEF Given
    <3> QED BY <2>1, <3>1, <3>2, <3>3
  <2> QED BY <2>2, <2>3
<1>2. CASE "-ss" \notin opts /\ "-sd" \notin opts
  <2>1. Given({"-ss", "-sd"}) = 0
    BY <1>2 DEF Given
  <2>2. CASE "-pk" \in opts
    <3>1. T = {"-c", "-pk"}
      BY <1>2, <2>2
    <3>2. Cardinality({"-c", "-pk"}) = 2
      BY SmallSets
    <3>3. Given({"-pk"}) = 1
      BY <2>2 DEF Given
    <3> QED BY <2>1, <3>1, <3>2, <3>3
  <2>3. CASE "-pk" \notin opts
    <3>1. T = {"-c"}
      BY <1>2, <2>3
    <3>2. Cardinality({"-c"}) = 1
      BY SmallSets
    <3>3. Given({"-pk"}) = 0
      BY <2>3 DEF Given
    <3> QED BY <2>1, <3>1, <3>2, <3>3
  <2> QED BY <2>2, <2>3
<1> QED BY <1>1, <1>2

\* What is accepted, by the mode that main then chooses.
Accepted ==
    LET with_map == "-sm" \in opts => "-m" \in opts
    IN  \/ "-s" \in opts /\ opts \subseteq {"-s", "-m", "-sm", "-b", "-t", "-i"} /\ with_map
        \/ "-e" \in opts /\ opts \subseteq {"-e", "-m", "-sm"} /\ with_map
        \/ "-c" \in opts /\ opts \subseteq {"-c", "-pk", "-ss", "-sd"}
        \/ opts \in {{"-k"}, {"-v"}}

\* The checks after the loop, for every set of options that the loop can leave: they count
\* flags, and the count decides which flags there are.
LEMMA ChecksByMode ==
    ASSUME opts \in SUBSET Options, n_sockets \in Nat,
           "-s" \in opts <=> n_sockets # 0, ~({"-ss", "-sd"} \subseteq opts)
    PROVE  Checks <=> Accepted /\ ~StrippedAndSigned
<1> DEFINE n == Cardinality(opts)
           TE == opts \cap {"-e", "-m", "-sm"}
           TC == opts \cap {"-c", "-pk", "-ss", "-sd"}
<1>1. /\ n \in Nat
      /\ \A T \in SUBSET opts : Cardinality(T) <= n
      /\ \A T \in SUBSET opts : Cardinality(T) = n => T = opts
  BY FewFlags
<1>2. ASSUME NEW o \in opts PROVE 1 <= n /\ (n = 1 => opts = {o})
  <2>1. {o} \in SUBSET opts /\ Cardinality({o}) = 1
    BY SmallSets
  <2>2. Cardinality({o}) <= n /\ (Cardinality({o}) = n => {o} = opts)
    BY <1>1, <2>1
  <2> QED BY <2>1, <2>2
<1>3. "-e" \in opts => Cardinality(TE) = 1 + Given({"-sm"}) + Given({"-m"})
  BY EvalFlags
<1>4. "-c" \in opts => Cardinality(TC) = 1 + Given({"-pk"}) + Given({"-ss", "-sd"})
  BY CompileFlags
<1>5. \A S : Given(S) \in {0, 1} /\ (Given(S) = 1 <=> S \cap opts # {})
  BY DEF Given
<1>6. n_flags_set = n
  BY DEF n_flags_set
<1> HIDE DEF n, TE, TC
<1>7. ASSUME Checks PROVE Accepted /\ ~StrippedAndSigned
  <2>1. ~StrippedAndSigned
    <3> SUFFICES ASSUME StrippedAndSigned PROVE FALSE
      OBVIOUS
    <3>1. n = 2 /\ "-c" \in opts /\ "-pk" \in opts /\ Given({"-ss", "-sd"}) = 1
      BY <1>6, <1>7 DEF Checks, StrippedAndSigned
    <3>2. Given({"-pk"}) = 1
      BY <3>1, <1>5
    <3>3. Cardinality(TC) = 3 /\ TC \in SUBSET opts
      BY <1>4, <3>1, <3>2 DEF TC
    <3> QED BY <1>1, <3>1, <3>3
  <2>2. CASE "-v" \in opts
    <3>1. n = 1
      BY <1>1, <1>2, <1>6, <1>7, <2>2 DEF Checks
    <3> QED BY <1>2, <2>1, <2>2, <3>1 DEF Accepted
  <2>3. CASE "-k" \in opts
    <3>1. n = 1
      BY <1>6, <1>7, <2>3 DEF Checks
    <3> QED BY <1>2, <2>1, <2>3, <3>1 DEF Accepted
  <2>4. CASE "-e" \in opts
    <3>1. n = Cardinality(TE) /\ ~("-sm" \in opts /\ "-m" \notin opts)
      BY <1>3, <1>6, <1>7, <2>4 DEF Checks
    <3>2. TE \in SUBSET opts
      BY DEF TE
    <3>3. TE = opts
      BY <1>1, <3>1, <3>2
    <3>4. opts \subseteq {"-e", "-m", "-sm"}
      BY <3>3 DEF TE
    <3> QED BY <2>1, <2>4, <3>1, <3>4 DEF Accepted
  <2>5. CASE "-c" \in opts
    <3>1. n <= Cardinality(TC)
      BY <1>1, <1>4, <1>5, <1>6, <1>7, <2>5 DEF Checks
    <3>2. TC \in SUBSET opts
      BY DEF TC
    <3>3. TC = opts
      BY <1>1, <1>4, <1>5, <2>5, <3>1, <3>2
    <3>4. opts \subseteq {"-c", "-pk", "-ss", "-sd"}
      BY <3>3 DEF TC
    <3> QED BY <2>1, <2>5, <3>4 DEF Accepted
  <2>6. CASE {"-v", "-k", "-c", "-e"} \cap opts = {}
    <3>1. "-s" \in opts /\ ~("-sm" \in opts /\ "-m" \notin opts)
      BY <1>7, <2>6 DEF Checks
    <3>2. "-pk" \notin opts /\ "-ss" \notin opts /\ "-sd" \notin opts
      BY <1>5, <1>7, <2>6 DEF Checks
    <3>3. opts \subseteq {"-s", "-m", "-sm", "-b", "-t", "-i"}
      BY <2>6, <3>2 DEF Options
    <3> QED BY <2>1, <3>1, <3>3 DEF Accepted
  <2> QED BY <2>2, <2>3, <2>4, <2>5, <2>6
<1>8. ASSUME Accepted, ~StrippedAndSigned PROVE Checks
  <2>1. CASE "-s" \in opts /\ opts \subseteq {"-s", "-m", "-sm", "-b", "-t", "-i"}
    <3>1. Given({"-ss", "-sd"}) = 0
      BY <2>1 DEF Given
    <3>2. "-sm" \in opts => "-m" \in opts
      BY <1>8, <2>1 DEF Accepted
    <3> QED BY <2>1, <3>1, <3>2 DEF Checks
  <2>2. CASE "-e" \in opts /\ opts \subseteq {"-e", "-m", "-sm"}
    <3>1. Given({"-ss", "-sd"}) = 0
      BY <2>2 DEF Given
    <3>2. "-sm" \in opts => "-m" \in opts
      BY <1>8, <2>2 DEF Accepted
    <3>3. TE = opts
      BY <2>2 DEF TE
    <3>4. n = 1 + Given({"-sm"}) + Given({"-m"})
      BY <1>3, <2>2, <3>3 DEF n
    <3> QED BY <1>6, <2>2, <3>1, <3>2, <3>4 DEF Checks
  <2>3. CASE "-c" \in opts /\ opts \subseteq {"-c", "-pk", "-ss", "-sd"}
    <3>1. TC = opts
      BY <2>3 DEF TC
    <3>2. n = 1 + Given({"-pk"}) + Given({"-ss", "-sd"})
      BY <1>4, <2>3, <3>1 DEF n
    <3>3. "-pk" \in opts => n = 2
      BY <1>5, <1>8, <2>3, <3>2 DEF StrippedAndSigned
    <3>4. 1 >= n - Given({"-pk"}) - Given({"-ss", "-sd"})
      BY <1>5, <3>2
    <3> QED BY <1>6, <2>3, <3>3, <3>4 DEF Checks
  <2>4. CASE opts \in {{"-k"}, {"-v"}}
    <3>1. n = 1
      BY <2>4, SmallSets DEF n
    <3>2. Given({"-ss", "-sd"}) = 0
      BY <2>4 DEF Given
    <3> QED BY <1>6, <2>4, <3>1, <3>2 DEF Checks
  <2> QED BY <1>8, <2>1, <2>2, <2>3, <2>4 DEF Accepted
<1> QED BY <1>7, <1>8

\* The same by the lines of the usage text.
LEMMA ChecksAreTheUsage ==
    ASSUME opts \in SUBSET Options, n_sockets \in Nat,
           "-s" \in opts <=> n_sockets # 0, ~({"-ss", "-sd"} \subseteq opts)
    PROVE  Checks <=> \/ UsageText /\ ~EvalWithSocket /\ ~MapWithoutModule /\ ~StrippedAndSigned
                      \/ VersionOrEval
<1>1. Accepted /\ ~StrippedAndSigned =>
          \/ UsageText /\ ~EvalWithSocket /\ ~MapWithoutModule /\ ~StrippedAndSigned
          \/ VersionOrEval
  BY DEF Accepted, UsageText, EvalWithSocket, MapWithoutModule, VersionOrEval
<1>2. UsageText /\ ~EvalWithSocket /\ ~MapWithoutModule => Accepted
  BY DEF Accepted, UsageText, EvalWithSocket, MapWithoutModule
<1>3. VersionOrEval => Accepted /\ ~StrippedAndSigned
  BY DEF Accepted, VersionOrEval, MapWithoutModule, StrippedAndSigned
<1> QED BY <1>1, <1>2, <1>3, ChecksByMode

-----------------------------------------------------------------------------
(***************************************************************************)
(* A step of one process                                                    *)
(***************************************************************************)

\* What a step of p leaves alone in the other processes.
Stays(q) ==
    /\ pc'[q] = pc[q] /\ mode'[q] = mode[q] /\ status'[q] = status[q]
    /\ opened'[q] = opened[q] /\ buffered'[q] = buffered[q]
    /\ pos'[q] = pos[q] /\ key'[q] = key[q] /\ (q \in lost' <=> q \in lost)

OthersStay(p) == \A q \in Procs : q # p => Stays(q)

LEMMA ControlFrame ==
    ASSUME NEW p \in Procs, \A q \in Procs : Control(q), OthersStay(p), Control(p)'
    PROVE  \A q \in Procs : Control(q)'
BY DEF Control, OthersStay, Stays

\* A step of p that changes no key file, and what p has written of one.
LEMMA KeyFrame ==
    ASSUME NEW p \in Procs, TypeOK, KeyFiles, OthersStay(p),
           \A f \in KeyNames : files'[f] = files[f],
           opened' = opened, buffered' = buffered, Written(p)'
    PROVE  KeyFiles'
<1>1. \A f \in KeyNames : KeyFile(f)'
  BY DEF KeyFiles, KeyFile, Whole
<1>2. \A q \in Procs : SoleCreator(q)'
  BY DEF KeyFiles, SoleCreator, TypeOK, KeyNames
<1>3. ASSUME NEW q \in Procs, q # p PROVE Written(q)'
  <2>1. Stays(q) /\ Written(q)
    BY <1>3 DEF KeyFiles, OthersStay
  <2>2. files'["priv"] = files["priv"] /\ files'["pub"] = files["pub"]
    BY DEF KeyNames
  <2> QED BY <2>1, <2>2 DEF Written, Stays, Whole
<1> QED BY <1>1, <1>2, <1>3 DEF KeyFiles

\* A step of p that does not change the output file.
LEMMA OutFrame ==
    ASSUME NEW p \in Procs, OutFile, OthersStay(p), files'["out"] = files["out"],
           disturbed' = disturbed, OutOf(p)'
    PROVE  OutFile'
<1> SUFFICES ASSUME NEW q \in Procs, q # p PROVE OutOf(q)'
  BY DEF OutFile
<1>1. Stays(q) /\ OutOf(q)
  BY DEF OutFile, OthersStay
<1>2. Output(q)' = Output(q)
  BY <1>1 DEF Output, Signature, Stays
<1> QED BY <1>1, <1>2 DEF OutOf, Complete, Stays

\* A step that changes only where p is.
LEMMA ControlStep ==
    ASSUME Inv, NEW p \in Procs, UNCHANGED <<parserVars, fileVars>>,
           NEW l \in Labels, NEW m \in Modes,
           NEW s \in {"running", "failing"} \cup Ended,
           pc' = [pc EXCEPT ![p] = l], mode' = [mode EXCEPT ![p] = m],
           status' = [status EXCEPT ![p] = s],
           Control(p)', Written(p)', OutOf(p)'
    PROVE  Inv'
<1>1. TypeOK'
  BY DEF Inv, TypeOK, parserVars, fileVars
<1>2. Parsing'
  BY DEF Inv, Parsing, parserVars
<1>3. OthersStay(p)
  BY DEF Inv, TypeOK, OthersStay, Stays, fileVars
<1>4. \A q \in Procs : Control(q)'
  BY <1>3, ControlFrame DEF Inv
<1>5. KeyFiles'
  BY <1>3, KeyFrame DEF Inv, fileVars
<1>6. OutFile'
  BY <1>3, OutFrame DEF Inv, fileVars
<1> QED BY <1>1, <1>2, <1>4, <1>5, <1>6 DEF Inv

\* A process that ends without having made anything.
LEMMA EndsBadly ==
    ASSUME Inv, NEW p \in Procs, NEW how \in {"failed", "killed"}, End(p, how),
           UNCHANGED <<parserVars, mode, fileVars>>
    PROVE  Inv'
<1>1. /\ pc' = [pc EXCEPT ![p] = "done"] /\ status' = [status EXCEPT ![p] = how]
      /\ mode' = [mode EXCEPT ![p] = mode[p]] /\ mode[p] \in Modes
  BY DEF End, Goto, Inv, TypeOK
<1>2. Control(p)'
  BY <1>1
     DEF Inv, TypeOK, Control, KeyLabels, CompileLabels, WriteLabels, StartLabels, Ended, fileVars
<1>3. Written(p)'
  BY <1>1 DEF Inv, TypeOK, Written
<1>4. OutOf(p)'
  BY <1>1 DEF Inv, TypeOK, OutFile, OutOf, Complete, WriteLabels, fileVars
<1> QED BY <1>1, <1>2, <1>3, <1>4, ControlStep DEF Labels, Ended

\* The steps that read the command line, and those that only go on.
LEMMA ParserSteps ==
    ASSUME Inv, (\E w \in Words : TakeWord(w)) \/ Parsed \/ ParseFails \/ RunMode
    PROVE  Inv'
<1>1. ASSUME NEW w \in Words, TakeWord(w) PROVE Inv'
  <2>1. UNCHANGED <<pc, mode, status, fileVars>>
    BY <1>1 DEF TakeWord
  <2>2. \/ Option(w)
        \/ want.kind = "argument" /\ Argument(w)
        \/ Socket(w)
    BY <1>1 DEF TakeWord, Inv, Parsing
  <2>3. opts' \in SUBSET Options /\ n_sockets' \in Nat /\ Parsing'
    <3>1. CASE Option(w)
      BY <3>1
         DEF Inv, TypeOK, Parsing, Option, OptionNext, SocketNext, ArgumentNext, Options, WithArguments
    <3>2. CASE want.kind = "argument" /\ Argument(w)
      BY <3>2 DEF Inv, TypeOK, Parsing, Argument, OptionNext, ArgumentNext, Options, WithArguments
    <3>3. CASE Socket(w)
      BY <3>3 DEF Inv, TypeOK, Parsing, Socket, SocketNext, Options
    <3> QED BY <2>2, <3>1, <3>2, <3>3
  <2>4. TypeOK'
    BY <2>1, <2>3 DEF Inv, TypeOK, fileVars
  <2>5. /\ \A p \in Procs : Control(p)'
        /\ KeyFiles'
    BY <2>1 DEF Inv, Control, KeyFiles, KeyFile, SoleCreator, Written, Whole, fileVars
  <2>6. OutFile'
    BY <2>1 DEF Inv, OutFile, OutOf, Complete, Output, Signature, fileVars
  <2> QED BY <2>3, <2>4, <2>5, <2>6 DEF Inv
<1>2. ASSUME Parsed PROVE Inv'
  <2> DEFINE m == Dispatch
  <2>1. m \in Modes /\ m # "none"
    BY DEF Dispatch, Modes
  <2> HIDE DEF m
  <2>2. /\ pc[Parser] = "parse" /\ pc' = [pc EXCEPT ![Parser] = "dispatch"]
        /\ mode' = [mode EXCEPT ![Parser] = m] /\ UNCHANGED <<parserVars, status, fileVars>>
        /\ status' = [status EXCEPT ![Parser] = status[Parser]]
        /\ status[Parser] \in {"running", "failing"} \cup Ended
    BY <1>2 DEF Parsed, Goto, Inv, TypeOK, m
  <2>3. Control(Parser)'
    BY <2>2
       DEF Inv, TypeOK, Control, KeyLabels, CompileLabels, WriteLabels, StartLabels, Ended, fileVars
  <2>4. status[Parser] # "ok"
    BY <2>2 DEF Inv, TypeOK, Control, Ended
  <2>5. Written(Parser)'
    BY <2>2, <2>4 DEF Inv, TypeOK, Written
  <2>6. OutOf(Parser)'
    BY <2>2, <2>4 DEF Inv, TypeOK, OutFile, OutOf, Complete, WriteLabels, fileVars
  <2> QED BY <2>1, <2>2, <2>3, <2>5, <2>6, ControlStep DEF Labels, StartLabels
<1>3. ASSUME ParseFails PROVE Inv'
  BY <1>3, EndsBadly DEF ParseFails
<1>4. ASSUME RunMode PROVE Inv'
  <2>1. /\ pc[Parser] = "dispatch" /\ UNCHANGED <<mode, fileVars>>
        /\ mode' = [mode EXCEPT ![Parser] = mode[Parser]] /\ mode[Parser] \in Modes
        /\ status' = [status EXCEPT ![Parser] = status'[Parser]]
    BY <1>4 DEF RunMode, Inv, TypeOK, End, Goto
  <2>2. UNCHANGED parserVars
    BY <1>4 DEF RunMode
  <2>3. status[Parser] = "running"
    BY <2>1 DEF Inv, TypeOK, Control, Ended
  <2>4. \E l \in {"open_priv", "compile", "done"} :
            /\ pc' = [pc EXCEPT ![Parser] = l]
            /\ l = "open_priv" => mode[Parser] = "key" /\ status'[Parser] = "running"
            /\ l = "compile" => mode[Parser] = "compile" /\ status'[Parser] = "running"
            /\ l = "done" => mode[Parser] # "key" /\ status'[Parser] = "ok"
    BY <1>4, <2>3 DEF RunMode, Inv, TypeOK, End, Goto
  <2>5. PICK l \in {"open_priv", "compile", "done"} :
            /\ pc' = [pc EXCEPT ![Parser] = l]
            /\ l = "open_priv" => mode[Parser] = "key" /\ status'[Parser] = "running"
            /\ l = "compile" => mode[Parser] = "compile" /\ status'[Parser] = "running"
            /\ l = "done" => mode[Parser] # "key" /\ status'[Parser] = "ok"
    BY <2>4
  <2>6. Control(Parser)'
    BY <2>1, <2>5
       DEF Inv, TypeOK, Control, KeyLabels, CompileLabels, WriteLabels, StartLabels, Ended, fileVars
  <2>7. Written(Parser)'
    BY <2>1, <2>5 DEF Inv, TypeOK, Written
  <2>8. key[Parser] = "none" /\ pos[Parser] = 0
    BY <2>1 DEF Inv, Control, StartLabels, WriteLabels
  <2>9. OutOf(Parser)'
    BY <2>1, <2>5, <2>8 DEF Inv, TypeOK, OutFile, OutOf, Complete, WriteLabels, fileVars
  <2>10. l \in Labels
    BY DEF Labels, KeyLabels, CompileLabels
  <2>11. status'[Parser] \in {"running", "failing"} \cup Ended
    BY <2>5 DEF Ended
  <2> QED BY <2>1, <2>2, <2>5, <2>6, <2>7, <2>9, <2>10, <2>11, ControlStep
<1> QED BY <1>1, <1>2, <1>3, <1>4

LEMMA StartStep ==
    ASSUME Inv, NEW p \in Procs, NEW m \in {"key", "compile", "compile_signed"}, Start(p, m)
    PROVE  Inv'
<1> DEFINE l == IF m = "key" THEN "open_priv" ELSE "compile"
<1>1. /\ pc[p] = "start" /\ pc' = [pc EXCEPT ![p] = l] /\ mode' = [mode EXCEPT ![p] = m]
      /\ status' = [status EXCEPT ![p] = status[p]]
      /\ status[p] \in {"running", "failing"} \cup Ended
      /\ UNCHANGED <<parserVars, status, fileVars>>
  BY DEF Start, Goto, Inv, TypeOK
<1>2. l \in {"open_priv", "compile"} /\ (l = "open_priv" <=> m = "key")
  OBVIOUS
<1> HIDE DEF l
<1>3. status[p] = "running" /\ key[p] = "none"
  BY <1>1 DEF Inv, TypeOK, Control, StartLabels, Ended
<1>4. Control(p)'
  BY <1>1, <1>2, <1>3
     DEF Inv, TypeOK, Control, KeyLabels, CompileLabels, WriteLabels, StartLabels, Ended, fileVars
<1>5. Written(p)'
  BY <1>1, <1>2, <1>3 DEF Inv, TypeOK, Written
<1>6. OutOf(p)'
  BY <1>1, <1>2, <1>3 DEF Inv, TypeOK, OutFile, OutOf, Complete, WriteLabels, fileVars
<1>7. m \in Modes /\ l \in Labels
  BY <1>2 DEF Labels, Modes, KeyLabels, CompileLabels
<1> QED BY <1>1, <1>4, <1>5, <1>6, <1>7, ControlStep

-----------------------------------------------------------------------------
(***************************************************************************)
(* Key files                                                                *)
(***************************************************************************)

\* Two keys are the same only if one process made them.
LEMMA WholeIsOwn ==
    /\ \A p, q : Whole(p) = Whole(q) => p = q
    /\ \A p : Whole(p) # Absent /\ Whole(p) # <<>> /\ Whole(p)[1].by = p
<1>1. ASSUME NEW p PROVE Len(Whole(p)) = 1 /\ Whole(p)[1].by = p /\ Whole(p)[1].kind = "key"
  <2>1. Len(Whole(p)) = 1 /\ Whole(p)[1] = [kind |-> "key", by |-> p]
    BY DEF Whole
  <2>2. [kind |-> "key", by |-> p].by = p /\ [kind |-> "key", by |-> p].kind = "key"
    OBVIOUS
  <2> QED BY <2>1, <2>2
<1>2. Absent[1].kind = "absent" /\ Len(<<>>) = 0
  BY DEF Absent
<1> QED BY <1>1, <1>2

\* fopen(f, "wx") succeeds, or not, and p goes on.
LEMMA OpenStep ==
    ASSUME Inv, NEW p \in Procs, NEW f \in KeyNames,
           NEW l \in {"open_pub", "write_pub"}, pc[p] \in {"open_priv", "open_pub"},
           Created(p, f) \/ UNCHANGED fileVars,
           Goto(p, l), UNCHANGED <<parserVars, mode, status>>
    PROVE  Inv'
<1>1. UNCHANGED <<buffered, pos, key, lost, disturbed>> /\ files'["out"] = files["out"]
  BY DEF Created, fileVars, Inv, TypeOK, FileNames, KeyNames
<1>2. pc' = [pc EXCEPT ![p] = l] /\ pc'[p] = l
  BY DEF Goto, Inv, TypeOK
<1>3. files' = [g \in FileNames |-> files'[g]]
  BY DEF Created, fileVars, Inv, TypeOK, FileNames
<1>4. opened' \in [Procs -> SUBSET KeyNames] /\ \A q \in Procs : q # p => opened'[q] = opened[q]
  <2>1. opened \in [Procs -> SUBSET KeyNames] /\ opened[p] \cup {f} \in SUBSET KeyNames
    BY DEF Inv, TypeOK
  <2>2. CASE UNCHANGED fileVars
    BY <2>1, <2>2 DEF fileVars
  <2>3. CASE Created(p, f)
    <3>1. opened' = [opened EXCEPT ![p] = opened[p] \cup {f}]
      BY <2>3 DEF Created
    <3> QED BY <2>1, <3>1
  <2> QED BY <2>2, <2>3
<1>5. TypeOK'
  BY <1>1, <1>2, <1>3, <1>4 DEF Labels, Inv, TypeOK, KeyLabels, parserVars
<1>6. Parsing'
  BY DEF Inv, Parsing, parserVars
<1>7. OthersStay(p)
  BY <1>1, <1>2, <1>4 DEF OthersStay, Stays, Inv, TypeOK
<1>8. mode[p] = "key" /\ status[p] = "running" /\ key[p] = "none" /\ pos[p] = 0
  BY DEF Inv, Control, KeyLabels, WriteLabels, Ended, TypeOK
<1>9. Control(p)'
  BY <1>1, <1>2, <1>8
     DEF Inv, TypeOK, Control, KeyLabels, CompileLabels, WriteLabels, StartLabels, Ended
<1>10. OutOf(p)'
  BY <1>1, <1>2, <1>8 DEF Inv, OutFile, OutOf, Complete, WriteLabels
<1>11. KeyFiles'
  <2>1. CASE UNCHANGED fileVars
    <3>1. Written(p)'
      BY <1>2, <1>8 DEF Written
    <3> QED BY <1>7, <2>1, <3>1, KeyFrame DEF Inv, fileVars
  <2>2. CASE Created(p, f)
    <3>1. /\ files[f] = Absent /\ files'[f] = <<>>
          /\ \A g \in KeyNames : g # f => files'[g] = files[g]
          /\ opened'[p] = opened[p] \cup {f}
      BY <2>2 DEF Created, MayCreate, Inv, TypeOK, FileNames
    <3>2. f \in FileNames /\ <<>> # Absent
      BY DEF FileNames, Absent
    <3>3. \A q \in Procs : f \notin opened[q]
      BY <3>1 DEF Inv, KeyFiles, SoleCreator
    <3>4. \A g \in KeyNames : KeyFile(g)'
      <4> SUFFICES ASSUME NEW g \in KeyNames PROVE KeyFile(g)'
        OBVIOUS
      <4>1. CASE g = f
        BY <3>1, <4>1 DEF KeyFile
      <4>2. CASE g # f
        <5>1. files'[g] = files[g] /\ KeyFile(g)
          BY <3>1, <4>2 DEF Inv, KeyFiles
        <5>2. \A q \in Procs : opened[q] = KeyNames => FALSE
          BY <3>3
        <5> QED BY <5>1, <5>2 DEF KeyFile
      <4> QED BY <4>1, <4>2
    <3>5. ASSUME NEW q \in Procs PROVE SoleCreator(q)'
      <4>1. SoleCreator(q) /\ SoleCreator(p)
        BY DEF Inv, KeyFiles
      <4>2. \A r \in Procs : r # q => opened'[q] \cap opened'[r] = {}
        BY <1>4, <3>1, <3>3, <4>1 DEF SoleCreator
      <4>3. opened'[q] \subseteq KeyNames
        BY <1>4
      <4>4. \A g \in opened'[q] : files'[g] # Absent
        BY <1>4, <3>1, <3>2, <4>1, <4>3 DEF SoleCreator
      <4>5. buffered'[q] # {} => opened'[q] = KeyNames
        BY <1>1, <1>4, <3>1, <4>1 DEF SoleCreator
      <4> QED BY <4>2, <4>4, <4>5 DEF SoleCreator
    <3>6. ASSUME NEW q \in Procs PROVE Written(q)'
      <4>1. Written(q) /\ SoleCreator(q) /\ f \notin opened[q]
        BY <3>3 DEF Inv, KeyFiles
      <4>2. buffered[q] = {}
        BY <4>1 DEF SoleCreator
      <4>3. CASE q = p
        BY <1>2, <1>8, <4>3 DEF Written
      <4>4. CASE q # p
        <5>1. Stays(q)
          BY <1>7, <4>4 DEF OthersStay
        <5>2. files["priv"] # Whole(q) \/ files["pub"] # Whole(q)
          BY <3>1, WholeIsOwn DEF KeyNames
        <5> QED BY <1>1, <4>1, <4>2, <5>1, <5>2 DEF Written, Stays, KeyNames, Whole
      <4> QED BY <4>3, <4>4
    <3> QED BY <3>4, <3>5, <3>6 DEF KeyFiles
  <2> QED BY <2>1, <2>2
<1>12. \A q \in Procs : Control(q)'
  BY <1>7, <1>9, ControlFrame DEF Inv
<1>13. OutFile'
  BY <1>1, <1>7, <1>10, OutFrame DEF Inv
<1> QED BY <1>5, <1>6, <1>11, <1>12, <1>13 DEF Inv

\* hex_encode into the stream of a file that p has created.
LEMMA WriteKeyStep ==
    ASSUME Inv, NEW p \in Procs, WritePub(p) \/ WritePriv(p)
    PROVE  Inv'
<1>1. PICK f \in KeyNames, from \in {"write_pub", "write_priv"}, to \in {"write_priv", "close_priv"} :
          /\ WriteKey(p, f, from, to)
          /\ from = "write_pub" <=> f = "pub"
          /\ from = "write_pub" <=> to = "write_priv"
  BY DEF WritePub, WritePriv, KeyNames
<1>2. /\ pc[p] = from /\ opened[p] = KeyNames /\ pc' = [pc EXCEPT ![p] = to]
      /\ buffered' = [buffered EXCEPT ![p] = buffered[p] \cup {f}]
      /\ UNCHANGED <<parserVars, mode, status, files, opened, pos, key, lost, disturbed>>
  BY <1>1 DEF WriteKey, Goto, KeyNames
<1>3. /\ buffered \in [Procs -> SUBSET KeyNames] /\ pc \in [Procs -> Labels]
      /\ buffered[p] \cup {f} \in SUBSET KeyNames
      /\ to \in Labels
  BY DEF Labels, Inv, TypeOK, KeyLabels
<1>4. /\ buffered' \in [Procs -> SUBSET KeyNames] /\ buffered'[p] = buffered[p] \cup {f}
      /\ pc' \in [Procs -> Labels] /\ pc'[p] = to
      /\ \A q \in Procs : q # p => buffered'[q] = buffered[q] /\ pc'[q] = pc[q]
  BY <1>2, <1>3
<1>5. TypeOK'
  BY <1>2, <1>4 DEF Inv, TypeOK, parserVars
<1>6. Parsing'
  BY <1>2 DEF Inv, Parsing, parserVars
<1>7. OthersStay(p)
  BY <1>2, <1>4 DEF OthersStay, Stays
<1>8. mode[p] = "key" /\ status[p] = "running" /\ key[p] = "none" /\ pos[p] = 0
  BY <1>2 DEF Inv, Control, KeyLabels, WriteLabels, Ended, TypeOK
<1>9. \A q \in Procs : Control(q)'
  <2>1. Control(p)'
    BY <1>2, <1>4, <1>8 DEF Control, KeyLabels, CompileLabels, WriteLabels, StartLabels, Ended
  <2> QED BY <1>7, <2>1, ControlFrame DEF Inv
<1>10. OutFile'
  <2>1. OutOf(p)'
    BY <1>2, <1>4, <1>8 DEF Inv, OutFile, OutOf, Complete, WriteLabels
  <2> QED BY <1>2, <1>7, <2>1, OutFrame DEF Inv
<1>11. KeyFiles'
  <2>1. \A g \in KeyNames : KeyFile(g)'
    BY <1>2 DEF Inv, KeyFiles, KeyFile, Whole
  <2>2. \A q \in Procs : SoleCreator(q)'
    BY <1>2, <1>4 DEF Inv, KeyFiles, SoleCreator
  <2>3. ASSUME NEW q \in Procs PROVE Written(q)'
    <3>1. CASE q = p
      <4>1. Written(p)
        BY DEF Inv, KeyFiles
      <4>2. to = "write_priv" => "pub" \in buffered'[p]
        BY <1>1, <1>4
      <4>3. to = "close_priv" => buffered'[p] = KeyNames
        BY <1>1, <1>2, <1>3, <1>4, <4>1 DEF Written, KeyNames
      <4> QED BY <1>2, <1>4, <1>8, <3>1, <4>2, <4>3 DEF Written
    <3>2. CASE q # p
      <4>1. Stays(q) /\ Written(q)
        BY <1>7, <3>2 DEF Inv, KeyFiles, OthersStay
      <4> QED BY <1>2, <4>1 DEF Written, Stays, Whole
    <3> QED BY <3>1, <3>2
  <2> QED BY <2>1, <2>2, <2>3 DEF KeyFiles
<1> QED BY <1>5, <1>6, <1>9, <1>10, <1>11 DEF Inv

\* Neither key is written, or only the first.
LEMMA KeysFailStep ==
    ASSUME Inv, NEW p \in Procs, NoKeyPair(p) \/ WritePrivFails(p)
    PROVE  Inv'
<1>1. /\ pc[p] \in {"write_pub", "write_priv"} /\ pc' = [pc EXCEPT ![p] = "close_priv"]
      /\ status' = [status EXCEPT ![p] = "failing"]
      /\ mode' = [mode EXCEPT ![p] = mode[p]] /\ mode[p] \in Modes
      /\ UNCHANGED <<parserVars, mode, fileVars>>
  BY DEF NoKeyPair, WritePrivFails, KeysFail, Goto, Inv, TypeOK
<1>2. mode[p] = "key" /\ key[p] = "none" /\ pos[p] = 0
  BY <1>1 DEF Inv, Control, KeyLabels, WriteLabels
<1>3. Control(p)'
  BY <1>1, <1>2
     DEF Inv, TypeOK, Control, KeyLabels, CompileLabels, WriteLabels, StartLabels, Ended, fileVars
<1>4. Written(p)'
  BY <1>1 DEF Inv, TypeOK, Written
<1>5. OutOf(p)'
  BY <1>1, <1>2 DEF Inv, TypeOK, OutFile, OutOf, Complete, WriteLabels, fileVars
<1> QED BY <1>1, <1>3, <1>4, <1>5, ControlStep DEF Labels, KeyLabels

\* fclose writes the key, loses it, or has none to write.
LEMMA CloseKeyStep ==
    ASSUME Inv, NEW p \in Procs, ClosePriv(p) \/ ClosePub(p)
    PROVE  Inv'
<1>1. PICK f \in KeyNames, from \in {"close_priv", "close_pub"}, to \in {"close_pub", "done"} :
          /\ CloseKey(p, f, from, to)
          /\ from = "close_priv" <=> f = "priv"
          /\ from = "close_priv" <=> to = "close_pub"
  BY DEF ClosePriv, ClosePub, KeyNames
<1>2. pc[p] = from /\ UNCHANGED <<parserVars, mode, opened, buffered, pos, key, disturbed>>
  BY <1>1 DEF CloseKey
<1>3. /\ mode[p] = "key" /\ status[p] \in {"running", "failing"} /\ key[p] = "none" /\ pos[p] = 0
  BY <1>2 DEF Inv, Control, KeyLabels, WriteLabels, Ended, TypeOK
<1>4. /\ pc' = [pc EXCEPT ![p] = to]
      /\ status' = [status EXCEPT ![p] = status'[p]]
      /\ to = "close_pub" => status'[p] = status[p]
      /\ to = "done" => status'[p] = IF status[p] = "failing" THEN "failed" ELSE "ok"
  BY <1>1 DEF CloseKey, End, Goto, Inv, TypeOK
<1>5. /\ pc' \in [Procs -> Labels] /\ pc'[p] = to
      /\ status' \in [Procs -> {"running", "failing"} \cup Ended]
      /\ \A q \in Procs : q # p => status'[q] = status[q] /\ pc'[q] = pc[q]
  <2>1. to \in Labels
    BY DEF Labels, KeyLabels
  <2>2. status'[p] \in {"running", "failing"} \cup Ended
    BY <1>3, <1>4 DEF Ended
  <2> QED BY <1>4, <2>1, <2>2 DEF Inv, TypeOK
<1>6. /\ files' = [g \in FileNames |-> files'[g]]
      /\ \A g \in FileNames : g # f => files'[g] = files[g]
      /\ f \notin buffered[p] => files' = files /\ lost' = lost
      /\ f \in buffered[p] => \/ files'[f] = Whole(p) /\ lost' = lost
                              \/ files'[f] = files[f] /\ lost' = lost \cup {p}
  BY <1>1 DEF CloseKey, Inv, TypeOK, FileNames
<1>7. lost' \in SUBSET Procs /\ \A q \in Procs : q # p => (q \in lost' <=> q \in lost)
  BY <1>6 DEF Inv, TypeOK
<1>8. lost \subseteq lost'
  BY <1>6
<1>9. TypeOK'
  BY <1>2, <1>5, <1>6, <1>7 DEF Inv, TypeOK, parserVars
<1>10. Parsing'
  BY <1>2 DEF Inv, Parsing, parserVars
<1>11. OthersStay(p)
  BY <1>2, <1>5, <1>7 DEF OthersStay, Stays
<1>12. files'["out"] = files["out"]
  BY <1>6 DEF FileNames, KeyNames
<1>13. \A q \in Procs : Control(q)'
  <2>1. Control(p)'
    BY <1>2, <1>3, <1>4, <1>5 DEF Control, KeyLabels, CompileLabels, WriteLabels, StartLabels, Ended
  <2> QED BY <1>11, <2>1, ControlFrame DEF Inv
<1>14. OutFile'
  <2>1. OutOf(p)'
    BY <1>2, <1>3, <1>5 DEF Inv, OutFile, OutOf, Complete, WriteLabels
  <2> QED BY <1>2, <1>11, <1>12, <2>1, OutFrame DEF Inv
<1>15. KeyFiles'
  <2>1. CASE f \notin buffered[p] \/ files'[f] = files[f]
    <3>1. \A g \in KeyNames : files'[g] = files[g]
      BY <1>6, <2>1 DEF FileNames
    <3>2. Written(p)
      BY DEF Inv, KeyFiles
    <3>3. Written(p)'
      <4>1. CASE status[p] = "failing"
        BY <1>3, <1>4, <1>5, <4>1 DEF Written
      <4>2. CASE status[p] = "running"
        <5>1. buffered[p] = KeyNames
          BY <1>2, <3>2, <4>2 DEF Written
        <5>2. CASE files'[f] # Whole(p)
          BY <1>2, <1>5, <1>6, <5>1, <5>2, <1>1 DEF Written
        <5>3. CASE files'[f] = Whole(p)
          BY <1>1, <1>2, <1>4, <1>5, <1>6, <1>8, <3>1, <3>2, <4>2, <5>1, <5>3
             DEF Written, KeyNames, Whole
        <5> QED BY <5>2, <5>3
      <4> QED BY <1>3, <4>1, <4>2
    <3> QED BY <1>2, <1>11, <3>1, <3>3, KeyFrame DEF Inv
  <2>2. CASE f \in buffered[p] /\ files'[f] = Whole(p) /\ lost' = lost
    <3>1. SoleCreator(p) /\ Written(p)
      BY DEF Inv, KeyFiles
    <3>2. opened[p] = KeyNames
      BY <2>2, <3>1 DEF SoleCreator
    <3>3. \A q \in Procs : q # p => opened[q] = {}
      <4> SUFFICES ASSUME NEW q \in Procs, q # p PROVE opened[q] = {}
        OBVIOUS
      <4>1. opened[q] \subseteq KeyNames /\ opened[p] \cap opened[q] = {}
        BY <3>1 DEF Inv, TypeOK, SoleCreator
      <4> QED BY <3>2, <4>1
    <3>4. ASSUME NEW g \in KeyNames PROVE KeyFile(g)'
      <4>1. CASE g = f
        BY <1>2, <2>2, <3>2, <4>1 DEF KeyFile, Whole
      <4>2. CASE g # f
        <5>1. files'[g] = files[g] /\ KeyFile(g)
          BY <1>6, <4>2 DEF Inv, KeyFiles, FileNames
        <5> QED BY <1>2, <5>1 DEF KeyFile, Whole
      <4> QED BY <4>1, <4>2
    <3>5. ASSUME NEW q \in Procs PROVE SoleCreator(q)'
      <4>1. SoleCreator(q)
        BY DEF Inv, KeyFiles
      <4>2. \A g \in opened[q] : files'[g] # Absent
        <5> SUFFICES ASSUME NEW g \in opened[q] PROVE files'[g] # Absent
          OBVIOUS
        <5>1. g \in FileNames /\ files[g] # Absent
          BY <4>1 DEF SoleCreator, Inv, TypeOK, FileNames
        <5> QED BY <1>6, <2>2, <5>1, WholeIsOwn
      <4> QED BY <1>2, <4>1, <4>2 DEF SoleCreator
    <3>6. ASSUME NEW q \in Procs PROVE Written(q)'
      <4>1. CASE q # p
        <5>1. Stays(q) /\ Written(q) /\ SoleCreator(q)
          BY <1>11, <4>1 DEF Inv, KeyFiles, OthersStay
        <5>2. buffered[q] = {}
          <6>1. KeyNames # {}
            BY DEF KeyNames
          <6> QED BY <3>3, <4>1, <5>1, <6>1 DEF SoleCreator
        <5>3. KeyFile("priv") /\ KeyFile("pub") /\ KeyNames # {}
          BY DEF Inv, KeyFiles, KeyNames
        <5>4. files["priv"] # Whole(q) /\ files["pub"] # Whole(q)
          BY <3>3, <4>1, <5>3, WholeIsOwn DEF KeyFile
        <5> QED BY <5>1, <5>2, <5>4 DEF Written, Stays, KeyNames
      <4>2. CASE q = p
        <5>1. CASE status[p] = "failing"
          BY <1>3, <1>4, <1>5, <4>2, <5>1 DEF Written
        <5>2. CASE status[p] = "running" /\ f = "priv"
          <6>1. buffered[p] = KeyNames
            BY <1>2, <3>1, <5>2 DEF Written
          <6> QED BY <1>1, <1>2, <1>4, <1>5, <2>2, <4>2, <5>2, <6>1 DEF Written, Whole
        <5>3. CASE status[p] = "running" /\ f = "pub"
          <6>1. p \notin lost => files["priv"] = Whole(p)
            BY <1>1, <1>2, <3>1, <5>3 DEF Written
          <6>2. files'["priv"] = files["priv"]
            BY <1>6, <5>3 DEF FileNames, KeyNames
          <6> QED BY <1>1, <1>2, <1>5, <2>2, <4>2, <5>3, <6>1, <6>2 DEF Written, Whole
        <5> QED BY <1>3, <5>1, <5>2, <5>3 DEF KeyNames
      <4> QED BY <4>1, <4>2
    <3> QED BY <3>4, <3>5, <3>6 DEF KeyFiles
  <2> QED BY <1>6, <2>1, <2>2
<1> QED BY <1>9, <1>10, <1>13, <1>14, <1>15 DEF Inv

-----------------------------------------------------------------------------
(***************************************************************************)
(* The output file                                                          *)
(***************************************************************************)

\* The output is the signed data and a signature behind it.
LEMMA OutputShape ==
    ASSUME NEW p \in Procs
    PROVE  \E S : /\ SignedData(p) \in Seq(S) /\ Output(p) \in Seq(S) /\ Signature(p) \in S
                  /\ Len(SignedData(p)) = BodyLen[p] + 1 /\ SignedData(p)[BodyLen[p] + 1] = Version
                  /\ Output(p) = Append(SignedData(p), Signature(p))
                  /\ Len(Output(p)) = BodyLen[p] + 2
<1> DEFINE Cells == {Body(p)[i] : i \in 1 .. BodyLen[p]} \cup {Version, Signature(p)}
<1>1. Body(p) \in Seq(Cells) /\ Len(Body(p)) = BodyLen[p] /\ BodyLen[p] \in Nat
  <2>1. BodyLen[p] \in Nat
    OBVIOUS
  <2>2. Body(p) = [i \in 1 .. BodyLen[p] |-> Body(p)[i]]
    BY DEF Body
  <2>3. \A i \in 1 .. BodyLen[p] : Body(p)[i] \in Cells
    OBVIOUS
  <2> HIDE DEF Cells
  <2>4. Body(p) \in [1 .. BodyLen[p] -> Cells]
    BY <2>2, <2>3
  <2> QED BY <2>1, <2>4
<1>2. Version \in Cells /\ Signature(p) \in Cells
  OBVIOUS
<1> HIDE DEF Cells
<1>3. /\ SignedData(p) \in Seq(Cells) /\ Len(SignedData(p)) = BodyLen[p] + 1
      /\ SignedData(p)[BodyLen[p] + 1] = Version
  BY <1>1, <1>2 DEF SignedData
<1>4. Output(p) = Append(SignedData(p), Signature(p))
  BY DEF Output, SignedData
<1>5. Output(p) \in Seq(Cells) /\ Len(Output(p)) = BodyLen[p] + 2
  BY <1>1, <1>2, <1>3, <1>4
<1> QED BY <1>2, <1>3, <1>4, <1>5

\* A step of compile_module_file that writes nothing: a failure, or a step forward.
LEMMA QuietCompileStep ==
    ASSUME Inv, NEW p \in Procs,
           \/ CompileFails(p) \/ OpenOutFails(p) \/ FwriteFails(p) \/ Killed(p)
           \/ FwriteBody(p) \/ FwriteSignature(p)
    PROVE  Inv'
<1>1. CASE CompileFails(p) \/ OpenOutFails(p) \/ FwriteFails(p) \/ Killed(p)
  BY <1>1, EndsBadly DEF CompileFails, OpenOutFails, FwriteFails, Killed
<1>2. CASE FwriteBody(p) \/ FwriteSignature(p)
  <2>1. PICK l \in {"write_signature", "close_out"} :
            /\ pc[p] \in WriteLabels /\ pc' = [pc EXCEPT ![p] = l]
            /\ UNCHANGED <<parserVars, mode, status, fileVars>>
    BY <1>2 DEF FwriteBody, FwriteSignature, Goto, WriteLabels
  <2>2. /\ mode' = [mode EXCEPT ![p] = mode[p]] /\ mode[p] \in Modes
        /\ status' = [status EXCEPT ![p] = status[p]]
        /\ status[p] \in {"running", "failing"} \cup Ended
    BY <2>1 DEF Inv, TypeOK
  <2>3. mode[p] # "key" /\ status[p] = "running"
    BY <2>1, <2>2 DEF Inv, Control, CompileLabels, WriteLabels, Ended
  <2>4. Control(p)'
    BY <2>1, <2>3
       DEF Inv, TypeOK, Control, KeyLabels, CompileLabels, WriteLabels, StartLabels, Ended, fileVars
  <2>5. Written(p)'
    BY <2>1, <2>3 DEF Inv, TypeOK, Written
  <2>6. Output(p)' = Output(p)
    BY <2>1 DEF Output, Signature, fileVars
  <2>7. OutOf(p)'
    BY <2>1, <2>3, <2>6 DEF Inv, OutFile, OutOf, Complete, fileVars
  <2>8. l \in Labels
    BY DEF Labels, CompileLabels, WriteLabels
  <2> QED BY <2>1, <2>2, <2>4, <2>5, <2>7, <2>8, ControlStep
<1> QED BY <1>1, <1>2

LEMMA ReadKeyStep ==
    ASSUME Inv, NEW p \in Procs, ReadKey(p)
    PROVE  Inv'
<1>1. /\ pc[p] = "compile" /\ pc' = [pc EXCEPT ![p] = "open_out"]
      /\ UNCHANGED <<parserVars, mode, status, files, opened, buffered, pos, lost, disturbed>>
  BY DEF ReadKey, Goto
<1>2. pc'[p] = "open_out" /\ mode[p] # "key" /\ status[p] = "running" /\ pos[p] = 0
  BY <1>1 DEF Inv, TypeOK, Control, CompileLabels, WriteLabels, Ended
<1>3. key' \in [Procs -> Procs \cup {"none"}] /\ \A q \in Procs : q # p => key'[q] = key[q]
  <2>1. CASE key' = key
    BY <2>1 DEF Inv, TypeOK
  <2>2. CASE files["priv"] \notin {Absent, <<>>} /\ key' = [key EXCEPT ![p] = files["priv"][1].by]
    <3>1. PICK q \in Procs : files["priv"] = Whole(q)
      BY <2>2 DEF Inv, KeyFiles, KeyFile, KeyNames
    <3>2. files["priv"][1].by = q
      BY <3>1, WholeIsOwn
    <3> QED BY <2>2, <3>2 DEF Inv, TypeOK
  <2> QED BY <2>1, <2>2 DEF ReadKey
<1>4. TypeOK'
  BY <1>1, <1>3 DEF Labels, Inv, TypeOK, parserVars, CompileLabels
<1>5. Parsing'
  BY <1>1 DEF Inv, Parsing, parserVars
<1>6. OthersStay(p)
  BY <1>1, <1>3 DEF OthersStay, Stays, Inv, TypeOK
<1>7. \A q \in Procs : Control(q)'
  <2>1. Control(p)'
    BY <1>1, <1>2 DEF Control, KeyLabels, CompileLabels, WriteLabels, StartLabels, Ended
  <2> QED BY <1>6, <2>1, ControlFrame DEF Inv
<1>8. KeyFiles'
  <2>1. Written(p)'
    BY <1>1, <1>2 DEF Written
  <2> QED BY <1>1, <1>6, <2>1, KeyFrame DEF Inv
<1>9. OutFile'
  <2>1. OutOf(p)'
    BY <1>1, <1>2 DEF Inv, OutFile, OutOf, Complete, WriteLabels
  <2> QED BY <1>1, <1>6, <2>1, OutFrame DEF Inv
<1> QED BY <1>4, <1>5, <1>7, <1>8, <1>9 DEF Inv

\* p writes to the output file, which disturbs whoever else has written to it.
LEMMA Disturbs ==
    ASSUME Inv, NEW p \in Procs, Disturb(p), OthersStay(p),
           OutOf(p)'
    PROVE  OutFile'
<1> SUFFICES ASSUME NEW q \in Procs, q # p PROVE OutOf(q)'
  BY DEF OutFile
<1>1. Stays(q) /\ OutOf(q)
  BY DEF Inv, OutFile, OthersStay
<1>2. Complete(q)' <=> Complete(q)
  BY <1>1 DEF Stays, Complete
<1>3. pc[q] \in WriteLabels \/ Complete(q) => q \in disturbed'
  BY <1>1 DEF Disturb, OutOf, WriteLabels
<1> QED BY <1>1, <1>2, <1>3 DEF OutOf, Stays

LEMMA OpenOutStep ==
    ASSUME Inv, NEW p \in Procs, OpenOut(p)
    PROVE  Inv'
<1>1. /\ pc[p] = "open_out" /\ pc' = [pc EXCEPT ![p] = "write_body"]
      /\ files' = [files EXCEPT !["out"] = <<>>] /\ Disturb(p)
      /\ UNCHANGED <<parserVars, mode, status, opened, buffered, pos, key, lost>>
  BY DEF OpenOut, Goto
<1>2. pc'[p] = "write_body" /\ mode[p] # "key" /\ status[p] = "running" /\ pos[p] = 0
  BY <1>1 DEF Inv, TypeOK, Control, CompileLabels, WriteLabels, Ended
<1>3. /\ files' = [f \in FileNames |-> files'[f]] /\ files'["out"] = <<>>
      /\ \A f \in KeyNames : files'[f] = files[f]
  BY <1>1 DEF Inv, TypeOK, FileNames, KeyNames
<1>4. disturbed' \in SUBSET Procs
  BY <1>1 DEF Disturb, Inv, TypeOK
<1>5. TypeOK'
  BY <1>1, <1>3, <1>4 DEF Labels, Inv, TypeOK, parserVars, CompileLabels, WriteLabels
<1>6. Parsing'
  BY <1>1 DEF Inv, Parsing, parserVars
<1>7. OthersStay(p)
  BY <1>1 DEF OthersStay, Stays, Inv, TypeOK
<1>8. \A q \in Procs : Control(q)'
  <2>1. Control(p)'
    BY <1>1, <1>2 DEF Inv, Control, KeyLabels, CompileLabels, WriteLabels, StartLabels, Ended
  <2> QED BY <1>7, <2>1, ControlFrame DEF Inv
<1>9. KeyFiles'
  <2>1. Written(p)'
    BY <1>1, <1>2 DEF Written
  <2> QED BY <1>1, <1>3, <1>7, <2>1, KeyFrame DEF Inv
<1>10. OutFile'
  <2>1. files'["out"] = [j \in 1 .. pos'[p] |-> Output(p)'[j]]
    BY <1>1, <1>2, <1>3
  <2>2. OutOf(p)'
    BY <1>1, <1>2, <2>1 DEF Inv, OutFile, OutOf, Complete
  <2> QED BY <1>1, <1>7, <2>2, Disturbs
<1> QED BY <1>5, <1>6, <1>8, <1>9, <1>10 DEF Inv

LEMMA FlushStep ==
    ASSUME Inv, NEW p \in Procs, Flush(p)
    PROVE  Inv'
<1> DEFINE i == pos[p] + 1
           old == files["out"]
           new == [j \in 1 .. (IF Len(old) > i THEN Len(old) ELSE i) |->
                      IF j = i THEN Output(p)[i]
                      ELSE IF j <= Len(old) THEN old[j] ELSE [kind |-> "hole"]]
<1>1. /\ pc[p] \in WriteLabels /\ i <= BodyLen[p] + 2
      /\ files' = [files EXCEPT !["out"] = new] /\ pos' = [pos EXCEPT ![p] = i] /\ Disturb(p)
      /\ UNCHANGED <<parserVars, pc, mode, status, opened, buffered, key, lost>>
  <2>1. Len(Output(p)) = BodyLen[p] + 2 /\ BodyLen[p] \in Nat /\ pos[p] \in Nat
    BY OutputShape DEF Inv, TypeOK
  <2>2. \/ pc[p] = "write_body" /\ i <= BodyLen[p] + 1
        \/ pc[p] \in {"write_signature", "close_out"} /\ i <= Len(Output(p))
    BY DEF Flush
  <2>3. pc[p] \in WriteLabels /\ i <= BodyLen[p] + 2
    BY <2>1, <2>2 DEF WriteLabels
  <2> QED BY <2>3 DEF Flush
<1>2. mode[p] # "key" /\ status[p] = "running" /\ pos[p] \in Nat
  BY <1>1 DEF Inv, TypeOK, Control, CompileLabels, WriteLabels, Ended
<1>3. p \notin disturbed => new = [j \in 1 .. i |-> Output(p)[j]]
  <2> SUFFICES ASSUME p \notin disturbed PROVE new = [j \in 1 .. i |-> Output(p)[j]]
    OBVIOUS
  <2>1. old = [j \in 1 .. pos[p] |-> Output(p)[j]]
    BY <1>1 DEF Inv, OutFile, OutOf
  <2>2. Len(old) = pos[p]
    BY <1>2, <2>1
  <2>3. \A j \in 1 .. pos[p] : old[j] = Output(p)[j]
    BY <2>1
  <2>4. (IF Len(old) > i THEN Len(old) ELSE i) = i
    BY <1>2, <2>2
  <2>5. \A j \in 1 .. i : j = i \/ j \in 1 .. pos[p]
    BY <1>2
  <2>6. new = [j \in 1 .. i |-> IF j = i THEN Output(p)[i]
                                ELSE IF j <= Len(old) THEN old[j] ELSE [kind |-> "hole"]]
    BY <2>4
  <2>7. \A j \in 1 .. i : (IF j = i THEN Output(p)[i]
                           ELSE IF j <= Len(old) THEN old[j] ELSE [kind |-> "hole"]) = Output(p)[j]
    BY <1>2, <2>2, <2>3, <2>5
  <2> HIDE DEF new, old, i
  <2> QED BY <2>6, <2>7
<1> HIDE DEF new
<1>4. /\ files' = [f \in FileNames |-> files'[f]] /\ files'["out"] = new
      /\ \A f \in KeyNames : files'[f] = files[f]
  BY <1>1 DEF Inv, TypeOK, FileNames, KeyNames
<1>5. pos' \in [Procs -> Nat] /\ pos'[p] = i /\ \A q \in Procs : q # p => pos'[q] = pos[q]
  BY <1>1, <1>2 DEF Inv, TypeOK
<1>6. disturbed' \in SUBSET Procs /\ disturbed \subseteq disturbed'
  BY <1>1 DEF Disturb, Inv, TypeOK
<1>7. TypeOK'
  BY <1>1, <1>4, <1>5, <1>6 DEF Inv, TypeOK, parserVars
<1>8. Parsing'
  BY <1>1 DEF Inv, Parsing, parserVars
<1>9. OthersStay(p)
  BY <1>1, <1>5 DEF OthersStay, Stays
<1>10. \A q \in Procs : Control(q)'
  <2>1. Control(p)'
    BY <1>1 DEF Inv, Control
  <2> QED BY <1>9, <2>1, ControlFrame DEF Inv
<1>11. KeyFiles'
  <2>1. Written(p)'
    BY <1>1, <1>2 DEF Written, WriteLabels
  <2> QED BY <1>1, <1>4, <1>9, <2>1, KeyFrame DEF Inv
<1>12. OutFile'
  <2>1. Output(p)' = Output(p)
    BY <1>1 DEF Output, Signature
  <2>2. ~Complete(p)'
    BY <1>1, <1>2 DEF Complete
  <2>3. p \notin disturbed' => files'["out"] = [j \in 1 .. pos'[p] |-> Output(p)'[j]]
    BY <1>3, <1>4, <1>5, <1>6, <2>1
  <2>4. OutOf(p)'
    BY <1>1, <1>5, <2>2, <2>3 DEF OutOf
  <2> QED BY <1>1, <1>9, <2>4, Disturbs
<1> QED BY <1>7, <1>8, <1>10, <1>11, <1>12 DEF Inv

LEMMA CloseOutStep ==
    ASSUME Inv, NEW p \in Procs, CloseOut(p)
    PROVE  Inv'
<1>1. /\ pc[p] = "close_out" /\ pc' = [pc EXCEPT ![p] = "done"]
      /\ status' = [status EXCEPT ![p] = "ok"]
      /\ lost' = IF pos[p] < Len(Output(p)) THEN lost \cup {p} ELSE lost
      /\ UNCHANGED <<parserVars, mode, files, opened, buffered, pos, key, disturbed>>
  BY DEF CloseOut, End, Goto
<1>2. pc'[p] = "done" /\ status'[p] = "ok" /\ mode[p] # "key"
  BY <1>1 DEF Inv, TypeOK, Control, CompileLabels, WriteLabels
<1>3. /\ lost' \in SUBSET Procs /\ \A q \in Procs : q # p => (q \in lost' <=> q \in lost)
      /\ p \notin lost' => ~(pos[p] < Len(Output(p)))
  BY <1>1 DEF Inv, TypeOK
<1>4. TypeOK'
  BY <1>1, <1>3 DEF Labels, Inv, TypeOK, parserVars, Ended
<1>5. Parsing'
  BY <1>1 DEF Inv, Parsing, parserVars
<1>6. OthersStay(p)
  BY <1>1, <1>3 DEF OthersStay, Stays, Inv, TypeOK
<1>7. \A q \in Procs : Control(q)'
  <2>1. Control(p)'
    BY <1>1, <1>2 DEF Inv, Control, KeyLabels, CompileLabels, WriteLabels, StartLabels, Ended
  <2> QED BY <1>6, <2>1, ControlFrame DEF Inv
<1>8. KeyFiles'
  <2>1. Written(p)'
    BY <1>1, <1>2 DEF Written
  <2> QED BY <1>1, <1>6, <2>1, KeyFrame DEF Inv
<1>9. OutFile'
  <2>1. Len(Output(p)) = BodyLen[p] + 2 /\ BodyLen[p] \in Nat /\ pos[p] \in Nat /\ OutOf(p)
    BY OutputShape DEF Inv, TypeOK, OutFile
  <2>2. Complete(p)' => pos'[p] = BodyLen[p] + 2
    BY <1>1, <1>3, <2>1 DEF Complete, OutOf
  <2>3. Output(p)' = Output(p)
    BY <1>1 DEF Output, Signature
  <2>4. OutOf(p)'
    BY <1>1, <2>1, <2>2, <2>3 DEF OutOf, WriteLabels
  <2> QED BY <1>1, <1>6, <2>4, OutFrame DEF Inv
<1> QED BY <1>4, <1>5, <1>7, <1>8, <1>9 DEF Inv

-----------------------------------------------------------------------------
(***************************************************************************)
(* Theorems                                                                 *)
(***************************************************************************)

LEMMA InitInv == Init => Inv
<1> SUFFICES ASSUME Init PROVE Inv
  OBVIOUS
<1>1. TypeOK
  BY DEF Init, TypeOK, Labels, StartLabels, Modes, FileNames, KeyNames
<1>2. Parsing
  BY DEF Init, Parsing, OptionNext
<1>3. \A p \in Procs : Control(p)
  BY DEF Init, Control, StartLabels, KeyLabels, CompileLabels, WriteLabels, Ended
<1>4. KeyFiles
  BY DEF Init, KeyFiles, KeyFile, SoleCreator, Written, KeyNames
<1>5. OutFile
  BY DEF Init, OutFile, OutOf, Complete, WriteLabels
<1> QED BY <1>1, <1>2, <1>3, <1>4, <1>5 DEF Inv

LEMMA NextInv == Inv /\ [Next]_vars => Inv'
<1> SUFFICES ASSUME Inv, [Next]_vars PROVE Inv'
  OBVIOUS
<1>1. CASE (\E w \in Words : TakeWord(w)) \/ Parsed \/ ParseFails \/ RunMode
  BY <1>1, ParserSteps
<1>2. CASE \E p \in Procs, m \in {"key", "compile", "compile_signed"} : Start(p, m)
  BY <1>2, StartStep
<1>3. ASSUME NEW p \in Procs, KeyStep(p) PROVE Inv'
  <2>1. CASE OpenPriv(p)
    BY <2>1, OpenStep DEF OpenPriv, KeyNames
  <2>2. CASE OpenPub(p)
    BY <2>2, OpenStep DEF OpenPub, KeyNames
  <2>3. CASE NoKeyPair(p) \/ WritePrivFails(p)
    BY <2>3, KeysFailStep
  <2>4. CASE WritePub(p) \/ WritePriv(p)
    BY <2>4, WriteKeyStep
  <2>5. CASE ClosePriv(p) \/ ClosePub(p)
    BY <2>5, CloseKeyStep
  <2> QED BY <1>3, <2>1, <2>2, <2>3, <2>4, <2>5 DEF KeyStep
<1>4. ASSUME NEW p \in Procs, CompileStep(p) \/ Killed(p) PROVE Inv'
  BY <1>4, QuietCompileStep, ReadKeyStep, OpenOutStep, FlushStep, CloseOutStep DEF CompileStep
<1>5. CASE UNCHANGED vars
  <2>1. TypeOK' /\ Parsing'
    BY <1>5 DEF vars, parserVars, fileVars, Inv, TypeOK, Parsing
  <2>2. \A p \in Procs : Control(p)'
    BY <1>5 DEF vars, fileVars, Inv, Control
  <2>3. KeyFiles'
    <3>1. \A f \in KeyNames : KeyFile(f)'
      BY <1>5 DEF vars, fileVars, Inv, KeyFiles, KeyFile, Whole
    <3>2. \A p \in Procs : SoleCreator(p)'
      BY <1>5 DEF vars, fileVars, Inv, KeyFiles, SoleCreator
    <3>3. \A p \in Procs : Written(p)'
      BY <1>5 DEF vars, fileVars, Inv, KeyFiles, Written, Whole
    <3> QED BY <3>1, <3>2, <3>3 DEF KeyFiles
  <2>4. OutFile'
    BY <1>5 DEF vars, fileVars, Inv, OutFile, OutOf, Complete, Output, Signature
  <2> QED BY <2>1, <2>2, <2>3, <2>4 DEF Inv
<1> QED BY <1>1, <1>2, <1>3, <1>4, <1>5 DEF Next

\* What holds of the command line, the key files and the output in every state, however many
\* processes work on them (parse_cmd_args, output_key_file and compile_module_file).
THEOREM ToolsState == Spec => []Inv
BY InitInv, NextInv, PTL DEF Spec

\* The checks of parse_cmd_args, which count flags, accept the command lines of its usage
\* text and no others, apart from five combinations: it rejects -e with sockets, -sm without
\* -m and -pk with -ss or -sd, and it accepts -v and -e without sockets.
THEOREM OnlyUsageAccepted == Spec => []AcceptsUsage
<1>1. Inv => AcceptsUsage
  BY ChecksAreTheUsage DEF Inv, TypeOK, Parsing, AcceptsUsage
<1> QED BY <1>1, ToolsState, PTL

\* output_key_file, in any number of processes: two whole key files belong together, and a
\* pair once reported stays.
THEOREM KeysBelongTogether == Spec => []PairMatches
<1>1. Inv => PairMatches
  <2> SUFFICES ASSUME Inv PROVE PairMatches
    OBVIOUS
  <2>1. ASSUME NEW p \in Procs, NEW q \in Procs, opened[p] = KeyNames, opened[q] = KeyNames
        PROVE  p = q
    BY <2>1 DEF Inv, KeyFiles, SoleCreator, KeyNames
  <2>2. KeyFile("priv") /\ KeyFile("pub")
    BY DEF Inv, KeyFiles, KeyNames
  <2>3. files["priv"] \in {Absent, <<>>} \/ files["pub"] \in {Absent, <<>>} \/ files["priv"] = files["pub"]
    BY <2>1, <2>2 DEF KeyFile
  <2>4. \A p \in Procs : Written(p)
    BY DEF Inv, KeyFiles
  <2> QED BY <2>3, <2>4 DEF PairMatches, Written
<1> QED BY <1>1, ToolsState, PTL

\* compile_module_file against load_module_bytecode: what one writes and signs the other
\* accepts, for bytecode of any length, if nobody else wrote to the file and nothing was lost.
THEOREM SignedModulesLoad == Spec => []SignedModuleLoads
<1>1. ASSUME Inv, NEW p \in Procs, Complete(p), p \notin disturbed
      PROVE  load_module_bytecode(files["out"], key[p])
  <2> DEFINE n == BodyLen[p] + 2
             s == files["out"]
  <2>1. n \in Nat /\ n >= 3 /\ pos[p] = n
    <3>1. BodyLen[p] \in Nat \ {0}
      OBVIOUS
    <3>2. pos[p] = n
      BY <1>1 DEF Inv, OutFile, OutOf
    <3> QED BY <3>1, <3>2
  <2>2. PICK S : /\ SignedData(p) \in Seq(S) /\ Output(p) \in Seq(S) /\ Signature(p) \in S
                 /\ Len(SignedData(p)) = BodyLen[p] + 1 /\ SignedData(p)[BodyLen[p] + 1] = Version
                 /\ Output(p) = Append(SignedData(p), Signature(p))
                 /\ Len(Output(p)) = BodyLen[p] + 2
    BY OutputShape
  <2>3. s = [j \in 1 .. n |-> Output(p)[j]]
    BY <1>1, <2>1 DEF Inv, OutFile, OutOf
  <2>4. s = Output(p)
    <3>1. Len(Output(p)) = n /\ Output(p) \in Seq(S)
      BY <2>2
    <3>2. Output(p) = [j \in 1 .. n |-> Output(p)[j]]
      BY ONLY <3>1
    <3> QED BY <2>3, <3>2
  <2>5. /\ Len(s) = n /\ s[n] = Signature(p) /\ s[n - 1] = Version
    BY <2>1, <2>2, <2>4
  <2>6. SubSeq(s, 1, n - 1) = SignedData(p)
    <3>1. \A j \in 1 .. n - 1 : s[j] = SignedData(p)[j]
      BY <2>1, <2>2, <2>4
    <3>2. SubSeq(s, 1, n - 1) = [j \in 1 .. n - 1 |-> s[j]]
      BY <2>1, <2>2, <2>4
    <3>3. SignedData(p) = [j \in 1 .. n - 1 |-> SignedData(p)[j]]
      BY <2>1, <2>2
    <3> HIDE DEF s, n
    <3> QED BY <3>1, <3>2, <3>3
  <2>7. Signature(p) = [kind |-> "signature", by |-> key[p], of |-> SignedData(p)]
    BY <1>1 DEF Signature, Complete
  <2> QED BY <2>1, <2>5, <2>6, <2>7 DEF load_module_bytecode, verify_bytecode
<1>2. Inv => SignedModuleLoads
  BY <1>1 DEF SignedModuleLoads, Complete
<1> QED BY <1>2, ToolsState, PTL
=============================================================================
