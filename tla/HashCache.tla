------------------------------ MODULE HashCache ------------------------------
(***************************************************************************)
(* The bytecode cache of jsockd (hash_cache.c), shared by every interpreter *)
(* thread, and the way handle_line_2_query (main.c) uses it.  A bucket is a *)
(* seqlock (update_count is odd while a writer is inside) with a reference  *)
(* count; both are C11 atomics, and every atomic access of the code is one  *)
(* step here.  The steps interleave in a sequentially consistent order.     *)
(*                                                                         *)
(* A payload is the bytecode a bucket points to, named by the uid of the    *)
(* query it was compiled from; NoBytecode is the freed (NULL) pointer.      *)
(***************************************************************************)
EXTENDS Integers, FiniteSets

CONSTANTS
    Threads,      \* the interpreter threads
    Uids,         \* the hashes of the queries that clients send
    NBits,        \* CACHED_FUNCTION_HASH_BITS
    MaxTries,     \* LOW_CONTENTION_SPIN_LOCK_MAX_TRIES
    MaxCalls      \* bound: queries that the threads run between them

ASSUME ThreadsAssumption == IsFiniteSet(Threads)
ASSUME UidsAssumption == Uids \subseteq Nat
ASSUME NBitsAssumption == NBits \in Nat /\ 2^NBits \in Nat \ {0}
ASSUME MaxTriesAssumption == MaxTries \in Nat \ {0}
ASSUME MaxCallsAssumption == MaxCalls \in Nat

VARIABLES
    \* the buckets
    key,           \* uid of each bucket, 0 when it was never filled
    refcount,
    update_count,
    payload,
    retired,       \* references of replaced interpreters that are not freed yet
    leaked,        \* history: references dropped without a decrement
    \* the threads
    pc,
    uid,           \* the query's uid
    i,             \* how many buckets the probe loop has passed
    n,             \* tries of the seqlock read loop on this bucket
    before,        \* update_count_before
    raced,         \* history: was a writer about to enter when the read validated?
    cached_function_in_use,   \* the bucket that cleanup_command_state is to release
    calls          \* the queries begun so far

bucketVars == <<key, refcount, update_count, payload, retired, leaked>>
threadVars == <<pc, uid, i, n, before, raced, cached_function_in_use, calls>>
vars == <<bucketVars, threadVars>>

NBuckets == 2^NBits
Buckets == 0 .. NBuckets - 1
NoBytecode == 0
NoBucket == -1

get_cache_bucket(u) == u % NBuckets

get_bucket_look_forward == (NBits * 3) \div 2

\* The bucket that probe k of uid u looks at; it wraps around at the end.
ProbedBucket(u, k) == (get_cache_bucket(u) + k) % NBuckets

Bucket(t) == ProbedBucket(uid[t], i[t])

ReadPCs == {"load", "checkuid", "incref", "validate", "undo"}
WritePCs == {"odd", "cleanup", "copy", "setuid", "even"}
PCs == {"idle", "hit", "compile", "cas", "added", "dangling", "run"} \cup ReadPCs \cup WritePCs

\* The places where a thread has a bucket that it claimed with the compare/exchange.
OwnerPCs == WritePCs \cup {"added"}

\* The places where a thread owns one count of the refcount of the bucket it works on.
HoldingPCs == {"validate", "undo", "hit", "added"} \cup WritePCs

Holders(b) == {t \in Threads : pc[t] \in HoldingPCs /\ Bucket(t) = b}

\* The threads whose cached_function_in_use is the bucket: each owns one count of it too.
Users(b) == {t \in Threads : cached_function_in_use[t] = b}

\* The bucket is referenced by a command that was cut, in its thread or on its way to be freed.
Kept(b) == Users(b) # {} \/ retired[b] > 0

\* A writer that took the bucket and has not yet made update_count odd.
EnteringWriter(b) == \E t \in Threads : pc[t] = "odd" /\ Bucket(t) = b

Init ==
    /\ key = [b \in Buckets |-> 0]
    /\ refcount = [b \in Buckets |-> 0]
    /\ update_count = [b \in Buckets |-> 0]
    /\ payload = [b \in Buckets |-> NoBytecode]
    /\ retired = [b \in Buckets |-> 0]
    /\ leaked = [b \in Buckets |-> 0]
    /\ pc = [t \in Threads |-> "idle"]
    /\ uid = [t \in Threads |-> 0]
    /\ i = [t \in Threads |-> 0]
    /\ n = [t \in Threads |-> 0]
    /\ before = [t \in Threads |-> 0]
    /\ raced = [t \in Threads |-> FALSE]
    /\ cached_function_in_use = [t \in Threads |-> NoBucket]
    /\ calls = 0

-----------------------------------------------------------------------------
Goto(t, label) == pc' = [pc EXCEPT ![t] = label]

\* The counts f with d more at bucket b; NoBucket has no count.
Plus(f, b, d) == [c \in Buckets |-> IF c = b THEN f[c] + d ELSE f[c]]

AddToRefcount(b, d) == refcount' = Plus(refcount, b, d)

IncUpdateCount(b) == update_count' = [update_count EXCEPT ![b] = @ + 1]

\* Mutant: the probe loop forgets to advance.
NextProbeStuck(t, label, giveUp) == UNCHANGED i /\ Goto(t, label)

\* Leave the bucket for the next one to probe, or give up after the last one.
NextProbe(t, label, giveUp) ==
    /\ i' = [i EXCEPT ![t] = @ + 1]
    /\ Goto(t, IF i[t] + 1 < get_bucket_look_forward THEN label ELSE giveUp)

-----------------------------------------------------------------------------
(***************************************************************************)
(* get_hash_cache_entry_                                                    *)
(***************************************************************************)

\* handle_line_2_query asks the cache for the query's bytecode.
BeginGet(t, u) ==
    /\ pc[t] = "idle"
    /\ calls < MaxCalls
    /\ calls' = calls + 1
    /\ uid' = [uid EXCEPT ![t] = u]
    /\ Goto(t, IF u = 0 \/ get_bucket_look_forward = 0 THEN "compile" ELSE "load")
    /\ UNCHANGED <<i, n, before, raced, cached_function_in_use, bucketVars>>

\* Another go round the read loop, or the next bucket after MaxTries of them.
RetryRead(t) ==
    IF n[t] + 1 < MaxTries
    THEN /\ n' = [n EXCEPT ![t] = @ + 1]
         /\ Goto(t, "load")
         /\ UNCHANGED i
    ELSE /\ n' = [n EXCEPT ![t] = 0]
         /\ NextProbe(t, "load", "compile")

LoadUpdateCount(t) ==
    /\ pc[t] = "load"
    /\ IF update_count[Bucket(t)] % 2 # 0
       THEN RetryRead(t) /\ UNCHANGED before
       ELSE /\ before' = [before EXCEPT ![t] = update_count[Bucket(t)]]
            /\ Goto(t, "checkuid")
            /\ UNCHANGED <<i, n>>
    /\ UNCHANGED <<uid, raced, cached_function_in_use, calls, bucketVars>>

CheckUid(t) ==
    /\ pc[t] = "checkuid"
    /\ IF key[Bucket(t)] = uid[t]
       THEN Goto(t, "incref") /\ UNCHANGED <<i, n>>
       ELSE n' = [n EXCEPT ![t] = 0] /\ NextProbe(t, "load", "compile")
    /\ UNCHANGED <<uid, before, raced, cached_function_in_use, calls, bucketVars>>

IncRef(t) ==
    /\ pc[t] = "incref"
    /\ AddToRefcount(Bucket(t), 1)
    /\ Goto(t, "validate")
    /\ UNCHANGED <<key, update_count, payload, retired, leaked, uid, i, n, before, raced, cached_function_in_use, calls>>

\* Mutant: the second load of update_count is not compared with the first.
ValidateAlways(t) ==
    /\ pc[t] = "validate"
    /\ Goto(t, "hit")
    /\ raced' = [raced EXCEPT ![t] = EnteringWriter(Bucket(t))]
    /\ UNCHANGED <<uid, i, n, before, cached_function_in_use, calls, bucketVars>>

Validate(t) ==
    /\ pc[t] = "validate"
    /\ Goto(t, IF update_count[Bucket(t)] = before[t] THEN "hit" ELSE "undo")
    /\ raced' = [raced EXCEPT ![t] = EnteringWriter(Bucket(t))]
    /\ UNCHANGED <<uid, i, n, before, cached_function_in_use, calls, bucketVars>>

\* Mutant: the spurious increment is not taken back.
UndoRefMissing(t) ==
    /\ pc[t] = "undo"
    /\ RetryRead(t)
    /\ UNCHANGED <<key, refcount, update_count, payload, retired, leaked, uid, before, raced, cached_function_in_use, calls>>

UndoRef(t) ==
    /\ pc[t] = "undo"
    /\ AddToRefcount(Bucket(t), -1)
    /\ RetryRead(t)
    /\ UNCHANGED <<key, update_count, payload, retired, leaked, uid, before, raced, cached_function_in_use, calls>>

-----------------------------------------------------------------------------
(***************************************************************************)
(* add_to_hash_cache_, called after a miss once the query is compiled       *)
(***************************************************************************)

\* compile_buf returns NULL: there is nothing to cache.
CompileFails(t) ==
    /\ pc[t] = "compile"
    /\ Goto(t, "run")
    /\ UNCHANGED <<uid, i, n, before, raced, cached_function_in_use, calls, bucketVars>>

BeginAdd(t) ==
    /\ pc[t] = "compile"
    /\ i' = [i EXCEPT ![t] = 0]
    /\ Goto(t, IF uid[t] = 0 \/ get_bucket_look_forward = 0 THEN "dangling" ELSE "cas")
    /\ UNCHANGED <<uid, n, before, raced, cached_function_in_use, calls, bucketVars>>

ClaimBucket(t) ==
    /\ pc[t] = "cas"
    /\ IF refcount[Bucket(t)] = 0
       THEN /\ refcount' = [refcount EXCEPT ![Bucket(t)] = 1]
            /\ Goto(t, "odd")
            /\ UNCHANGED i
       ELSE /\ NextProbe(t, "cas", "dangling")
            /\ UNCHANGED refcount
    /\ UNCHANGED <<key, update_count, payload, retired, leaked, uid, n, before, raced, cached_function_in_use, calls>>

MakeOdd(t) ==
    /\ pc[t] = "odd"
    /\ IncUpdateCount(Bucket(t))
    /\ Goto(t, "cleanup")
    /\ UNCHANGED <<key, refcount, payload, retired, leaked, uid, i, n, before, raced, cached_function_in_use, calls>>

\* cleanup_unused_hash_cache_bucket frees the bytecode of the evicted entry.
CleanupBucket(t) ==
    /\ pc[t] = "cleanup"
    /\ payload' = IF key[Bucket(t)] # 0
                  THEN [payload EXCEPT ![Bucket(t)] = NoBytecode]
                  ELSE payload
    /\ Goto(t, "copy")
    /\ UNCHANGED <<key, refcount, update_count, retired, leaked, uid, i, n, before, raced, cached_function_in_use, calls>>

CopyPayload(t) ==
    /\ pc[t] = "copy"
    /\ payload' = [payload EXCEPT ![Bucket(t)] = uid[t]]
    /\ Goto(t, "setuid")
    /\ UNCHANGED <<key, refcount, update_count, retired, leaked, uid, i, n, before, raced, cached_function_in_use, calls>>

StoreUid(t) ==
    /\ pc[t] = "setuid"
    /\ key' = [key EXCEPT ![Bucket(t)] = uid[t]]
    /\ Goto(t, "even")
    /\ UNCHANGED <<refcount, update_count, payload, retired, leaked, uid, i, n, before, raced, cached_function_in_use, calls>>

\* Mutant: the writer leaves without the second increment.
MakeEvenMissing(t) ==
    /\ pc[t] = "even"
    /\ Goto(t, "added")
    /\ UNCHANGED <<key, refcount, update_count, payload, retired, leaked, uid, i, n, before, raced, cached_function_in_use, calls>>

MakeEven(t) ==
    /\ pc[t] = "even"
    /\ IncUpdateCount(Bucket(t))
    /\ Goto(t, "added")
    /\ UNCHANGED <<key, refcount, payload, retired, leaked, uid, i, n, before, raced, cached_function_in_use, calls>>

-----------------------------------------------------------------------------
(***************************************************************************)
(* cached_function_in_use: what the thread is to release.                   *)
(***************************************************************************)

SetInUse(t, b) == cached_function_in_use' = [cached_function_in_use EXCEPT ![t] = b]

\* handle_line_2_query stores the bucket that add_to_hash_cache_ returned.  A bucket
\* still there from a command whose third line was cut is overwritten: its reference is lost.
UseAdded(t) ==
    /\ pc[t] = "added"
    /\ SetInUse(t, Bucket(t))
    /\ leaked' = Plus(leaked, cached_function_in_use[t], 1)
    /\ Goto(t, "run")
    /\ UNCHANGED <<key, refcount, update_count, payload, retired, uid, i, n, before, raced, calls>>

\* add_to_hash_cache_ returned NULL, which is stored in the same way.
UseDangling(t) ==
    /\ pc[t] = "dangling"
    /\ SetInUse(t, NoBucket)
    /\ leaked' = Plus(leaked, cached_function_in_use[t], 1)
    /\ Goto(t, "run")
    /\ UNCHANGED <<key, refcount, update_count, payload, retired, uid, i, n, before, raced, calls>>

\* Mutant: the reference of cached_function_in_use is never released.
cleanup_command_stateMissing(t) ==
    /\ SetInUse(t, NoBucket)
    /\ UNCHANGED refcount

cleanup_command_state(t) ==
    /\ AddToRefcount(cached_function_in_use[t], -1)
    /\ SetInUse(t, NoBucket)

\* main.c never records the bucket of a hit, so nothing decrements its refcount.
ForgetHit(t) == leaked' = Plus(leaked, IF pc[t] = "hit" THEN Bucket(t) ELSE NoBucket, 1)

\* The thread is done with the query; its local variables are gone.
Return(t) ==
    /\ Goto(t, "idle")
    /\ uid' = [uid EXCEPT ![t] = 0]
    /\ i' = [i EXCEPT ![t] = 0]
    /\ n' = [n EXCEPT ![t] = 0]
    /\ before' = [before EXCEPT ![t] = 0]
    /\ raced' = [raced EXCEPT ![t] = FALSE]

\* The third line has been answered, or ?reset ends the command before it.
EndCommand(t) ==
    /\ pc[t] \in {"hit", "run"}
    /\ cleanup_command_state(t)
    /\ ForgetHit(t)
    /\ Return(t)
    /\ UNCHANGED <<key, update_count, payload, retired, calls>>

\* The third line was cut: the command ends without cleanup_command_state.
CutCommand(t) ==
    /\ pc[t] \in {"hit", "run"}
    /\ ForgetHit(t)
    /\ Return(t)
    /\ UNCHANGED <<key, refcount, update_count, payload, retired, cached_function_in_use, calls>>

\* Between commands, ?reset or the shutdown of an idle interpreter releases what a cut
\* command has left.
ReleaseBetween(t) ==
    /\ pc[t] = "idle"
    /\ cached_function_in_use[t] # NoBucket
    /\ cleanup_command_state(t)
    /\ UNCHANGED <<key, update_count, payload, retired, leaked, pc, uid, i, n, before, raced, calls>>

\* The first line of a command swaps the interpreter for its replacement, which has no
\* cached_function_in_use; the old one goes to a thread that frees it.
ReplaceInterpreter(t) ==
    /\ pc[t] = "idle"
    /\ cached_function_in_use[t] # NoBucket
    /\ retired' = Plus(retired, cached_function_in_use[t], 1)
    /\ SetInUse(t, NoBucket)
    /\ UNCHANGED <<key, refcount, update_count, payload, leaked, pc, uid, i, n, before, raced, calls>>

\* cleanup_thread_state of a replaced interpreter releases its reference.
FreeReplaced(b) ==
    /\ retired[b] > 0
    /\ retired' = Plus(retired, b, -1)
    /\ AddToRefcount(b, -1)
    /\ UNCHANGED <<key, update_count, payload, leaked, threadVars>>

-----------------------------------------------------------------------------
Get(t) == LoadUpdateCount(t) \/ CheckUid(t) \/ IncRef(t) \/ Validate(t) \/ UndoRef(t)

Add(t) ==
    \/ BeginAdd(t) \/ ClaimBucket(t) \/ MakeOdd(t) \/ CleanupBucket(t)
    \/ CopyPayload(t) \/ StoreUid(t) \/ MakeEven(t)

Query(t) == CompileFails(t) \/ UseAdded(t) \/ UseDangling(t)

Finish(t) == EndCommand(t) \/ CutCommand(t)

Step(t) == Get(t) \/ Add(t) \/ Query(t) \/ Finish(t)

Between(t) == ReleaseBetween(t) \/ ReplaceInterpreter(t) \/ \E u \in Uids : BeginGet(t, u)

\* The threads have run MaxCalls queries: the bound, not the program.
Finished == (\A t \in Threads : pc[t] = "idle") /\ calls = MaxCalls /\ UNCHANGED vars

Next ==
    \/ \E t \in Threads : Step(t) \/ Between(t)
    \/ \E b \in Buckets : FreeReplaced(b)
    \/ Finished

\* A thread inside the cache code is never blocked, so the OS scheduler runs it on.
Fairness == \A t \in Threads : WF_vars(Step(t))

Spec == Init /\ [][Next]_vars

FairSpec == Spec /\ Fairness
-----------------------------------------------------------------------------
(***************************************************************************)
(* Properties                                                               *)
(***************************************************************************)

\* Every variable has its type; in particular a refcount is never negative
\* (int32_t refcount in hash_cache.h; the stress test's "no negative refcounts").
TypeOK ==
    /\ key \in [Buckets -> Nat]
    /\ refcount \in [Buckets -> Nat]
    /\ update_count \in [Buckets -> Nat]
    /\ payload \in [Buckets -> Nat]
    /\ retired \in [Buckets -> Nat]
    /\ leaked \in [Buckets -> Nat]
    /\ pc \in [Threads -> PCs]
    /\ uid \in [Threads -> Nat]
    /\ i \in [Threads -> Nat]
    /\ n \in [Threads -> Nat]
    /\ before \in [Threads -> Nat]
    /\ raced \in [Threads -> BOOLEAN]
    /\ cached_function_in_use \in [Threads -> Buckets \cup {NoBucket}]
    /\ calls \in 0 .. MaxCalls

\* A bucket's refcount is exactly the number of threads and replaced interpreters that
\* own a reference to it plus the references that were dropped without a decrement: the
\* spurious increments of get_hash_cache_entry_ are all taken back, and nothing else is.
RefcountAccounting ==
    \A b \in Buckets :
        refcount[b] = leaked[b] + retired[b] + Cardinality(Holders(b)) + Cardinality(Users(b))

\* The claim of the comment in add_to_hash_cache_: the compare/exchange on the
\* refcount keeps every other thread from updating the same bucket, until the
\* thread that claimed it has released it.
WriterExclusion ==
    \A t1, t2 \in Threads : pc[t1] \in OwnerPCs =>
        /\ cached_function_in_use[t2] # Bucket(t1)
        /\ pc[t2] \in OwnerPCs /\ Bucket(t1) = Bucket(t2) => t1 = t2

\* update_count is odd exactly while a writer is between its two increments.
SeqlockParity ==
    \A b \in Buckets :
        update_count[b] % 2 = 1
          <=> \E t \in Threads : pc[t] \in WritePCs \ {"odd"} /\ Bucket(t) = b

\* While update_count is even the bucket's bytecode is the one of its uid: what
\* add_to_hash_cache_ publishes is never half of an entry.
PublishedEntryConsistent ==
    \A b \in Buckets : update_count[b] % 2 = 0 => payload[b] = key[b]

\* The bucket returned by add_to_hash_cache_ holds the entry just added when
\* handle_line_2_query stores it in cached_function_in_use.
AdderOwnsBucket ==
    \A t \in Threads :
        pc[t] = "added" => key[Bucket(t)] = uid[t] /\ payload[Bucket(t)] = uid[t]

\* What the writer has stored so far in the bucket that it owns.
WriterProgress ==
    \A t \in Threads :
        /\ pc[t] \in {"setuid", "even"} => payload[Bucket(t)] = uid[t]
        /\ pc[t] = "even" => key[Bucket(t)] = uid[t]

\* What a reader knows between its two loads of update_count: the count only grows,
\* and if it has not moved then neither has the uid that was compared.
ReaderSnapshot ==
    \A t \in Threads : pc[t] \in {"checkuid", "incref", "validate"} =>
        /\ before[t] % 2 = 0
        /\ before[t] <= update_count[Bucket(t)]
        /\ pc[t] # "checkuid" /\ before[t] = update_count[Bucket(t)] => key[Bucket(t)] = uid[t]

\* Nobody writes to the bucket of a hit that was not raced.
HitUndisturbed ==
    \A t \in Threads : pc[t] = "hit" /\ ~raced[t] =>
        /\ key[Bucket(t)] = uid[t]
        /\ payload[Bucket(t)] = uid[t]
        /\ \A w \in Threads : pc[w] \in WritePCs => Bucket(w) # Bucket(t)

\* The bytecode of a bucket returned by get_hash_cache_entry_ stays in place while
\* the thread uses it, unless a writer had claimed the bucket and not yet made
\* update_count odd when the read was validated.
UnracedHitIsStable ==
    \A t \in Threads : pc[t] = "hit" /\ ~raced[t] => payload[Bucket(t)] = uid[t]

\* The inductive invariant behind the properties above: the seqlock and the refcount
\* of add_to_hash_cache_ and get_hash_cache_entry_ working together.
SeqlockInv ==
    /\ TypeOK
    /\ RefcountAccounting
    /\ WriterExclusion
    /\ SeqlockParity
    /\ PublishedEntryConsistent
    /\ AdderOwnsBucket
    /\ WriterProgress
    /\ ReaderSnapshot
    /\ HitUndisturbed

\* When no thread is using the cache, add_to_hash_cache_ finds a bucket for every query
\* ("the server first compiles the command and caches the bytecode"), as long as no reference
\* to one of the buckets that it probes was lost (to a hit, which main.c never releases, or to
\* a cut third line, which leaves cached_function_in_use to be overwritten by the next miss)
\* or is still kept by a thread whose third line was cut or by its replaced interpreter.
QuiescentCacheAccepts ==
    (\A t \in Threads : pc[t] = "idle")
      => \A u \in Uids \ {0} : \A k \in 0 .. get_bucket_look_forward - 1 :
           (leaked[ProbedBucket(u, k)] = 0 /\ ~Kept(ProbedBucket(u, k))) =>
             \E j \in 0 .. k : refcount[ProbedBucket(u, j)] = 0

\* Neither loop of hash_cache.c can hang a thread: every query leaves the cache
\* code, whatever the other threads do.
QueryTerminates == \A t \in Threads : pc[t] # "idle" ~> pc[t] = "idle"
=============================================================================
