--------------------------- MODULE HashCacheProofs ---------------------------
(***************************************************************************)
(* Proofs about HashCache, for every set of threads, hash size and bound.   *)
(***************************************************************************)
EXTENDS HashCache, FiniteSetTheorems, TLAPS

\* Probing stays inside the bucket array (the "% n_buckets" of both loops).
LEMMA ProbedBucketType == \A u, k \in Nat : ProbedBucket(u, k) \in Buckets
  <1>1. NBuckets \in Nat \ {0}
    BY NBitsAssumption DEF NBuckets
  <1>2. \A m \in Nat : m % NBuckets \in 0 .. NBuckets - 1
    BY <1>1
  <1> QED
    BY <1>1, <1>2 DEF ProbedBucket, get_cache_bucket, Buckets

\* The number of buckets that are probed is a natural number.
LEMMA LookForwardType == get_bucket_look_forward \in Nat
  BY NBitsAssumption DEF get_bucket_look_forward

\* A thread that neither gains nor loses a reference leaves every holder set as it is.
LEMMA HoldersSame ==
  ASSUME TypeOK, NEW t \in Threads, NEW label, Goto(t, label),
         \A s \in Threads \ {t} : uid'[s] = uid[s] /\ i'[s] = i[s],
         \/ pc[t] \notin HoldingPCs /\ label \notin HoldingPCs
         \/ pc[t] \in HoldingPCs /\ label \in HoldingPCs /\ uid'[t] = uid[t] /\ i'[t] = i[t]
  PROVE  \A b \in Buckets : Holders(b)' = Holders(b)
  BY DEF Holders, Bucket, Goto, TypeOK

\* A thread that gains a reference joins the holders of its bucket only.
LEMMA HoldersJoin ==
  ASSUME TypeOK, NEW t \in Threads, NEW label, Goto(t, label), uid' = uid, i' = i,
         pc[t] \notin HoldingPCs, label \in HoldingPCs
  PROVE  /\ t \notin Holders(Bucket(t))
         /\ \A b \in Buckets : b = Bucket(t) => Holders(b)' = Holders(b) \cup {t}
         /\ \A b \in Buckets \ {Bucket(t)} : Holders(b)' = Holders(b)
  BY DEF Holders, Bucket, Goto, TypeOK

\* A thread that gives its reference up leaves the holders of its old bucket only.
LEMMA HoldersLeave ==
  ASSUME TypeOK, NEW t \in Threads, NEW label, Goto(t, label),
         \A s \in Threads \ {t} : uid'[s] = uid[s] /\ i'[s] = i[s],
         pc[t] \in HoldingPCs, label \notin HoldingPCs
  PROVE  /\ t \in Holders(Bucket(t))
         /\ \A b \in Buckets : b = Bucket(t) => Holders(b)' = Holders(b) \ {t}
         /\ \A b \in Buckets \ {Bucket(t)} : Holders(b)' = Holders(b)
  BY DEF Holders, Bucket, Goto, TypeOK

\* The threads that hold a reference to a bucket can be counted.
LEMMA HoldersFinite ==
  ASSUME NEW b
  PROVE  IsFiniteSet(Holders(b)) /\ Cardinality(Holders(b)) \in Nat
  <1>1. Holders(b) \in SUBSET Threads
    BY DEF Holders
  <1>2. IsFiniteSet(Holders(b))
    BY <1>1, ThreadsAssumption, FS_Subset
  <1> QED
    BY <1>2, FS_CardinalityType

\* So can the threads that have it as cached_function_in_use.
LEMMA UsersFinite ==
  ASSUME NEW b
  PROVE  IsFiniteSet(Users(b)) /\ Cardinality(Users(b)) \in Nat
  <1>1. Users(b) \in SUBSET Threads
    BY DEF Users
  <1>2. IsFiniteSet(Users(b))
    BY <1>1, ThreadsAssumption, FS_Subset
  <1> QED
    BY <1>2, FS_CardinalityType

\* NoBucket is the index of no bucket.
LEMMA NoBucketIsNone == NoBucket \notin Buckets /\ Buckets \subseteq Nat
  <1>1. NBuckets \in Nat
    BY NBitsAssumption DEF NBuckets
  <1> QED
    BY <1>1 DEF NoBucket, Buckets

\* The bucket that a thread looks at is a bucket of the table.
LEMMA BucketType ==
  ASSUME TypeOK, NEW t \in Threads
  PROVE  Bucket(t) \in Buckets
  BY ProbedBucketType DEF TypeOK, Bucket

-----------------------------------------------------------------------------
(***************************************************************************)
(* The refcounts.  That a refcount is never negative (part of TypeOK) needs *)
(* RefcountAccounting, so the two are proved together.                      *)
(***************************************************************************)

\* A thread that owns a reference sees a refcount of at least one.
LEMMA HolderCounts ==
  ASSUME TypeOK, RefcountAccounting, NEW t \in Threads, pc[t] \in HoldingPCs
  PROVE  refcount[Bucket(t)] >= 1
  <1> DEFINE b == Bucket(t)
  <1>1. b \in Buckets
    BY BucketType
  <1>2. t \in Holders(b)
    BY DEF Holders
  <1>3. Cardinality(Holders(b)) # 0 /\ Cardinality(Holders(b)) \in Nat
    BY <1>2, HoldersFinite, FS_EmptySet
  <1>4. /\ refcount[b] = leaked[b] + retired[b] + Cardinality(Holders(b)) + Cardinality(Users(b))
        /\ leaked[b] \in Nat /\ retired[b] \in Nat /\ Cardinality(Users(b)) \in Nat
    BY <1>1, UsersFinite DEF RefcountAccounting, TypeOK
  <1> QED
    BY <1>3, <1>4

\* So does a thread of its cached_function_in_use, and a replaced interpreter.
LEMMA UserCounts ==
  ASSUME TypeOK, RefcountAccounting, NEW b \in Buckets, Kept(b)
  PROVE  refcount[b] >= 1
  <1>1. /\ refcount[b] = leaked[b] + retired[b] + Cardinality(Holders(b)) + Cardinality(Users(b))
        /\ leaked[b] \in Nat /\ retired[b] \in Nat
        /\ Cardinality(Users(b)) \in Nat /\ Cardinality(Holders(b)) \in Nat
    BY UsersFinite, HoldersFinite DEF RefcountAccounting, TypeOK
  <1>2. CASE Users(b) # {}
    <2>1. Cardinality(Users(b)) # 0
      BY <1>2, UsersFinite, FS_EmptySet
    <2> QED
      BY <1>1, <2>1
  <1>3. CASE retired[b] > 0
    BY <1>1, <1>3
  <1> QED
    BY <1>2, <1>3 DEF Kept

\* An action that touches no reference keeps the accounts.
LEMMA AccountingSame ==
  ASSUME TypeOK, RefcountAccounting, UNCHANGED <<refcount, leaked, retired, cached_function_in_use>>,
         \A b \in Buckets : Holders(b)' = Holders(b)
  PROVE  RefcountAccounting'
  BY DEF RefcountAccounting, Users

\* A thread that increments the refcount and becomes a holder keeps the account.
LEMMA AccountingJoin ==
  ASSUME TypeOK, RefcountAccounting, NEW t \in Threads, NEW label, Goto(t, label),
         uid' = uid, i' = i, pc[t] \notin HoldingPCs, label \in HoldingPCs,
         AddToRefcount(Bucket(t), 1), UNCHANGED <<leaked, retired, cached_function_in_use>>
  PROVE  RefcountAccounting'
  <1> SUFFICES ASSUME NEW b \in Buckets
               PROVE  refcount'[b] = leaked'[b] + retired'[b] + Cardinality(Holders(b)')
                                       + Cardinality(Users(b)')
    BY DEF RefcountAccounting
  <1>1. refcount[b] = leaked[b] + retired[b] + Cardinality(Holders(b)) + Cardinality(Users(b))
    BY DEF RefcountAccounting
  <1>2. /\ IsFiniteSet(Holders(b)) /\ Cardinality(Holders(b)) \in Nat
        /\ Cardinality(Users(b)) \in Nat
        /\ refcount[b] \in Nat /\ leaked[b] \in Nat /\ retired[b] \in Nat
    BY HoldersFinite, UsersFinite DEF TypeOK
  <1>3. Users(b)' = Users(b)
    BY DEF Users
  <1>4. CASE b = Bucket(t)
    <2>1. t \notin Holders(b) /\ Holders(b)' = Holders(b) \cup {t}
      BY <1>4, HoldersJoin
    <2>2. Cardinality(Holders(b)') = Cardinality(Holders(b)) + 1
      BY <2>1, <1>2, FS_AddElement
    <2>3. refcount'[b] = refcount[b] + 1
      BY <1>4 DEF AddToRefcount, Plus
    <2> QED
      BY <1>1, <1>2, <1>3, <2>2, <2>3
  <1>5. CASE b # Bucket(t)
    <2>1. Holders(b)' = Holders(b)
      BY <1>5, HoldersJoin
    <2>2. refcount'[b] = refcount[b]
      BY <1>5 DEF AddToRefcount, Plus
    <2> QED
      BY <1>1, <1>3, <2>1, <2>2
  <1> QED
    BY <1>4, <1>5

One(b, c) == IF b = c THEN 1 ELSE 0

\* A thread that gives its reference up is one holder less of its bucket.
LEMMA HoldersCount ==
  ASSUME TypeOK, NEW t \in Threads, NEW label, Goto(t, label), label \notin HoldingPCs,
         \A s \in Threads \ {t} : uid'[s] = uid[s] /\ i'[s] = i[s], NEW b \in Buckets
  PROVE  Cardinality(Holders(b)')
           = Cardinality(Holders(b)) - One(b, IF pc[t] \in HoldingPCs THEN Bucket(t) ELSE NoBucket)
  <1>1. IsFiniteSet(Holders(b)) /\ Cardinality(Holders(b)) \in Nat
    BY HoldersFinite
  <1>2. CASE pc[t] \in HoldingPCs /\ b = Bucket(t)
    <2>1. t \in Holders(b) /\ Holders(b)' = Holders(b) \ {t}
      BY <1>2, HoldersLeave
    <2> QED
      BY <1>1, <1>2, <2>1, FS_RemoveElement DEF One
  <1>3. CASE ~(pc[t] \in HoldingPCs /\ b = Bucket(t))
    <2>1. Holders(b)' = Holders(b)
      BY <1>3, HoldersSame, HoldersLeave
    <2> QED
      BY <1>1, <1>3, <2>1, NoBucketIsNone DEF One
  <1> QED
    BY <1>2, <1>3

\* A thread that stores a bucket, or none, over its cached_function_in_use.
LEMMA UsersCount ==
  ASSUME TypeOK, NEW t \in Threads, NEW x,
         SetInUse(t, x), NEW b \in Buckets
  PROVE  Cardinality(Users(b)')
           = Cardinality(Users(b)) - One(b, cached_function_in_use[t]) + One(b, x)
  <1> DEFINE U == Users(b)
             old == cached_function_in_use[t]
  <1>1. IsFiniteSet(U) /\ Cardinality(U) \in Nat
    BY UsersFinite
  <1>2. CASE b = old /\ b = x
    <2>1. Users(b)' = U
      BY <1>2 DEF Users, SetInUse, TypeOK
    <2> QED
      BY <1>1, <1>2, <2>1 DEF One
  <1>3. CASE b = old /\ b # x
    <2>1. t \in U /\ Users(b)' = U \ {t}
      BY <1>3 DEF Users, SetInUse, TypeOK
    <2>2. Cardinality(Users(b)') = Cardinality(U) - 1
      BY <1>1, <2>1, FS_RemoveElement
    <2> QED
      BY <1>1, <1>3, <2>2 DEF One
  <1>4. CASE b # old /\ b = x
    <2>1. t \notin U /\ Users(b)' = U \cup {t}
      BY <1>4 DEF Users, SetInUse, TypeOK
    <2>2. Cardinality(Users(b)') = Cardinality(U) + 1
      BY <1>1, <2>1, FS_AddElement
    <2> QED
      BY <1>1, <1>4, <2>2 DEF One
  <1>5. CASE b # old /\ b # x
    <2>1. Users(b)' = U
      BY <1>5 DEF Users, SetInUse, TypeOK
    <2> QED
      BY <1>1, <1>5, <2>1 DEF One
  <1> QED
    BY <1>2, <1>3, <1>4, <1>5

Accounted(b) ==
    refcount[b] = leaked[b] + retired[b] + Cardinality(Holders(b)) + Cardinality(Users(b))

\* The account of one bucket, in natural numbers.
LEMMA AccountedAt ==
  ASSUME TypeOK, RefcountAccounting, NEW b \in Buckets
  PROVE  /\ Accounted(b)
         /\ refcount[b] \in Nat /\ leaked[b] \in Nat /\ retired[b] \in Nat
         /\ Cardinality(Holders(b)) \in Nat /\ Cardinality(Users(b)) \in Nat
         /\ \A c : One(b, c) \in {0, 1}
  BY HoldersFinite, UsersFinite DEF TypeOK, RefcountAccounting, Accounted, One

\* How counts add up.
LEMMA PlusAt ==
  ASSUME NEW f \in [Buckets -> Nat], NEW x, NEW b \in Buckets
  PROVE  /\ Plus(f, x, 1)[b] = f[b] + One(b, x)
         /\ Plus(f, x, -1)[b] = f[b] - One(b, x)
  BY DEF Plus, One

\* They stay natural numbers as long as only what was counted is taken away.
LEMMA PlusType ==
  ASSUME NEW f \in [Buckets -> Nat], NEW x
  PROVE  /\ Plus(f, x, 1) \in [Buckets -> Nat]
         /\ (\A c \in Buckets : c = x => f[c] >= 1) => Plus(f, x, -1) \in [Buckets -> Nat]
  BY DEF Plus

\* Leaving a bucket in the read loop goes to the next read or to the compiler.
LEMMA RetryReadGoto ==
  ASSUME TypeOK, NEW t \in Threads, RetryRead(t)
  PROVE  /\ \E label \in {"load", "compile"} : Goto(t, label)
         /\ i' \in [Threads -> Nat] /\ n' \in [Threads -> Nat]
         /\ \A s \in Threads \ {t} : i'[s] = i[s]
  <1> USE LookForwardType, MaxTriesAssumption DEF TypeOK
  <1>1. CASE n[t] + 1 < MaxTries
    BY <1>1 DEF RetryRead
  <1>2. CASE ~(n[t] + 1 < MaxTries)
    BY <1>2 DEF RetryRead, NextProbe
  <1> QED
    BY <1>1, <1>2

\* Every step preserves the types; the decrements need the accounting.
LEMMA TypeStep ==
  ASSUME TypeOK, RefcountAccounting, [Next]_vars
  PROVE  TypeOK'
  <1> USE DEF TypeOK, PCs, ReadPCs, WritePCs
  <1>1. ASSUME NEW t \in Threads, Get(t)
        PROVE  TypeOK'
    <2>1. CASE LoadUpdateCount(t)
      <3>1. CASE RetryRead(t) /\ UNCHANGED before
        BY <2>1, <3>1, RetryReadGoto DEF LoadUpdateCount, bucketVars, Goto
      <3>2. CASE ~(RetryRead(t) /\ UNCHANGED before)
        BY <2>1, <3>2, BucketType DEF LoadUpdateCount, bucketVars, Goto
      <3> QED
        BY <3>1, <3>2
    <2>2. CASE CheckUid(t)
      BY <2>2, LookForwardType DEF CheckUid, bucketVars, Goto, NextProbe
    <2>3. CASE IncRef(t)
      BY <2>3, PlusType DEF IncRef, Goto, AddToRefcount
    <2>4. CASE Validate(t)
      <3>1. EnteringWriter(Bucket(t)) \in BOOLEAN
        BY DEF EnteringWriter
      <3> QED
        BY <2>4, <3>1 DEF Validate, bucketVars, Goto
    <2>5. CASE UndoRef(t)
      <3>1. pc[t] \in HoldingPCs
        BY <2>5 DEF UndoRef, HoldingPCs
      <3>2. refcount[Bucket(t)] >= 1
        BY <3>1, HolderCounts
      <3>3. refcount' \in [Buckets -> Nat]
        BY <2>5, <3>2, PlusType DEF UndoRef, AddToRefcount
      <3> QED
        BY <2>5, <3>3, RetryReadGoto DEF UndoRef, Goto
    <2> QED
      BY <1>1, <2>1, <2>2, <2>3, <2>4, <2>5 DEF Get
  <1>2. ASSUME NEW t \in Threads, Add(t)
        PROVE  TypeOK'
    <2>1. CASE BeginAdd(t)
      BY <2>1 DEF BeginAdd, bucketVars, Goto
    <2>2. CASE ClaimBucket(t)
      BY <2>2 DEF ClaimBucket, Goto, NextProbe
    <2>3. CASE MakeOdd(t)
      BY <2>3, BucketType DEF MakeOdd, Goto, IncUpdateCount
    <2>4. CASE CleanupBucket(t)
      BY <2>4 DEF CleanupBucket, Goto, NoBytecode
    <2>5. CASE CopyPayload(t)
      BY <2>5 DEF CopyPayload, Goto
    <2>6. CASE StoreUid(t)
      BY <2>6 DEF StoreUid, Goto
    <2>7. CASE MakeEven(t)
      BY <2>7, BucketType DEF MakeEven, Goto, IncUpdateCount
    <2> QED
      BY <1>2, <2>1, <2>2, <2>3, <2>4, <2>5, <2>6, <2>7 DEF Add
  <1>3. ASSUME NEW t \in Threads, Query(t)
        PROVE  TypeOK'
    <2>1. CASE CompileFails(t)
      BY <2>1 DEF CompileFails, bucketVars, Goto
    <2>2. CASE UseAdded(t)
      BY <2>2, PlusType, BucketType DEF UseAdded, SetInUse, Goto
    <2>3. CASE UseDangling(t)
      BY <2>3, PlusType DEF UseDangling, SetInUse, Goto
    <2> QED
      BY <1>3, <2>1, <2>2, <2>3 DEF Query
  <1>4. ASSUME NEW t \in Threads
        PROVE  \A c \in Buckets : c = cached_function_in_use[t] => refcount[c] >= 1
    BY UserCounts DEF Kept, Users
  <1>5. ASSUME NEW t \in Threads, cleanup_command_state(t)
        PROVE  /\ refcount' \in [Buckets -> Nat]
               /\ cached_function_in_use' \in [Threads -> Buckets \cup {NoBucket}]
    BY <1>4, <1>5, PlusType DEF cleanup_command_state, SetInUse, AddToRefcount
  <1>6. ASSUME NEW t \in Threads, Finish(t)
        PROVE  TypeOK'
    <2>1. leaked' \in [Buckets -> Nat]
      <3>1. PICK x : leaked' = Plus(leaked, x, 1)
        BY <1>6 DEF Finish, EndCommand, CutCommand, ForgetHit
      <3> QED
        BY <3>1, PlusType
    <2>2. Return(t) /\ UNCHANGED <<key, update_count, payload, retired, calls>>
      BY <1>6 DEF Finish, EndCommand, CutCommand
    <2>3. /\ refcount' \in [Buckets -> Nat]
          /\ cached_function_in_use' \in [Threads -> Buckets \cup {NoBucket}]
      BY <1>5, <1>6 DEF Finish, EndCommand, CutCommand
    <2> QED
      BY <2>1, <2>2, <2>3 DEF Return, Goto
  <1>7. ASSUME NEW t \in Threads, Between(t)
        PROVE  TypeOK'
    <2>1. CASE ReleaseBetween(t)
      BY <2>1, <1>5 DEF ReleaseBetween
    <2>2. CASE ReplaceInterpreter(t)
      BY <2>2, PlusType DEF ReplaceInterpreter, SetInUse
    <2>3. ASSUME NEW u \in Uids, BeginGet(t, u)
          PROVE  TypeOK'
      BY <2>3, UidsAssumption, MaxCallsAssumption DEF BeginGet, bucketVars, Goto
    <2> QED
      BY <1>7, <2>1, <2>2, <2>3 DEF Between
  <1>8. ASSUME NEW b \in Buckets, FreeReplaced(b)
        PROVE  TypeOK'
    <2>1. refcount[b] >= 1 /\ retired[b] >= 1
      BY <1>8, UserCounts DEF FreeReplaced, Kept
    <2>2. refcount' \in [Buckets -> Nat] /\ retired' \in [Buckets -> Nat]
      BY <1>8, <2>1, PlusType DEF FreeReplaced, AddToRefcount
    <2> QED
      BY <1>8, <2>2 DEF FreeReplaced, threadVars
  <1>9. CASE UNCHANGED vars
    BY <1>9 DEF vars, bucketVars, threadVars
  <1> QED
    BY <1>1, <1>2, <1>3, <1>6, <1>7, <1>8, <1>9 DEF Next, Step, Finished

\* Every step preserves the accounting of the refcounts.
LEMMA AccountingStep ==
  ASSUME TypeOK, RefcountAccounting, [Next]_vars
  PROVE  RefcountAccounting'
  <1> USE DEF HoldingPCs, WritePCs
  <1>1. ASSUME NEW t \in Threads, Get(t)
        PROVE  RefcountAccounting'
    <2>1. CASE LoadUpdateCount(t)
      <3>1. /\ pc[t] \notin HoldingPCs /\ uid' = uid /\ UNCHANGED <<refcount, leaked, retired, cached_function_in_use>>
            /\ \E label \in {"load", "compile", "checkuid"} : Goto(t, label)
            /\ \A s \in Threads \ {t} : i'[s] = i[s]
        BY <2>1, RetryReadGoto DEF LoadUpdateCount, bucketVars
      <3> QED
        BY <3>1, HoldersSame, AccountingSame
    <2>2. CASE CheckUid(t)
      <3>1. /\ pc[t] \notin HoldingPCs /\ uid' = uid /\ UNCHANGED <<refcount, leaked, retired, cached_function_in_use>>
            /\ \E label \in {"load", "compile", "incref"} : Goto(t, label)
            /\ \A s \in Threads \ {t} : i'[s] = i[s]
        BY <2>2 DEF CheckUid, bucketVars, NextProbe, TypeOK
      <3> QED
        BY <3>1, HoldersSame, AccountingSame
    <2>3. CASE IncRef(t)
      BY <2>3, AccountingJoin DEF IncRef
    <2>4. CASE Validate(t)
      <3>1. /\ pc[t] \in HoldingPCs /\ uid' = uid /\ i' = i /\ UNCHANGED <<refcount, leaked, retired, cached_function_in_use>>
            /\ \E label \in {"hit", "undo"} : Goto(t, label)
        BY <2>4 DEF Validate, bucketVars
      <3> QED
        BY <3>1, HoldersSame, AccountingSame
    <2>5. CASE UndoRef(t)
      <3>1. /\ pc[t] \in HoldingPCs /\ uid' = uid
            /\ UNCHANGED <<leaked, retired, cached_function_in_use>>
            /\ AddToRefcount(Bucket(t), -1)
            /\ \E label \in {"load", "compile"} : Goto(t, label)
            /\ \A s \in Threads \ {t} : i'[s] = i[s]
        BY <2>5, RetryReadGoto DEF UndoRef
      <3> SUFFICES ASSUME NEW b \in Buckets PROVE Accounted(b)'
        BY DEF RefcountAccounting, Accounted
      <3>2. Cardinality(Holders(b)') = Cardinality(Holders(b)) - One(b, Bucket(t))
        BY <3>1, HoldersCount DEF One
      <3>3. refcount'[b] = refcount[b] - One(b, Bucket(t)) /\ Users(b)' = Users(b)
        BY <3>1, PlusAt DEF AddToRefcount, TypeOK, Users
      <3> QED
        BY <3>1, <3>2, <3>3, AccountedAt DEF Accounted
    <2> QED
      BY <1>1, <2>1, <2>2, <2>3, <2>4, <2>5 DEF Get
  <1>2. ASSUME NEW t \in Threads, Add(t)
        PROVE  RefcountAccounting'
    <2>1. CASE BeginAdd(t)
      <3>1. /\ pc[t] \notin HoldingPCs /\ uid' = uid /\ UNCHANGED <<refcount, leaked, retired, cached_function_in_use>>
            /\ \E label \in {"cas", "dangling"} : Goto(t, label)
            /\ \A s \in Threads \ {t} : i'[s] = i[s]
        BY <2>1 DEF BeginAdd, bucketVars, TypeOK
      <3> QED
        BY <3>1, HoldersSame, AccountingSame
    <2>2. CASE ClaimBucket(t)
      <3>1. CASE refcount[Bucket(t)] = 0
        <4>1. AddToRefcount(Bucket(t), 1)
          BY <2>2, <3>1, BucketType DEF ClaimBucket, AddToRefcount, Plus, TypeOK
        <4> QED
          BY <2>2, <3>1, <4>1, AccountingJoin DEF ClaimBucket
      <3>2. CASE refcount[Bucket(t)] # 0
        <4>1. /\ pc[t] \notin HoldingPCs /\ uid' = uid /\ UNCHANGED <<refcount, leaked, retired, cached_function_in_use>>
              /\ \E label \in {"cas", "dangling"} : Goto(t, label)
              /\ \A s \in Threads \ {t} : i'[s] = i[s]
          BY <2>2, <3>2 DEF ClaimBucket, NextProbe, TypeOK
        <4> QED
          BY <4>1, HoldersSame, AccountingSame
      <3> QED
        BY <3>1, <3>2
    <2>3. CASE MakeOdd(t) \/ CleanupBucket(t) \/ CopyPayload(t) \/ StoreUid(t) \/ MakeEven(t)
      <3>1. /\ pc[t] \in HoldingPCs /\ uid' = uid /\ i' = i /\ UNCHANGED <<refcount, leaked, retired, cached_function_in_use>>
            /\ \E label \in {"cleanup", "copy", "setuid", "even", "added"} : Goto(t, label)
        BY <2>3 DEF MakeOdd, CleanupBucket, CopyPayload, StoreUid, MakeEven
      <3> QED
        BY <3>1, HoldersSame, AccountingSame
    <2> QED
      BY <1>2, <2>1, <2>2, <2>3 DEF Add
  <1> USE DEF bucketVars
  <1>3. ASSUME NEW t \in Threads, Query(t)
        PROVE  RefcountAccounting'
    <2>1. CASE CompileFails(t)
      BY <2>1, HoldersSame, AccountingSame DEF CompileFails
    <2> SUFFICES ASSUME UseAdded(t) \/ UseDangling(t), NEW b \in Buckets
                 PROVE  Accounted(b)'
      BY <1>3, <2>1 DEF Query, RefcountAccounting, Accounted
    <2> DEFINE x == IF pc[t] = "added" THEN Bucket(t) ELSE NoBucket
    <2>2. /\ SetInUse(t, x)
          /\ leaked' = Plus(leaked, cached_function_in_use[t], 1)
          /\ Goto(t, "run") /\ UNCHANGED <<refcount, retired, uid, i>>
          /\ pc[t] \in {"added", "dangling"}
      BY DEF UseAdded, UseDangling
    <2>3. pc[t] \in HoldingPCs /\ b = Bucket(t) <=> b = x
      BY <2>2, NoBucketIsNone
    <2>4. Cardinality(Holders(b)') = Cardinality(Holders(b)) - One(b, x)
      BY <2>2, <2>3, HoldersCount DEF One
    <2>5. Cardinality(Users(b)')
            = Cardinality(Users(b)) - One(b, cached_function_in_use[t]) + One(b, x)
      BY <2>2, UsersCount
    <2>6. leaked'[b] = leaked[b] + One(b, cached_function_in_use[t])
      BY <2>2, PlusAt DEF TypeOK
    <2> QED
      BY <2>2, <2>4, <2>5, <2>6, AccountedAt DEF Accounted
  <1>4. ASSUME NEW t \in Threads, cleanup_command_state(t), NEW b \in Buckets
        PROVE  refcount'[b] - Cardinality(Users(b)') = refcount[b] - Cardinality(Users(b))
               /\ refcount'[b] \in Int /\ Cardinality(Users(b)') \in Int
    <2>1. refcount'[b] = refcount[b] - One(b, cached_function_in_use[t])
      BY <1>4, PlusAt DEF cleanup_command_state, AddToRefcount, TypeOK
    <2>2. Cardinality(Users(b)')
            = Cardinality(Users(b)) - One(b, cached_function_in_use[t]) + One(b, NoBucket)
      BY <1>4, UsersCount DEF cleanup_command_state
    <2>3. One(b, NoBucket) = 0
      BY NoBucketIsNone DEF One
    <2> QED
      BY <2>1, <2>2, <2>3, AccountedAt
  <1>5. ASSUME NEW t \in Threads, Finish(t)
        PROVE  RefcountAccounting'
    <2> SUFFICES ASSUME NEW b \in Buckets
                 PROVE  Accounted(b)'
      BY DEF RefcountAccounting, Accounted
    <2> DEFINE x == IF pc[t] = "hit" THEN Bucket(t) ELSE NoBucket
    <2>1. /\ leaked' = Plus(leaked, x, 1) /\ Goto(t, "idle") /\ retired' = retired
          /\ \A s \in Threads \ {t} : uid'[s] = uid[s] /\ i'[s] = i[s]
          /\ pc[t] \in {"hit", "run"}
      BY <1>5 DEF Finish, EndCommand, CutCommand, ForgetHit, Return, TypeOK
    <2>2. pc[t] \in HoldingPCs /\ b = Bucket(t) <=> b = x
      BY <2>1, NoBucketIsNone
    <2>3. Cardinality(Holders(b)') = Cardinality(Holders(b)) - One(b, x)
      BY <2>1, <2>2, HoldersCount DEF One
    <2>4. leaked'[b] = leaked[b] + One(b, x)
      BY <2>1, PlusAt DEF TypeOK
    <2>5. refcount'[b] - Cardinality(Users(b)') = refcount[b] - Cardinality(Users(b))
          /\ refcount'[b] \in Int /\ Cardinality(Users(b)') \in Int
      <3>1. CASE EndCommand(t)
        BY <3>1, <1>4 DEF EndCommand
      <3>2. CASE CutCommand(t)
        <4>1. Users(b)' = Users(b) /\ refcount' = refcount
          BY <3>2 DEF CutCommand, Users
        <4> QED
          BY <4>1, AccountedAt
      <3> QED
        BY <1>5, <3>1, <3>2 DEF Finish
    <2> QED
      BY <2>1, <2>3, <2>4, <2>5, AccountedAt DEF Accounted
  <1>6. ASSUME NEW t \in Threads, Between(t)
        PROVE  RefcountAccounting'
    <2>1. ASSUME NEW u \in Uids, BeginGet(t, u)
          PROVE  RefcountAccounting'
      <3>1. /\ pc[t] \notin HoldingPCs
            /\ UNCHANGED <<refcount, leaked, retired, cached_function_in_use>>
            /\ \E label \in {"load", "compile"} : Goto(t, label)
            /\ \A s \in Threads \ {t} : uid'[s] = uid[s] /\ i'[s] = i[s]
        BY <2>1 DEF BeginGet, TypeOK
      <3> QED
        BY <3>1, HoldersSame, AccountingSame
    <2> SUFFICES ASSUME ReleaseBetween(t) \/ ReplaceInterpreter(t), NEW b \in Buckets
                 PROVE  Accounted(b)'
      BY <1>6, <2>1 DEF Between, RefcountAccounting, Accounted
    <2>2. Holders(b)' = Holders(b) /\ leaked' = leaked
      BY DEF ReleaseBetween, ReplaceInterpreter, Holders, Bucket
    <2>3. CASE ReleaseBetween(t)
      <3>1. retired' = retired
        BY <2>3 DEF ReleaseBetween
      <3> QED
        BY <2>2, <2>3, <3>1, <1>4, AccountedAt DEF ReleaseBetween, Accounted
    <2>4. CASE ReplaceInterpreter(t)
      <3>1. Cardinality(Users(b)')
              = Cardinality(Users(b)) - One(b, cached_function_in_use[t]) + One(b, NoBucket)
        BY <2>4, UsersCount DEF ReplaceInterpreter
      <3>2. One(b, NoBucket) = 0
        BY NoBucketIsNone DEF One
      <3>3. retired'[b] = retired[b] + One(b, cached_function_in_use[t]) /\ refcount' = refcount
        BY <2>4, PlusAt DEF ReplaceInterpreter, TypeOK
      <3> QED
        BY <2>2, <3>1, <3>2, <3>3, AccountedAt DEF Accounted
    <2> QED
      BY <2>3, <2>4
  <1>7. ASSUME NEW c \in Buckets, FreeReplaced(c)
        PROVE  RefcountAccounting'
    <2> SUFFICES ASSUME NEW b \in Buckets
                 PROVE  Accounted(b)'
      BY DEF RefcountAccounting, Accounted
    <2>1. Holders(b)' = Holders(b) /\ Users(b)' = Users(b) /\ leaked' = leaked
      BY <1>7 DEF FreeReplaced, threadVars, Holders, Bucket, Users
    <2>2. refcount'[b] = refcount[b] - One(b, c) /\ retired'[b] = retired[b] - One(b, c)
      BY <1>7, PlusAt DEF FreeReplaced, AddToRefcount, TypeOK
    <2> QED
      BY <2>1, <2>2, AccountedAt DEF Accounted
  <1>8. CASE UNCHANGED vars
    BY <1>8 DEF vars, threadVars, RefcountAccounting, Holders, Bucket, Users
  <1> QED
    BY <1>1, <1>2, <1>3, <1>5, <1>6, <1>7, <1>8 DEF Next, Step, Finished

\* Initially nobody holds anything.
LEMMA InitCounts == Init => TypeOK /\ RefcountAccounting
  <1> SUFFICES ASSUME Init PROVE TypeOK /\ RefcountAccounting
    OBVIOUS
  <1>1. TypeOK
    BY MaxCallsAssumption DEF Init, TypeOK, PCs, NoBytecode
  <1>2. \A b \in Buckets : Holders(b) = {}
    BY DEF Init, Holders, HoldingPCs, WritePCs
  <1>3. \A b \in Buckets : Users(b) = {}
    BY NoBucketIsNone DEF Init, Users
  <1>4. RefcountAccounting
    BY <1>2, <1>3, FS_EmptySet DEF Init, RefcountAccounting
  <1> QED
    BY <1>1, <1>4

\* Every state of the cache is well typed; no refcount is ever negative.
THEOREM TypeCorrect == Spec => []TypeOK
  <1>1. TypeOK /\ RefcountAccounting /\ [Next]_vars => (TypeOK /\ RefcountAccounting)'
    BY TypeStep, AccountingStep
  <1> QED
    BY InitCounts, <1>1, PTL DEF Spec

\* Every refcount is exactly the references owned by threads plus the leaked ones.
THEOREM RefcountsAreExact == Spec => []RefcountAccounting
  <1>1. TypeOK /\ RefcountAccounting /\ [Next]_vars => (TypeOK /\ RefcountAccounting)'
    BY TypeStep, AccountingStep
  <1> QED
    BY InitCounts, <1>1, PTL DEF Spec

-----------------------------------------------------------------------------
(***************************************************************************)
(* The seqlock.  SeqlockInv is inductive; its parts beyond the refcounts    *)
(* are the seven conjuncts of SeqlockParts.                                 *)
(***************************************************************************)

SeqlockParts ==
    /\ WriterExclusion
    /\ SeqlockParity
    /\ PublishedEntryConsistent
    /\ AdderOwnsBucket
    /\ WriterProgress
    /\ ReaderSnapshot
    /\ HitUndisturbed

\* A bucket that can be claimed has no owner, no writer and no hit, and is in no
\* cached_function_in_use.
LEMMA ClaimableIsFree ==
  ASSUME TypeOK, RefcountAccounting, NEW b, NEW t \in Threads, Bucket(t) = b, refcount[b] = 0
  PROVE  \A s \in Threads : /\ pc[s] \in OwnerPCs \cup {"hit"} => Bucket(s) # b
                            /\ cached_function_in_use[s] # b
  <1>0. ASSUME NEW s \in Threads, cached_function_in_use[s] = b
        PROVE  FALSE
    BY <1>0, BucketType, UserCounts DEF Kept, Users
  <1> SUFFICES ASSUME NEW s \in Threads, pc[s] \in OwnerPCs \cup {"hit"}, Bucket(s) = b
               PROVE  FALSE
    BY <1>0
  <1>1. pc[s] \in HoldingPCs
    BY DEF OwnerPCs, HoldingPCs
  <1>2. refcount[b] >= 1
    BY <1>1, HolderCounts
  <1> QED
    BY <1>2

\* update_count changes parity with every increment.
LEMMA ParityFlips == \A c \in Nat : (c + 1) % 2 = 1 <=> c % 2 = 0
  OBVIOUS

\* A thread that looks at no bucket any more, or starts over on another one, and
\* changes no bucket's contents, disturbs nothing: the misses, the retries and the
\* ends of commands.
LEMMA MoveOnSeqlock ==
  ASSUME SeqlockInv, NEW t \in Threads, NEW label \in {"load", "compile", "cas", "dangling", "run", "idle"},
         Goto(t, label), pc[t] \notin WritePCs, UNCHANGED <<key, payload, update_count>>,
         \A s \in Threads \ {t} : /\ uid'[s] = uid[s] /\ i'[s] = i[s]
                                  /\ before'[s] = before[s] /\ raced'[s] = raced[s],
         \A s \in Threads :
           \/ cached_function_in_use'[s] \in {cached_function_in_use[s], NoBucket}
           \/ s = t /\ pc[t] = "added" /\ cached_function_in_use'[t] = Bucket(t)
  PROVE  SeqlockParts'
  <1> USE DEF Goto, SeqlockInv, TypeOK, Bucket, OwnerPCs, WritePCs
  <1>1. WriterExclusion'
    <2>1. \A s \in Threads : Bucket(s) # NoBucket
      BY BucketType, NoBucketIsNone
    <2> QED
      BY <2>1 DEF WriterExclusion
  <1>2. SeqlockParity'
    BY DEF SeqlockParity
  <1>3. PublishedEntryConsistent'
    BY DEF PublishedEntryConsistent
  <1>4. AdderOwnsBucket' /\ WriterProgress'
    BY DEF AdderOwnsBucket, WriterProgress
  <1>5. ReaderSnapshot'
    BY DEF ReaderSnapshot
  <1>6. HitUndisturbed'
    BY DEF HitUndisturbed
  <1> QED
    BY <1>1, <1>2, <1>3, <1>4, <1>5, <1>6 DEF SeqlockParts

\* A reader that goes on with its bucket: what it has just seen is true now.
LEMMA ReadOnSeqlock ==
  ASSUME SeqlockInv, NEW t \in Threads, NEW label \in {"checkuid", "incref", "validate", "undo"},
         Goto(t, label), pc[t] \in ReadPCs,
         UNCHANGED <<key, payload, update_count, uid, i, raced, cached_function_in_use>>,
         \A s \in Threads \ {t} : before'[s] = before[s],
         label # "undo" => /\ before'[t] % 2 = 0
                           /\ before'[t] <= update_count[Bucket(t)]
                           /\ label # "checkuid" /\ before'[t] = update_count[Bucket(t)]
                                => key[Bucket(t)] = uid[t]
  PROVE  SeqlockParts'
  <1> USE DEF Goto, SeqlockInv, TypeOK, Bucket, OwnerPCs, WritePCs, ReadPCs
  <1>1. WriterExclusion' /\ SeqlockParity' /\ PublishedEntryConsistent'
    BY DEF WriterExclusion, SeqlockParity, PublishedEntryConsistent
  <1>2. AdderOwnsBucket' /\ WriterProgress'
    BY DEF AdderOwnsBucket, WriterProgress
  <1>3. ReaderSnapshot'
    BY DEF ReaderSnapshot
  <1>4. HitUndisturbed'
    BY DEF HitUndisturbed
  <1> QED
    BY <1>1, <1>2, <1>3, <1>4 DEF SeqlockParts

\* The steps of get_hash_cache_entry_ preserve the parts of the seqlock invariant.
LEMMA GetSeqlock ==
  ASSUME SeqlockInv, NEW t \in Threads, Get(t)
  PROVE  SeqlockParts'
  <1> USE BucketType DEF SeqlockInv
  <1>1. CASE LoadUpdateCount(t)
    <2>1. CASE update_count[Bucket(t)] % 2 # 0
      <3>1. /\ \E label \in {"load", "compile"} : Goto(t, label)
            /\ \A s \in Threads \ {t} : i'[s] = i[s]
            /\ UNCHANGED <<key, payload, update_count, uid, before, raced, cached_function_in_use>>
            /\ pc[t] \notin WritePCs
        BY <1>1, <2>1, RetryReadGoto DEF LoadUpdateCount, bucketVars, WritePCs
      <3> QED
        BY <3>1, MoveOnSeqlock
    <2>2. CASE update_count[Bucket(t)] % 2 = 0
      <3>1. /\ Goto(t, "checkuid") /\ pc[t] \in ReadPCs
            /\ UNCHANGED <<key, payload, update_count, uid, i, raced, cached_function_in_use>>
            /\ before' = [before EXCEPT ![t] = update_count[Bucket(t)]]
        BY <1>1, <2>2 DEF LoadUpdateCount, bucketVars, ReadPCs
      <3>2. before'[t] = update_count[Bucket(t)] /\ update_count[Bucket(t)] \in Nat
        BY <3>1 DEF TypeOK
      <3>3. \A s \in Threads \ {t} : before'[s] = before[s]
        BY <3>1 DEF TypeOK
      <3> QED
        BY <2>2, <3>1, <3>2, <3>3, ReadOnSeqlock
    <2> QED
      BY <2>1, <2>2
  <1>2. CASE CheckUid(t)
    <2>1. CASE key[Bucket(t)] = uid[t]
      <3>1. /\ Goto(t, "incref") /\ pc[t] \in ReadPCs /\ pc[t] = "checkuid"
            /\ UNCHANGED <<key, payload, update_count, uid, i, raced, before, cached_function_in_use>>
        BY <1>2, <2>1 DEF CheckUid, bucketVars, ReadPCs
      <3>2. before[t] % 2 = 0 /\ before[t] <= update_count[Bucket(t)]
        BY <3>1 DEF ReaderSnapshot
      <3> QED
        BY <2>1, <3>1, <3>2, ReadOnSeqlock
    <2>2. CASE key[Bucket(t)] # uid[t]
      <3>1. /\ \E label \in {"load", "compile"} : Goto(t, label)
            /\ \A s \in Threads \ {t} : i'[s] = i[s]
            /\ UNCHANGED <<key, payload, update_count, uid, before, raced, cached_function_in_use>>
            /\ pc[t] \notin WritePCs
        BY <1>2, <2>2 DEF CheckUid, NextProbe, bucketVars, WritePCs, TypeOK
      <3> QED
        BY <3>1, MoveOnSeqlock
    <2> QED
      BY <2>1, <2>2
  <1>3. CASE IncRef(t)
    <2>1. /\ Goto(t, "validate") /\ pc[t] \in ReadPCs /\ pc[t] = "incref"
          /\ UNCHANGED <<key, payload, update_count, uid, i, raced, before, cached_function_in_use>>
      BY <1>3 DEF IncRef, ReadPCs
    <2>2. /\ before[t] % 2 = 0 /\ before[t] <= update_count[Bucket(t)]
          /\ before[t] = update_count[Bucket(t)] => key[Bucket(t)] = uid[t]
      BY <2>1 DEF ReaderSnapshot
    <2> QED
      BY <2>1, <2>2, ReadOnSeqlock
  <1>4. CASE Validate(t)
    <2> USE <1>4 DEF Validate, Goto, TypeOK, Bucket, bucketVars, OwnerPCs, WritePCs
    <2>1. WriterExclusion' /\ SeqlockParity' /\ PublishedEntryConsistent'
      BY DEF WriterExclusion, SeqlockParity, PublishedEntryConsistent
    <2>2. AdderOwnsBucket' /\ WriterProgress'
      BY DEF AdderOwnsBucket, WriterProgress
    <2>3. ReaderSnapshot'
      BY DEF ReaderSnapshot
    <2>4. HitUndisturbed'
      <3>1. CASE update_count[Bucket(t)] # before[t]
        BY <3>1 DEF HitUndisturbed
      <3>2. CASE update_count[Bucket(t)] = before[t]
        <4>1. before[t] % 2 = 0 /\ key[Bucket(t)] = uid[t]
          BY <3>2 DEF ReaderSnapshot
        <4>2. payload[Bucket(t)] = uid[t]
          BY <3>2, <4>1 DEF PublishedEntryConsistent
        <4>3. ~EnteringWriter(Bucket(t))
                => \A w \in Threads : pc[w] \in WritePCs => Bucket(w) # Bucket(t)
          BY <3>2, <4>1 DEF SeqlockParity, EnteringWriter
        <4> QED
          BY <4>1, <4>2, <4>3 DEF HitUndisturbed
      <3> QED
        BY <3>1, <3>2
    <2> QED
      BY <2>1, <2>2, <2>3, <2>4 DEF SeqlockParts
  <1>5. CASE UndoRef(t)
    <2>1. /\ \E label \in {"load", "compile"} : Goto(t, label)
          /\ \A s \in Threads \ {t} : i'[s] = i[s]
          /\ UNCHANGED <<key, payload, update_count, uid, before, raced, cached_function_in_use>>
            /\ pc[t] \notin WritePCs
      BY <1>5, RetryReadGoto DEF UndoRef, WritePCs
    <2> QED
      BY <2>1, MoveOnSeqlock
  <1> QED
    BY <1>1, <1>2, <1>3, <1>4, <1>5 DEF Get

\* The steps of add_to_hash_cache_ preserve the parts of the seqlock invariant.
LEMMA AddSeqlock ==
  ASSUME SeqlockInv, NEW t \in Threads, Add(t)
  PROVE  SeqlockParts'
  <1> USE BucketType DEF SeqlockInv
  <1>1. CASE BeginAdd(t)
    BY <1>1, MoveOnSeqlock DEF BeginAdd, bucketVars, WritePCs, TypeOK
  <1>2. CASE ClaimBucket(t)
    <2>1. CASE refcount[Bucket(t)] # 0
      BY <1>2, <2>1, MoveOnSeqlock DEF ClaimBucket, NextProbe, WritePCs, TypeOK
    <2>2. CASE refcount[Bucket(t)] = 0
      <3>1. \A s \in Threads : /\ pc[s] \in OwnerPCs \cup {"hit"} => Bucket(s) # Bucket(t)
                               /\ cached_function_in_use[s] # Bucket(t)
        BY <2>2, ClaimableIsFree
      <3> USE <1>2, <2>2, <3>1 DEF ClaimBucket, Goto, TypeOK, Bucket, OwnerPCs, WritePCs
      <3>2. WriterExclusion'
        BY DEF WriterExclusion
      <3>3. SeqlockParity' /\ PublishedEntryConsistent'
        BY DEF SeqlockParity, PublishedEntryConsistent
      <3>4. AdderOwnsBucket' /\ WriterProgress' /\ ReaderSnapshot'
        BY DEF AdderOwnsBucket, WriterProgress, ReaderSnapshot
      <3>5. HitUndisturbed'
        BY DEF HitUndisturbed
      <3> QED
        BY <3>2, <3>3, <3>4, <3>5 DEF SeqlockParts
    <2> QED
      BY <2>1, <2>2
  <1>3. CASE MakeOdd(t)
    <2>1. \A s \in Threads : pc[s] \in OwnerPCs /\ Bucket(s) = Bucket(t) => s = t
      BY <1>3 DEF MakeOdd, WriterExclusion, OwnerPCs, WritePCs
    <2>2. update_count[Bucket(t)] % 2 = 0
      <3>1. \A s \in Threads : pc[s] \in WritePCs \ {"odd"} => Bucket(s) # Bucket(t)
        BY <1>3, <2>1 DEF MakeOdd, OwnerPCs, WritePCs
      <3>2. update_count[Bucket(t)] \in Nat /\ update_count[Bucket(t)] % 2 # 1
        BY <3>1 DEF SeqlockParity, TypeOK
      <3> QED
        BY <3>2
    <2> USE <1>3 DEF MakeOdd, Goto, IncUpdateCount, TypeOK, Bucket, OwnerPCs, WritePCs
    <2>3. WriterExclusion'
      BY DEF WriterExclusion
    <2>4. update_count'[Bucket(t)] % 2 = 1
      BY <2>2, ParityFlips
    <2>5. SeqlockParity'
      BY <2>4 DEF SeqlockParity
    <2>6. PublishedEntryConsistent'
      BY <2>4 DEF PublishedEntryConsistent
    <2>7. AdderOwnsBucket' /\ WriterProgress' /\ ReaderSnapshot' /\ HitUndisturbed'
      BY DEF AdderOwnsBucket, WriterProgress, ReaderSnapshot, HitUndisturbed
    <2> QED
      BY <2>3, <2>5, <2>6, <2>7 DEF SeqlockParts
  <1>4. CASE CleanupBucket(t)
    BY <1>4 DEF CleanupBucket, Goto, TypeOK, Bucket, OwnerPCs, WritePCs, SeqlockParts,
       WriterExclusion, SeqlockParity, PublishedEntryConsistent, AdderOwnsBucket,
       WriterProgress, ReaderSnapshot, HitUndisturbed
  <1>5. CASE CopyPayload(t)
    BY <1>5 DEF CopyPayload, Goto, TypeOK, Bucket, OwnerPCs, WritePCs, SeqlockParts,
       WriterExclusion, SeqlockParity, PublishedEntryConsistent, AdderOwnsBucket,
       WriterProgress, ReaderSnapshot, HitUndisturbed
  <1>6. CASE StoreUid(t)
    BY <1>6 DEF StoreUid, Goto, TypeOK, Bucket, OwnerPCs, WritePCs, SeqlockParts,
       WriterExclusion, SeqlockParity, PublishedEntryConsistent, AdderOwnsBucket,
       WriterProgress, ReaderSnapshot, HitUndisturbed
  <1>7. CASE MakeEven(t)
    <2>1. \A s \in Threads : pc[s] \in OwnerPCs /\ Bucket(s) = Bucket(t) => s = t
      BY <1>7 DEF MakeEven, WriterExclusion, OwnerPCs, WritePCs
    <2>2. update_count[Bucket(t)] % 2 = 1
      BY <1>7 DEF MakeEven, SeqlockParity, WritePCs
    <2>3. key[Bucket(t)] = uid[t] /\ payload[Bucket(t)] = uid[t]
      BY <1>7 DEF MakeEven, WriterProgress
    <2> USE <1>7 DEF MakeEven, Goto, IncUpdateCount, TypeOK, Bucket, OwnerPCs, WritePCs
    <2>4. update_count'[Bucket(t)] % 2 = 0
      BY <2>2
    <2>5. WriterExclusion'
      BY DEF WriterExclusion
    <2>6. SeqlockParity'
      BY <2>1, <2>4 DEF SeqlockParity
    <2>7. PublishedEntryConsistent'
      BY <2>3 DEF PublishedEntryConsistent
    <2>8. AdderOwnsBucket' /\ WriterProgress'
      BY <2>3 DEF AdderOwnsBucket, WriterProgress
    <2>9. ReaderSnapshot' /\ HitUndisturbed'
      BY DEF ReaderSnapshot, HitUndisturbed
    <2> QED
      BY <2>5, <2>6, <2>7, <2>8, <2>9 DEF SeqlockParts
  <1> QED
    BY <1>1, <1>2, <1>3, <1>4, <1>5, <1>6, <1>7 DEF Add

\* Every step preserves the seqlock invariant.
LEMMA SeqlockStep ==
  ASSUME SeqlockInv, [Next]_vars
  PROVE  SeqlockInv'
  <1>1. TypeOK' /\ RefcountAccounting'
    BY TypeStep, AccountingStep DEF SeqlockInv
  <1>2. ASSUME NEW t \in Threads, Query(t) \/ Finish(t)
        PROVE  SeqlockParts'
    <2>1. /\ \E label \in {"run", "idle"} : Goto(t, label)
          /\ pc[t] \notin WritePCs /\ UNCHANGED <<key, payload, update_count>>
          /\ \A s \in Threads \ {t} : /\ uid'[s] = uid[s] /\ i'[s] = i[s]
                                      /\ before'[s] = before[s] /\ raced'[s] = raced[s]
      BY <1>2 DEF Query, CompileFails, UseAdded, UseDangling, Finish, EndCommand, CutCommand,
         Return, bucketVars, WritePCs, SeqlockInv, TypeOK
    <2>2. \A s \in Threads :
            \/ cached_function_in_use'[s] \in {cached_function_in_use[s], NoBucket}
            \/ s = t /\ pc[t] = "added" /\ cached_function_in_use'[t] = Bucket(t)
      BY <1>2 DEF Query, CompileFails, UseAdded, UseDangling, Finish, EndCommand, CutCommand,
         cleanup_command_state, SetInUse, SeqlockInv, TypeOK
    <2> QED
      BY <2>1, <2>2, MoveOnSeqlock
  <1>3. ASSUME NEW t \in Threads, NEW u \in Uids, BeginGet(t, u)
        PROVE  SeqlockParts'
    <2>1. /\ \E label \in {"load", "compile"} : Goto(t, label)
          /\ pc[t] \notin WritePCs /\ UNCHANGED <<key, payload, update_count, cached_function_in_use>>
          /\ \A s \in Threads \ {t} : /\ uid'[s] = uid[s] /\ i'[s] = i[s]
                                      /\ before'[s] = before[s] /\ raced'[s] = raced[s]
      BY <1>3 DEF BeginGet, bucketVars, WritePCs, SeqlockInv, TypeOK
    <2> QED
      BY <2>1, MoveOnSeqlock
  <1>4. ASSUME UNCHANGED <<key, payload, update_count, pc, uid, i, before, raced>>,
               \A s \in Threads :
                 cached_function_in_use'[s] \in {cached_function_in_use[s], NoBucket}
        PROVE  SeqlockParts'
    <2>1. \A s \in Threads : Bucket(s) # NoBucket
      BY BucketType, NoBucketIsNone DEF SeqlockInv
    <2>2. WriterExclusion'
      BY <1>4, <2>1 DEF SeqlockInv, WriterExclusion, Bucket
    <2>3. SeqlockParity' /\ PublishedEntryConsistent' /\ AdderOwnsBucket'
      BY <1>4 DEF SeqlockInv, SeqlockParity, PublishedEntryConsistent, AdderOwnsBucket, Bucket
    <2>4. WriterProgress' /\ ReaderSnapshot' /\ HitUndisturbed'
      BY <1>4 DEF SeqlockInv, WriterProgress, ReaderSnapshot, HitUndisturbed, Bucket
    <2> QED
      BY <2>2, <2>3, <2>4 DEF SeqlockParts
  <1>5. ASSUME NEW t \in Threads, Between(t)
        PROVE  SeqlockParts'
    <2>1. CASE ReleaseBetween(t) \/ ReplaceInterpreter(t)
      BY <2>1, <1>4 DEF ReleaseBetween, ReplaceInterpreter, cleanup_command_state, SetInUse, SeqlockInv, TypeOK
    <2> QED
      BY <1>3, <1>5, <2>1 DEF Between
  <1>6. ASSUME NEW b \in Buckets, FreeReplaced(b)
        PROVE  SeqlockParts'
    BY <1>4, <1>6 DEF FreeReplaced, threadVars
  <1>7. ASSUME UNCHANGED vars
        PROVE  SeqlockParts'
    BY <1>4, <1>7 DEF vars, bucketVars, threadVars
  <1>8. SeqlockParts'
    BY <1>2, <1>5, <1>6, <1>7, GetSeqlock, AddSeqlock DEF Next, Step, Finished
  <1> QED
    BY <1>1, <1>8 DEF SeqlockInv, SeqlockParts

\* The empty cache satisfies the seqlock invariant.
LEMMA InitSeqlock == Init => SeqlockInv
  <1> SUFFICES ASSUME Init PROVE SeqlockParts
    BY InitCounts DEF SeqlockInv, SeqlockParts
  <1> QED
    BY DEF Init, SeqlockParts, NoBytecode, OwnerPCs, WritePCs,
       WriterExclusion, SeqlockParity, PublishedEntryConsistent, AdderOwnsBucket,
       WriterProgress, ReaderSnapshot, HitUndisturbed

\* The invariant that ties the seqlock to the refcounts holds in every state.
THEOREM SeqlockInvariant == Spec => []SeqlockInv
  BY InitSeqlock, SeqlockStep, PTL DEF Spec

\* At most one thread at a time has claimed a bucket with the compare/exchange of
\* add_to_hash_cache_ and not yet released it.
THEOREM WritersExclude == Spec => []WriterExclusion
  <1>1. SeqlockInv => WriterExclusion
    BY DEF SeqlockInv
  <1> QED
    BY SeqlockInvariant, <1>1, PTL

\* A bucket with an even update_count never holds the uid of one entry and the payload
\* of another, though hash_cache.c stores them in two steps.
THEOREM PublishedEntriesAreWhole == Spec => []PublishedEntryConsistent
  <1>1. SeqlockInv => PublishedEntryConsistent
    BY DEF SeqlockInv
  <1> QED
    BY SeqlockInvariant, <1>1, PTL

\* The bytecode that get_hash_cache_entry_ returned stays in place while it is in use,
\* except when a writer had already claimed the bucket: the one race of the code.
THEOREM HitsAreStable == Spec => []UnracedHitIsStable
  <1>1. SeqlockInv => UnracedHitIsStable
    BY DEF SeqlockInv, HitUndisturbed, UnracedHitIsStable
  <1> QED
    BY SeqlockInvariant, <1>1, PTL

\* The entry a thread added stays its own until it releases it.
THEOREM AddersOwn == Spec => []AdderOwnsBucket
  <1>1. SeqlockInv => AdderOwnsBucket
    BY DEF SeqlockInv
  <1> QED
    BY SeqlockInvariant, <1>1, PTL

-----------------------------------------------------------------------------
(***************************************************************************)
(* A bucket to cache a query in.                                            *)
(***************************************************************************)

\* Whenever no thread is inside the cache code, each query finds a bucket to be cached in,
\* unless lost references (of hits, and of cut third lines) pin all the buckets that it
\* probes, or a cut third line still keeps them.
THEOREM UnpinnedCacheAccepts == Spec => []QuiescentCacheAccepts
  <1>1. SeqlockInv => QuiescentCacheAccepts
    <2> SUFFICES ASSUME SeqlockInv, \A t \in Threads : pc[t] = "idle", NEW u \in Uids \ {0},
                        NEW k \in 0 .. get_bucket_look_forward - 1,
                        leaked[ProbedBucket(u, k)] = 0, ~Kept(ProbedBucket(u, k))
                 PROVE  refcount[ProbedBucket(u, k)] = 0 /\ k \in 0 .. k
      BY DEF QuiescentCacheAccepts
    <2> DEFINE b == ProbedBucket(u, k)
    <2>1. k \in Nat /\ b \in Buckets
      BY LookForwardType, UidsAssumption, ProbedBucketType
    <2>2. Holders(b) = {} /\ Users(b) = {}
      BY DEF Holders, HoldingPCs, WritePCs, Kept
    <2>3. Cardinality(Holders(b)) = 0 /\ Cardinality(Users(b)) = 0
      BY <2>2, FS_EmptySet
    <2>4. retired[b] = 0
      BY <2>1 DEF Kept, SeqlockInv, TypeOK
    <2> QED
      BY <2>1, <2>3, <2>4 DEF SeqlockInv, RefcountAccounting
  <1> QED
    BY <1>1, SeqlockInvariant, PTL
=============================================================================
