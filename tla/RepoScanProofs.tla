--------------------------- MODULE RepoScanProofs ---------------------------
(***************************************************************************)
(* Proofs about RepoScan, for any number of threads, shards, commits,      *)
(* contents of the index and requests, any diffs and any limits.           *)
(*                                                                         *)
(* The invariant comes in two parts.  Control is about who runs: which     *)
(* scans have been scheduled, that inflight_ counts them, and that, as     *)
(* long as nothing has failed, none of them runs when the main thread has  *)
(* stopped waiting.  Right is about what is counted, and holds as long as  *)
(* nothing has failed: each counter has the number of deltas that its      *)
(* scans have gone past, or its limit has been reached.                    *)
(***************************************************************************)
EXTENDS RepoScan, FiniteSetTheorems, FunctionTheorems, SequenceTheorems, TLAPS

-----------------------------------------------------------------------------
(* The invariant: who runs.                                                *)

Working == {"staged", "candidates", "dirty", "wait", "blocked", "verify"}
Resting == {"idle", "verify", "destroy", "destroyBlocked", "destroyed"}
LiveState == {"queued", "run", "leave", "leaveThrow"}
LiveScans == {t \in Scan : st[t] \in LiveState}

Unscheduled(t) ==
  \/ t.req > req
  \/ /\ t.req = req
     /\ \/ pc = "staged" /\ (t.kind = "dirty" \/ t.shard >= next)
        \/ pc = "candidates" /\ t.kind = "dirty"
        \/ pc = "dirty" /\ t.kind = "dirty" /\ t.shard >= next
Fresh == \A t \in Scan : Unscheduled(t) => st[t] = "none" /\ todo[t] = {}

InQueue ==
  /\ \A i \in 1..Len(queue) : st[queue[i]] = "queued"
  /\ \A i, j \in 1..Len(queue) : i # j => queue[i] # queue[j]

Placed ==
  /\ pc \in Working => req >= 1 /\ index \in Version
  /\ pc = "staged" => head # NoHead
  /\ pc = "candidates" => next = 1
  /\ pc = "dirty" => built # None
  /\ built # None => built = index
  /\ head # NoHead => index \in Version

CacheChecked ==
  /\ st[Mtime] \in {"none", "queued", "run"}
  /\ st[Mtime] # "none" => untrackedCache = "unknown"
  /\ pc = "destroyed" => untrackedCache # "unknown"

TodoOfRunning ==
  \A t \in Scan : /\ todo[t] # {} => st[t] \in {"queued", "run"}
                  /\ st[t] # "none" => index \in Version

Quiet ==
  NothingFailed =>
    /\ ~error
    /\ \A t \in Scan : st[t] \notin {"leaveThrow", "catch"} /\ (st[t] # "none" => t.req = req)
    /\ pc \in Resting => inflight = 0

Control ==
  /\ TypeOK /\ InflightIsExact /\ Fresh /\ InQueue /\ Placed /\ CacheChecked
  /\ TodoOfRunning /\ Quiet

-----------------------------------------------------------------------------
(* Sets that are finite.                                                   *)

\* The assumptions that arithmetic needs, without the rest.
LEMMA Bounds ==
  /\ NumShards \in Nat \ {0} /\ MaxReq \in Nat /\ MaxFail \in Nat
  /\ NoHead \notin Oid /\ None \notin Version
BY ScanAssumption

\* There are finitely many scans.
LEMMA ScanIsFinite == IsFiniteSet(Scan)
<1>1. IsFiniteSet(1..MaxReq) /\ IsFiniteSet(Shard) /\ IsFiniteSet({"staged", "dirty"})
  <2>1. IsFiniteSet({"staged"}) /\ {"staged"} \cup {"dirty"} = {"staged", "dirty"}
    BY FS_Singleton
  <2>2. IsFiniteSet({"staged", "dirty"})
    BY <2>1, FS_AddElement
  <2>3. MaxReq \in Int /\ NumShards \in Int
    BY ScanAssumption
  <2>4. QED
    BY <2>2, <2>3, FS_Interval DEF Shard
<1>2. IsFiniteSet((1..MaxReq) \X {"staged", "dirty"})
  BY <1>1, FS_Product
<1>3. IsFiniteSet(((1..MaxReq) \X {"staged", "dirty"}) \X Shard)
  BY <1>1, <1>2, FS_Product
<1> DEFINE P == ((1..MaxReq) \X {"staged", "dirty"}) \X Shard
           f == [p \in P |-> [req |-> p[1][1], kind |-> p[1][2], shard |-> p[2]]]
<1>4. f \in [P -> Scan]
  BY DEF Scan
<1>5. \A t \in Scan : \E p \in P : f[p] = t
  <2> TAKE t \in Scan
  <2>1. <<<<t.req, t.kind>>, t.shard>> \in P
    BY DEF Scan
  <2>2. f[<<<<t.req, t.kind>>, t.shard>>] = t
    BY <2>1 DEF Scan
  <2>3. QED
    BY <2>1, <2>2
<1>6. f \in Surjection(P, Scan)
  BY <1>4, <1>5 DEF Surjection
<1>7. QED
  BY <1>3, <1>6, FS_Surjection

\* Scans that count in inflight_ are finitely many, and InflightIsExact is about their
\* number.
LEMMA LiveFinite ==
  /\ IsFiniteSet(LiveScans) /\ Cardinality(LiveScans) \in Nat
  /\ Cardinality(LiveScans) <= Cardinality(Scan) /\ Cardinality(Scan) \in Nat
  /\ InflightIsExact <=> inflight = Cardinality(LiveScans)
<1>1. LiveScans \in SUBSET Scan
  BY DEF LiveScans
<1>2. IsFiniteSet(LiveScans) /\ Cardinality(LiveScans) <= Cardinality(Scan)
  BY <1>1, ScanIsFinite, FS_Subset
<1>3. Cardinality(LiveScans) \in Nat /\ Cardinality(Scan) \in Nat
  BY <1>2, ScanIsFinite, FS_CardinalityType
<1>4. QED
  BY <1>2, <1>3 DEF InflightIsExact, LiveScans, LiveState

(* When no scan starts to be in flight or ceases to be, inflight_ stays.   *)
LEMMA LiveSame ==
  ASSUME InflightIsExact, inflight' = inflight,
         \A t \in Scan : st'[t] \in LiveState <=> st[t] \in LiveState
  PROVE  InflightIsExact'
BY DEF InflightIsExact, LiveState

\* RunAsync adds one of them.
LEMMA LiveMore ==
  ASSUME TypeOK, InflightIsExact, inflight' = inflight + 1, NEW u \in Scan, st[u] = "none",
         st' = [st EXCEPT ![u] = "queued"]
  PROVE  InflightIsExact' /\ inflight' \in 0..Cardinality(Scan)
<1>1. LiveScans' = LiveScans \cup {u} /\ u \notin LiveScans
  BY DEF LiveScans, LiveState, TypeOK, Task
<1>2. Cardinality(LiveScans \cup {u}) = Cardinality(LiveScans) + 1
  BY <1>1, LiveFinite, FS_AddElement
<1>3. LiveScans' \in SUBSET Scan
  BY DEF LiveScans
<1>4. Cardinality(LiveScans') <= Cardinality(Scan)
  BY <1>3, ScanIsFinite, FS_Subset
<1>5. inflight' = Cardinality(LiveScans')
  BY <1>1, <1>2, LiveFinite
<1>6. InflightIsExact'
  BY <1>5 DEF InflightIsExact, LiveScans, LiveState
<1>7. QED
  BY <1>1, <1>2, <1>4, <1>5, <1>6, LiveFinite

\* DecInflight removes one, so that inflight_ was not zero.
LEMMA LiveFewer ==
  ASSUME TypeOK, InflightIsExact, inflight' = inflight - 1, NEW u \in Scan, st[u] \in LiveState,
         NEW s \in TaskState \ LiveState, st' = [st EXCEPT ![u] = s]
  PROVE  InflightIsExact' /\ inflight' \in 0..Cardinality(Scan) /\ inflight >= 1
<1>1. LiveScans' = LiveScans \ {u} /\ u \in LiveScans
  BY DEF LiveScans, LiveState, TypeOK, Task
<1>2. Cardinality(LiveScans \ {u}) = Cardinality(LiveScans) - 1
  BY <1>1, LiveFinite, FS_RemoveElement
<1>3. LiveScans \ {u} \in SUBSET Scan
  BY DEF LiveScans
<1>4. Cardinality(LiveScans \ {u}) <= Cardinality(Scan) /\ Cardinality(LiveScans \ {u}) \in Nat
  BY <1>3, ScanIsFinite, FS_Subset, FS_CardinalityType
<1>5. inflight' = Cardinality(LiveScans')
  BY <1>1, <1>2, LiveFinite
<1>6. InflightIsExact'
  BY <1>5 DEF InflightIsExact, LiveScans, LiveState
<1>7. QED
  BY <1>1, <1>2, <1>4, <1>5, <1>6, LiveFinite

(* At rest, if nothing has failed, no scan is in any state but "none" and  *)
(* none has anything left to report.                                       *)
LEMMA RestIsQuiet ==
  ASSUME Control, NothingFailed, inflight = 0
  PROVE  \A t \in Scan : st[t] = "none" /\ todo[t] = {}
<1>1. LiveScans = {}
  BY LiveFinite, FS_EmptySet DEF Control
<1>2. \A t \in Scan : st[t] \notin LiveState /\ st[t] \in TaskState
                    /\ st[t] \notin {"leaveThrow", "catch"}
  BY <1>1 DEF Control, Quiet, LiveScans, TypeOK, Task
<1>3. \A t \in Scan : st[t] = "none"
  BY <1>2 DEF LiveState, TaskState
<1>4. QED
  BY <1>3 DEF Control, TodoOfRunning

\* A request can find something.
LEMMA SnapshotExists == \E s \in Snapshot : TRUE
<1>1. PICK v : v \in Version
  BY ScanAssumption
<1>2. [head |-> NoHead, index |-> v, showUntracked |-> TRUE, showDirty |-> TRUE] \in Snapshot
  BY <1>1 DEF Snapshot
<1>3. QED
  BY <1>2

\* The replies without counts.
LEMMA ReplyType == \A k \in {"none", "error", "counts"} : NoCounts(k) \in Reply
BY DEF NoCounts, Reply

\* A diff given to the pool is a set of deltas with places.
LEMMA DeltasType ==
  /\ \A h \in Oid, v \in Version, i \in Shard :
       Deltas(StagedDeltas[<<h, v, i>>]) \in SUBSET (Nat \X Status)
  /\ \A v \in Version, i \in Shard : Deltas(DirtyDeltas[<<v, i>>]) \in SUBSET (Nat \X Status)
<1>1. ASSUME NEW s \in Seq(Status) PROVE Deltas(s) \in SUBSET (Nat \X Status)
  BY LenProperties DEF Deltas
<1>2. ASSUME NEW h \in Oid, NEW v \in Version, NEW i \in Shard
      PROVE  StagedDeltas[<<h, v, i>>] \in Seq(Status)
  <2>1. StagedDeltas[<<h, v, i>>] \in Seq(HeadStatus)
    BY ScanAssumption
  <2>2. QED
    BY <2>1 DEF Status
<1>3. ASSUME NEW v \in Version, NEW i \in Shard
      PROVE  DirtyDeltas[<<v, i>>] \in Seq(Status)
  <2>1. DirtyDeltas[<<v, i>>] \in Seq(WorkStatus)
    BY ScanAssumption
  <2>2. QED
    BY <2>1 DEF Status
<1>4. QED
  BY <1>1, <1>2, <1>3

\* Whatever the options, the limits are numbers.
LEMMA LimitsType == \A s \in Snapshot : LimitsFor(s) \in [Main -> Nat]
BY ScanAssumption DEF LimitsFor, Snapshot, Main

\* Control holds at first.
LEMMA InitControl ==
  ASSUME Init
  PROVE  Control
<1>1. TypeOK
  <2>1. snap \in Snapshot
    BY SnapshotExists DEF Init
  <2>2. Cardinality(Scan) \in Nat
    BY LiveFinite
  <2>3. queue \in Seq(Task)
    <3>1. <<>> \in Seq(Task) /\ <<Mtime>> \in Seq(Task)
      BY DEF Task
    <3>2. QED
      BY <3>1 DEF Init
  <2>4. st \in [Task -> TaskState]
    BY DEF Init, TaskState
  <2>5. lim \in [Main -> Nat] /\ count \in [Counter -> Nat] /\ reply \in Reply
    BY ScanAssumption, ReplyType DEF Init
  <2>6. todo \in [Scan -> SUBSET (Nat \X Status)] /\ next \in 1..(NumShards + 1)
    BY ScanAssumption DEF Init
  <2>7. untrackedCache \in {"unknown", "true", "false"}
    BY DEF Init
  <2>8. /\ pc = "idle" /\ req \in 0..MaxReq /\ head = NoHead /\ index = None /\ built = None
        /\ error \in BOOLEAN /\ inflight \in 0..Cardinality(Scan) /\ failures \in 0..MaxFail
    <3>1. pc = "idle" /\ req = 0 /\ head = NoHead /\ index = None /\ built = None
          /\ error = FALSE /\ inflight = 0 /\ failures = 0
      BY DEF Init
    <3>2. error \in BOOLEAN
      BY <3>1, Zenon
    <3>3. req \in 0..MaxReq /\ inflight \in 0..Cardinality(Scan) /\ failures \in 0..MaxFail
      BY <2>2, <3>1, Bounds
    <3>4. QED
      BY <3>1, <3>2, <3>3
  <2>9. QED
    BY <2>1, <2>3, <2>4, <2>5, <2>6, <2>7, <2>8 DEF TypeOK
<1>2. \A t \in Scan : st[t] = "none"
  BY DEF Init, Task, Scan, Mtime
<1>3. InflightIsExact
  <2>1. LiveScans = {}
    BY <1>2 DEF LiveScans, LiveState
  <2>2. QED
    BY <2>1, LiveFinite, FS_EmptySet DEF Init
<1>4. InQueue
  <2>1. CASE queue = <<>>
    BY <2>1 DEF InQueue
  <2>2. CASE queue = <<Mtime>>
    <3>1. Len(queue) = 1 /\ queue[1] = Mtime /\ queue # <<>>
      BY <2>2
    <3>2. st[Mtime] = "queued"
      BY <3>1 DEF Init, Task
    <3>3. QED
      BY <3>1, <3>2 DEF InQueue
  <2>3. QED
    BY <2>1, <2>2 DEF Init
<1>5. CacheChecked
  BY DEF Init, CacheChecked, Task
<1>6. Fresh /\ Placed /\ TodoOfRunning /\ Quiet
  BY <1>2 DEF Init, Fresh, Placed, TodoOfRunning, Quiet, Working
<1>7. QED
  BY <1>1, <1>3, <1>4, <1>5, <1>6 DEF Control

-----------------------------------------------------------------------------
(* Control, action by action.                                              *)

pool == <<inflight, queue, st, todo>>

(* What does not touch the pool leaves this alone.                         *)
LEMMA PoolSame ==
  ASSUME Control, UNCHANGED pool, UNCHANGED untrackedCache, index' = index \/ index' \in Version,
         pc' = "destroyed" => untrackedCache # "unknown"
  PROVE  InflightIsExact' /\ InQueue' /\ CacheChecked' /\ TodoOfRunning'
<1>1. InflightIsExact'
  BY DEF Control, pool, InflightIsExact
<1>2. InQueue' /\ CacheChecked' /\ TodoOfRunning'
  BY DEF Control, pool, InQueue, CacheChecked, TodoOfRunning
<1>3. QED
  BY <1>1, <1>2

\* The counters stay numbers when some are reset.
LEMMA CountZero == ASSUME TypeOK, NEW cs PROVE Zero(cs) \in [Counter -> Nat]
BY DEF Zero, TypeOK

\* There are finitely many shards.
LEMMA ShardFinite == IsFiniteSet(Shard)
<1>1. 1 \in Int /\ NumShards \in Int
  BY Bounds
<1>2. QED
  BY <1>1, FS_Interval DEF Shard

\* Shards have finitely many flagged entries between them.
LEMMA FlagsFinite ==
  ASSUME NEW v \in Version, NEW I \in SUBSET Shard
  PROVE  IsFiniteSet(FlagsIn(v, I)) /\ Cardinality(FlagsIn(v, I)) \in Nat
<1> DEFINE f == [i \in I |-> {i} \X (1..Flagged[<<v, i>>])]
           T == {{i} \X (1..Flagged[<<v, i>>]) : i \in I}
<1>1. IsFiniteSet(I)
  <2>1. IsFiniteSet(Shard)
    BY ShardFinite
  <2>2. QED
    BY <2>1, FS_Subset
<1>2. f \in Surjection(I, T)
  BY DEF Surjection
<1>3. IsFiniteSet(T)
  <2> HIDE DEF f, T
  <2> QED
    BY <1>1, <1>2, FS_Surjection
<1>4. ASSUME NEW i \in I PROVE IsFiniteSet({i} \X (1..Flagged[<<v, i>>]))
  <2>1. Flagged[<<v, i>>] \in Nat
    BY ScanAssumption
  <2>2. IsFiniteSet(1..Flagged[<<v, i>>]) /\ IsFiniteSet({i})
    <3>1. 1 \in Int /\ Flagged[<<v, i>>] \in Int
      BY <2>1
    <3>2. QED
      BY <3>1, FS_Interval, FS_Singleton
  <2>3. QED
    BY <2>2, FS_Product
<1>5. \A X \in T : IsFiniteSet(X)
  BY <1>4
<1>6. IsFiniteSet(UNION T)
  <2> HIDE DEF T
  <2> QED
    BY <1>3, <1>5, FS_UNION
<1>7. QED
  BY <1>6, FS_CardinalityType DEF FlagsIn

\* GetIndexStats, up to the decision about the HEAD diff, keeps Control.
LEMMA GetControl ==
  ASSUME Control, NEW s \in Snapshot, GetIndexStats(s)
  PROVE  Control'
<1>1. /\ pc = "idle" /\ req \in Nat /\ req' = req + 1 /\ req' \in 0..MaxReq /\ snap' \in Snapshot
      /\ UNCHANGED pool /\ UNCHANGED untrackedCache /\ failures' = failures
  <2>1. UNCHANGED pool /\ UNCHANGED untrackedCache /\ failures' = failures
    BY DEF GetIndexStats, IndexUnreadable, pool
  <2>2. QED
    BY <2>1, Bounds DEF GetIndexStats, Control, TypeOK
<1>2. /\ pc' \in {"idle", "staged", "candidates"} /\ head' \in Oid \cup {NoHead}
      /\ pc' = "staged" => head' # NoHead
      /\ count' \in [Counter -> Nat] /\ lim' \in [Main -> Nat] /\ next' \in 1..(NumShards + 1)
      /\ pc' # "idle" => next' = 1 /\ index' = s.index
      /\ pc' = "idle" => index' = index /\ head' = head
      /\ index' \in Version \cup {None} /\ built' \in Version \cup {None}
      /\ built' # None => built' = index'
      /\ head' # NoHead => index' \in Version
      /\ error' \in BOOLEAN /\ reply' \in Reply
      /\ error' => error
  <2>1. CASE IndexUnreadable(s)
    BY <1>1, <2>1, ReplyType, ScanAssumption DEF IndexUnreadable, Fail, Control, TypeOK, Placed
  <2>2. CASE ~IndexUnreadable(s)
    <3>1. /\ SkipStaged(s) \/ ReuseStaged(s) \/ ScanStaged(s) \/ CountEntries(s)
          /\ lim' = LimitsFor(s) /\ index' = s.index
          /\ built' = IF NewIndex(s) THEN None ELSE built
          /\ error' = FALSE /\ next' = 1 /\ reply' = NoCounts("none")
      BY <2>2 DEF GetIndexStats
    <3>2. s.index \in Version /\ s.head \in Oid \cup {NoHead}
      BY DEF Snapshot
    <3>3. /\ pc' \in {"staged", "candidates"} /\ head' \in Oid \cup {NoHead}
          /\ pc' = "staged" => head' # NoHead
      BY <3>1, <3>2 DEF SkipStaged, ReuseStaged, ScanStaged, CountEntries, HeadAfterRead,
                        Control, TypeOK
    <3>4. count' \in [Counter -> Nat]
      <4>1. CASE CountEntries(s)
        <5>1. Entries[s.index] \in Nat
          BY <3>2, ScanAssumption
        <5>2. Shard \in SUBSET Shard
          OBVIOUS
        <5>3. AllFlagged(s.index) \in Nat
          BY <3>2, <5>2, FlagsFinite DEF AllFlagged
        <5>4. Zero(Counter) \in [Counter -> Nat]
          BY CountZero DEF Control
        <5>5. QED
          BY <4>1, <5>1, <5>3, <5>4 DEF CountEntries
      <4>2. QED
        BY <3>1, <4>1, CountZero DEF SkipStaged, ReuseStaged, ScanStaged, Control
    <3>5. lim' \in [Main -> Nat] /\ reply' \in Reply
      BY <3>1, LimitsType, ReplyType
    <3>6. built' \in Version \cup {None} /\ (built' # None => built' = index')
      BY <3>1 DEF NewIndex, Control, TypeOK, Placed
    <3>7. error' \in BOOLEAN /\ (error' => error)
      BY <3>1, Zenon
    <3>8. next' \in 1..(NumShards + 1)
      BY <3>1, Bounds
    <3>9. QED
      BY <3>1, <3>2, <3>3, <3>4, <3>5, <3>6, <3>7, <3>8
  <2>3. QED
    BY <2>1, <2>2
<1>3. TypeOK'
  <2>1. /\ inflight' \in 0..Cardinality(Scan) /\ queue' \in Seq(Task) /\ st' \in [Task -> TaskState]
        /\ todo' \in [Scan -> SUBSET (Nat \X Status)]
        /\ untrackedCache' \in {"unknown", "true", "false"} /\ failures' \in 0..MaxFail
    BY <1>1 DEF Control, TypeOK, pool
  <2>2. QED
    BY <1>1, <1>2, <2>1 DEF TypeOK
<1>4. Fresh'
  <2>1. \A t \in Scan : t.req > req => st[t] = "none" /\ todo[t] = {}
    BY DEF Control, Fresh, Unscheduled
  <2>2. \A t \in Scan : Unscheduled(t)' => t.req > req
    BY <1>1 DEF Unscheduled, Scan
  <2>3. QED
    BY <1>1, <2>1, <2>2 DEF Fresh, pool
<1>5. Placed'
  BY <1>1, <1>2 DEF Placed, Working, Snapshot
<1>6. Quiet'
  <2> SUFFICES ASSUME NothingFailed PROVE
           /\ ~error'
           /\ \A t \in Scan : st[t] = "none"
           /\ inflight = 0
    BY <1>1 DEF Quiet, NothingFailed, pool
  <2>1. inflight = 0 /\ ~error
    BY <1>1 DEF Control, Quiet, Resting
  <2>2. QED
    BY <1>2, <2>1, RestIsQuiet
<1>7. /\ index' = index \/ index' \in Version
      /\ pc' = "destroyed" => untrackedCache # "unknown"
  BY <1>2 DEF Snapshot
<1>8. InflightIsExact' /\ InQueue' /\ CacheChecked' /\ TodoOfRunning'
  BY <1>1, <1>7, PoolSame
<1>9. QED
  BY <1>3, <1>4, <1>5, <1>6, <1>8 DEF Control

(* A scan is scheduled.                                                    *)
LEMMA Scheduled ==
  ASSUME Control, NEW u \in Scan, Unscheduled(u), NEW D \in SUBSET (Nat \X Status), RunAsync(u, D),
         UNCHANGED <<untrackedCache, index>>, index \in Version, pc' # "destroyed"
  PROVE  /\ InflightIsExact' /\ InQueue' /\ CacheChecked' /\ TodoOfRunning'
         /\ inflight' \in 0..Cardinality(Scan) /\ queue' \in Seq(Task)
         /\ st' \in [Task -> TaskState] /\ todo' \in [Scan -> SUBSET (Nat \X Status)]
         /\ st'[u] = "queued" /\ todo'[u] = D
         /\ \A t \in Task \ {u} : st'[t] = st[t]
         /\ \A t \in Scan \ {u} : todo'[t] = todo[t]
<1>1. /\ TypeOK /\ st[u] = "none" /\ u \in Task /\ u # Mtime
      /\ queue \in Seq(Task) /\ st \in [Task -> TaskState]
      /\ todo \in [Scan -> SUBSET (Nat \X Status)]
  BY DEF Control, Fresh, TypeOK, Task, Scan, Mtime
<1>2. /\ inflight' = inflight + 1 /\ queue' = Append(queue, u)
      /\ st' = [st EXCEPT ![u] = "queued"] /\ todo' = [todo EXCEPT ![u] = D]
  BY DEF RunAsync
<1>3. InflightIsExact' /\ inflight' \in 0..Cardinality(Scan)
  BY <1>1, <1>2, LiveMore DEF Control
<1>4. /\ queue' \in Seq(Task) /\ st' \in [Task -> TaskState]
      /\ todo' \in [Scan -> SUBSET (Nat \X Status)]
  <2>1. queue' \in Seq(Task)
    BY <1>1, <1>2, AppendProperties
  <2>2. QED
    BY <1>1, <1>2, <2>1 DEF TaskState
<1>5. /\ st'[u] = "queued" /\ todo'[u] = D
      /\ \A t \in Task \ {u} : st'[t] = st[t]
      /\ \A t \in Scan \ {u} : todo'[t] = todo[t]
  BY <1>1, <1>2
<1>6. InQueue'
  <2>1. /\ Len(queue') = Len(queue) + 1 /\ Len(queue) \in Nat
        /\ \A x \in 1..Len(queue) : queue'[x] = queue[x]
        /\ queue'[Len(queue) + 1] = u
    BY <1>1, <1>2, AppendProperties, LenProperties
  <2>2. \A x \in 1..Len(queue) : queue[x] \in Task /\ queue[x] # u /\ st[queue[x]] = "queued"
    <3>1. \A x \in 1..Len(queue) : queue[x] \in Task
      BY <1>1, ElementOfSeq
    <3>2. QED
      BY <1>1, <3>1 DEF Control, InQueue
  <2>3. \A x \in 1..Len(queue') : x \in 1..Len(queue) \/ x = Len(queue) + 1
    BY <2>1
  <2>4. \A x \in 1..Len(queue') : st'[queue'[x]] = "queued"
    BY <1>5, <2>1, <2>2, <2>3
  <2>5. \A x, y \in 1..Len(queue') : x # y => queue'[x] # queue'[y]
    BY <2>1, <2>2, <2>3 DEF Control, InQueue
  <2>6. QED
    BY <2>4, <2>5 DEF InQueue
<1>7. CacheChecked'
  BY <1>1, <1>5 DEF Control, CacheChecked, Task
<1>8. TodoOfRunning'
  BY <1>5 DEF Control, TodoOfRunning, Task
<1>9. QED
  BY <1>3, <1>4, <1>5, <1>6, <1>7, <1>8

\* The scan of the present request on a shard is a scan.
LEMMA ThisScanType ==
  ASSUME TypeOK, pc \in Working, Placed, NEW k \in {"staged", "dirty"}, NEW i \in Shard
  PROVE  /\ ThisScan(k, i) \in Scan /\ ThisScan(k, i).req = req
         /\ ThisScan(k, i).kind = k /\ ThisScan(k, i).shard = i
BY DEF TypeOK, Placed, Scan, ThisScan

\* Scheduling a staged scan keeps Control.
LEMMA StagedScanControl ==
  ASSUME Control, StartStagedScan
  PROVE  Control'
<1>1. /\ TypeOK /\ pc = "staged" /\ next \in Shard /\ head \in Oid /\ index \in Version /\ pc \in Working
  BY DEF Control, StartStagedScan, TypeOK, Placed, Working
<1>2. PICK u \in Scan : u = ThisScan("staged", next) /\ u.req = req /\ u.kind = "staged"
                        /\ u.shard = next
  BY <1>1, ThisScanType DEF Control
<1>3. PICK D \in SUBSET (Nat \X Status) : D = Deltas(StagedDeltas[<<head, index, next>>])
  BY <1>1, DeltasType
<1>4. Unscheduled(u) /\ RunAsync(u, D)
  BY <1>1, <1>2, <1>3 DEF StartStagedScan, Unscheduled, Shard
<1>5. /\ pc' = (IF next = NumShards THEN "candidates" ELSE "staged")
      /\ next' = (IF next = NumShards THEN 1 ELSE next + 1)
      /\ UNCHANGED <<req, snap, head, index, built, lim, count, error, reply, untrackedCache, failures>>
  BY <1>1 DEF StartStagedScan
<1>6. /\ InflightIsExact' /\ InQueue' /\ CacheChecked' /\ TodoOfRunning'
      /\ inflight' \in 0..Cardinality(Scan) /\ queue' \in Seq(Task)
      /\ st' \in [Task -> TaskState] /\ todo' \in [Scan -> SUBSET (Nat \X Status)]
      /\ st'[u] = "queued" /\ todo'[u] = D
      /\ \A t \in Task \ {u} : st'[t] = st[t]
      /\ \A t \in Scan \ {u} : todo'[t] = todo[t]
  BY <1>1, <1>4, <1>5, Scheduled
<1>7. next \in Nat /\ NumShards \in Nat /\ next \in 1..NumShards /\ next' \in 1..(NumShards + 1)
  BY <1>1, <1>5, Bounds DEF Shard
<1>8. TypeOK'
  BY <1>1, <1>5, <1>6, <1>7 DEF TypeOK
<1>9. Fresh'
  <2> SUFFICES ASSUME NEW t \in Scan, Unscheduled(t)' PROVE t # u /\ Unscheduled(t)
    BY <1>6 DEF Control, Fresh, Task
  <2>1. t.shard \in Nat /\ t.req \in Nat /\ req \in Nat
    BY <1>1 DEF Scan, Shard, TypeOK
  <2>2. QED
    BY <1>1, <1>2, <1>5, <1>7, <2>1 DEF Unscheduled
<1>10. Placed'
  BY <1>1, <1>5 DEF Control, Placed, Working
<1>11. Quiet'
  BY <1>1, <1>2, <1>5, <1>6 DEF Control, Quiet, Resting, NothingFailed, Task
<1>12. QED
  BY <1>6, <1>8, <1>9, <1>10, <1>11 DEF Control

\* Scheduling a dirty scan, or passing over a shard without candidates, keeps it.
LEMMA DirtyScanControl ==
  ASSUME Control, StartDirtyScan
  PROVE  Control'
<1>1. TypeOK /\ pc = "dirty" /\ index \in Version /\ built = index /\ pc \in Working
  BY DEF Control, StartDirtyScan, TypeOK, Placed, Working
<1>2. /\ pc' = (IF next >= NumShards THEN "wait" ELSE "dirty")
      /\ next' = (IF next >= NumShards THEN 1 ELSE next + 1)
      /\ UNCHANGED <<req, snap, head, index, built, lim, count, error, reply, untrackedCache, failures>>
  BY <1>1 DEF StartDirtyScan
<1>3. next \in Nat /\ NumShards \in Nat /\ next \in 1..(NumShards + 1) /\ next' \in 1..(NumShards + 1)
  BY <1>1, <1>2, Bounds DEF TypeOK
<1>4. Placed'
  BY <1>1, <1>2 DEF Control, Placed, Working
<1>5. CASE next \in Shard /\ Reported(next) # {}
  <2>1. PICK u \in Scan : u = ThisScan("dirty", next) /\ u.req = req /\ u.kind = "dirty"
                          /\ u.shard = next
    BY <1>1, <1>5, ThisScanType DEF Control
  <2>2. PICK D \in SUBSET (Nat \X Status) : D = Reported(next)
    <3>1. Deltas(DirtyDeltas[<<built, next>>]) \in SUBSET (Nat \X Status)
      BY <1>1, <1>5, DeltasType
    <3>2. QED
      BY <3>1 DEF Reported
  <2>3. Unscheduled(u) /\ RunAsync(u, D)
    BY <1>1, <1>3, <1>5, <2>1, <2>2 DEF StartDirtyScan, Unscheduled, Shard
  <2>4. /\ InflightIsExact' /\ InQueue' /\ CacheChecked' /\ TodoOfRunning'
        /\ inflight' \in 0..Cardinality(Scan) /\ queue' \in Seq(Task)
        /\ st' \in [Task -> TaskState] /\ todo' \in [Scan -> SUBSET (Nat \X Status)]
        /\ st'[u] = "queued" /\ todo'[u] = D
        /\ \A t \in Task \ {u} : st'[t] = st[t]
        /\ \A t \in Scan \ {u} : todo'[t] = todo[t]
    BY <1>1, <1>2, <2>3, Scheduled
  <2>5. TypeOK'
    BY <1>1, <1>2, <1>3, <2>4 DEF TypeOK
  <2>6. Fresh'
    <3> SUFFICES ASSUME NEW t \in Scan, Unscheduled(t)' PROVE t # u /\ Unscheduled(t)
      BY <2>4 DEF Control, Fresh, Task
    <3>1. t.shard \in Nat /\ t.req \in Nat /\ req \in Nat
      BY <1>1 DEF Scan, Shard, TypeOK
    <3>2. QED
      BY <1>1, <1>2, <1>3, <2>1, <3>1 DEF Unscheduled
  <2>7. Quiet'
    BY <1>1, <1>2, <2>1, <2>4 DEF Control, Quiet, Resting, NothingFailed, Task
  <2>8. QED
    BY <1>4, <2>4, <2>5, <2>6, <2>7 DEF Control
<1>6. CASE ~(next \in Shard /\ Reported(next) # {})
  <2>1. UNCHANGED pool
    BY <1>6 DEF StartDirtyScan, pool
  <2>2. InflightIsExact' /\ InQueue' /\ CacheChecked' /\ TodoOfRunning'
    BY <1>1, <1>2, <2>1, PoolSame
  <2>3. TypeOK'
    BY <1>1, <1>2, <1>3, <2>1 DEF TypeOK, pool
  <2>4. Fresh'
    <3> SUFFICES ASSUME NEW t \in Scan, Unscheduled(t)' PROVE Unscheduled(t)
      BY <2>1 DEF Control, Fresh, pool
    <3>1. t.shard \in Nat /\ t.req \in Nat /\ req \in Nat
      BY <1>1 DEF Scan, Shard, TypeOK
    <3>2. QED
      BY <1>1, <1>2, <1>3, <3>1 DEF Unscheduled
  <2>5. Quiet'
    BY <1>1, <1>2, <2>1 DEF Control, Quiet, Resting, NothingFailed, pool
  <2>6. QED
    BY <1>4, <2>2, <2>3, <2>4, <2>5 DEF Control
<1>7. QED
  BY <1>5, <1>6

(* The steps of the main thread that do not touch the pool.                *)
LEMMA MainControl ==
  ASSUME Control, UNCHANGED pool, UNCHANGED <<req, snap, next, head, index, count, error>>,
         UNCHANGED untrackedCache,
         lim' \in [Main -> Nat], reply' \in Reply, failures' \in 0..MaxFail,
         pc' \in {"idle", "dirty", "wait", "blocked", "verify", "destroy", "destroyBlocked", "destroyed"},
         pc' = "dirty" => pc = "candidates",
         pc' \in Working => pc \in Working,
         built' = built \/ (pc \in Working /\ built' = index),
         pc' = "dirty" => built' # None,
         pc' = "destroyed" => untrackedCache # "unknown",
         failures' = 0 /\ pc' \in Resting => inflight = 0,
         failures' = 0 => failures = 0
  PROVE  Control'
<1>1. TypeOK'
  <2>1. pc \in Working => index \in Version
    BY DEF Control, Placed
  <2>2. built' \in Version \cup {None}
    BY <2>1 DEF Control, TypeOK
  <2>3. QED
    BY <2>2 DEF Control, TypeOK, pool
<1>2. Fresh'
  BY DEF Control, Fresh, Unscheduled, pool
<1>3. Placed'
  BY DEF Control, Placed, Working
<1>4. Quiet'
  BY DEF Control, Quiet, NothingFailed, pool
<1>5. QED
  BY <1>1, <1>2, <1>3, <1>4, PoolSame DEF Control

\* So does every step of the main thread that schedules nothing.
LEMMA NothingControl ==
  ASSUME Control, \/ LookupFails \/ GetDirtyCandidates \/ Wait \/ Verify \/ Destroy \/ Destructor
  PROVE  Control'
<1>0. /\ lim \in [Main -> Nat] /\ Limit \in [Main -> Nat] /\ reply \in Reply /\ count \in [Counter -> Nat]
      /\ failures \in 0..MaxFail /\ MaxFail \in Nat /\ inflight \in Nat
      /\ NoCounts("error") \in Reply
  <2>1. Cardinality(Scan) \in Nat
    BY LiveFinite
  <2>2. QED
    BY <2>1, ScanAssumption, ReplyType DEF Control, TypeOK
<1>1. \A what : MayFail(what) => failures' \in 0..MaxFail /\ failures' # 0
  BY <1>0 DEF MayFail
<1>2. CASE LookupFails
  <2>1. failures' \in 0..MaxFail /\ failures' # 0
    BY <1>1, <1>2 DEF LookupFails
  <2>2. pc' = "idle" /\ lim' = Limit /\ reply' = NoCounts("error") /\ built' = built
        /\ UNCHANGED pool /\ UNCHANGED <<req, snap, next, head, index, count, error>>
        /\ UNCHANGED untrackedCache
    BY <1>2 DEF LookupFails, Fail, pool
  <2>3. pc' \notin Working
    BY <2>2 DEF Working
  <2>4. QED
    BY <1>0, <2>1, <2>2, <2>3, MainControl
<1>8. CASE GetDirtyCandidates
  <2>1. /\ failures' \in 0..MaxFail
        /\ (failures' = failures /\ pc' \in {"wait", "dirty"}) \/ (failures' # 0 /\ pc' = "idle")
    <3>1. \/ failures' = failures /\ pc' \in {"wait", "dirty"}
          \/ MayFail("candidates") /\ pc' = "idle"
      BY <1>8 DEF GetDirtyCandidates, Fail
    <3>2. QED
      BY <1>0, <1>1, <3>1
  <2>2. pc \in Working /\ index \in Version /\ index # None
    BY <1>8, Bounds DEF GetDirtyCandidates, Working, Control, Placed
  <2>3. lim' \in [Main -> Nat] /\ reply' \in Reply /\ pc' \in {"idle", "dirty", "wait"}
    BY <1>0, <1>8 DEF GetDirtyCandidates, Fail
  <2>4. built' = built \/ built' = index
    BY <1>8 DEF GetDirtyCandidates
  <2>5. pc' = "dirty" => built' # None
    BY <1>8, <2>2 DEF GetDirtyCandidates, Fail
  <2>6. failures' # 0 \/ pc' \notin Resting
    BY <2>1 DEF Resting
  <2>7. UNCHANGED pool /\ UNCHANGED <<req, snap, next, head, index, count, error>>
        /\ UNCHANGED untrackedCache /\ pc = "candidates"
    BY <1>8 DEF GetDirtyCandidates, pool
  <2>8. QED
    BY <2>1, <2>2, <2>3, <2>4, <2>5, <2>6, <2>7, MainControl
<1>3. CASE Wait
  BY <1>0, <1>3, MainControl DEF Wait, pool, Working, Resting
<1>4. CASE Verify
  <2>1. Result \in [Counter -> Nat]
    <3>1. \A m \in Main : AtMost(count[m], lim[m]) \in Nat
      BY <1>0 DEF AtMost, Counter, StagedSide, DirtySide, Main
    <3>2. \A c \in Counter, m \in Main : AtMost(count[c], AtMost(count[m], lim[m])) \in Nat
      BY <1>0, <3>1 DEF AtMost
    <3>3. QED
      BY <1>0, <3>1, <3>2 DEF Result, Main
  <2>2. reply' \in Reply
    BY <1>0, <1>4, <2>1 DEF Verify, Reply
  <2>3. NothingFailed => inflight = 0
    BY <1>4 DEF Verify, Control, Quiet, Resting
  <2>4. QED
    BY <1>0, <1>4, <2>2, <2>3, MainControl DEF Verify, pool, NothingFailed, Working
<1>5. CASE Destroy
  BY <1>0, <1>5, MainControl DEF Destroy, pool, Working, Resting, NothingFailed, Control, Quiet
<1>6. CASE Destructor
  BY <1>0, <1>6, MainControl DEF Destructor, pool, Working, Resting, NothingFailed, Control, Quiet
<1>7. QED
  BY <1>2, <1>8, <1>3, <1>4, <1>5, <1>6

Places == {"idle", "staged", "candidates", "dirty", "wait", "blocked", "verify",
           "destroy", "destroyBlocked", "destroyed"}

(* What a function on the pool does to the main thread.                    *)
LEMMA MainNotified ==
  ASSUME Control, pc' = pc \/ pc' = Notified(pc),
         UNCHANGED <<req, next, head, index, built>>
  PROVE  /\ Placed' /\ pc' \in Places
         /\ \A t \in Scan : Unscheduled(t)' <=> Unscheduled(t)
         /\ pc' \in Resting <=> pc \in Resting
         /\ pc' \in Working <=> pc \in Working
         /\ pc' = "destroyed" <=> pc = "destroyed"
         /\ pc \in {"staged", "candidates", "dirty"} \/ pc' \in {"staged", "candidates", "dirty"}
              => pc' = pc
<1>1. pc \in Places
  BY DEF Control, TypeOK, Places
<1>2. pc' = (CASE pc = "blocked" -> "wait" [] pc = "destroyBlocked" -> "destroy" [] OTHER -> pc)
      \/ pc' = pc
  BY DEF Notified
<1>3. \/ pc' = pc
      \/ pc = "blocked" /\ pc' = "wait"
      \/ pc = "destroyBlocked" /\ pc' = "destroy"
  BY <1>1, <1>2
<1>4. QED
  BY <1>1, <1>3 DEF Control, Placed, Places, Unscheduled, Resting, Working

\* A pool thread takes a function from the queue.
LEMMA StartControl ==
  ASSUME Control, StartTask
  PROVE  Control'
<1>1. /\ TypeOK /\ queue # <<>> /\ queue \in Seq(Task)
      /\ UNCHANGED <<pc, req, snap, next, head, index, built, lim, error, inflight, todo, reply,
                     untrackedCache, failures>>
  BY DEF Control, StartTask, TypeOK
<1>2. PICK u \in Task : u = Head(queue)
  BY <1>1, HeadTailProperties
<1>3. /\ st' = [st EXCEPT ![u] = "run"] /\ queue' = Tail(queue)
      /\ count' = IF u.kind # "staged" THEN count
                  ELSE [count EXCEPT !["skip_worktree"] = @ + Flagged[<<index, u.shard>>]]
  BY <1>2 DEF StartTask
<1>4. /\ Len(queue) \in Nat /\ Len(queue) >= 1 /\ Len(queue') = Len(queue) - 1
      /\ queue[1] = u /\ queue' \in Seq(Task)
      /\ \A x \in 1..(Len(queue) - 1) : queue'[x] = queue[x + 1]
  BY <1>1, <1>2, <1>3, HeadTailProperties, LenProperties, EmptySeq
<1>5. st[u] = "queued"
  BY <1>4 DEF Control, InQueue
<1>6. /\ st' \in [Task -> TaskState] /\ st'[u] = "run"
      /\ \A t \in Task \ {u} : st'[t] = st[t]
  BY <1>1, <1>3 DEF TypeOK, TaskState
<1>7. count' \in [Counter -> Nat]
  <2>1. CASE u.kind = "staged"
    <3>1. u \in Scan
      BY <2>1 DEF Task, Mtime
    <3>2. index \in Version /\ u.shard \in Shard
      <4>1. st[u] # "none"
        BY <1>5
      <4>2. index \in Version
        BY <3>1, <4>1 DEF Control, TodoOfRunning
      <4>3. QED
        BY <3>1, <4>2 DEF Scan
    <3>3. Flagged[<<index, u.shard>>] \in Nat
      BY <3>2, ScanAssumption
    <3>4. count["skip_worktree"] \in Nat /\ count \in [Counter -> Nat]
      BY <1>1 DEF TypeOK, Counter, StagedSide
    <3>5. count["skip_worktree"] + Flagged[<<index, u.shard>>] \in Nat
      BY <3>3, <3>4
    <3>6. count' = [count EXCEPT !["skip_worktree"] = count["skip_worktree"] + Flagged[<<index, u.shard>>]]
      BY <1>3, <2>1
    <3>7. QED
      BY <3>4, <3>5, <3>6
  <2>2. CASE u.kind # "staged"
    BY <1>1, <1>3, <2>2 DEF TypeOK
  <2>3. QED
    BY <2>1, <2>2
<1>8. TypeOK'
  BY <1>1, <1>4, <1>6, <1>7 DEF TypeOK
<1>9. InflightIsExact'
  BY <1>1, <1>5, <1>6, LiveSame DEF Control, LiveState, Task
<1>10. InQueue'
  <2>1. \A x \in 1..Len(queue') : x \in 1..(Len(queue) - 1) /\ x + 1 \in 1..Len(queue)
    BY <1>4
  <2>2. \A x \in 1..Len(queue') : queue'[x] = queue[x + 1] /\ queue[x + 1] # u
                                  /\ queue[x + 1] \in Task /\ st[queue[x + 1]] = "queued"
    <3>1. \A x \in 1..Len(queue) : queue[x] \in Task
      BY <1>1, ElementOfSeq
    <3>2. \A x \in 1..Len(queue') : x + 1 # 1 /\ 1 \in 1..Len(queue)
      BY <1>4
    <3>3. QED
      BY <1>4, <2>1, <3>1, <3>2 DEF Control, InQueue
  <2>3. \A x \in 1..Len(queue') : st'[queue'[x]] = "queued"
    BY <1>6, <2>2
  <2>4. \A x, y \in 1..Len(queue') : x # y => x + 1 # y + 1
    BY <1>4
  <2>5. \A x, y \in 1..Len(queue') : x # y => queue'[x] # queue'[y]
    BY <2>1, <2>2, <2>4 DEF Control, InQueue
  <2>6. QED
    BY <2>3, <2>5 DEF InQueue
<1>11. CacheChecked'
  BY <1>1, <1>5, <1>6 DEF Control, CacheChecked, Task
<1>12. Fresh' /\ TodoOfRunning' /\ Quiet' /\ Placed'
  <2>1. Placed' /\ \A t \in Scan : Unscheduled(t)' <=> Unscheduled(t)
    BY <1>1, MainNotified
  <2>2. Fresh'
    BY <1>1, <1>5, <1>6, <2>1 DEF Control, Fresh, Task
  <2>3. TodoOfRunning'
    BY <1>1, <1>5, <1>6 DEF Control, TodoOfRunning, Task
  <2>4. Quiet'
    BY <1>1, <1>5, <1>6 DEF Control, Quiet, NothingFailed, Task
  <2>5. QED
    BY <2>1, <2>2, <2>3, <2>4
<1>13. QED
  BY <1>8, <1>9, <1>10, <1>11, <1>12 DEF Control

\* The check of the untracked cache ends.
LEMMA MtimeControl ==
  ASSUME Control, MtimeChecked
  PROVE  Control'
<1>1. /\ TypeOK /\ st[Mtime] = "run" /\ st' = [st EXCEPT ![Mtime] = "none"] /\ pc' = Notified(pc)
      /\ untrackedCache' \in {"true", "false"} /\ Mtime \in Task /\ Mtime \notin Scan
      /\ UNCHANGED <<req, snap, next, head, index, built, lim, count, error, inflight, queue, todo,
                     reply, failures>>
  BY DEF Control, MtimeChecked, Task, Scan, Mtime
<1>2. /\ Placed' /\ pc' \in Places
      /\ \A t \in Scan : Unscheduled(t)' <=> Unscheduled(t)
      /\ pc' \in Resting <=> pc \in Resting
  BY <1>1, MainNotified
<1>3. /\ st' \in [Task -> TaskState] /\ st'[Mtime] = "none"
      /\ \A t \in Scan : st'[t] = st[t]
  BY <1>1 DEF TypeOK, TaskState, Task
<1>4. TypeOK'
  BY <1>1, <1>2, <1>3 DEF TypeOK, Places
<1>5. InflightIsExact'
  BY <1>1, <1>3, LiveSame DEF Control
<1>6. InQueue'
  <2>1. \A x \in 1..Len(queue) : queue[x] # Mtime /\ queue[x] \in Task
    <3>1. \A x \in 1..Len(queue) : queue[x] \in Task
      BY <1>1, ElementOfSeq DEF TypeOK
    <3>2. QED
      BY <1>1, <3>1 DEF Control, InQueue
  <2>2. QED
    BY <1>1, <1>3, <2>1 DEF Control, InQueue, Task
<1>7. CacheChecked'
  BY <1>1, <1>3 DEF CacheChecked
<1>8. Fresh' /\ TodoOfRunning' /\ Quiet'
  BY <1>1, <1>2, <1>3 DEF Control, Fresh, TodoOfRunning, Quiet, NothingFailed
<1>9. QED
  BY <1>2, <1>4, <1>5, <1>6, <1>7, <1>8 DEF Control

(* A step of a scan that runs: its state and what it has still to report   *)
(* may change, and the main thread may be woken.                           *)
LEMMA ScanControl ==
  ASSUME Control, NEW u \in Scan, NEW s \in TaskState \ {"queued"}, NEW T \in SUBSET (Nat \X Status),
         st[u] \notin {"none", "queued"}, st' = [st EXCEPT ![u] = s], todo' = [todo EXCEPT ![u] = T],
         T # {} => s = "run",
         pc' = pc \/ pc' = Notified(pc),
         UNCHANGED <<req, snap, next, head, index, built, lim, queue, reply, untrackedCache>>,
         count' \in [Counter -> Nat], error' \in BOOLEAN, failures' \in 0..MaxFail,
         inflight' \in 0..Cardinality(Scan), InflightIsExact',
         failures' = 0 => /\ failures = 0 /\ s \notin {"leaveThrow", "catch"} /\ ~error'
                          /\ inflight' <= inflight
  PROVE  Control'
<1>1. /\ TypeOK /\ u \in Task /\ u # Mtime
      /\ Placed' /\ pc' \in Places
      /\ \A t \in Scan : Unscheduled(t)' <=> Unscheduled(t)
      /\ pc' \in Resting <=> pc \in Resting
      /\ pc' = "destroyed" <=> pc = "destroyed"
  BY MainNotified DEF Control, Task, Scan, Mtime
<1>2. /\ st' \in [Task -> TaskState] /\ st'[u] = s
      /\ \A t \in Task \ {u} : st'[t] = st[t]
      /\ todo' \in [Scan -> SUBSET (Nat \X Status)] /\ todo'[u] = T
      /\ \A t \in Scan \ {u} : todo'[t] = todo[t]
  BY <1>1 DEF TypeOK
<1>3. TypeOK'
  BY <1>1, <1>2 DEF TypeOK, Places
<1>4. InQueue'
  <2>1. \A x \in 1..Len(queue) : queue[x] # u /\ queue[x] \in Task
    <3>1. \A x \in 1..Len(queue) : queue[x] \in Task
      BY <1>1, ElementOfSeq DEF TypeOK
    <3>2. QED
      BY <1>1, <3>1 DEF Control, InQueue
  <2>2. QED
    BY <1>2, <2>1 DEF Control, InQueue
<1>5. CacheChecked'
  BY <1>1, <1>2 DEF Control, CacheChecked, Task
<1>6. Fresh'
  BY <1>1, <1>2 DEF Control, Fresh, Task
<1>7. TodoOfRunning'
  BY <1>1, <1>2 DEF Control, TodoOfRunning, Task
<1>8. Quiet'
  <2> SUFFICES ASSUME failures' = 0 PROVE
         /\ ~error'
         /\ \A t \in Scan : /\ st'[t] \notin {"leaveThrow", "catch"}
                            /\ st'[t] # "none" => t.req = req'
         /\ pc' \in Resting => inflight' = 0
    BY DEF Quiet, NothingFailed
  <2>1. NothingFailed /\ inflight' \in Nat /\ inflight \in Nat /\ inflight' <= inflight
    <3>1. Cardinality(Scan) \in Nat
      BY LiveFinite
    <3>2. QED
      BY <1>1, <1>3, <3>1 DEF NothingFailed, TypeOK
  <2>2. \A t \in Scan : /\ st'[t] \notin {"leaveThrow", "catch"}
                        /\ st'[t] # "none" => t.req = req'
    BY <1>1, <1>2, <2>1 DEF Control, Quiet, Task
  <2>3. pc' \in Resting => inflight' = 0
    BY <1>1, <2>1 DEF Control, Quiet
  <2>4. QED
    BY <2>2, <2>3
<1>9. QED
  BY <1>1, <1>3, <1>4, <1>5, <1>6, <1>7, <1>8 DEF Control

(* A delta is counted with what it is and with what it is a part of.       *)
LEMMA IncrementsType ==
  ASSUME TypeOK, NEW d
  PROVE  /\ Increments(d) \in [Counter -> Nat]
         /\ \A c \in Counter : Increments(d)[c] = IF c \in CountedIn(d) THEN count[c] + 1 ELSE count[c]
BY DEF Increments, TypeOK

\* A diff that goes on reports nothing that it would not have reported.
LEMMA OnDeltaLess ==
  ASSUME NEW d, NEW n, NEW T
  PROVE  OnDelta(d, n, T) \subseteq T
BY DEF OnDelta

\* A diff reports a delta.
LEMMA DeltaControl ==
  ASSUME Control, NEW u \in Scan, Delta(u)
  PROVE  Control'
<1>1. /\ TypeOK /\ st[u] = "run" /\ count \in [Counter -> Nat] /\ error \in BOOLEAN
      /\ todo[u] \in SUBSET (Nat \X Status) /\ st \in [Task -> TaskState] /\ u \in Task
      /\ UNCHANGED <<pc, req, snap, next, head, index, built, lim, error, inflight, queue, st, reply,
                     untrackedCache, failures>>
      /\ inflight \in 0..Cardinality(Scan) /\ failures \in 0..MaxFail
  BY DEF Control, Delta, TypeOK, Task
<1>2. /\ count' \in [Counter -> Nat]
      /\ \E T \in SUBSET (Nat \X Status) : todo' = [todo EXCEPT ![u] = T]
  <2>1. PICK x \in todo[u] :
          IF error
          THEN todo' = [todo EXCEPT ![u] = {}] /\ UNCHANGED count
          ELSE /\ count' = Increments(x[2])
               /\ todo' = [todo EXCEPT ![u] = OnDelta(x[2], count', todo[u] \ {x})]
    BY DEF Delta, NextDelta
  <2>2. CASE error
    BY <1>1, <2>1, <2>2
  <2>3. CASE ~error
    <3>1. PICK T : T = OnDelta(x[2], count', todo[u] \ {x})
      OBVIOUS
    <3>2. T \subseteq todo[u] \ {x}
      BY <3>1, OnDeltaLess, Zenon
    <3>3. count' \in [Counter -> Nat]
      BY <1>1, <2>1, <2>3, IncrementsType
    <3>4. todo' = [todo EXCEPT ![u] = T]
      BY <2>1, <2>3, <3>1
    <3>5. T \in SUBSET (Nat \X Status)
      BY <1>1, <3>2
    <3>6. QED
      BY <3>3, <3>4, <3>5
  <2>4. QED
    BY <2>2, <2>3
<1>3. PICK T \in SUBSET (Nat \X Status) : todo' = [todo EXCEPT ![u] = T]
  BY <1>2
<1>4. st' = [st EXCEPT ![u] = "run"] /\ "run" \in TaskState \ {"queued"}
  BY <1>1 DEF TaskState
<1>5. InflightIsExact'
  BY <1>1, LiveSame DEF Control
<1>6. failures' = 0 => failures = 0 /\ ~error' /\ inflight' <= inflight
  <2>1. inflight <= inflight
    <3>1. Cardinality(Scan) \in Nat
      BY LiveFinite
    <3>2. QED
      BY <1>1, <3>1
  <2>2. QED
    BY <1>1, <2>1 DEF Control, Quiet, NothingFailed
<1>7. QED
  BY <1>1, <1>2, <1>3, <1>4, <1>5, <1>6, ScanControl

\* A diff ends, fails, is counted down, and its failure is recorded.
LEMMA ScanEndsControl ==
  ASSUME Control, NEW u \in Scan, DiffEnds(u) \/ DiffFails(u) \/ DecInflight(u) \/ RecordError(u)
  PROVE  Control'
<1>1. /\ TypeOK /\ u \in Task /\ count \in [Counter -> Nat] /\ error \in BOOLEAN
      /\ todo \in [Scan -> SUBSET (Nat \X Status)] /\ st \in [Task -> TaskState]
      /\ inflight \in 0..Cardinality(Scan) /\ failures \in 0..MaxFail /\ inflight \in Nat
  <2>1. Cardinality(Scan) \in Nat
    BY LiveFinite
  <2>2. QED
    BY <2>1 DEF Control, TypeOK, Task
<1>2. NothingFailed => ~error
  BY DEF Control, Quiet
<1>3. {} \in SUBSET (Nat \X Status) /\ {"none", "leave", "leaveThrow", "catch"} \subseteq TaskState
  BY DEF TaskState
<1>4. todo[u] = {} => todo = [todo EXCEPT ![u] = {}]
  BY <1>1
<1>5. st[u] \in {"leave", "leaveThrow", "catch"} => todo[u] = {}
  BY DEF Control, TodoOfRunning
<1>6. CASE DiffEnds(u)
  <2>1. /\ st[u] = "run" /\ st' = [st EXCEPT ![u] = "leave"] /\ todo' = [todo EXCEPT ![u] = {}]
        /\ UNCHANGED <<pc, req, snap, next, head, index, built, lim, count, error, inflight, queue,
                       reply, untrackedCache, failures>>
    BY <1>4, <1>6 DEF DiffEnds
  <2>2. InflightIsExact'
    BY <1>1, <2>1, LiveSame DEF Control, LiveState, Task
  <2>3. failures' = 0 => failures = 0 /\ ~error' /\ inflight' <= inflight
    BY <1>1, <1>2, <2>1 DEF NothingFailed
  <2>4. QED
    BY <1>1, <1>3, <2>1, <2>2, <2>3, ScanControl
<1>7. CASE DiffFails(u)
  <2>1. /\ st[u] = "run" /\ st' = [st EXCEPT ![u] = "leaveThrow"] /\ todo' = [todo EXCEPT ![u] = {}]
        /\ UNCHANGED <<pc, req, snap, next, head, index, built, lim, count, error, inflight, queue,
                       reply, untrackedCache>>
    BY <1>7 DEF DiffFails
  <2>2. InflightIsExact'
    BY <1>1, <2>1, LiveSame DEF Control, LiveState, Task
  <2>3. failures' \in 0..MaxFail /\ failures' # 0
    BY <1>1, <1>7, Bounds DEF DiffFails, MayFail
  <2>4. QED
    BY <1>1, <1>3, <2>1, <2>2, <2>3, ScanControl
<1>8. CASE DecInflight(u)
  <2>1. PICK s \in {"none", "catch"} : s = IF st[u] = "leave" THEN "none" ELSE "catch"
    OBVIOUS
  <2>2. /\ st[u] \in {"leave", "leaveThrow"} /\ st' = [st EXCEPT ![u] = s]
        /\ inflight' = inflight - 1
        /\ pc' = pc \/ pc' = Notified(pc)
        /\ UNCHANGED <<req, snap, next, head, index, built, lim, count, error, queue, todo, reply,
                       untrackedCache, failures>>
    BY <1>8, <2>1 DEF DecInflight
  <2>3. s \in TaskState \ LiveState /\ st[u] \in LiveState /\ s \in TaskState \ {"queued"}
    BY <2>1, <2>2 DEF TaskState, LiveState
  <2>4. InflightIsExact' /\ inflight' \in 0..Cardinality(Scan) /\ inflight >= 1
    BY <1>1, <2>2, <2>3, LiveFewer DEF Control
  <2>5. todo' = [todo EXCEPT ![u] = {}]
    BY <1>4, <1>5, <2>2
  <2>6. failures' = 0 => failures = 0 /\ ~error' /\ inflight' <= inflight /\ s \notin {"leaveThrow", "catch"}
    BY <1>1, <1>2, <2>1, <2>2 DEF NothingFailed, Control, Quiet
  <2>7. QED
    BY <1>1, <1>3, <2>2, <2>3, <2>4, <2>5, <2>6, ScanControl
<1>9. CASE RecordError(u)
  <2>1. /\ st[u] = "catch" /\ st' = [st EXCEPT ![u] = "none"]
        /\ pc' = pc \/ pc' = Notified(pc)
        /\ UNCHANGED <<req, snap, next, head, index, built, lim, count, inflight, queue, todo, reply,
                       untrackedCache, failures>>
    BY <1>9 DEF RecordError
  <2>2. error' \in BOOLEAN
    BY <1>9, Zenon DEF RecordError
  <2>3. InflightIsExact'
    BY <1>1, <2>1, LiveSame DEF Control, LiveState, Task
  <2>4. todo' = [todo EXCEPT ![u] = {}]
    BY <1>4, <1>5, <2>1
  <2>5. failures' # 0
    BY <2>1 DEF Control, Quiet, NothingFailed
  <2>6. QED
    BY <1>1, <1>3, <2>1, <2>2, <2>3, <2>4, <2>5, ScanControl
<1>10. QED
  BY <1>6, <1>7, <1>8, <1>9

\* Every step keeps Control.
LEMMA NextControl ==
  ASSUME Control, [Next]_vars
  PROVE  Control'
<1>1. CASE UNCHANGED vars
  <2>1. /\ TypeOK' /\ InflightIsExact' /\ Fresh' /\ InQueue'
    BY <1>1 DEF vars, Control, TypeOK, InflightIsExact, Fresh, Unscheduled, InQueue
  <2>2. Placed' /\ CacheChecked' /\ TodoOfRunning' /\ Quiet'
    BY <1>1 DEF vars, Control, Placed, CacheChecked, TodoOfRunning, Quiet, NothingFailed
  <2>3. QED
    BY <2>1, <2>2 DEF Control
<1>2. CASE \E s \in Snapshot : GetIndexStats(s)
  BY <1>2, GetControl
<1>3. CASE MainStep \/ Destroy
  BY <1>3, StagedScanControl, DirtyScanControl, NothingControl DEF MainStep
<1>4. CASE StartTask \/ MtimeChecked
  BY <1>4, StartControl, MtimeControl
<1>5. CASE \E t \in Scan : TaskStep(t)
  BY <1>5, DeltaControl, ScanEndsControl DEF TaskStep
<1>6. QED
  BY <1>1, <1>2, <1>3, <1>4, <1>5 DEF Next

\* At each place of the main thread, Control says which functions of the repository can be
\* queued or running, and that inflight_ counts the scans among them.
THEOREM ControlHolds == Spec => []Control
BY InitControl, NextControl, PTL DEF Spec

\* Control is strong enough.
LEMMA ControlNothingOutlives == Control => NothingOutlives
<1> SUFFICES ASSUME Control PROVE NothingOutlives
  OBVIOUS
<1>1. ASSUME NothingFailed, pc = "idle" PROVE inflight = 0 /\ InFlight = {}
  BY <1>1, RestIsQuiet DEF Control, Quiet, Resting, InFlight
<1>2. ASSUME NothingFailed, pc = "destroyed" PROVE \A t \in Task : st[t] = "none"
  BY <1>2, RestIsQuiet DEF Control, Quiet, Resting, CacheChecked, Task
<1>3. QED
  BY <1>1, <1>2 DEF Control, NothingOutlives

\* GetIndexStats leaves no scan behind that could count into the next request, and the
\* destructor nothing that could touch freed memory, until something fails; inflight_ is
\* exact even then.
THEOREM NothingOutlivesItsRequest == Spec => []NothingOutlives
BY ControlHolds, ControlNothingOutlives, PTL

-----------------------------------------------------------------------------
(* The invariant: what is counted.                                         *)

(* The counter that decides when the deltas of c need not be counted any   *)
(* more, and the counters of the HEAD diff that deltas count.              *)
MainOf(c) == IF c \in Main THEN c
             ELSE IF c = "unstaged_deleted" THEN "unstaged" ELSE "staged"
HeadSide == StagedSide \ {"skip_worktree"}

(* Of the deltas counted in c, those that are not left to be reported.     *)
Gone(diffs, c, left) == {y \in Counted(diffs, c) : y[2] \notin left[y[1]]}

(* Each counter of a side is the number of deltas gone past, unless it was *)
(* its limit that made the scans go past them.                             *)
Exact(n, diffs, left, side, max) ==
  \A c \in side :
    /\ n[c] <= Cardinality(Gone(diffs, c, left))
    /\ n[c] = Cardinality(Gone(diffs, c, left)) \/ n[MainOf(c)] >= max[MainOf(c)]
Within(left, diffs) == \A i \in Shard : left[i] \subseteq Deltas(diffs[i])

-----------------------------------------------------------------------------
(* Deltas gone past.                                                       *)

Diffs == [Shard -> Seq(Status)]

\* A diff has finitely many deltas.
LEMMA DeltasFinite ==
  ASSUME NEW s \in Seq(Status)
  PROVE  IsFiniteSet(Deltas(s))
<1> DEFINE f == [n \in 1..Len(s) |-> <<n, s[n]>>]
<1>1. Len(s) \in Nat /\ DOMAIN s = 1..Len(s)
  BY LenProperties
<1>2. IsFiniteSet(1..Len(s))
  <2>1. 1 \in Int /\ Len(s) \in Int
    BY <1>1
  <2>2. QED
    BY <2>1, FS_Interval
<1>3. f \in Surjection(1..Len(s), Deltas(s))
  BY <1>1 DEF Surjection, Deltas
<1>4. QED
  <2> HIDE DEF f
  <2> QED
    BY <1>2, <1>3, FS_Surjection

\* Finitely many deltas of all shards go into a counter.
LEMMA CountedFinite ==
  ASSUME NEW diffs \in Diffs, NEW c
  PROVE  IsFiniteSet(Counted(diffs, c)) /\ Cardinality(Counted(diffs, c)) \in Nat
<1> DEFINE T == {{i} \X Deltas(diffs[i]) : i \in Shard}
           f == [i \in Shard |-> {i} \X Deltas(diffs[i])]
<1>1. f \in Surjection(Shard, T)
  BY DEF Surjection
<1>2. IsFiniteSet(T)
  <2> HIDE DEF f, T
  <2> QED
    BY <1>1, ShardFinite, FS_Surjection
<1>3. \A i \in Shard : IsFiniteSet({i} \X Deltas(diffs[i]))
  <2> TAKE i \in Shard
  <2>1. IsFiniteSet(Deltas(diffs[i])) /\ IsFiniteSet({i})
    BY DeltasFinite, FS_Singleton DEF Diffs
  <2>2. QED
    BY <2>1, FS_Product
<1>4. \A X \in T : IsFiniteSet(X)
  BY <1>3
<1>5. IsFiniteSet(UNION T)
  <2> HIDE DEF T
  <2> QED
    BY <1>2, <1>4, FS_UNION
<1>6. Counted(diffs, c) \in SUBSET (UNION T)
  BY DEF Counted
<1>7. IsFiniteSet(Counted(diffs, c))
  <2> HIDE DEF T
  <2> QED
    BY <1>5, <1>6, FS_Subset
<1>8. QED
  BY <1>7, FS_CardinalityType

\* So do those that are no longer to be reported, at most as many.
LEMMA GoneFinite ==
  ASSUME NEW diffs \in Diffs, NEW c, NEW left
  PROVE  /\ IsFiniteSet(Gone(diffs, c, left)) /\ Cardinality(Gone(diffs, c, left)) \in Nat
         /\ Cardinality(Gone(diffs, c, left)) <= Cardinality(Counted(diffs, c))
<1>1. Gone(diffs, c, left) \in SUBSET Counted(diffs, c)
  BY DEF Gone
<1>2. QED
  BY <1>1, CountedFinite, FS_Subset, FS_CardinalityType

\* Which deltas go into a counter.
LEMMA InCounted ==
  ASSUME NEW diffs, NEW c, NEW y
  PROVE  y \in Counted(diffs, c) <=>
           \E i \in Shard : \E x \in Deltas(diffs[i]) : y = <<i, x>> /\ c \in CountedIn(x[2])
BY DEF Counted

(* A scan goes past some deltas.  What is counted in c grows, and stays as *)
(* it is if none of the deltas is counted in c.                            *)
Differ(left, left2, i) == \A j \in Shard \ {i} : left2[j] = left[j]
Dropping(left, left2, i, c) == \E x \in left[i] \ left2[i] : c \in CountedIn(x[2])

\* What is gone of a diff only grows.
LEMMA GoneLess ==
  ASSUME NEW diffs \in Diffs, NEW c, NEW i \in Shard, NEW left, NEW left2,
         Differ(left, left2, i), left2[i] \subseteq left[i]
  PROVE  Cardinality(Gone(diffs, c, left)) <= Cardinality(Gone(diffs, c, left2))
<1>1. \A y \in Counted(diffs, c) : y[1] \in Shard
  BY InCounted
<1>2. Gone(diffs, c, left) \in SUBSET Gone(diffs, c, left2)
  BY <1>1 DEF Gone, Differ
<1>3. IsFiniteSet(Gone(diffs, c, left2))
  BY GoneFinite
<1>4. QED
  BY <1>2, <1>3, FS_Subset

\* A counter whose deltas are left alone has as many gone as before.
LEMMA GoneSame ==
  ASSUME NEW diffs, NEW c, NEW i \in Shard, NEW left, NEW left2,
         Differ(left, left2, i), left2[i] \subseteq left[i], ~Dropping(left, left2, i, c)
  PROVE  Gone(diffs, c, left2) = Gone(diffs, c, left)
<1>1. \A y \in Counted(diffs, c) : y[1] \in Shard /\ c \in CountedIn(y[2][2])
  BY InCounted
<1>2. \A y \in Counted(diffs, c) : y[2] \notin left2[y[1]] <=> y[2] \notin left[y[1]]
  BY <1>1 DEF Differ, Dropping
<1>3. QED
  BY <1>2 DEF Gone

(* A scan reports a delta.                                                 *)
LEMMA GoneOne ==
  ASSUME NEW diffs \in Diffs, NEW c, NEW i \in Shard, NEW left, NEW left2, NEW x \in left[i],
         Within(left, diffs), Differ(left, left2, i), left2[i] = left[i] \ {x},
         c \in CountedIn(x[2])
  PROVE  Cardinality(Gone(diffs, c, left2)) = Cardinality(Gone(diffs, c, left)) + 1
<1> DEFINE G == Gone(diffs, c, left)
           G2 == Gone(diffs, c, left2)
<1>1. \A y \in Counted(diffs, c) : \E j \in Shard : \E z \in Deltas(diffs[j]) : y = <<j, z>>
  BY InCounted
<1>2. <<i, x>> \in Counted(diffs, c)
  <2>1. x \in Deltas(diffs[i])
    BY DEF Within
  <2>2. QED
    BY <2>1, InCounted
<1>3. <<i, x>> \notin G
  BY DEF Gone
<1>4. \A y \in Counted(diffs, c) : y[2] \notin left2[y[1]] <=> y[2] \notin left[y[1]] \/ y = <<i, x>>
  BY <1>1 DEF Differ
<1>5. G2 = G \cup {<<i, x>>}
  BY <1>2, <1>4 DEF Gone
<1>6. IsFiniteSet(G)
  BY GoneFinite
<1>7. Cardinality(G2) = Cardinality(G) + 1
  <2> HIDE DEF G, G2
  <2> QED
    BY <1>3, <1>5, <1>6, FS_AddElement
<1>8. QED
  BY <1>7

-----------------------------------------------------------------------------
(* Counters and deltas.                                                    *)

\* The counter with a limit that each counter belongs to.
LEMMA Mains ==
  /\ \A c \in HeadSide : c \in Counter /\ MainOf(c) \in {"staged", "conflicted"}
  /\ \A c \in DirtySide : c \in Counter /\ MainOf(c) \in {"unstaged", "untracked"}
  /\ \A c \in {"staged", "conflicted", "unstaged", "untracked"} :
       c \in Main /\ c \in Counter /\ MainOf(c) = c
BY DEF MainOf, Main, HeadSide, StagedSide, DirtySide, Counter

\* The counters of a delta belong to one with a limit, on the side of its diff.
LEMMA CountedWith ==
  ASSUME NEW d \in Status
  PROVE  /\ \A c \in CountedIn(d) : MainOf(c) = CountedAs(d)
         /\ d \in HeadStatus => /\ CountedIn(d) \subseteq HeadSide
                                /\ {CountedAs(d), Partner(CountedAs(d))} = {"staged", "conflicted"}
         /\ d \in WorkStatus => /\ CountedIn(d) \subseteq DirtySide
                                /\ {CountedAs(d), Partner(CountedAs(d))} = {"unstaged", "untracked"}
<1>1. CASE d = "added"
  BY <1>1 DEF CountedIn, CountedAs, SubCounter, Partner, MainOf, Main, HeadSide, StagedSide, WorkStatus
<1>2. CASE d = "deleted"
  BY <1>2 DEF CountedIn, CountedAs, SubCounter, Partner, MainOf, Main, HeadSide, StagedSide, WorkStatus
<1>3. CASE d = "modified"
  BY <1>3 DEF CountedIn, CountedAs, SubCounter, Partner, MainOf, Main, HeadSide, StagedSide, WorkStatus
<1>4. CASE d = "conflicted"
  BY <1>4 DEF CountedIn, CountedAs, SubCounter, Partner, MainOf, Main, HeadSide, StagedSide, WorkStatus
<1>5. CASE d = "wt_deleted"
  BY <1>5 DEF CountedIn, CountedAs, SubCounter, Partner, MainOf, Main, DirtySide, HeadStatus
<1>6. CASE d = "wt_modified"
  BY <1>6 DEF CountedIn, CountedAs, SubCounter, Partner, MainOf, Main, DirtySide, HeadStatus
<1>7. CASE d = "untracked"
  BY <1>7 DEF CountedIn, CountedAs, SubCounter, Partner, MainOf, Main, DirtySide, HeadStatus
<1>8. QED
  BY <1>1, <1>2, <1>3, <1>4, <1>5, <1>6, <1>7 DEF Status, HeadStatus, WorkStatus

(* What a scan drops because a limit has been reached.                     *)
LEMMA Dropped ==
  ASSUME NEW d \in Status, NEW n \in [Counter -> Nat], NEW rest, TypeOK,
         NEW m \in {CountedAs(d), Partner(CountedAs(d))}
  PROVE  \/ n[m] >= lim[m]
         \/ \A x \in rest : CountedAs(x[2]) = m => x \in OnDelta(d, n, rest)
<1>1. PICK c1, c2 : c1 = CountedAs(d) /\ c2 = Partner(c1)
  OBVIOUS
<1>2. {c1, c2} \subseteq {"staged", "conflicted", "unstaged", "untracked"}
  BY <1>1, CountedWith DEF Status
<1>3. c1 \in Main /\ c2 \in Main /\ c1 \in Counter /\ c2 \in Counter
  BY <1>2, Mains
<1>4. n[c1] \in Nat /\ n[c2] \in Nat /\ lim[c1] \in Nat /\ lim[c2] \in Nat
  BY <1>3 DEF TypeOK
<1>5. OnDelta(d, n, rest) = IF n[c1] < lim[c1] THEN rest
                            ELSE IF n[c2] < lim[c2] THEN {x \in rest : CountedAs(x[2]) # c1}
                            ELSE {}
  BY <1>1 DEF OnDelta
<1>6. CASE n[c1] < lim[c1]
  BY <1>5, <1>6
<1>7. CASE n[c1] >= lim[c1] /\ n[c2] < lim[c2]
  <2>1. m = c1 \/ m = c2
    BY <1>1
  <2>2. CASE m = c1
    BY <1>7, <2>2
  <2>3. CASE m = c2 /\ m # c1
    <3>1. ~(n[c1] < lim[c1])
      BY <1>4, <1>7
    <3>2. OnDelta(d, n, rest) = {x \in rest : CountedAs(x[2]) # c1}
      BY <1>5, <1>7, <3>1
    <3>3. QED
      BY <2>3, <3>2
  <2>4. QED
    BY <2>1, <2>2, <2>3
<1>8. CASE n[c1] >= lim[c1] /\ n[c2] >= lim[c2]
  BY <1>1, <1>8
<1>9. QED
  BY <1>4, <1>6, <1>7, <1>8

(* The next delta of a scan is counted and what the scan need not look at  *)
(* is dropped: the counters of its side stay exact.                        *)
LEMMA ExactDelta ==
  ASSUME TypeOK, NEW diffs \in Diffs, NEW i \in Shard, NEW side \in {HeadSide, DirtySide},
         NEW left, Within(left, diffs), NEW x \in left[i], left[i] \subseteq Nat \X Status,
         NEW max,
         \A c \in side : /\ MainOf(c) \in {CountedAs(x[2]), Partner(CountedAs(x[2]))}
                         /\ lim[MainOf(c)] = max[MainOf(c)],
         Exact(count, diffs, left, side, max),
         NEW n \in [Counter -> Nat], n = Increments(x[2]),
         NEW left2, Differ(left, left2, i), left2[i] = OnDelta(x[2], n, left[i] \ {x})
  PROVE  Exact(n, diffs, left2, side, max)
<1>1. PICK rest : rest = left[i] \ {x}
  OBVIOUS
<1>2. PICK T : T = left2[i] /\ T = OnDelta(x[2], n, rest)
  BY <1>1
<1>3. /\ x[2] \in Status /\ T \subseteq rest /\ rest \subseteq left[i]
      /\ \A y \in left[i] : y[2] \in Status
  BY <1>1, <1>2, OnDeltaLess
<1>4. side \subseteq Counter /\ \A c \in side : MainOf(c) \in Main /\ MainOf(c) \in Counter
  BY Mains DEF HeadSide
<1>5. \A c \in Counter : n[c] = IF c \in CountedIn(x[2]) THEN count[c] + 1 ELSE count[c]
  BY IncrementsType
<1>6. /\ lim \in [Main -> Nat]
      /\ \A c \in Counter : n[c] \in Nat /\ count[c] \in Nat
  BY DEF TypeOK
<1>7. PICK left1 : left1 = [j \in Shard |-> IF j = i THEN rest ELSE left[j]]
  OBVIOUS
<1>8. left1[i] = rest /\ Differ(left, left1, i) /\ Differ(left1, left2, i)
  BY <1>7 DEF Differ
<1> SUFFICES ASSUME NEW c \in side
             PROVE  /\ n[c] <= Cardinality(Gone(diffs, c, left2))
                    /\ \/ n[c] = Cardinality(Gone(diffs, c, left2))
                       \/ n[MainOf(c)] >= max[MainOf(c)]
  BY DEF Exact
<1>9. PICK g \in Nat, g1 \in Nat, g2 \in Nat :
        /\ g = Cardinality(Gone(diffs, c, left))
        /\ g1 = Cardinality(Gone(diffs, c, left1))
        /\ g2 = Cardinality(Gone(diffs, c, left2))
  BY GoneFinite
<1>10. PICK m : m = MainOf(c)
  OBVIOUS
<1>11. /\ m \in Main /\ m \in Counter /\ m \in {CountedAs(x[2]), Partner(CountedAs(x[2]))}
       /\ lim[m] = max[m] /\ c \in Counter /\ lim[m] \in Nat
       /\ n[m] \in Nat /\ count[m] \in Nat /\ n[c] \in Nat /\ count[c] \in Nat
  BY <1>4, <1>6, <1>10
<1>12. /\ n[c] = IF c \in CountedIn(x[2]) THEN count[c] + 1 ELSE count[c]
       /\ n[m] >= count[m]
  BY <1>5, <1>11
<1>13. count[c] <= g /\ (count[c] = g \/ count[m] >= max[m])
  BY <1>9, <1>10 DEF Exact
<1>14. g1 = IF c \in CountedIn(x[2]) THEN g + 1 ELSE g
  <2>1. CASE c \in CountedIn(x[2])
    <3>1. left1[i] = left[i] \ {x}
      BY <1>1, <1>8
    <3>2. Cardinality(Gone(diffs, c, left1)) = Cardinality(Gone(diffs, c, left)) + 1
      BY <1>8, <2>1, <3>1, GoneOne
    <3>3. QED
      BY <1>9, <2>1, <3>2
  <2>2. CASE c \notin CountedIn(x[2])
    <3>1. left1[i] \subseteq left[i] /\ ~Dropping(left, left1, i, c)
      BY <1>1, <1>3, <1>8, <2>2 DEF Dropping
    <3>2. Gone(diffs, c, left1) = Gone(diffs, c, left)
      BY <1>8, <3>1, GoneSame
    <3>3. QED
      BY <1>9, <2>2, <3>2
  <2>3. QED
    BY <2>1, <2>2
<1>15. g1 <= g2 /\ (~Dropping(left1, left2, i, c) => g2 = g1)
  <2>1. left2[i] \subseteq left1[i]
    BY <1>2, <1>3, <1>8
  <2>2. Cardinality(Gone(diffs, c, left1)) <= Cardinality(Gone(diffs, c, left2))
    BY <1>8, <2>1, GoneLess
  <2>3. ~Dropping(left1, left2, i, c) => Gone(diffs, c, left2) = Gone(diffs, c, left1)
    BY <1>8, <2>1, GoneSame
  <2>4. QED
    BY <1>9, <2>2, <2>3
<1>16. n[m] >= lim[m] \/ ~Dropping(left1, left2, i, c)
  <2>1. n[m] >= lim[m] \/ \A y \in rest : CountedAs(y[2]) = m => y \in T
    <3>1. PICK d \in Status : d = x[2]
      BY <1>3
    <3>2. m \in {CountedAs(d), Partner(CountedAs(d))} /\ T = OnDelta(d, n, rest)
      BY <1>2, <1>11, <3>1
    <3>3. \/ n[m] >= lim[m]
          \/ \A y \in rest : CountedAs(y[2]) = m => y \in OnDelta(d, n, rest)
      BY <3>2, Dropped
    <3>4. QED
      BY <3>2, <3>3
  <2>2. \A y \in rest : c \in CountedIn(y[2]) => CountedAs(y[2]) = m
    BY <1>3, <1>10, CountedWith
  <2>3. QED
    BY <1>2, <1>8, <2>1, <2>2 DEF Dropping
<1>17. n[c] <= g2
  BY <1>11, <1>12, <1>13, <1>14, <1>15
<1>18. CASE n[m] >= lim[m]
  BY <1>9, <1>10, <1>11, <1>17, <1>18
<1>19. CASE ~Dropping(left1, left2, i, c)
  <2>1. g2 = g1
    BY <1>15, <1>19
  <2>2. n[c] = g2 \/ count[m] >= max[m]
    BY <1>11, <1>12, <1>13, <1>14, <2>1
  <2>3. n[c] = g2 \/ n[m] >= max[m]
    BY <1>11, <1>12, <2>2
  <2>4. QED
    BY <1>9, <1>10, <1>17, <2>3
<1>20. QED
  BY <1>16, <1>18, <1>19

(* What is not counted leaves the counters of a side as exact as they are. *)
LEMMA ExactSame ==
  ASSUME TypeOK, NEW n \in [Counter -> Nat], NEW side \in {HeadSide, DirtySide},
         \A c \in side : n[c] = count[c],
         NEW diffs, NEW left, NEW max, Exact(count, diffs, left, side, max)
  PROVE  Exact(n, diffs, left, side, max)
<1>1. \A c \in side : MainOf(c) \in side
  BY Mains DEF HeadSide, StagedSide, DirtySide
<1>2. QED
  BY <1>1 DEF Exact

(* Nothing is gone, and nothing has been counted.                          *)
LEMMA ExactAtFirst ==
  ASSUME NEW diffs \in Diffs, NEW side, NEW n, \A c \in side : n[c] = 0, NEW max,
         NEW left, \A i \in Shard : left[i] = Deltas(diffs[i])
  PROVE  Within(left, diffs) /\ Exact(n, diffs, left, side, max)
<1>1. \A c : Gone(diffs, c, left) = {}
  BY InCounted DEF Gone
<1>2. \A c : Cardinality(Gone(diffs, c, left)) = 0
  BY <1>1, FS_EmptySet
<1>3. QED
  BY <1>2 DEF Exact, Within

-----------------------------------------------------------------------------
(* What the repository holds of the HEAD diff, and what the request has of *)
(* the diff of the work tree.  A scan that is not yet scheduled has all of *)
(* its deltas to report.                                                   *)

StagedTodo ==
  [i \in Shard |-> IF pc = "staged" /\ i >= next THEN Deltas(StagedDiffs(head, index)[i])
                   ELSE todo[ThisScan("staged", i)]]
Started == {i \in Shard : ~(pc = "staged" /\ i >= next) /\ st[ThisScan("staged", i)] # "queued"}
StagedRight ==
  head # NoHead =>
    /\ req >= 1
    /\ Within(StagedTodo, StagedDiffs(head, index))
    /\ Exact(count, StagedDiffs(head, index), StagedTodo, HeadSide, Limit)
    /\ count["skip_worktree"] = Cardinality(FlagsIn(index, Started))
StagedNeedsHead == head = NoHead => \A t \in Scan : t.kind = "staged" => st[t] = "none"

DirtyTodo ==
  [i \in Shard |-> IF pc \in {"staged", "candidates"} \/ (pc = "dirty" /\ i >= next)
                   THEN Deltas(DirtyDiffs(index)[i])
                   ELSE todo[ThisScan("dirty", i)]]
DirtyRight ==
  pc \in Working =>
    /\ WantsDirty => /\ Within(DirtyTodo, DirtyDiffs(index))
                     /\ Exact(count, DirtyDiffs(index), DirtyTodo, DirtySide, lim)
    /\ ~WantsDirty => /\ \A c \in DirtySide : count[c] = 0
                      /\ \A t \in Scan : t.kind = "dirty" => st[t] = "none"
                      /\ pc # "dirty"

(* Without a HEAD diff, the counters of its side are known at once.        *)
Known(c) == IF NoStagedLimits(snap) THEN 0
            ELSE CASE c \in {"staged", "staged_new"} -> Entries[index]
                   [] c = "skip_worktree" -> AllFlagged(index)
                   [] OTHER -> 0
OfSnapshot ==
  pc \in Working =>
    /\ index = snap.index /\ lim = LimitsFor(snap)
    /\ head = IF NoStagedLimits(snap) THEN NoHead ELSE snap.head
    /\ head = NoHead => \A c \in StagedSide : count[c] = Known(c)

Right == NothingFailed => StagedRight /\ StagedNeedsHead /\ DirtyRight /\ OfSnapshot

-----------------------------------------------------------------------------
(* Steps that leave a part of it alone.                                    *)

\* The diffs of an index, shard by shard.
LEMMA DiffsType ==
  /\ \A h \in Oid, v \in Version :
       /\ StagedDiffs(h, v) \in Diffs
       /\ \A i \in Shard : /\ StagedDiffs(h, v)[i] = StagedDeltas[<<h, v, i>>]
                           /\ \A x \in Deltas(StagedDiffs(h, v)[i]) : x[2] \in HeadStatus
  /\ \A v \in Version :
       /\ DirtyDiffs(v) \in Diffs
       /\ \A i \in Shard : /\ DirtyDiffs(v)[i] = DirtyDeltas[<<v, i>>]
                           /\ \A x \in Deltas(DirtyDiffs(v)[i]) : x[2] \in WorkStatus
<1>1. ASSUME NEW S, NEW s \in Seq(S) PROVE \A x \in Deltas(s) : x[2] \in S
  BY LenProperties DEF Deltas
<1>2. \A h \in Oid, v \in Version, i \in Shard : StagedDeltas[<<h, v, i>>] \in Seq(HeadStatus)
  BY ScanAssumption
<1>3. \A v \in Version, i \in Shard : DirtyDeltas[<<v, i>>] \in Seq(WorkStatus)
  BY ScanAssumption
<1>4. Seq(HeadStatus) \subseteq Seq(Status) /\ Seq(WorkStatus) \subseteq Seq(Status)
  BY DEF Status
<1>5. ASSUME NEW h \in Oid, NEW v \in Version
      PROVE  StagedDiffs(h, v) \in Diffs
  BY <1>2, <1>4 DEF StagedDiffs, Diffs
<1>6. ASSUME NEW v \in Version
      PROVE  DirtyDiffs(v) \in Diffs
  BY <1>3, <1>4 DEF DirtyDiffs, Diffs
<1>7. ASSUME NEW h \in Oid, NEW v \in Version, NEW i \in Shard
      PROVE  /\ StagedDiffs(h, v)[i] = StagedDeltas[<<h, v, i>>]
             /\ \A x \in Deltas(StagedDiffs(h, v)[i]) : x[2] \in HeadStatus
  <2>1. StagedDiffs(h, v)[i] = StagedDeltas[<<h, v, i>>]
    BY DEF StagedDiffs
  <2>2. QED
    BY <1>1, <1>2, <2>1
<1>8. ASSUME NEW v \in Version, NEW i \in Shard
      PROVE  /\ DirtyDiffs(v)[i] = DirtyDeltas[<<v, i>>]
             /\ \A x \in Deltas(DirtyDiffs(v)[i]) : x[2] \in WorkStatus
  <2>1. DirtyDiffs(v)[i] = DirtyDeltas[<<v, i>>]
    BY DEF DirtyDiffs
  <2>2. QED
    BY <1>1, <1>3, <2>1
<1>9. QED
  BY <1>5, <1>6, <1>7, <1>8

\* Steps that neither report nor schedule leave what is to be reported as it is.
LEMMA TodoSame ==
  ASSUME UNCHANGED <<todo, req, next, head, index>>,
         pc' = "staged" <=> pc = "staged", pc' = "candidates" <=> pc = "candidates",
         pc' = "dirty" <=> pc = "dirty"
  PROVE  StagedTodo' = StagedTodo /\ DirtyTodo' = DirtyTodo
<1>1. StagedTodo' = StagedTodo
  BY DEF StagedTodo, ThisScan
<1>2. DirtyTodo' = DirtyTodo
  BY DEF DirtyTodo, ThisScan
<1>3. QED
  BY <1>1, <1>2

\* Nor do they change which staged scans have counted the flags of their shard.
LEMMA StartedSame ==
  ASSUME UNCHANGED <<req, next>>, pc' = "staged" <=> pc = "staged",
         \A i \in Shard : st'[ThisScan("staged", i)] = "queued" <=> st[ThisScan("staged", i)] = "queued"
  PROVE  Started' = Started
BY DEF Started, ThisScan

\* The staged side is right after a step that leaves it alone.
LEMMA StagedKept ==
  ASSUME TypeOK, StagedRight, UNCHANGED <<head, index>>, req' >= 1,
         StagedTodo' = StagedTodo, Started' = Started,
         count' \in [Counter -> Nat], \A c \in StagedSide : count'[c] = count[c]
  PROVE  StagedRight'
<1> SUFFICES ASSUME head # NoHead
             PROVE  /\ Within(StagedTodo', StagedDiffs(head, index))
                    /\ Exact(count', StagedDiffs(head, index), StagedTodo', HeadSide, Limit)
                    /\ count'["skip_worktree"] = Cardinality(FlagsIn(index, Started'))
  BY DEF StagedRight
<1>1. PICK n \in [Counter -> Nat] : n = count'
  OBVIOUS
<1>2. \A c \in HeadSide : n[c] = count[c]
  BY <1>1 DEF HeadSide
<1>3. Exact(count, StagedDiffs(head, index), StagedTodo, HeadSide, Limit)
  BY DEF StagedRight
<1>4. Exact(n, StagedDiffs(head, index), StagedTodo, HeadSide, Limit)
  BY <1>2, <1>3, ExactSame
<1>5. count'["skip_worktree"] = count["skip_worktree"]
  BY DEF StagedSide
<1>6. QED
  BY <1>1, <1>4, <1>5 DEF StagedRight

\* So is the dirty side.
LEMMA DirtyKept ==
  ASSUME TypeOK, DirtyRight, UNCHANGED <<index, lim>>, pc' \in Working => pc \in Working,
         DirtyTodo' = DirtyTodo,
         count' \in [Counter -> Nat], \A c \in DirtySide : count'[c] = count[c],
         ~WantsDirty => /\ pc' # "dirty"
                        /\ \A t \in Scan : t.kind = "dirty" => st'[t] = "none"
  PROVE  DirtyRight'
<1> SUFFICES ASSUME pc' \in Working
             PROVE  /\ WantsDirty => /\ Within(DirtyTodo', DirtyDiffs(index))
                                     /\ Exact(count', DirtyDiffs(index), DirtyTodo', DirtySide, lim)
                    /\ ~WantsDirty => \A c \in DirtySide : count'[c] = 0
  BY DEF DirtyRight, WantsDirty
<1>1. PICK n \in [Counter -> Nat] : n = count'
  OBVIOUS
<1>2. \A c \in DirtySide : n[c] = count[c]
  BY <1>1
<1>3. ASSUME WantsDirty PROVE Exact(n, DirtyDiffs(index), DirtyTodo, DirtySide, lim)
  BY <1>2, <1>3, ExactSame DEF DirtyRight
<1>4. QED
  BY <1>1, <1>3 DEF DirtyRight

\* HEAD, index and limits are still those of the request.
LEMMA SnapshotKept ==
  ASSUME OfSnapshot, UNCHANGED <<head, index, snap, lim>>, pc' \in Working => pc \in Working,
         head = NoHead => \A c \in StagedSide : count'[c] = count[c]
  PROVE  OfSnapshot'
<1>1. \A c \in StagedSide : Known(c)' = Known(c)
  BY DEF Known, NoStagedLimits, LimitsFor, AllFlagged
<1>2. NoStagedLimits(snap)' = NoStagedLimits(snap) /\ LimitsFor(snap)' = LimitsFor(snap)
  BY DEF NoStagedLimits, LimitsFor
<1>3. QED
  BY <1>1, <1>2 DEF OfSnapshot

(* Nothing is counted, and what has been scheduled or is left to report    *)
(* stays what it is.                                                       *)
LEMMA RightSame ==
  ASSUME TypeOK, Right, failures' = 0 => failures = 0,
         UNCHANGED <<req, snap, head, index, lim, count>>,
         StagedTodo' = StagedTodo, Started' = Started, DirtyTodo' = DirtyTodo,
         pc' \in Working => pc \in Working,
         ~WantsDirty /\ pc' = "dirty" => pc = "dirty",
         \A t \in Scan : st[t] = "none" /\ st'[t] # "none" =>
           IF t.kind = "staged" THEN head # NoHead ELSE WantsDirty
  PROVE  Right'
<1> SUFFICES ASSUME failures' = 0
             PROVE  StagedRight' /\ StagedNeedsHead' /\ DirtyRight' /\ OfSnapshot'
  BY DEF Right, NothingFailed
<1>1. StagedRight /\ StagedNeedsHead /\ DirtyRight /\ OfSnapshot
  BY DEF Right, NothingFailed
<1>2. count' \in [Counter -> Nat]
  BY DEF TypeOK
<1>3. StagedRight'
  <2>1. CASE head = NoHead
    BY <2>1 DEF StagedRight
  <2>2. CASE head # NoHead
    <3>1. req' >= 1
      BY <1>1, <2>2 DEF StagedRight
    <3>2. QED
      BY <1>1, <1>2, <3>1, StagedKept
  <2>3. QED
    BY <2>1, <2>2
<1>4. StagedNeedsHead'
  BY <1>1 DEF StagedNeedsHead
<1>5. DirtyRight'
  <2>1. CASE pc' \notin Working
    BY <2>1 DEF DirtyRight
  <2>2. CASE pc' \in Working
    <3>1. ASSUME ~WantsDirty
          PROVE  /\ pc' # "dirty"
                 /\ \A t \in Scan : t.kind = "dirty" => st'[t] = "none"
      BY <1>1, <2>2, <3>1 DEF DirtyRight
    <3>2. QED
      BY <1>1, <1>2, <3>1, DirtyKept
  <2>3. QED
    BY <2>1, <2>2
<1>6. OfSnapshot'
  BY <1>1, SnapshotKept
<1>7. QED
  BY <1>3, <1>4, <1>5, <1>6

-----------------------------------------------------------------------------
(* Right, action by action.                                                *)

\* GetIndexStats resets or reuses the counters as its four branches say.
LEMMA GetRight ==
  ASSUME Control, Right, NEW s \in Snapshot, GetIndexStats(s), Control'
  PROVE  Right'
<1> SUFFICES ASSUME failures' = 0
             PROVE  StagedRight' /\ StagedNeedsHead' /\ DirtyRight' /\ OfSnapshot'
  BY DEF Right, NothingFailed
<1>1. /\ pc = "idle" /\ req' = req + 1 /\ snap' = s /\ failures = 0
      /\ UNCHANGED <<inflight, queue, st, todo>>
  BY DEF GetIndexStats, IndexUnreadable
<1>2. /\ req \in Nat /\ req' \in 1..MaxReq /\ req' >= 1 /\ TypeOK /\ TypeOK'
      /\ count' \in [Counter -> Nat]
  BY <1>1, Bounds DEF GetIndexStats, Control, TypeOK
<1>3. StagedRight /\ DirtyRight /\ OfSnapshot /\ NothingFailed
  BY <1>1 DEF Right, NothingFailed
<1>4. \A t \in Scan : st[t] = "none" /\ todo[t] = {}
  <2>1. inflight = 0
    BY <1>1, <1>3 DEF Control, Quiet, Resting
  <2>2. QED
    BY <1>3, <2>1, RestIsQuiet
<1>5. StagedNeedsHead'
  BY <1>1, <1>4 DEF StagedNeedsHead
<1>6. ASSUME pc' # "staged"
      PROVE  StagedTodo' = [i \in Shard |-> {}] /\ Started' = Shard
  <2>1. \A i \in Shard : ThisScan("staged", i)' \in Scan
    BY <1>2 DEF ThisScan, Scan
  <2>2. \A i \in Shard : todo'[ThisScan("staged", i)'] = {} /\ st'[ThisScan("staged", i)'] = "none"
    BY <1>1, <1>4, <2>1
  <2>3. StagedTodo' = [i \in Shard |-> {}]
    BY <1>6, <2>2 DEF StagedTodo
  <2>4. QED
    BY <1>6, <2>2, <2>3 DEF Started
<1>7. ASSUME head # NoHead
      PROVE  StagedTodo = [i \in Shard |-> {}] /\ Started = Shard
  <2>1. req \in 1..MaxReq
    BY <1>2, <1>3, <1>7 DEF StagedRight, TypeOK
  <2>2. \A i \in Shard : ThisScan("staged", i) \in Scan
    BY <2>1 DEF ThisScan, Scan
  <2>3. \A i \in Shard : todo[ThisScan("staged", i)] = {} /\ st[ThisScan("staged", i)] = "none"
    BY <1>4, <2>2
  <2>4. StagedTodo = [i \in Shard |-> {}]
    BY <1>1, <2>3 DEF StagedTodo
  <2>5. QED
    BY <1>1, <2>3, <2>4 DEF Started
<1>8. CASE IndexUnreadable(s)
  <2>1. pc' = "idle" /\ UNCHANGED <<head, index, count>>
    BY <1>8 DEF IndexUnreadable, Fail
  <2>2. StagedRight'
    <3>1. CASE head = NoHead
      BY <2>1, <3>1 DEF StagedRight
    <3>2. CASE head # NoHead
      <4>1. StagedTodo' = StagedTodo /\ Started' = Started
        BY <1>6, <1>7, <2>1, <3>2
      <4>2. QED
        BY <1>2, <1>3, <2>1, <4>1, StagedKept
    <3>3. QED
      BY <3>1, <3>2
  <2>3. QED
    BY <1>5, <2>1, <2>2 DEF DirtyRight, OfSnapshot, Working
<1>9. CASE ~IndexUnreadable(s)
  <2>1. /\ SkipStaged(s) \/ ReuseStaged(s) \/ ScanStaged(s) \/ CountEntries(s)
        /\ lim' = LimitsFor(s) /\ index' = s.index /\ next' = 1
    BY <1>9 DEF GetIndexStats
  <2>2. s.index \in Version /\ s.head \in Oid \cup {NoHead} /\ Shard \subseteq Nat /\ \A i \in Shard : i >= 1
    BY DEF Snapshot, Shard
  <2>3. pc' \in {"staged", "candidates"}
    BY <2>1 DEF SkipStaged, ReuseStaged, ScanStaged, CountEntries
  <2>4. \A c \in DirtySide : count'[c] = 0
    <3>1. \A c \in DirtySide : c \in Counter /\ c \notin {"staged", "staged_new", "skip_worktree"}
      BY DEF DirtySide, Counter
    <3>2. \A c \in DirtySide : Zero(Counter)[c] = 0 /\ Zero(DirtySide)[c] = 0
      BY <3>1 DEF Zero
    <3>3. Zero(Counter) \in [Counter -> Nat]
      BY <1>2, CountZero
    <3>4. CASE CountEntries(s)
      BY <3>1, <3>2, <3>3, <3>4 DEF CountEntries
    <3>5. CASE SkipStaged(s) \/ ReuseStaged(s) \/ ScanStaged(s)
      BY <3>2, <3>5 DEF SkipStaged, ReuseStaged, ScanStaged
    <3>6. QED
      BY <2>1, <3>4, <3>5
  <2>5. DirtyRight'
    <3>1. DirtyTodo' = [i \in Shard |-> Deltas(DirtyDiffs(index')[i])]
      BY <2>3 DEF DirtyTodo
    <3>2. PICK d, n, left, max :
            d \in Diffs /\ d = DirtyDiffs(index') /\ n = count' /\ left = DirtyTodo' /\ max = lim'
      BY <2>1, <2>2, DiffsType
    <3>3. Within(left, d) /\ Exact(n, d, left, DirtySide, max)
      BY <2>4, <3>1, <3>2, ExactAtFirst
    <3>4. pc' # "dirty" /\ \A t \in Scan : st'[t] = "none"
      BY <1>1, <1>4, <2>3
    <3>5. /\ Within(DirtyTodo', DirtyDiffs(index'))
          /\ Exact(count', DirtyDiffs(index'), DirtyTodo', DirtySide, lim')
      BY <3>2, <3>3
    <3>6. QED
      BY <2>4, <3>4, <3>5 DEF DirtyRight
  <2>6. NoStagedLimits(snap)' = NoStagedLimits(s) /\ LimitsFor(snap)' = LimitsFor(s)
    BY <1>1 DEF NoStagedLimits, LimitsFor
  <2>7. CASE SkipStaged(s)
    <3>1. head' = NoHead /\ NoStagedLimits(s) /\ count' = Zero(Counter)
      BY <2>7 DEF SkipStaged
    <3>2. \A c \in StagedSide : count'[c] = 0
      BY <3>1 DEF Zero, Counter
    <3>3. \A c \in StagedSide : Known(c)' = 0
      BY <2>6, <3>1 DEF Known
    <3>4. OfSnapshot'
      BY <1>1, <2>1, <2>6, <3>1, <3>2, <3>3 DEF OfSnapshot
    <3>5. QED
      BY <1>5, <2>5, <3>1, <3>4 DEF StagedRight
  <2>8. CASE CountEntries(s)
    <3>1. /\ head' = NoHead /\ ~NoStagedLimits(s) /\ s.head = NoHead
          /\ count' = [Zero(Counter) EXCEPT !["staged"] = Entries[s.index],
                                            !["staged_new"] = Entries[s.index],
                                            !["skip_worktree"] = AllFlagged(s.index)]
      BY <2>8 DEF CountEntries
    <3>2. AllFlagged(index)' = AllFlagged(s.index)
      BY <2>1 DEF AllFlagged
    <3>3. \A c \in StagedSide : count'[c] = Known(c)'
      <4>1. Zero(Counter) \in [Counter -> Nat] /\ \A c \in Counter : Zero(Counter)[c] = 0
        BY <1>2, CountZero DEF Zero
      <4>2. /\ count'["staged"] = Entries[s.index] /\ count'["staged_new"] = Entries[s.index]
            /\ count'["skip_worktree"] = AllFlagged(s.index)
            /\ count'["conflicted"] = 0 /\ count'["staged_deleted"] = 0
        BY <3>1, <4>1 DEF Counter, StagedSide
      <4>3. /\ Known("staged")' = Entries[s.index] /\ Known("staged_new")' = Entries[s.index]
            /\ Known("skip_worktree")' = AllFlagged(s.index)
            /\ Known("conflicted")' = 0 /\ Known("staged_deleted")' = 0
        BY <2>1, <2>6, <3>1, <3>2 DEF Known
      <4>4. QED
        BY <4>2, <4>3 DEF StagedSide
    <3>4. OfSnapshot'
      BY <1>1, <2>1, <2>6, <3>1, <3>3 DEF OfSnapshot
    <3>5. QED
      BY <1>5, <2>5, <3>1, <3>4 DEF StagedRight
  <2>9. CASE ReuseStaged(s)
    <3>1. /\ ~NoStagedLimits(s) /\ s.head # NoHead /\ head' = s.head /\ head' = HeadAfterRead(s)
          /\ pc' = "candidates" /\ count' = Zero(DirtySide)
      BY <2>9 DEF ReuseStaged
    <3>2. head' = head /\ head # NoHead /\ index' = index
      BY <1>1, <2>1, <2>2, <3>1, Bounds DEF HeadAfterRead, NewIndex, Control, Placed
    <3>3. \A c \in StagedSide : count'[c] = count[c]
      BY <3>1 DEF Zero, Counter, StagedSide, DirtySide
    <3>4. StagedTodo' = StagedTodo /\ Started' = Started
      BY <1>6, <1>7, <3>1, <3>2
    <3>5. StagedRight'
      BY <1>2, <1>3, <3>2, <3>3, <3>4, StagedKept
    <3>6. OfSnapshot'
      BY <1>1, <2>1, <2>6, <3>1, <3>2 DEF OfSnapshot
    <3>7. QED
      BY <1>5, <2>5, <3>5, <3>6
  <2>10. CASE ScanStaged(s)
    <3>1. /\ ~NoStagedLimits(s) /\ s.head # NoHead /\ head' = s.head /\ pc' = "staged"
          /\ count' = Zero(Counter)
      BY <2>10 DEF ScanStaged
    <3>2. \A c \in StagedSide : count'[c] = 0
      BY <3>1 DEF Zero, Counter
    <3>3. StagedTodo' = [i \in Shard |-> Deltas(StagedDiffs(head', index')[i])]
      BY <2>1, <2>2, <3>1 DEF StagedTodo
    <3>4. Started' = {}
      BY <2>1, <2>2, <3>1 DEF Started
    <3>5. PICK d, n, left :
            d \in Diffs /\ d = StagedDiffs(head', index') /\ n = count' /\ left = StagedTodo'
      BY <2>1, <2>2, <3>1, DiffsType
    <3>6. Within(left, d) /\ Exact(n, d, left, HeadSide, Limit)
      BY <3>2, <3>3, <3>5, ExactAtFirst DEF HeadSide
    <3>7. Within(StagedTodo', StagedDiffs(head', index'))
          /\ Exact(count', StagedDiffs(head', index'), StagedTodo', HeadSide, Limit)
      BY <3>5, <3>6
    <3>8. count'["skip_worktree"] = Cardinality(FlagsIn(index', Started'))
      <4>1. FlagsIn(index', Started') = {}
        BY <3>4 DEF FlagsIn
      <4>2. QED
        BY <3>2, <4>1, FS_EmptySet DEF StagedSide
    <3>9. StagedRight'
      BY <1>2, <3>7, <3>8 DEF StagedRight
    <3>10. OfSnapshot'
      BY <1>1, <2>1, <2>6, <3>1 DEF OfSnapshot
    <3>11. QED
      BY <1>5, <2>5, <3>9, <3>10
  <2>11. QED
    BY <2>1, <2>7, <2>8, <2>9, <2>10
<1>10. QED
  BY <1>8, <1>9

\* A staged scan is scheduled with the diff of HEAD and index.
LEMMA StagedScanRight ==
  ASSUME Control, Right, StartStagedScan
  PROVE  Right'
<1>1. /\ TypeOK /\ pc = "staged" /\ next \in Shard /\ head \in Oid /\ index \in Version /\ pc \in Working
      /\ head # NoHead
  BY DEF Control, StartStagedScan, TypeOK, Placed, Working
<1>2. PICK u \in Scan : u = ThisScan("staged", next) /\ u.req = req /\ u.kind = "staged"
                        /\ u.shard = next
  BY <1>1, ThisScanType DEF Control
<1>3. PICK D \in SUBSET (Nat \X Status) : D = Deltas(StagedDeltas[<<head, index, next>>])
  BY <1>1, DeltasType
<1>4. Unscheduled(u) /\ RunAsync(u, D)
  BY <1>1, <1>2, <1>3 DEF StartStagedScan, Unscheduled, Shard
<1>5. /\ pc' = (IF next = NumShards THEN "candidates" ELSE "staged")
      /\ next' = (IF next = NumShards THEN 1 ELSE next + 1)
      /\ UNCHANGED <<req, snap, head, index, built, lim, count, error, reply, untrackedCache, failures>>
  BY <1>1 DEF StartStagedScan
<1>6. /\ st'[u] = "queued" /\ todo'[u] = D
      /\ \A t \in Task \ {u} : st'[t] = st[t]
      /\ \A t \in Scan \ {u} : todo'[t] = todo[t]
  <2>1. pc' # "destroyed" /\ UNCHANGED <<untrackedCache, index>>
    BY <1>5
  <2>2. QED
    BY <1>1, <1>4, <2>1, Scheduled
<1>7. D = Deltas(StagedDiffs(head, index)[next])
  BY <1>1, <1>3 DEF StagedDiffs
<1>8. \A i \in Shard : i \in Nat /\ i <= NumShards /\ next \in Nat
  BY <1>1, Bounds DEF Shard
<1>9. \A i \in Shard : /\ ThisScan("staged", i)' = ThisScan("staged", i)
                       /\ ThisScan("staged", i) \in Scan /\ ThisScan("staged", i) \in Task
                       /\ i # next => ThisScan("staged", i) # u
  <2>1. \A i \in Shard : ThisScan("staged", i) \in Scan /\ ThisScan("staged", i).shard = i
    BY <1>1, ThisScanType DEF Control
  <2>2. QED
    BY <1>2, <1>5, <2>1 DEF ThisScan, Task
<1>10. \A i \in Shard : (pc' = "staged" /\ i >= next') <=> i >= next /\ i # next
  BY <1>1, <1>5, <1>8
<1>11. StagedTodo' = StagedTodo
  <2>1. ASSUME NEW i \in Shard
        PROVE  (IF pc' = "staged" /\ i >= next' THEN Deltas(StagedDiffs(head, index)[i])
                ELSE todo'[ThisScan("staged", i)])
               = (IF pc = "staged" /\ i >= next THEN Deltas(StagedDiffs(head, index)[i])
                  ELSE todo[ThisScan("staged", i)])
    <3>1. CASE i = next
      BY <1>1, <1>2, <1>6, <1>7, <1>8, <1>10, <3>1
    <3>2. CASE i # next
      BY <1>1, <1>6, <1>9, <1>10, <3>2
    <3>3. QED
      BY <3>1, <3>2
  <2>2. \A i \in Shard : StagedDiffs(head, index)'[i] = StagedDiffs(head, index)[i]
    BY <1>5 DEF StagedDiffs
  <2>3. QED
    BY <1>5, <1>9, <2>1, <2>2 DEF StagedTodo
<1>12. Started' = Started
  <2>1. ASSUME NEW i \in Shard
        PROVE  (~(pc' = "staged" /\ i >= next') /\ st'[ThisScan("staged", i)] # "queued")
               <=> (~(pc = "staged" /\ i >= next) /\ st[ThisScan("staged", i)] # "queued")
    <3>1. CASE i = next
      BY <1>1, <1>2, <1>6, <1>8, <1>10, <3>1
    <3>2. CASE i # next
      BY <1>1, <1>6, <1>9, <1>10, <3>2
    <3>3. QED
      BY <3>1, <3>2
  <2>2. QED
    BY <1>9, <2>1 DEF Started
<1>13. DirtyTodo' = DirtyTodo
  BY <1>1, <1>5 DEF DirtyTodo
<1>14. \A t \in Scan : st[t] = "none" /\ st'[t] # "none" =>
           IF t.kind = "staged" THEN head # NoHead ELSE WantsDirty
  BY <1>1, <1>2, <1>6 DEF Task
<1>15. QED
  BY <1>1, <1>5, <1>11, <1>12, <1>13, <1>14, RightSame

\* The decision to look for dirty files.
LEMMA CandidatesRight ==
  ASSUME Control, Right, GetDirtyCandidates
  PROVE  Right'
<1> SUFFICES ASSUME failures' = 0
             PROVE  StagedRight' /\ StagedNeedsHead' /\ DirtyRight' /\ OfSnapshot'
  BY DEF Right, NothingFailed
<1>1. /\ TypeOK /\ pc = "candidates" /\ next = 1 /\ pc \in Working
      /\ UNCHANGED <<req, snap, next, head, index, count, inflight, queue, st, todo>>
  BY DEF Control, GetDirtyCandidates, Placed, Working
<1>2. /\ \/ ~WantsDirty /\ pc' = "wait" /\ UNCHANGED <<lim, reply, failures>>
         \/ WantsDirty /\ pc' = "dirty" /\ UNCHANGED <<lim, reply, failures>>
  <2>1. ~MayFail("candidates")
    BY DEF Control, TypeOK, MayFail
  <2>2. QED
    BY <2>1 DEF GetDirtyCandidates
<1>3. StagedRight /\ StagedNeedsHead /\ DirtyRight /\ OfSnapshot
  BY <1>2 DEF Right, NothingFailed
<1>4. StagedTodo' = StagedTodo /\ Started' = Started
  <2>1. pc # "staged" /\ pc' # "staged" /\ UNCHANGED <<todo, req, next, head, index, st>>
    BY <1>1, <1>2
  <2>2. QED
    BY <2>1 DEF StagedTodo, Started, ThisScan
<1>5. count' \in [Counter -> Nat]
  BY <1>1 DEF TypeOK
<1>6. StagedRight'
  <2>1. CASE head = NoHead
    BY <1>1, <2>1 DEF StagedRight
  <2>2. CASE head # NoHead
    BY <1>1, <1>3, <1>4, <1>5, <2>2, StagedKept DEF StagedRight
  <2>3. QED
    BY <2>1, <2>2
<1>7. StagedNeedsHead'
  BY <1>1, <1>3 DEF StagedNeedsHead
<1>8. OfSnapshot'
  BY <1>1, <1>2, <1>3, SnapshotKept
<1>9. DirtyRight'
  <2>1. CASE ~WantsDirty
    <3>1. pc' = "wait" /\ UNCHANGED <<lim, index>> /\ WantsDirty' = WantsDirty
      BY <1>1, <1>2, <2>1 DEF WantsDirty
    <3>2. QED
      BY <1>1, <1>3, <2>1, <3>1 DEF DirtyRight
  <2>2. CASE WantsDirty
    <3>1. pc' = "dirty" /\ UNCHANGED <<lim, index>>
      BY <1>1, <1>2, <2>2
    <3>2. \A i \in Shard : i >= next
      BY <1>1 DEF Shard
    <3>3. DirtyTodo' = DirtyTodo
      BY <1>1, <3>1, <3>2 DEF DirtyTodo
    <3>4. QED
      BY <1>1, <1>3, <1>5, <2>2, <3>1, <3>3, DirtyKept
  <2>3. QED
    BY <2>1, <2>2
<1>10. QED
  BY <1>6, <1>7, <1>8, <1>9

\* A dirty scan is scheduled with the part of its diff that the limits ask for.
LEMMA DirtyScanRight ==
  ASSUME Control, Right, StartDirtyScan
  PROVE  Right'
<1> SUFFICES ASSUME failures' = 0
             PROVE  StagedRight' /\ StagedNeedsHead' /\ DirtyRight' /\ OfSnapshot'
  BY DEF Right, NothingFailed
<1>1. /\ TypeOK /\ pc = "dirty" /\ index \in Version /\ built = index /\ pc \in Working
      /\ count \in [Counter -> Nat] /\ lim \in [Main -> Nat]
  BY DEF Control, StartDirtyScan, TypeOK, Placed, Working
<1>2. /\ pc' = (IF next >= NumShards THEN "wait" ELSE "dirty")
      /\ next' = (IF next >= NumShards THEN 1 ELSE next + 1)
      /\ UNCHANGED <<req, snap, head, index, built, lim, count, error, reply, untrackedCache, failures>>
  BY <1>1 DEF StartDirtyScan
<1>3. StagedRight /\ StagedNeedsHead /\ DirtyRight /\ OfSnapshot
  BY <1>2 DEF Right, NothingFailed
<1>4. WantsDirty /\ WantsDirty'
  <2>1. WantsDirty
    BY <1>1, <1>3 DEF DirtyRight
  <2>2. QED
    BY <1>2, <2>1 DEF WantsDirty
<1>5. \A i \in Shard : i \in Nat /\ i <= NumShards /\ i >= 1
  BY Bounds DEF Shard
<1>6. next \in Nat /\ NumShards \in Nat
  BY <1>1, Bounds DEF TypeOK
<1>7. \A i \in Shard : (pc' = "dirty" /\ i >= next') <=> i >= next /\ i # next
  BY <1>1, <1>2, <1>5, <1>6
<1>8. \A i \in Shard : /\ ThisScan("dirty", i)' = ThisScan("dirty", i)
                       /\ ThisScan("dirty", i) \in Scan /\ ThisScan("dirty", i).shard = i
                       /\ ThisScan("dirty", i).kind = "dirty" /\ ThisScan("dirty", i).req = req
                       /\ ThisScan("staged", i)' = ThisScan("staged", i)
                       /\ ThisScan("staged", i) \in Scan /\ ThisScan("staged", i).kind = "staged"
  <2>1. \A i \in Shard : /\ ThisScan("dirty", i)' = ThisScan("dirty", i)
                         /\ ThisScan("staged", i)' = ThisScan("staged", i)
    BY <1>2 DEF ThisScan
  <2>2. QED
    BY <1>1, <2>1, ThisScanType DEF Control
(* What the step does to the scans: that of the shard, if there is one, is *)
(* given what is reported.                                                 *)
<1>9. /\ next \in Shard => todo'[ThisScan("dirty", next)] = Reported(next)
      /\ \A t \in Scan : t.kind # "dirty" \/ t.shard # next => todo'[t] = todo[t]
      /\ \A t \in Scan : t.kind # "dirty" => st'[t] = st[t]
  <2>1. CASE next \in Shard /\ Reported(next) # {}
    <3>1. PICK u \in Scan : u = ThisScan("dirty", next) /\ u.req = req /\ u.kind = "dirty"
                            /\ u.shard = next
      BY <1>8, <2>1
    <3>2. PICK D \in SUBSET (Nat \X Status) : D = Reported(next)
      <4>1. Deltas(DirtyDeltas[<<built, next>>]) \in SUBSET (Nat \X Status)
        BY <1>1, <2>1, DeltasType
      <4>2. QED
        BY <4>1 DEF Reported
    <3>3. Unscheduled(u) /\ RunAsync(u, D)
      BY <1>1, <1>6, <2>1, <3>1, <3>2 DEF StartDirtyScan, Unscheduled, Shard
    <3>4. pc' # "destroyed" /\ UNCHANGED <<untrackedCache, index>>
      BY <1>2
    <3>5. /\ st'[u] = "queued" /\ todo'[u] = D
          /\ \A t \in Task \ {u} : st'[t] = st[t]
          /\ \A t \in Scan \ {u} : todo'[t] = todo[t]
      BY <1>1, <3>3, <3>4, Scheduled
    <3>6. QED
      BY <3>1, <3>2, <3>5 DEF Task
  <2>2. CASE next \in Shard /\ Reported(next) = {}
    <3>1. UNCHANGED <<st, todo>>
      BY <2>2 DEF StartDirtyScan
    <3>2. Unscheduled(ThisScan("dirty", next))
      BY <1>1, <1>6, <1>8, <2>2 DEF Unscheduled
    <3>3. todo[ThisScan("dirty", next)] = {}
      BY <1>8, <2>2, <3>2 DEF Control, Fresh
    <3>4. QED
      BY <2>2, <3>1, <3>3
  <2>3. CASE next \notin Shard
    BY <2>3 DEF StartDirtyScan
  <2>4. QED
    BY <2>1, <2>2, <2>3
<1>10. StagedTodo' = StagedTodo /\ Started' = Started
  <2>1. \A i \in Shard : /\ todo'[ThisScan("staged", i)] = todo[ThisScan("staged", i)]
                         /\ st'[ThisScan("staged", i)] = st[ThisScan("staged", i)]
    BY <1>8, <1>9
  <2>2. pc # "staged" /\ pc' # "staged"
    BY <1>1, <1>2
  <2>3. QED
    BY <1>8, <2>1, <2>2 DEF StagedTodo, Started
<1>11. count' \in [Counter -> Nat]
  BY <1>1, <1>2
<1>12. StagedRight'
  <2>1. CASE head = NoHead
    BY <1>2, <2>1 DEF StagedRight
  <2>2. CASE head # NoHead
    BY <1>1, <1>2, <1>3, <1>10, <1>11, <2>2, StagedKept DEF StagedRight
  <2>3. QED
    BY <2>1, <2>2
<1>13. StagedNeedsHead'
  BY <1>2, <1>3, <1>9 DEF StagedNeedsHead
<1>14. OfSnapshot'
  BY <1>1, <1>2, <1>3, SnapshotKept
<1>15. DirtyRight'
  <2>1. PICK d \in Diffs : d = DirtyDiffs(index) /\ d = DirtyDiffs(index')
    BY <1>1, <1>2, DiffsType
  <2>2. PICK left : left = DirtyTodo
    OBVIOUS
  <2>3. PICK left2 : left2 = DirtyTodo'
    OBVIOUS
  <2>4. Within(left, d) /\ Exact(count, d, left, DirtySide, lim)
    BY <1>1, <1>3, <1>4, <2>1, <2>2 DEF DirtyRight
  <2>5. \A i \in Shard :
          /\ left[i] = IF i >= next THEN Deltas(d[i]) ELSE todo[ThisScan("dirty", i)]
          /\ left2[i] = IF i >= next /\ i # next THEN Deltas(d[i]) ELSE todo'[ThisScan("dirty", i)]
    <3>1. \A i \in Shard :
            left[i] = IF i >= next THEN Deltas(d[i]) ELSE todo[ThisScan("dirty", i)]
      BY <1>1, <2>1, <2>2 DEF DirtyTodo
    <3>2. \A i \in Shard :
            left2[i] = IF pc' = "dirty" /\ i >= next' THEN Deltas(d[i])
                       ELSE todo'[ThisScan("dirty", i)]
      BY <1>2, <1>8, <2>1, <2>3 DEF DirtyTodo
    <3>3. QED
      BY <1>7, <3>1, <3>2
  <2>6. Differ(left, left2, next)
    <3>1. ASSUME NEW i \in Shard \ {next} PROVE left2[i] = left[i]
      BY <1>8, <1>9, <2>5, <3>1
    <3>2. QED
      BY <3>1 DEF Differ
  <2>7. next \in Shard => /\ left[next] = Deltas(d[next]) /\ left2[next] = Reported(next)
                          /\ left2[next] \subseteq left[next]
    <3>1. ASSUME next \in Shard
          PROVE  left[next] = Deltas(d[next]) /\ left2[next] = Reported(next)
      BY <1>6, <1>9, <2>5, <3>1
    <3>2. next \in Shard => Reported(next) \subseteq Deltas(d[next])
      BY <1>1, <2>1 DEF Reported, DirtyDiffs
    <3>3. QED
      BY <3>1, <3>2
  <2>8. Within(left2, d)
    BY <2>4, <2>6, <2>7 DEF Within, Differ
  <2>9. ASSUME NEW c \in DirtySide
        PROVE  /\ count[c] <= Cardinality(Gone(d, c, left2))
               /\ \/ count[c] = Cardinality(Gone(d, c, left2))
                  \/ count[MainOf(c)] >= lim[MainOf(c)]
    <3>1. /\ count[c] <= Cardinality(Gone(d, c, left))
          /\ count[c] = Cardinality(Gone(d, c, left)) \/ count[MainOf(c)] >= lim[MainOf(c)]
      BY <2>4 DEF Exact
    <3>2. CASE next \notin Shard
      <4>1. \A i \in Shard : left2[i] = left[i]
        BY <2>6, <3>2 DEF Differ
      <4>2. Gone(d, c, left2) = Gone(d, c, left)
        <5>1. \A y \in Counted(d, c) : y[1] \in Shard
          BY InCounted
        <5>2. QED
          BY <4>1, <5>1 DEF Gone
      <4>3. QED
        BY <3>1, <4>2
    <3>3. CASE next \in Shard /\ ~Dropping(left, left2, next, c)
      <4>1. Gone(d, c, left2) = Gone(d, c, left)
        BY <2>6, <2>7, <3>3, GoneSame
      <4>2. QED
        BY <3>1, <4>1
    <3>4. CASE next \in Shard /\ Dropping(left, left2, next, c)
      <4>1. Cardinality(Gone(d, c, left)) <= Cardinality(Gone(d, c, left2))
        BY <2>6, <2>7, <3>4, GoneLess
      <4>2. PICK x \in left[next] \ left2[next] : c \in CountedIn(x[2])
        BY <3>4 DEF Dropping
      <4>3. x[2] = "untracked" /\ ~(lim["untracked"] > 0)
        BY <1>1, <2>1, <2>7, <3>4, <4>2 DEF Reported, DirtyDiffs
      <4>4. c = "untracked"
        BY <4>2, <4>3 DEF CountedIn, CountedAs, SubCounter
      <4>5. count["untracked"] \in Nat /\ lim["untracked"] \in Nat /\ MainOf(c) = "untracked"
        BY <1>1, <4>4, Mains
      <4>6. Cardinality(Gone(d, c, left)) \in Nat /\ Cardinality(Gone(d, c, left2)) \in Nat
        BY GoneFinite
      <4>7. count[c] <= Cardinality(Gone(d, c, left2))
        BY <3>1, <4>1, <4>4, <4>5, <4>6
      <4>8. count[MainOf(c)] >= lim[MainOf(c)]
        BY <4>3, <4>5
      <4>9. QED
        BY <4>7, <4>8
    <3>5. QED
      BY <3>2, <3>3, <3>4
  <2>10. Exact(count, d, left2, DirtySide, lim)
    BY <2>9 DEF Exact
  <2>11. /\ Within(DirtyTodo', DirtyDiffs(index'))
         /\ Exact(count', DirtyDiffs(index'), DirtyTodo', DirtySide, lim')
    <3>1. PICK n, max : n = count /\ max = lim /\ n = count' /\ max = lim'
      BY <1>2
    <3>2. Exact(n, d, left2, DirtySide, max)
      BY <2>10, <3>1
    <3>3. QED
      BY <2>1, <2>3, <2>8, <3>1, <3>2
  <2>12. QED
    BY <1>4, <2>11 DEF DirtyRight
<1>16. QED
  BY <1>12, <1>13, <1>14, <1>15

(* The steps of the main thread that touch neither the pool nor the        *)
(* counters.                                                               *)
LEMMA NothingRight ==
  ASSUME Control, Right, LookupFails \/ Wait \/ Verify \/ Destroy \/ Destructor
  PROVE  Right'
<1>1. TypeOK /\ count \in [Counter -> Nat] /\ failures \in Nat
  BY Bounds DEF Control, TypeOK
<1>2. CASE LookupFails
  <2>1. failures' = failures + 1
    BY <1>2 DEF LookupFails, MayFail
  <2>2. QED
    BY <1>1, <2>1 DEF Right, NothingFailed
<1>3. CASE Wait \/ Verify \/ Destroy \/ Destructor
  <2>1. /\ pc \in {"wait", "verify", "idle", "destroy"}
        /\ pc' \in {"verify", "blocked", "idle", "destroy", "destroyBlocked", "destroyed"}
        /\ pc' \in Working => pc \in Working
        /\ UNCHANGED <<req, snap, next, head, index, built, count, error, inflight, queue, st, todo,
                       failures>>
    BY <1>3 DEF Wait, Verify, Destroy, Destructor, Working
  <2>2. pc' \in Working => lim' = lim
    BY <1>3 DEF Wait, Verify, Destroy, Destructor, Working
  <2>3. StagedTodo' = StagedTodo /\ DirtyTodo' = DirtyTodo
    BY <2>1, TodoSame
  <2>4. Started' = Started
    <3>1. \A i \in Shard : st'[ThisScan("staged", i)] = "queued" <=> st[ThisScan("staged", i)] = "queued"
      BY <2>1
    <3>2. QED
      BY <2>1, <3>1, StartedSame
  <2>5. CASE lim' = lim
    <3>1. pc' # "dirty" /\ (failures' = 0 => failures = 0)
      BY <2>1
    <3>2. \A t \in Scan : st[t] = "none" /\ st'[t] # "none" =>
             IF t.kind = "staged" THEN head # NoHead ELSE WantsDirty
      BY <2>1
    <3>3. QED
      BY <1>1, <2>1, <2>3, <2>4, <2>5, <3>1, <3>2, RightSame
  <2>6. CASE pc' \notin Working
    <3> SUFFICES ASSUME failures' = 0
                 PROVE  StagedRight' /\ StagedNeedsHead' /\ DirtyRight' /\ OfSnapshot'
      BY DEF Right, NothingFailed
    <3>1. StagedRight /\ StagedNeedsHead
      BY <2>1 DEF Right, NothingFailed
    <3>2. StagedRight'
      <4>1. CASE head = NoHead
        BY <2>1, <4>1 DEF StagedRight
      <4>2. CASE head # NoHead
        BY <1>1, <2>1, <2>3, <2>4, <3>1, <4>2, StagedKept DEF StagedRight
      <4>3. QED
        BY <4>1, <4>2
    <3>3. QED
      BY <2>1, <2>6, <3>1, <3>2 DEF StagedNeedsHead, DirtyRight, OfSnapshot
  <2>7. QED
    BY <2>2, <2>5, <2>6
<1>4. QED
  BY <1>2, <1>3

(* The steps of the pool that count nothing and start nothing.             *)
LEMMA PoolRight ==
  ASSUME Control, Right, UNCHANGED <<req, snap, next, head, index, lim, count, todo>>,
         failures' = 0 => failures = 0, pc' = pc \/ pc' = Notified(pc),
         \A t \in Scan : /\ st'[t] = "queued" <=> st[t] = "queued"
                         /\ st[t] = "none" => st'[t] = "none"
  PROVE  Right'
<1>1. TypeOK /\ (pc' \in Working <=> pc \in Working)
  BY DEF Control, TypeOK, Notified, Working
<1>2. /\ pc' = "staged" <=> pc = "staged"
      /\ pc' = "candidates" <=> pc = "candidates"
      /\ pc' = "dirty" <=> pc = "dirty"
  BY DEF Control, TypeOK, Notified
<1>3. StagedTodo' = StagedTodo /\ DirtyTodo' = DirtyTodo
  BY <1>2, TodoSame
<1>4. CASE req >= 1
  <2>1. req \in 1..MaxReq
    BY <1>1, <1>4, Bounds DEF Control, TypeOK
  <2>2. \A i \in Shard : ThisScan("staged", i) \in Scan
    BY <2>1 DEF ThisScan, Scan
  <2>3. Started' = Started
    BY <1>2, <2>2, StartedSame
  <2>4. QED
    BY <1>1, <1>2, <1>3, <2>3, RightSame DEF Control
<1>5. CASE ~(req >= 1)
  <2> SUFFICES ASSUME failures' = 0
               PROVE  StagedRight' /\ StagedNeedsHead' /\ DirtyRight' /\ OfSnapshot'
    BY DEF Right, NothingFailed
  <2>1. StagedRight /\ StagedNeedsHead
    BY DEF Right, NothingFailed
  <2>2. head = NoHead /\ pc \notin Working
    BY <1>5, <2>1 DEF StagedRight, Control, Placed
  <2>3. QED
    BY <1>1, <2>1, <2>2 DEF StagedRight, StagedNeedsHead, DirtyRight, OfSnapshot
<1>6. QED
  BY <1>4, <1>5

\* A scan that ends has nothing left to report, unless something failed.
LEMMA ScanEndsRight ==
  ASSUME Control, Right, NEW u \in Scan,
         DiffEnds(u) \/ DiffFails(u) \/ DecInflight(u) \/ RecordError(u) \/ MtimeChecked
  PROVE  Right'
<1>1. TypeOK /\ failures \in Nat /\ st \in [Task -> TaskState] /\ u \in Task
  BY Bounds DEF Control, TypeOK, Task
<1>2. CASE DiffEnds(u) \/ DecInflight(u)
  <2>1. /\ UNCHANGED <<req, snap, next, head, index, lim, count, todo, failures>>
        /\ pc' = pc \/ pc' = Notified(pc)
        /\ st[u] \in {"run", "leave", "leaveThrow"}
        /\ \E s \in {"none", "leave", "catch"} : st' = [st EXCEPT ![u] = s]
    BY <1>2 DEF DiffEnds, DecInflight
  <2>2. \A t \in Scan : /\ st'[t] = "queued" <=> st[t] = "queued"
                        /\ st[t] = "none" => st'[t] = "none"
    BY <1>1, <2>1 DEF Task
  <2>3. QED
    BY <2>1, <2>2, PoolRight
<1>3. CASE MtimeChecked
  <2>1. /\ UNCHANGED <<req, snap, next, head, index, lim, count, todo, failures>>
        /\ pc' = Notified(pc) /\ st' = [st EXCEPT ![Mtime] = "none"]
    BY <1>3 DEF MtimeChecked
  <2>2. \A t \in Scan : st'[t] = st[t]
    BY <1>1, <2>1 DEF Task, Scan, Mtime
  <2>3. QED
    BY <2>1, <2>2, PoolRight
<1>4. CASE DiffFails(u)
  <2>1. failures' # 0
    BY <1>1, <1>4 DEF DiffFails, MayFail
  <2>2. QED
    BY <2>1 DEF Right, NothingFailed
<1>5. CASE RecordError(u)
  <2>1. failures' = failures /\ failures # 0
    BY <1>5 DEF RecordError, Control, Quiet, NothingFailed
  <2>2. QED
    BY <2>1 DEF Right, NothingFailed
<1>6. QED
  BY <1>2, <1>3, <1>4, <1>5

\* The flags of one more shard.
LEMMA FlagsMore ==
  ASSUME NEW v \in Version, NEW I \in SUBSET Shard, NEW i \in Shard \ I
  PROVE  Cardinality(FlagsIn(v, I \cup {i})) = Cardinality(FlagsIn(v, I)) + Flagged[<<v, i>>]
<1> DEFINE A == FlagsIn(v, I)
           B == {i} \X (1..Flagged[<<v, i>>])
<1>1. Flagged[<<v, i>>] \in Nat
  BY ScanAssumption
<1>2. FlagsIn(v, I \cup {i}) = A \cup B
  BY DEF FlagsIn
<1>3. A \cap B = {}
  <2>1. \A y \in A : \E j \in I : y \in {j} \X (1..Flagged[<<v, j>>])
    BY DEF FlagsIn
  <2>2. \A y \in A : y[1] # i
    BY <2>1
  <2>3. QED
    BY <2>2
<1>4. IsFiniteSet(A) /\ Cardinality(A) \in Nat
  BY FlagsFinite
<1>5. IsFiniteSet(1..Flagged[<<v, i>>]) /\ Cardinality(1..Flagged[<<v, i>>]) = Flagged[<<v, i>>]
  <2>1. 1 \in Int /\ Flagged[<<v, i>>] \in Int
    BY <1>1
  <2>2. /\ IsFiniteSet(1..Flagged[<<v, i>>])
        /\ Cardinality(1..Flagged[<<v, i>>])
             = IF 1 > Flagged[<<v, i>>] THEN 0 ELSE Flagged[<<v, i>>] - 1 + 1
    BY <2>1, FS_Interval
  <2>3. QED
    BY <1>1, <2>2
<1>6. IsFiniteSet({i}) /\ Cardinality({i}) = 1
  BY FS_Singleton
<1>7. IsFiniteSet(B) /\ Cardinality(B) = Flagged[<<v, i>>]
  <2>1. IsFiniteSet(B) /\ Cardinality(B) = Cardinality({i}) * Cardinality(1..Flagged[<<v, i>>])
    BY <1>5, <1>6, FS_Product
  <2>2. QED
    BY <1>1, <1>5, <1>6, <2>1
<1>8. Cardinality(A \cup B) = Cardinality(A) + Cardinality(B) - Cardinality(A \cap B)
  <2> HIDE DEF A, B
  <2> QED
    BY <1>4, <1>7, FS_Union
<1>9. Cardinality(A \cap B) = 0
  BY <1>3, FS_EmptySet
<1>10. QED
  <2> HIDE DEF A, B
  <2>1. Cardinality(A \cup B) = Cardinality(A) + Flagged[<<v, i>>]
    BY <1>1, <1>4, <1>7, <1>8, <1>9
  <2>2. QED
    BY <1>2, <2>1 DEF A

(* A function of the pool that has started and not finished belongs to the *)
(* request being worked on, and was scheduled by it.                       *)
LEMMA OfThisRequest ==
  ASSUME Control, NothingFailed, NEW u \in Scan, st[u] \in LiveState
  PROVE  /\ pc \in Working /\ req \in 1..MaxReq /\ u = ThisScan(u.kind, u.shard)
         /\ ~Unscheduled(u) /\ u.shard \in Shard /\ index \in Version
<1>1. u.req = req
  BY DEF Control, Quiet, LiveState
<1>2. req \in 1..MaxReq /\ u.shard \in Shard /\ u = ThisScan(u.kind, u.shard)
  BY <1>1 DEF Scan, ThisScan
<1>3. ~Unscheduled(u)
  BY DEF Control, Fresh, LiveState
<1>4. inflight # 0
  BY RestIsQuiet DEF LiveState
<1>5. pc \notin Resting
  BY <1>4 DEF Control, Quiet
<1>6. pc \in Working
  BY <1>5 DEF Control, TypeOK, Resting, Working
<1>7. QED
  BY <1>2, <1>3, <1>6 DEF Control, Placed

\* A staged scan counts the flags of its shard as it begins.
LEMMA StartRight ==
  ASSUME Control, Right, StartTask
  PROVE  Right'
<1> SUFFICES ASSUME failures' = 0 PROVE Right'
  BY DEF Right, NothingFailed
<1>1. /\ TypeOK /\ queue # <<>> /\ queue \in Seq(Task)
      /\ UNCHANGED <<pc, req, snap, next, head, index, built, lim, error, inflight, todo, reply,
                     untrackedCache, failures>>
  BY DEF Control, StartTask, TypeOK
<1>2. PICK u \in Task : u = Head(queue)
  BY <1>1, HeadTailProperties
<1>3. /\ st' = [st EXCEPT ![u] = "run"]
      /\ count' = IF u.kind # "staged" THEN count
                  ELSE [count EXCEPT !["skip_worktree"] = @ + Flagged[<<index, u.shard>>]]
  BY <1>2 DEF StartTask
<1>4. st[u] = "queued"
  <2>1. 1 \in 1..Len(queue) /\ queue[1] = u
    BY <1>1, <1>2, HeadTailProperties, LenProperties
  <2>2. QED
    BY <2>1 DEF Control, InQueue
<1>5. st'[u] = "run" /\ \A t \in Task \ {u} : st'[t] = st[t]
  BY <1>1, <1>3 DEF TypeOK
<1>6. StagedTodo' = StagedTodo /\ DirtyTodo' = DirtyTodo
  BY <1>1, TodoSame
<1>7. NothingFailed /\ StagedRight /\ StagedNeedsHead /\ DirtyRight /\ OfSnapshot
  BY <1>1 DEF Right, NothingFailed
<1>8. CASE u = Mtime
  <2>1. count' = count /\ \A t \in Scan : st'[t] = st[t]
    BY <1>3, <1>5, <1>8 DEF Task, Scan, Mtime
  <2>2. QED
    BY <1>1, <2>1, PoolRight
<1>9. CASE u \in Scan
  <2>1. /\ pc \in Working /\ req \in 1..MaxReq /\ u = ThisScan(u.kind, u.shard)
        /\ ~Unscheduled(u) /\ u.shard \in Shard /\ index \in Version
    BY <1>4, <1>7, <1>9, OfThisRequest DEF LiveState
  <2>2. \A t \in Scan : t # u => st'[t] = st[t]
    BY <1>5 DEF Task
  <2>3. \A i \in Shard : /\ ThisScan("staged", i) \in Scan /\ ThisScan("staged", i).shard = i
                         /\ ThisScan("staged", i).kind = "staged"
                         /\ ThisScan("staged", i)' = ThisScan("staged", i)
    BY <1>1, <2>1 DEF ThisScan, Scan
  <2>4. CASE u.kind # "staged"
    <3>1. \A i \in Shard : st'[ThisScan("staged", i)] = st[ThisScan("staged", i)]
      BY <2>2, <2>3, <2>4
    <3>2. Started' = Started
      BY <1>1, <3>1, StartedSame
    <3>3. count' = count
      BY <1>3, <2>4
    <3>4. \A t \in Scan : st[t] = "none" /\ st'[t] # "none" =>
             IF t.kind = "staged" THEN head # NoHead ELSE WantsDirty
      BY <1>4, <2>2
    <3>5. QED
      BY <1>1, <1>6, <3>2, <3>3, <3>4, RightSame
  <2>5. CASE u.kind = "staged"
    <3>1. PICK i \in Shard : i = u.shard
      BY <2>1
    <3>2. head # NoHead /\ req >= 1
      BY <1>4, <1>7, <1>9, <2>1, <2>5 DEF StagedNeedsHead
    <3>3. Flagged[<<index, i>>] \in Nat /\ count["skip_worktree"] \in Nat /\ count \in [Counter -> Nat]
      BY <1>1, <2>1, ScanAssumption DEF TypeOK, Counter, StagedSide
    <3>4. count' = [count EXCEPT !["skip_worktree"] = count["skip_worktree"] + Flagged[<<index, i>>]]
      BY <1>3, <2>5, <3>1
    <3>5. /\ count' \in [Counter -> Nat]
          /\ count'["skip_worktree"] = count["skip_worktree"] + Flagged[<<index, i>>]
          /\ \A c \in HeadSide : count'[c] = count[c]
          /\ \A c \in DirtySide : count'[c] = count[c]
      <4>1. count["skip_worktree"] + Flagged[<<index, i>>] \in Nat
        BY <3>3
      <4>2. count' \in [Counter -> Nat]
        BY <3>3, <3>4, <4>1
      <4>3. QED
        BY <3>3, <3>4, <4>2 DEF Counter, HeadSide, StagedSide, DirtySide
    <3>6. u = ThisScan("staged", i) /\ ~(pc = "staged" /\ i >= next)
      BY <2>1, <2>5, <3>1 DEF Unscheduled, ThisScan
    <3>7. Started' = Started \cup {i} /\ i \in Shard \ Started /\ Started \in SUBSET Shard
      <4>1. \A j \in Shard : j # i => st'[ThisScan("staged", j)] = st[ThisScan("staged", j)]
        BY <2>2, <2>3, <3>6
      <4>2. st'[ThisScan("staged", i)] = "run" /\ st[ThisScan("staged", i)] = "queued"
        BY <1>4, <1>5, <3>6
      <4>3. QED
        BY <1>1, <2>3, <3>6, <4>1, <4>2 DEF Started
    <3>8. count'["skip_worktree"] = Cardinality(FlagsIn(index', Started'))
      <4>1. Cardinality(FlagsIn(index, Started \cup {i})) =
              Cardinality(FlagsIn(index, Started)) + Flagged[<<index, i>>]
        BY <2>1, <3>7, FlagsMore
      <4>2. count["skip_worktree"] = Cardinality(FlagsIn(index, Started))
        BY <1>7, <3>2 DEF StagedRight
      <4>3. QED
        BY <1>1, <3>5, <3>7, <4>1, <4>2
    <3>9. StagedRight'
      <4>1. PICK n \in [Counter -> Nat] : n = count'
        BY <3>5
      <4>2. /\ Exact(count, StagedDiffs(head, index), StagedTodo, HeadSide, Limit)
            /\ Within(StagedTodo, StagedDiffs(head, index))
        BY <1>7, <3>2 DEF StagedRight
      <4>3. \A c \in HeadSide : n[c] = count[c]
        BY <3>5, <4>1
      <4>4. Exact(n, StagedDiffs(head, index), StagedTodo, HeadSide, Limit)
        BY <1>1, <4>2, <4>3, ExactSame
      <4>5. /\ Exact(count', StagedDiffs(head', index'), StagedTodo', HeadSide, Limit)
            /\ Within(StagedTodo', StagedDiffs(head', index'))
        BY <1>1, <1>6, <4>1, <4>2, <4>4
      <4>6. QED
        BY <1>1, <3>2, <3>8, <4>5 DEF StagedRight
    <3>10. StagedNeedsHead'
      BY <1>1, <3>2 DEF StagedNeedsHead
    <3>11. DirtyRight'
      <4>1. ASSUME ~WantsDirty
            PROVE  pc' # "dirty" /\ \A t \in Scan : t.kind = "dirty" => st'[t] = "none"
        BY <1>1, <1>7, <2>1, <2>2, <2>5, <4>1 DEF DirtyRight
      <4>2. QED
        BY <1>1, <1>6, <1>7, <3>5, <4>1, DirtyKept
    <3>12. OfSnapshot'
      BY <1>1, <1>7, <3>2, SnapshotKept
    <3>13. QED
      BY <3>9, <3>10, <3>11, <3>12 DEF Right
  <2>6. QED
    BY <2>4, <2>5
<1>10. QED
  BY <1>8, <1>9 DEF Task

\* Limits of the HEAD diff that are not both zero are those of the options.
LEMMA LimitsShown ==
  ASSUME NEW s, ~NoStagedLimits(s), NEW m \in {"staged", "conflicted"}
  PROVE  LimitsFor(s)[m] = Limit[m]
BY DEF NoStagedLimits, LimitsFor, Main

\* A delta is counted, and what OnDelta drops is no longer wanted.
LEMMA DeltaRight ==
  ASSUME Control, Right, NEW u \in Scan, Delta(u)
  PROVE  Right'
<1> SUFFICES ASSUME failures' = 0
             PROVE  StagedRight' /\ StagedNeedsHead' /\ DirtyRight' /\ OfSnapshot'
  BY DEF Right, NothingFailed
<1>1. /\ TypeOK /\ st[u] = "run" /\ st[u] \in LiveState
      /\ count \in [Counter -> Nat] /\ lim \in [Main -> Nat]
      /\ todo \in [Scan -> SUBSET (Nat \X Status)]
      /\ UNCHANGED <<pc, req, snap, next, head, index, built, lim, error, inflight, queue, st, reply,
                     untrackedCache, failures>>
  BY DEF Control, Delta, TypeOK, LiveState
<1>2. NothingFailed /\ ~error /\ StagedRight /\ StagedNeedsHead /\ DirtyRight /\ OfSnapshot
  BY <1>1 DEF Right, NothingFailed, Control, Quiet
<1>3. /\ pc \in Working /\ req \in 1..MaxReq /\ u = ThisScan(u.kind, u.shard)
      /\ ~Unscheduled(u) /\ u.shard \in Shard /\ index \in Version
  BY <1>1, <1>2, OfThisRequest
<1>4. PICK x \in todo[u] :
        /\ count' = Increments(x[2])
        /\ todo' = [todo EXCEPT ![u] = OnDelta(x[2], count', todo[u] \ {x})]
  BY <1>2 DEF Delta, NextDelta
<1>5. PICK n \in [Counter -> Nat] : n = count' /\ n = Increments(x[2])
  BY <1>1, <1>4, IncrementsType
<1>6. \A c \in Counter : n[c] = IF c \in CountedIn(x[2]) THEN count[c] + 1 ELSE count[c]
  BY <1>1, <1>5, IncrementsType
<1>7. PICK i \in Shard : i = u.shard
  BY <1>3
<1>8. /\ todo'[u] = OnDelta(x[2], n, todo[u] \ {x}) /\ \A t \in Scan \ {u} : todo'[t] = todo[t]
      /\ todo'[u] \subseteq todo[u] /\ todo[u] \subseteq Nat \X Status
      /\ x[2] \in Status
  <2>1. todo'[u] = OnDelta(x[2], n, todo[u] \ {x}) /\ \A t \in Scan \ {u} : todo'[t] = todo[t]
    BY <1>1, <1>4, <1>5
  <2>2. OnDelta(x[2], n, todo[u] \ {x}) \subseteq todo[u] \ {x}
    BY OnDeltaLess
  <2>3. todo[u] \subseteq Nat \X Status
    BY <1>1
  <2>4. x[2] \in Status
    BY <2>3
  <2>5. todo'[u] \subseteq todo[u]
    BY <2>1, <2>2
  <2>6. QED
    BY <2>1, <2>3, <2>4, <2>5
<1>9. \A k \in {"staged", "dirty"}, j \in Shard :
        /\ ThisScan(k, j) \in Scan /\ ThisScan(k, j).shard = j /\ ThisScan(k, j).kind = k
        /\ ThisScan(k, j)' = ThisScan(k, j)
  BY <1>1, <1>3 DEF ThisScan, Scan
<1>10. Started' = Started
  BY <1>1, StartedSame
<1>11. CASE u.kind = "staged"
  <2>1. u = ThisScan("staged", i) /\ ~(pc = "staged" /\ i >= next)
    BY <1>3, <1>7, <1>11 DEF Unscheduled, ThisScan
  <2>2. head # NoHead /\ head \in Oid /\ req >= 1
    BY <1>1, <1>2, <1>3, <1>11 DEF StagedNeedsHead, TypeOK
  <2>3. PICK d \in Diffs : d = StagedDiffs(head, index) /\ d = StagedDiffs(head', index')
    BY <1>1, <1>3, <2>2, DiffsType
  <2>4. PICK left : left = StagedTodo
    OBVIOUS
  <2>5. PICK left2 : left2 = StagedTodo'
    OBVIOUS
  <2>6. Within(left, d) /\ Exact(count, d, left, HeadSide, Limit)
    BY <1>2, <2>2, <2>3, <2>4 DEF StagedRight
  <2>7. left[i] = todo[u] /\ left2[i] = todo'[u]
    BY <1>1, <1>9, <2>1, <2>4, <2>5 DEF StagedTodo
  <2>8. \A j \in Shard : j # i => todo'[ThisScan("staged", j)] = todo[ThisScan("staged", j)]
    BY <1>8, <1>9, <2>1
  <2>9. Differ(left, left2, i)
    BY <1>1, <1>9, <2>3, <2>4, <2>5, <2>8 DEF Differ, StagedTodo
  <2>10. x \in left[i] /\ left[i] \subseteq Nat \X Status /\ left2[i] \subseteq left[i]
         /\ left2[i] = OnDelta(x[2], n, left[i] \ {x})
    BY <1>8, <2>7
  <2>11. x[2] \in HeadStatus
    <3>1. x \in Deltas(StagedDiffs(head, index)[i])
      BY <2>3, <2>6, <2>10 DEF Within
    <3>2. QED
      BY <1>3, <2>2, <3>1, DiffsType
  <2>12. /\ {CountedAs(x[2]), Partner(CountedAs(x[2]))} = {"staged", "conflicted"}
         /\ CountedIn(x[2]) \subseteq HeadSide
    BY <1>8, <2>11, CountedWith
  <2>13. \A m \in {"staged", "conflicted"} : lim[m] = Limit[m]
    <3>1. lim = LimitsFor(snap) /\ ~NoStagedLimits(snap)
      BY <1>2, <1>3, <2>2 DEF OfSnapshot
    <3>2. QED
      BY <3>1, LimitsShown
  <2>14. \A c \in HeadSide : /\ MainOf(c) \in {CountedAs(x[2]), Partner(CountedAs(x[2]))}
                             /\ lim[MainOf(c)] = Limit[MainOf(c)]
    BY <2>12, <2>13, Mains
  <2>15. Exact(n, d, left2, HeadSide, Limit)
    <3>1. HeadSide \in {HeadSide, DirtySide}
      OBVIOUS
    <3>2. QED
      BY <1>1, <1>5, <2>6, <2>9, <2>10, <2>14, <3>1, ExactDelta
  <2>16. Within(left2, d)
    BY <2>6, <2>9, <2>10 DEF Within, Differ
  <2>17. count'["skip_worktree"] = count["skip_worktree"]
    BY <1>5, <1>6, <2>12 DEF HeadSide, Counter, StagedSide
  <2>18. StagedRight'
    <3>1. count["skip_worktree"] = Cardinality(FlagsIn(index, Started))
      BY <1>2, <2>2 DEF StagedRight
    <3>2. count'["skip_worktree"] = Cardinality(FlagsIn(index', Started'))
      BY <1>1, <1>10, <2>17, <3>1
    <3>3. /\ Exact(count', StagedDiffs(head', index'), StagedTodo', HeadSide, Limit)
          /\ Within(StagedTodo', StagedDiffs(head', index'))
      BY <1>5, <2>3, <2>5, <2>15, <2>16
    <3>4. QED
      BY <1>1, <2>2, <3>2, <3>3 DEF StagedRight
  <2>19. \A c \in DirtySide : count'[c] = count[c]
    BY <1>5, <1>6, <2>12 DEF HeadSide, StagedSide, DirtySide, Counter
  <2>20. DirtyTodo' = DirtyTodo
    <3>1. \A j \in Shard : todo'[ThisScan("dirty", j)] = todo[ThisScan("dirty", j)]
      BY <1>8, <1>9, <1>11
    <3>2. QED
      BY <1>1, <1>9, <3>1 DEF DirtyTodo
  <2>21. DirtyRight'
    <3>1. ASSUME ~WantsDirty
          PROVE  pc' # "dirty" /\ \A t \in Scan : t.kind = "dirty" => st'[t] = "none"
      BY <1>1, <1>2, <1>3, <3>1 DEF DirtyRight
    <3>2. count' \in [Counter -> Nat]
      BY <1>5
    <3>3. QED
      BY <1>1, <1>2, <2>19, <2>20, <3>1, <3>2, DirtyKept
  <2>22. OfSnapshot'
    BY <1>1, <1>2, <2>2, SnapshotKept
  <2>23. StagedNeedsHead'
    BY <1>1, <2>2 DEF StagedNeedsHead
  <2>24. QED
    BY <2>18, <2>21, <2>22, <2>23
<1>12. CASE u.kind = "dirty"
  <2>1. /\ u = ThisScan("dirty", i) /\ pc \notin {"staged", "candidates"}
        /\ ~(pc = "dirty" /\ i >= next)
    BY <1>3, <1>7, <1>12 DEF Unscheduled, ThisScan
  <2>2. WantsDirty /\ WantsDirty'
    <3>1. WantsDirty
      BY <1>1, <1>2, <1>3, <1>12 DEF DirtyRight
    <3>2. QED
      BY <1>1, <3>1 DEF WantsDirty
  <2>3. PICK d \in Diffs : d = DirtyDiffs(index) /\ d = DirtyDiffs(index')
    BY <1>1, <1>3, DiffsType
  <2>4. PICK left : left = DirtyTodo
    OBVIOUS
  <2>5. PICK left2 : left2 = DirtyTodo'
    OBVIOUS
  <2>6. Within(left, d) /\ Exact(count, d, left, DirtySide, lim)
    BY <1>2, <1>3, <2>2, <2>3, <2>4 DEF DirtyRight
  <2>7. left[i] = todo[u] /\ left2[i] = todo'[u]
    BY <1>1, <1>9, <2>1, <2>4, <2>5 DEF DirtyTodo
  <2>8. \A j \in Shard : j # i => todo'[ThisScan("dirty", j)] = todo[ThisScan("dirty", j)]
    BY <1>8, <1>9, <2>1
  <2>9. Differ(left, left2, i)
    BY <1>1, <1>9, <2>3, <2>4, <2>5, <2>8 DEF Differ, DirtyTodo
  <2>10. x \in left[i] /\ left[i] \subseteq Nat \X Status /\ left2[i] \subseteq left[i]
         /\ left2[i] = OnDelta(x[2], n, left[i] \ {x})
    BY <1>8, <2>7
  <2>11. x[2] \in WorkStatus
    <3>1. x \in Deltas(DirtyDiffs(index)[i])
      BY <2>3, <2>6, <2>10 DEF Within
    <3>2. QED
      BY <1>3, <3>1, DiffsType
  <2>12. /\ {CountedAs(x[2]), Partner(CountedAs(x[2]))} = {"unstaged", "untracked"}
         /\ CountedIn(x[2]) \subseteq DirtySide
    BY <1>8, <2>11, CountedWith
  <2>13. PICK max : max = lim /\ max = lim'
    BY <1>1
  <2>14. \A c \in DirtySide : /\ MainOf(c) \in {CountedAs(x[2]), Partner(CountedAs(x[2]))}
                              /\ lim[MainOf(c)] = max[MainOf(c)]
    BY <2>12, <2>13, Mains
  <2>15. Exact(n, d, left2, DirtySide, max)
    <3>1. Exact(count, d, left, DirtySide, max) /\ DirtySide \in {HeadSide, DirtySide}
      BY <2>6, <2>13
    <3>2. QED
      BY <1>1, <1>5, <2>6, <2>9, <2>10, <2>14, <3>1, ExactDelta
  <2>16. Within(left2, d)
    BY <2>6, <2>9, <2>10 DEF Within, Differ
  <2>17. DirtyRight'
    <3>1. /\ Exact(count', DirtyDiffs(index'), DirtyTodo', DirtySide, lim')
          /\ Within(DirtyTodo', DirtyDiffs(index'))
      BY <1>5, <2>3, <2>5, <2>13, <2>15, <2>16
    <3>2. QED
      BY <2>2, <3>1 DEF DirtyRight
  <2>18. \A c \in StagedSide : count'[c] = count[c]
    BY <1>5, <1>6, <2>12 DEF StagedSide, DirtySide, Counter
  <2>19. StagedTodo' = StagedTodo
    <3>1. \A j \in Shard : todo'[ThisScan("staged", j)] = todo[ThisScan("staged", j)]
      BY <1>8, <1>9, <1>12
    <3>2. QED
      BY <1>1, <1>9, <3>1 DEF StagedTodo
  <2>20. StagedRight'
    <3>1. count' \in [Counter -> Nat]
      BY <1>5
    <3>2. CASE head = NoHead
      BY <1>1, <3>2 DEF StagedRight
    <3>3. CASE head # NoHead
      BY <1>1, <1>2, <1>10, <2>18, <2>19, <3>1, <3>3, StagedKept DEF StagedRight
    <3>4. QED
      BY <3>2, <3>3
  <2>21. OfSnapshot'
    BY <1>1, <1>2, <2>18, SnapshotKept
  <2>22. StagedNeedsHead'
    BY <1>1, <1>2 DEF StagedNeedsHead
  <2>23. QED
    BY <2>17, <2>20, <2>21, <2>22
<1>13. QED
  BY <1>11, <1>12 DEF Scan

\* Nothing is counted at first.
LEMMA InitRight ==
  ASSUME Init
  PROVE  Right
<1>1. head = NoHead /\ pc = "idle" /\ \A t \in Scan : st[t] = "none"
  BY DEF Init, Task, Scan, Mtime
<1>2. QED
  BY <1>1 DEF Right, StagedRight, StagedNeedsHead, DirtyRight, OfSnapshot, Working

\* Every step keeps Right.
LEMMA NextRight ==
  ASSUME Control, Right, [Next]_vars, Control'
  PROVE  Right'
<1>1. CASE UNCHANGED vars
  <2>1. UNCHANGED <<req, snap, next, head, index, lim, count, todo, st, failures, pc>>
    BY <1>1 DEF vars
  <2>2. QED
    BY <2>1, PoolRight
<1>2. CASE \E s \in Snapshot : GetIndexStats(s)
  BY <1>2, GetRight
<1>3. CASE MainStep \/ Destroy
  BY <1>3, StagedScanRight, CandidatesRight, DirtyScanRight, NothingRight DEF MainStep
<1>4. CASE StartTask
  BY <1>4, StartRight
<1>5. CASE MtimeChecked
  <2>1. CASE \E u : u \in Scan
    BY <1>5, <2>1, ScanEndsRight
  <2>2. CASE Scan = {}
    <3>1. UNCHANGED <<req, snap, next, head, index, lim, count, todo, failures>> /\ pc' = Notified(pc)
      BY <1>5 DEF MtimeChecked
    <3>2. QED
      BY <2>2, <3>1, PoolRight
  <2>3. QED
    BY <2>1, <2>2
<1>6. CASE \E t \in Scan : TaskStep(t)
  BY <1>6, DeltaRight, ScanEndsRight DEF TaskStep
<1>7. QED
  BY <1>1, <1>2, <1>3, <1>4, <1>5, <1>6 DEF Next

-----------------------------------------------------------------------------
(* The answer.                                                             *)

\* A sub-counter counts no more than the counter it belongs to.
LEMMA CountedMore ==
  ASSUME NEW diffs \in Diffs, NEW c \in Counter, MainOf(c) \in Main, c # "skip_worktree"
  PROVE  Cardinality(Counted(diffs, c)) <= Cardinality(Counted(diffs, MainOf(c)))
<1>1. ASSUME NEW d \in Status, c \in CountedIn(d) PROVE MainOf(c) \in CountedIn(d)
  BY <1>1, CountedWith DEF CountedIn
<1>2. \A i \in Shard : \A x \in Deltas(diffs[i]) : x[2] \in Status
  BY LenProperties DEF Deltas, Diffs
<1>3. Counted(diffs, c) \in SUBSET Counted(diffs, MainOf(c))
  <2>1. ASSUME NEW y \in Counted(diffs, c) PROVE y \in Counted(diffs, MainOf(c))
    <3>1. PICK i \in Shard : \E x \in Deltas(diffs[i]) : y = <<i, x>> /\ c \in CountedIn(x[2])
      BY InCounted
    <3>2. PICK x \in Deltas(diffs[i]) : y = <<i, x>> /\ c \in CountedIn(x[2])
      BY <3>1
    <3>3. MainOf(c) \in CountedIn(x[2])
      BY <1>1, <1>2, <3>2
    <3>4. QED
      BY <3>2, <3>3, InCounted
  <2>2. QED
    BY <2>1
<1>4. QED
  BY <1>3, CountedFinite, FS_Subset

\* What is true of the repository is a number.
LEMMA TrueCountType ==
  ASSUME TypeOK, NEW c \in Counter
  PROVE  TrueCount(c) \in Nat
<1>1. snap.index \in Version /\ snap.head \in Oid \cup {NoHead}
  BY DEF TypeOK, Snapshot
<1>2. AllFlagged(snap.index) \in Nat /\ Entries[snap.index] \in Nat
  <2>1. Shard \in SUBSET Shard
    OBVIOUS
  <2>2. QED
    BY <1>1, <2>1, FlagsFinite, ScanAssumption DEF AllFlagged
<1>3. Cardinality(Counted(DirtyDiffs(snap.index), c)) \in Nat
  BY <1>1, DiffsType, CountedFinite
<1>4. snap.head # NoHead => Cardinality(Counted(StagedDiffs(snap.head, snap.index), c)) \in Nat
  BY <1>1, DiffsType, CountedFinite
<1>5. QED
  BY <1>2, <1>3, <1>4 DEF TrueCount

(* A counter never has to show more than the counter it is a part of.      *)
LEMMA TrueCountMore ==
  ASSUME TypeOK, NEW c \in Counter \ {"skip_worktree"}
  PROVE  TrueCount(c) <= TrueCount(MainOf(c))
<1>1. PICK m : m = MainOf(c)
  OBVIOUS
<1>2. snap.index \in Version /\ snap.head \in Oid \cup {NoHead} /\ Entries[snap.index] \in Nat
  BY ScanAssumption DEF TypeOK, Snapshot
<1>3. CASE c \in DirtySide
  <2>1. /\ m \in {"unstaged", "untracked"} /\ m \in Main /\ m \in DirtySide /\ m # "skip_worktree"
        /\ c # "skip_worktree"
    BY <1>1, <1>3, Mains DEF DirtySide
  <2>2. Cardinality(Counted(DirtyDiffs(snap.index), c)) <= Cardinality(Counted(DirtyDiffs(snap.index), m))
    BY <1>1, <1>2, <2>1, DiffsType, CountedMore
  <2>3. QED
    BY <1>1, <1>3, <2>1, <2>2 DEF TrueCount
<1>4. CASE c \in HeadSide
  <2>1. /\ m \in {"staged", "conflicted"} /\ m \in Main /\ m \notin DirtySide /\ m # "skip_worktree"
        /\ c # "skip_worktree" /\ c \notin DirtySide
    BY <1>1, <1>4, Mains DEF DirtySide, HeadSide, StagedSide
  <2>2. CASE snap.head # NoHead
    <3>1. Cardinality(Counted(StagedDiffs(snap.head, snap.index), c))
            <= Cardinality(Counted(StagedDiffs(snap.head, snap.index), m))
      BY <1>1, <1>2, <2>1, <2>2, DiffsType, CountedMore
    <3>2. QED
      BY <1>1, <2>1, <2>2, <3>1 DEF TrueCount
  <2>3. CASE snap.head = NoHead
    <3>1. c \in {"staged", "staged_new"} => m = "staged"
      BY <1>1 DEF MainOf, Main
    <3>2. /\ TrueCount(c) = IF c \in {"staged", "staged_new"} THEN Entries[snap.index] ELSE 0
          /\ TrueCount(m) = IF m \in {"staged", "staged_new"} THEN Entries[snap.index] ELSE 0
      BY <2>1, <2>3 DEF TrueCount
    <3>3. QED
      BY <1>1, <1>2, <3>1, <3>2
  <2>4. QED
    BY <2>2, <2>3
<1>5. QED
  BY <1>3, <1>4 DEF Counter, HeadSide

\* When nothing is left to report, all is gone.
LEMMA GoneAll ==
  ASSUME NEW diffs, NEW c, NEW left, \A i \in Shard : left[i] = {}
  PROVE  Gone(diffs, c, left) = Counted(diffs, c)
<1>1. \A y \in Counted(diffs, c) : y[1] \in Shard
  BY InCounted
<1>2. QED
  BY <1>1 DEF Gone

(* When Wait has returned, every counter is right up to its limit.         *)
LEMMA AllCounted ==
  ASSUME Control, Right, NothingFailed, pc = "verify"
  PROVE  /\ index = snap.index /\ lim = LimitsFor(snap)
         /\ \A c \in Counter \ {"skip_worktree"} :
              /\ count[c] <= TrueCount(c)
              /\ count[c] = TrueCount(c) \/ count[MainOf(c)] >= lim[MainOf(c)]
         /\ NoStagedLimits(snap) \/ count["skip_worktree"] = TrueCount("skip_worktree")
<1>1. /\ TypeOK /\ pc \in Working /\ req \in 1..MaxReq /\ index \in Version
      /\ count \in [Counter -> Nat] /\ lim \in [Main -> Nat]
      /\ head \in Oid \cup {NoHead} /\ snap \in Snapshot
  BY Bounds DEF Control, Placed, Working, TypeOK
<1>2. StagedRight /\ DirtyRight /\ OfSnapshot
  BY DEF Right
<1>3. /\ index = snap.index /\ lim = LimitsFor(snap)
      /\ head = (IF NoStagedLimits(snap) THEN NoHead ELSE snap.head)
  BY <1>1, <1>2 DEF OfSnapshot
<1>4. \A t \in Scan : st[t] = "none" /\ todo[t] = {}
  <2>1. inflight = 0
    BY DEF Control, Quiet, Resting
  <2>2. QED
    BY <2>1, RestIsQuiet
<1>5. \A i \in Shard : StagedTodo[i] = {} /\ DirtyTodo[i] = {}
  <2>1. \A k \in {"staged", "dirty"}, i \in Shard : ThisScan(k, i) \in Scan
    BY <1>1 DEF ThisScan, Scan
  <2>2. QED
    BY <1>4, <2>1 DEF StagedTodo, DirtyTodo
<1>6. Started = Shard
  <2>1. \A i \in Shard : ThisScan("staged", i) \in Scan
    BY <1>1 DEF ThisScan, Scan
  <2>2. QED
    BY <1>4, <2>1 DEF Started
<1>7. \A c \in Counter : count[c] \in Nat /\ TrueCount(c) \in Nat
  BY <1>1, TrueCountType
<1>8. ASSUME NEW c \in DirtySide
      PROVE  /\ count[c] <= TrueCount(c)
             /\ count[c] = TrueCount(c) \/ count[MainOf(c)] >= lim[MainOf(c)]
  <2>1. /\ c \in Counter /\ c # "skip_worktree"
        /\ MainOf(c) \in {"unstaged", "untracked"} /\ MainOf(c) \in DirtySide
    BY Mains DEF DirtySide
  <2>2. TrueCount(c) = IF index \notin SmallIndex THEN 0 ELSE Cardinality(Counted(DirtyDiffs(index), c))
    BY <1>3, <2>1 DEF TrueCount
  <2>3. CASE WantsDirty
    <3>1. Exact(count, DirtyDiffs(index), DirtyTodo, DirtySide, lim)
      BY <1>1, <1>2, <2>3 DEF DirtyRight
    <3>2. Gone(DirtyDiffs(index), c, DirtyTodo) = Counted(DirtyDiffs(index), c)
      BY <1>5, GoneAll
    <3>3. index \in SmallIndex
      BY <2>3 DEF WantsDirty
    <3>4. QED
      BY <2>2, <3>1, <3>2, <3>3 DEF Exact
  <2>4. CASE ~WantsDirty
    <3>1. count[c] = 0 /\ count[MainOf(c)] = 0
      BY <1>1, <1>2, <2>1, <2>4 DEF DirtyRight
    <3>2. CASE index \notin SmallIndex
      BY <2>2, <3>1, <3>2
    <3>3. CASE index \in SmallIndex
      <4>1. lim["unstaged"] \in Nat /\ lim["untracked"] \in Nat
        BY <1>1 DEF Main
      <4>2. lim["unstaged"] = 0 /\ lim["untracked"] = 0
        BY <2>4, <3>3, <4>1 DEF WantsDirty
      <4>3. count[MainOf(c)] >= lim[MainOf(c)]
        BY <2>1, <3>1, <4>2
      <4>4. QED
        BY <1>7, <2>1, <3>1, <4>3
    <3>4. QED
      BY <3>2, <3>3
  <2>5. QED
    BY <2>3, <2>4
<1>9. ASSUME NEW c \in HeadSide
      PROVE  /\ count[c] <= TrueCount(c)
             /\ count[c] = TrueCount(c) \/ count[MainOf(c)] >= lim[MainOf(c)]
  <2>1. /\ c \in Counter /\ c # "skip_worktree" /\ MainOf(c) \in {"staged", "conflicted"}
        /\ MainOf(c) \in StagedSide /\ c \notin DirtySide /\ c \in StagedSide
    BY Mains DEF DirtySide, StagedSide, HeadSide
  <2>2. CASE NoStagedLimits(snap)
    <3>1. \A x \in StagedSide : count[x] = 0
      BY <1>1, <1>2, <1>3, <2>2 DEF OfSnapshot, Known
    <3>2. lim["staged"] = 0 /\ lim["conflicted"] = 0
      BY <1>3, <2>2 DEF NoStagedLimits
    <3>3. count[c] = 0 /\ count[MainOf(c)] >= lim[MainOf(c)]
      BY <2>1, <3>1, <3>2
    <3>4. QED
      BY <1>7, <2>1, <3>3
  <2>3. CASE ~NoStagedLimits(snap) /\ head = NoHead
    <3>1. snap.head = NoHead
      BY <1>3, <2>3
    <3>2. TrueCount(c) = IF c \in {"staged", "staged_new"} THEN Entries[index] ELSE 0
      BY <1>3, <2>1, <3>1 DEF TrueCount
    <3>3. count[c] = Known(c)
      BY <1>1, <1>2, <2>1, <2>3 DEF OfSnapshot
    <3>4. Known(c) = IF c \in {"staged", "staged_new"} THEN Entries[index] ELSE 0
      <4>1. CASE c \in {"staged", "staged_new"}
        BY <2>3, <4>1 DEF Known
      <4>2. CASE c \notin {"staged", "staged_new"}
        BY <2>1, <2>3, <4>2 DEF Known
      <4>3. QED
        BY <4>1, <4>2
    <3>5. count[c] = TrueCount(c) /\ count[c] \in Nat
      BY <1>7, <2>1, <3>2, <3>3, <3>4
    <3>6. QED
      BY <3>5
  <2>4. CASE ~NoStagedLimits(snap) /\ head # NoHead
    <3>1. snap.head = head
      BY <1>3, <2>4
    <3>2. TrueCount(c) = Cardinality(Counted(StagedDiffs(head, index), c))
      BY <1>3, <2>1, <2>4, <3>1 DEF TrueCount
    <3>3. Exact(count, StagedDiffs(head, index), StagedTodo, HeadSide, Limit)
      BY <1>2, <2>4 DEF StagedRight
    <3>4. Gone(StagedDiffs(head, index), c, StagedTodo) = Counted(StagedDiffs(head, index), c)
      BY <1>5, GoneAll
    <3>5. lim[MainOf(c)] = Limit[MainOf(c)]
      BY <1>3, <2>1, <2>4, LimitsShown
    <3>6. QED
      BY <3>2, <3>3, <3>4, <3>5 DEF Exact
  <2>5. QED
    BY <2>2, <2>3, <2>4
<1>10. NoStagedLimits(snap) \/ count["skip_worktree"] = TrueCount("skip_worktree")
  <2>1. TrueCount("skip_worktree") = AllFlagged(index)
    BY <1>3 DEF TrueCount
  <2>2. CASE ~NoStagedLimits(snap) /\ head = NoHead
    <3>1. Known("skip_worktree") = AllFlagged(index)
      BY <2>2 DEF Known
    <3>2. count["skip_worktree"] = Known("skip_worktree")
      BY <1>1, <1>2, <2>2 DEF OfSnapshot, StagedSide
    <3>3. QED
      BY <2>1, <3>1, <3>2
  <2>3. CASE ~NoStagedLimits(snap) /\ head # NoHead
    BY <1>2, <1>6, <2>1, <2>3 DEF StagedRight, AllFlagged
  <2>4. QED
    BY <2>2, <2>3
<1>11. QED
  BY <1>3, <1>8, <1>9, <1>10 DEF Counter, HeadSide

(* What the answer shows of a counter is what the request should see.      *)
LEMMA ResultExpected ==
  ASSUME Control, Right, NothingFailed, pc = "verify"
  PROVE  /\ \A m \in Main : Result[m] \in Expected(m, m)
         /\ Result["staged_new"] \in Expected("staged_new", "staged")
         /\ Result["staged_deleted"] \in Expected("staged_deleted", "staged")
         /\ Result["unstaged_deleted"] \in Expected("unstaged_deleted", "unstaged")
         /\ NoStagedLimits(snap) \/ Result["skip_worktree"] = TrueCount("skip_worktree")
<1>1. /\ TypeOK /\ count \in [Counter -> Nat] /\ lim \in [Main -> Nat]
      /\ lim = LimitsFor(snap)
  BY AllCounted DEF Control, TypeOK
<1>2. PICK true \in [Counter -> Nat] : \A c \in Counter : true[c] = TrueCount(c)
  <2>1. [c \in Counter |-> TrueCount(c)] \in [Counter -> Nat]
    BY <1>1, TrueCountType
  <2>2. QED
    BY <2>1
<1>3. PICK n \in [Counter -> Nat], max \in [Main -> Nat] : n = count /\ max = lim
  BY <1>1
<1>4. \A c \in Counter \ {"skip_worktree"} :
        /\ MainOf(c) \in Main /\ MainOf(c) \in Counter \ {"skip_worktree"}
        /\ MainOf(MainOf(c)) = MainOf(c)
        /\ n[c] <= true[c] /\ (n[c] = true[c] \/ n[MainOf(c)] >= max[MainOf(c)])
        /\ true[c] <= true[MainOf(c)]
  <2>1. \A c \in Counter \ {"skip_worktree"} :
          /\ MainOf(c) \in Main /\ MainOf(c) \in Counter \ {"skip_worktree"}
          /\ MainOf(MainOf(c)) = MainOf(c)
    BY DEF MainOf, Main, Counter, StagedSide, DirtySide
  <2>2. QED
    BY <1>1, <1>2, <1>3, <2>1, AllCounted, TrueCountMore
<1>5. ASSUME NEW c \in Counter \ {"skip_worktree"}
      PROVE  /\ AtMost(n[MainOf(c)], max[MainOf(c)]) = AtMost(true[MainOf(c)], max[MainOf(c)])
             /\ AtMost(n[c], AtMost(n[MainOf(c)], max[MainOf(c)])) \in
                  IF true[MainOf(c)] < max[MainOf(c)] THEN {AtMost(true[c], max[MainOf(c)])}
                  ELSE 0..max[MainOf(c)]
  <2>1. PICK m \in Main : m = MainOf(c) /\ m \in Counter \ {"skip_worktree"} /\ MainOf(m) = m
    BY <1>4
  <2>2. /\ n[c] <= true[c] /\ (n[c] = true[c] \/ n[m] >= max[m])
        /\ n[m] <= true[m] /\ (n[m] = true[m] \/ n[m] >= max[m])
        /\ true[c] <= true[m]
    BY <1>4, <2>1
  <2>3. n[c] \in Nat /\ true[c] \in Nat /\ n[m] \in Nat /\ true[m] \in Nat /\ max[m] \in Nat
    BY <2>1
  <2>4. AtMost(n[m], max[m]) = AtMost(true[m], max[m])
    BY <2>2, <2>3 DEF AtMost
  <2>5. CASE true[m] < max[m]
    <3>1. n[m] = true[m] /\ n[c] = true[c] /\ AtMost(n[m], max[m]) = n[m]
      BY <2>2, <2>3, <2>5 DEF AtMost
    <3>2. AtMost(n[c], n[m]) = AtMost(true[c], max[m])
      BY <2>2, <2>3, <2>5, <3>1 DEF AtMost
    <3>3. QED
      BY <2>1, <2>4, <2>5, <3>1, <3>2
  <2>6. CASE ~(true[m] < max[m])
    <3>1. AtMost(n[c], AtMost(n[m], max[m])) \in 0..max[m]
      BY <2>3 DEF AtMost
    <3>2. QED
      BY <2>1, <2>4, <2>6, <3>1
  <2>7. QED
    BY <2>5, <2>6
<1>6. \A c \in Main : Result[c] = AtMost(n[c], max[c])
  BY <1>3 DEF Result, Main, Counter, StagedSide, DirtySide
<1>7. /\ Result["staged_new"] = AtMost(n["staged_new"], AtMost(n["staged"], max["staged"]))
      /\ Result["staged_deleted"] = AtMost(n["staged_deleted"], AtMost(n["staged"], max["staged"]))
      /\ Result["unstaged_deleted"]
           = AtMost(n["unstaged_deleted"], AtMost(n["unstaged"], max["unstaged"]))
      /\ Result["skip_worktree"] = n["skip_worktree"]
  BY <1>3 DEF Result, Main, Counter, StagedSide, DirtySide
<1>8. ASSUME NEW m \in Main
      PROVE  Result[m] \in Expected(m, m)
  <2>1. m \in Counter \ {"skip_worktree"} /\ MainOf(m) = m
    BY DEF MainOf, Main, Counter, StagedSide, DirtySide
  <2>2. Result[m] = AtMost(true[m], max[m])
    BY <1>5, <1>6, <2>1
  <2>3. Expected(m, m) = {AtMost(true[m], max[m])}
    BY <1>1, <1>2, <1>3, <2>1 DEF Expected
  <2>4. QED
    BY <2>2, <2>3
<1>9. ASSUME NEW c \in Counter \ ({"skip_worktree"} \cup Main)
      PROVE  AtMost(n[c], AtMost(n[MainOf(c)], max[MainOf(c)])) \in Expected(c, MainOf(c))
  <2>1. PICK m \in Main : m = MainOf(c) /\ m \in Counter /\ c \in Counter /\ c # m
    BY <1>4
  <2>2. Expected(c, m) = IF true[m] < max[m] THEN {AtMost(true[c], max[m])} ELSE 0..max[m]
    BY <1>1, <1>2, <1>3, <2>1 DEF Expected
  <2>3. QED
    BY <1>5, <2>1, <2>2
<1>10. /\ MainOf("staged_new") = "staged" /\ MainOf("staged_deleted") = "staged"
       /\ MainOf("unstaged_deleted") = "unstaged"
       /\ {"staged_new", "staged_deleted", "unstaged_deleted"}
            \subseteq Counter \ ({"skip_worktree"} \cup Main)
  BY DEF MainOf, Main, Counter, StagedSide, DirtySide
<1>11. NoStagedLimits(snap) \/ Result["skip_worktree"] = TrueCount("skip_worktree")
  BY <1>3, <1>7, AllCounted
<1>12. QED
  BY <1>7, <1>8, <1>9, <1>10, <1>11

\* What is expected depends on what the request found only.
LEMMA ExpectedSame ==
  ASSUME snap' = snap
  PROVE  /\ \A c, m : Expected(c, m)' = Expected(c, m)
         /\ \A c : TrueCount(c)' = TrueCount(c)
         /\ NoStagedLimits(snap)' = NoStagedLimits(snap)
<1>1. \A c : TrueCount(c)' = TrueCount(c)
  BY DEF TrueCount
<1>2. \A c, m : Expected(c, m)' = Expected(c, m)
  BY <1>1 DEF Expected
<1>3. QED
  BY <1>1, <1>2 DEF NoStagedLimits, LimitsFor

\* The answer given after Wait() is the true one.
LEMMA VerifyTrue ==
  ASSUME Control, Right, Verify
  PROVE  ResultIsTrue'
<1> SUFFICES ASSUME failures' = 0, reply'.kind = "counts"
             PROVE  CountsAreTrue'
  BY DEF ResultIsTrue, NothingFailed, CountsAreTrue
<1>1. /\ pc = "verify" /\ NothingFailed /\ snap' = snap
      /\ reply' = IF error THEN NoCounts("error") ELSE [kind |-> "counts", num |-> Result]
  BY DEF Verify, NothingFailed
<1>2. ~error
  BY <1>1 DEF Control, Quiet
<1>3. reply'.num = Result
  BY <1>1, <1>2
<1>4. PICK r : r = Result /\ r = reply'.num
  BY <1>3
<1>5. /\ \A m \in Main : r[m] \in Expected(m, m)
      /\ r["staged_new"] \in Expected("staged_new", "staged")
      /\ r["staged_deleted"] \in Expected("staged_deleted", "staged")
      /\ r["unstaged_deleted"] \in Expected("unstaged_deleted", "unstaged")
      /\ NoStagedLimits(snap) \/ r["skip_worktree"] = TrueCount("skip_worktree")
  BY <1>1, <1>4, ResultExpected
<1>6. /\ \A m \in Main : r[m] \in Expected(m, m)'
      /\ r["staged_new"] \in Expected("staged_new", "staged")'
      /\ r["staged_deleted"] \in Expected("staged_deleted", "staged")'
      /\ r["unstaged_deleted"] \in Expected("unstaged_deleted", "unstaged")'
      /\ NoStagedLimits(snap)' \/ r["skip_worktree"] = TrueCount("skip_worktree")'
  BY <1>1, <1>5, ExpectedSame
<1>7. QED
  BY <1>4, <1>6 DEF CountsAreTrue

(* An answer stays what it is until the next request, which takes it away. *)
LEMMA NextTrue ==
  ASSUME Control, Right, ResultIsTrue, [Next]_vars
  PROVE  ResultIsTrue'
<1>1. CASE Verify
  BY <1>1, VerifyTrue
<1>2. CASE reply'.kind # "counts"
  BY <1>2 DEF ResultIsTrue, CountsAreTrue
<1>3. CASE snap' = snap /\ reply' = reply /\ (failures' = 0 => failures = 0)
  <2> SUFFICES ASSUME failures' = 0, reply'.kind = "counts"
               PROVE  CountsAreTrue'
    BY DEF ResultIsTrue, NothingFailed, CountsAreTrue
  <2>1. PICK r : r = reply.num /\ r = reply'.num
    BY <1>3
  <2>2. /\ \A m \in Main : r[m] \in Expected(m, m)
        /\ r["staged_new"] \in Expected("staged_new", "staged")
        /\ r["staged_deleted"] \in Expected("staged_deleted", "staged")
        /\ r["unstaged_deleted"] \in Expected("unstaged_deleted", "unstaged")
        /\ NoStagedLimits(snap) \/ r["skip_worktree"] = TrueCount("skip_worktree")
    BY <1>3, <2>1 DEF ResultIsTrue, NothingFailed, CountsAreTrue
  <2>3. /\ \A m \in Main : r[m] \in Expected(m, m)'
        /\ r["staged_new"] \in Expected("staged_new", "staged")'
        /\ r["staged_deleted"] \in Expected("staged_deleted", "staged")'
        /\ r["unstaged_deleted"] \in Expected("unstaged_deleted", "unstaged")'
        /\ NoStagedLimits(snap)' \/ r["skip_worktree"] = TrueCount("skip_worktree")'
    BY <1>3, <2>2, ExpectedSame
  <2>4. QED
    BY <2>1, <2>3 DEF CountsAreTrue
<1>4. Verify \/ reply'.kind # "counts"
      \/ (snap' = snap /\ reply' = reply /\ (failures' = 0 => failures = 0))
  <2>1. failures \in Nat
    BY Bounds DEF Control, TypeOK
  <2>2. NoCounts("error").kind # "counts" /\ NoCounts("none").kind # "counts"
    BY DEF NoCounts
  <2>3. CASE UNCHANGED vars
    BY <2>3 DEF vars
  <2>4. CASE \E s \in Snapshot : GetIndexStats(s)
    BY <2>2, <2>4 DEF GetIndexStats, IndexUnreadable, Fail
  <2>5. CASE LookupFails \/ GetDirtyCandidates
    BY <2>2, <2>5 DEF LookupFails, GetDirtyCandidates, Fail
  <2>6. CASE StartStagedScan \/ StartDirtyScan \/ Wait \/ Destructor \/ Destroy
    BY <2>6 DEF StartStagedScan, StartDirtyScan, Wait, Destructor, Destroy
  <2>7. CASE StartTask \/ MtimeChecked
    BY <2>7 DEF StartTask, MtimeChecked
  <2>8. ASSUME NEW u \in Scan, TaskStep(u)
        PROVE  snap' = snap /\ reply' = reply /\ (failures' = 0 => failures = 0)
    <3>1. CASE DiffFails(u)
      BY <2>1, <3>1 DEF DiffFails, MayFail
    <3>2. CASE Delta(u) \/ DiffEnds(u) \/ DecInflight(u) \/ RecordError(u)
      BY <3>2 DEF Delta, DiffEnds, DecInflight, RecordError
    <3>3. QED
      BY <2>8, <3>1, <3>2 DEF TaskStep
  <2>9. QED
    BY <2>3, <2>4, <2>5, <2>6, <2>7, <2>8 DEF Next, MainStep
<1>5. QED
  BY <1>1, <1>2, <1>3, <1>4

\* At first there is no answer.
LEMMA InitTrue == ASSUME Init PROVE ResultIsTrue
BY DEF Init, NoCounts, ResultIsTrue, CountsAreTrue

\* Until something fails, each number GetIndexStats returns is that of the HEAD, index and
\* work tree its request found, cut at the limits, though scans of several threads count
\* into the same counters, stop each other, and the HEAD diff may be that of an earlier
\* request.
THEOREM ResultsAreTrue == Spec => []ResultIsTrue
<1>1. Init => Control /\ Right /\ ResultIsTrue
  BY InitControl, InitRight, InitTrue
<1>2. Control /\ Right /\ ResultIsTrue /\ [Next]_vars => (Control /\ Right /\ ResultIsTrue)'
  BY NextControl, NextRight, NextTrue
<1>3. QED
  BY <1>1, <1>2, PTL DEF Spec
=============================================================================
