------------------------------ MODULE RepoScan ------------------------------
(***************************************************************************)
(* One repository held by gitstatusd: src/gitstatus/src/repo.{h,cc}.       *)
(*                                                                         *)
(* The main thread runs GetIndexStats once per request: it cuts the index  *)
(* into shards, lets the thread pool diff every shard against HEAD and     *)
(* against the working tree, waits until nothing is in flight and reads    *)
(* the counters.  The counters of the HEAD diff are kept for as long as    *)
(* HEAD and the index stay the same.  The functions given to the pool      *)
(* start in the order of scheduling, at most NumThreads of them at a time, *)
(* which is what ThreadPool implements.                                    *)
(*                                                                         *)
(* libgit2 is external: a diff reports a given sequence of deltas, in      *)
(* order, to a callback whose result it obeys, and may fail.               *)
(***************************************************************************)
EXTENDS Integers, Sequences, FiniteSets

CONSTANTS
  NumThreads,    \* threads of the pool
  Oid,           \* commits HEAD may point to
  NoHead,        \* HEAD of a repository without commits; head_ when it is reset
  Version,       \* contents the index file may have
  None,          \* no version: null
  NumShards,     \* shards_.size()
  StagedDeltas,  \* [Oid \X Version \X Shard -> Seq(HeadStatus)]: HEAD against index
  DirtyDeltas,   \* [Version \X Shard -> Seq(WorkStatus)]: index against work tree
  Flagged,       \* [Version \X Shard -> Nat]: entries with the skip-worktree bit
  Entries,       \* [Version -> Nat]: entries of the index that are not intent-to-add
  SmallIndex,    \* versions no larger than dirty_max_index_size
  Limit,         \* [Main -> Nat]: max_num_staged, ..._untracked
  Faults,        \* what may fail: subset of {"index", "lookup", "diff", "candidates"}
  MaxReq,        \* bound: requests in a behaviour
  MaxFail        \* bound: failures in a behaviour, those of reading the index aside

Shard == 1..NumShards
Main == {"staged", "conflicted", "unstaged", "untracked"}
\* skip_worktree stands for assume_unchanged too: the code treats them alike.
StagedSide == {"staged", "conflicted", "staged_new", "staged_deleted", "skip_worktree"}
DirtySide == {"unstaged", "untracked", "unstaged_deleted"}
Counter == StagedSide \cup DirtySide
\* From HEAD to index; from index to work tree, where conflicts are not counted again.
HeadStatus == {"added", "deleted", "modified", "conflicted"}
WorkStatus == {"wt_deleted", "wt_modified", "untracked"}
Status == HeadStatus \cup WorkStatus

ASSUME ScanAssumption ==
  /\ NumThreads \in Nat \ {0} /\ NumShards \in Nat \ {0} /\ MaxReq \in Nat /\ MaxFail \in Nat
  /\ NoHead \notin Oid /\ None \notin Version /\ Version # {}
  /\ Limit \in [Main -> Nat]
  /\ Entries \in [Version -> Nat]
  /\ Flagged \in [Version \X Shard -> Nat]
  /\ StagedDeltas \in [Oid \X Version \X Shard -> Seq(HeadStatus)]
  /\ DirtyDeltas \in [Version \X Shard -> Seq(WorkStatus)]
  /\ Faults \subseteq {"index", "lookup", "diff", "candidates"}

VARIABLES
  pc,        \* where the main thread is
  req,       \* number of the request
  snap,      \* HEAD and index file as the request finds them, the config options
  next,      \* next shard to schedule
  head,      \* head_
  index,     \* version of git_index_ last read; None before the first request
  built,     \* version that index_ was built from; None: index_ is null
  lim,       \* lim_
  count,     \* staged_ .. unstaged_deleted_
  error,     \* error_
  inflight,  \* inflight_
  untrackedCache, \* untracked_cache_
  queue,     \* the pool's queue of this repository's functions
  st,        \* state of every function given to the pool
  todo,      \* deltas a diff has still to report, with their places in it
  reply,     \* outcome of the last GetIndexStats
  failures   \* failures so far, those of reading the index aside

vars == <<pc, req, snap, next, head, index, built, lim, count, error, inflight,
          untrackedCache, queue, st, todo, reply, failures>>

Scan == [req : 1..MaxReq, kind : {"staged", "dirty"}, shard : Shard]
Mtime == [req |-> 0, kind |-> "mtime", shard |-> 0]
Task == Scan \cup {Mtime}

Snapshot == [head : Oid \cup {NoHead}, index : Version,
             showUntracked : BOOLEAN, showDirty : BOOLEAN]
Reply == [kind : {"none", "error", "counts"}, num : [Counter -> Nat]]
NoCounts(k) == [kind |-> k, num |-> [c \in Counter |-> 0]]

TaskState == {"none", "queued", "run",
              "leave",       \* f() returned; DecInflight not yet called
              "leaveThrow",  \* f() threw; DecInflight not yet called
              "catch"}       \* DecInflight called; the exception not yet recorded

TypeOK ==
  /\ pc \in {"idle", "staged", "candidates", "dirty", "wait", "blocked", "verify",
             "destroy", "destroyBlocked", "destroyed"}
  /\ req \in 0..MaxReq /\ snap \in Snapshot /\ next \in 1..(NumShards + 1)
  /\ head \in Oid \cup {NoHead} /\ index \in Version \cup {None}
  /\ built \in Version \cup {None}
  /\ lim \in [Main -> Nat] /\ count \in [Counter -> Nat]
  /\ error \in BOOLEAN /\ inflight \in 0..Cardinality(Scan)
  /\ untrackedCache \in {"unknown", "true", "false"}
  /\ queue \in Seq(Task) /\ st \in [Task -> TaskState] /\ todo \in [Scan -> SUBSET (Nat \X Status)]
  /\ reply \in Reply /\ failures \in 0..MaxFail

\* Repo::Repo.  The check of the untracked cache runs in the background.
Init ==
  /\ pc = "idle" /\ req = 0 /\ next = 1 /\ failures = 0
  /\ snap = CHOOSE s \in Snapshot : TRUE
  /\ head = NoHead /\ index = None /\ built = None /\ lim = Limit
  /\ count = [c \in Counter |-> 0] /\ error = FALSE /\ inflight = 0
  /\ todo = [t \in Scan |-> {}] /\ reply = NoCounts("none")
  /\ IF Limit["untracked"] > 0
     THEN untrackedCache = "unknown" /\ queue = <<Mtime>>
     ELSE untrackedCache = "false" /\ queue = <<>>
  /\ st = [t \in Task |-> IF queue # <<>> /\ t = Mtime THEN "queued" ELSE "none"]

-----------------------------------------------------------------------------
(* GetIndexStats, up to the decision about the HEAD diff.                  *)

\* lim_ with the options of the repository's config honoured.
LimitsFor(s) ==
  [m \in Main |->
     IF m = "untracked" THEN IF s.showUntracked THEN Limit[m] ELSE 0
     ELSE IF s.showDirty THEN Limit[m] ELSE 0]

Zero(cs) == [c \in Counter |-> IF c \in cs THEN 0 ELSE count[c]]

\* A new index invalidates head_ and index_.
NewIndex(s) == index # None /\ s.index # index
KeepsHead(s) == head
HeadAfterRead(s) == IF NewIndex(s) THEN NoHead ELSE head

\* Something throws.  It may do so MaxFail times in a behaviour.
MayFail(what) == what \in Faults /\ failures < MaxFail /\ failures' = failures + 1

\* A throw leaves GetIndexStats by ON_SCOPE_EXIT, which restores lim_.
Fail ==
  /\ pc' = "idle" /\ reply' = NoCounts("error") /\ lim' = Limit

IndexUnreadable(s) ==
  /\ "index" \in Faults
  /\ Fail
  /\ UNCHANGED <<next, head, index, built, count, error, inflight, queue, st, todo,
                 untrackedCache, failures>>

\* What becomes of head_ and of the counters of the HEAD diff.
NoStagedLimits(s) == LimitsFor(s)["staged"] = 0 /\ LimitsFor(s)["conflicted"] = 0

SkipStaged(s) ==
  /\ NoStagedLimits(s)
  /\ head' = NoHead /\ count' = Zero(Counter)
  /\ pc' = "candidates"

ReuseStaged(s) ==
  /\ ~NoStagedLimits(s) /\ s.head # NoHead /\ s.head = HeadAfterRead(s)
  /\ head' = HeadAfterRead(s) /\ count' = Zero(DirtySide)
  /\ pc' = "candidates"

ScanStaged(s) ==
  /\ ~NoStagedLimits(s) /\ s.head # NoHead /\ s.head # HeadAfterRead(s)
  /\ head' = s.head /\ count' = Zero(Counter)
  /\ pc' = "staged"

FlagsIn(v, shards) == UNION {{i} \X (1..Flagged[<<v, i>>]) : i \in shards}
AllFlagged(v) == Cardinality(FlagsIn(v, Shard))

CountEntries(s) ==
  /\ ~NoStagedLimits(s) /\ s.head = NoHead
  /\ head' = NoHead
  /\ count' = [Zero(Counter) EXCEPT !["staged"] = Entries[s.index],
                                    !["staged_new"] = Entries[s.index],
                                    !["skip_worktree"] = AllFlagged(s.index)]
  /\ pc' = "candidates"

GetIndexStats(s) ==
  /\ pc = "idle" /\ req < MaxReq
  /\ req' = req + 1 /\ snap' = s
  /\ \/ IndexUnreadable(s)
     \/ /\ SkipStaged(s) \/ ReuseStaged(s) \/ ScanStaged(s) \/ CountEntries(s)
        /\ lim' = LimitsFor(s) /\ index' = s.index
        /\ built' = IF NewIndex(s) THEN None ELSE built
        /\ error' = FALSE /\ next' = 1 /\ reply' = NoCounts("none")
        /\ UNCHANGED <<inflight, queue, st, todo, untrackedCache, failures>>

-----------------------------------------------------------------------------
(* StartStagedScan, GetDirtyCandidates, StartDirtyScan.                    *)
Deltas(diff) == {<<n, diff[n]>> : n \in DOMAIN diff}

RunAsync(t, deltas) ==
  /\ inflight' = inflight + 1
  /\ queue' = Append(queue, t)
  /\ st' = [st EXCEPT ![t] = "queued"]
  /\ todo' = [todo EXCEPT ![t] = deltas]

ThisScan(kind, shard) == [req |-> req, kind |-> kind, shard |-> shard]

\* git_commit_lookup or git_commit_tree fails, before anything is scheduled.
LookupFails ==
  /\ pc = "staged" /\ next = 1 /\ MayFail("lookup")
  /\ Fail
  /\ UNCHANGED <<req, snap, next, head, index, built, count, error, inflight, queue, st, todo,
                 untrackedCache>>

StartStagedScan ==
  /\ pc = "staged" /\ next \in Shard
  /\ RunAsync(ThisScan("staged", next), Deltas(StagedDeltas[<<head, index, next>>]))
  /\ IF next = NumShards THEN pc' = "candidates" /\ next' = 1
                         ELSE pc' = pc /\ next' = next + 1
  /\ UNCHANGED <<req, snap, head, index, built, lim, count, error, reply, untrackedCache, failures>>

\* The files and directories that stat(2) finds changed.  The call returns once
\* the functions it has given to the pool have returned, or it throws.
WantsDirty == index \in SmallIndex /\ (lim["unstaged"] > 0 \/ lim["untracked"] > 0)

GetDirtyCandidates ==
  /\ pc = "candidates"
  /\ \/ ~WantsDirty /\ pc' = "wait" /\ UNCHANGED <<lim, reply, failures>>
     \/ WantsDirty /\ pc' = "dirty" /\ UNCHANGED <<lim, reply, failures>>
     \/ WantsDirty /\ MayFail("candidates") /\ Fail
  /\ built' = IF WantsDirty /\ built = None THEN index ELSE built
  /\ UNCHANGED <<req, snap, next, head, index, count, error, inflight, queue, st, todo,
                 untrackedCache>>

\* One function for every shard with candidates in it.  Without untracked files
\* the diff reports changes of tracked files only.
Reported(shard) ==
  {x \in Deltas(DirtyDeltas[<<built, shard>>]) : x[2] # "untracked" \/ lim["untracked"] > 0}

StartDirtyScan ==
  /\ pc = "dirty"
  /\ IF next \in Shard /\ Reported(next) # {}
     THEN RunAsync(ThisScan("dirty", next), Reported(next))
     ELSE UNCHANGED <<inflight, queue, st, todo>>
  /\ IF next >= NumShards THEN pc' = "wait" /\ next' = 1
                          ELSE pc' = pc /\ next' = next + 1
  /\ UNCHANGED <<req, snap, head, index, built, lim, count, error, reply, untrackedCache, failures>>

-----------------------------------------------------------------------------
(* Wait, then the counters are read.                                       *)
Wait ==
  /\ pc = "wait"
  /\ pc' = IF inflight = 0 THEN "verify" ELSE "blocked"
  /\ UNCHANGED <<req, snap, next, head, index, built, lim, count, error, inflight, queue, st,
                 todo, reply, untrackedCache, failures>>

AtMost(n, m) == IF n < m THEN n ELSE m

Result ==
  LET num == [m \in Main |-> AtMost(count[m], lim[m])]
      Of(c) == IF c = "unstaged_deleted" THEN "unstaged" ELSE "staged"
  IN  [c \in Counter |-> IF c \in Main THEN num[c]
                         ELSE IF c = "skip_worktree" THEN count[c]
                         ELSE AtMost(count[c], num[Of(c)])]

Verify ==
  /\ pc = "verify"
  /\ pc' = "idle" /\ lim' = Limit
  /\ reply' = IF error THEN NoCounts("error")
            ELSE [kind |-> "counts", num |-> Result]
  /\ UNCHANGED <<req, snap, next, head, index, built, count, error, inflight, queue, st, todo,
                 untrackedCache, failures>>

-----------------------------------------------------------------------------
(* The functions given to the pool.                                        *)
Running == {t \in Task : st[t] \in {"run", "leave", "leaveThrow", "catch"}}

\* A staged scan counts the flags of its shard's entries before it diffs.
StartTask ==
  /\ queue # <<>> /\ Cardinality(Running) < NumThreads
  /\ LET t == Head(queue) IN
       /\ st' = [st EXCEPT ![t] = "run"]
       /\ count' = IF t.kind # "staged" THEN count
                   ELSE [count EXCEPT !["skip_worktree"] = @ + Flagged[<<index, t.shard>>]]
  /\ queue' = Tail(queue)
  /\ UNCHANGED <<pc, req, snap, next, head, index, built, lim, error, inflight, todo, reply,
                 untrackedCache, failures>>

\* cv_.notify_one(): only the main thread ever waits on cv_.
WaitsOnce(p) == CASE p = "blocked" -> "verify" [] p = "destroyBlocked" -> "destroy"
                  [] OTHER -> p
Notified(p) == CASE p = "blocked" -> "wait" [] p = "destroyBlocked" -> "destroy"
                 [] OTHER -> p

MtimeUnannounced ==
  /\ st[Mtime] = "run"
  /\ \E answer \in {"true", "false"} : untrackedCache' = answer
  /\ st' = [st EXCEPT ![Mtime] = "none"]
  /\ UNCHANGED <<pc, req, snap, next, head, index, built, lim, count, error, inflight,
                 queue, todo, reply, failures>>

MtimeChecked ==
  /\ st[Mtime] = "run"
  /\ \E answer \in {"true", "false"} : untrackedCache' = answer
  /\ st' = [st EXCEPT ![Mtime] = "none"]
  /\ pc' = Notified(pc)
  /\ UNCHANGED <<req, snap, next, head, index, built, lim, count, error, inflight, queue, todo,
                 reply, failures>>

\* notify_cb and OnDelta.  The counter of the delta, the one it is scanned with,
\* and the sub-counter it belongs to.
CountedAs(d) == CASE d = "conflicted" -> "conflicted"
                  [] d \in {"added", "deleted", "modified"} -> "staged"
                  [] d \in {"wt_deleted", "wt_modified"} -> "unstaged"
                  [] d = "untracked" -> "untracked"
Partner(c) == CASE c = "conflicted" -> "staged"    [] c = "staged" -> "conflicted"
                [] c = "unstaged"   -> "untracked" [] c = "untracked" -> "unstaged"
SubCounter(d) == CASE d = "added" -> {"staged_new"} [] d = "deleted" -> {"staged_deleted"}
                   [] d = "wt_deleted" -> {"unstaged_deleted"} [] OTHER -> {}
CountedIn(d) == {CountedAs(d)} \cup SubCounter(d)

\* GIT_EUSER ends the diff; SKIP_TYPE drops what is left of that type.
OnDelta(d, n, rest) ==
  LET c1 == CountedAs(d)
      c2 == Partner(c1)
  IN  IF n[c1] < lim[c1] THEN rest
      ELSE IF n[c2] < lim[c2] THEN {x \in rest : CountedAs(x[2]) # c1}
      ELSE {}

\* The counters only grow during a scan, so OnDelta's increment and its two
\* comparisons are one step.
Increments(d) == [c \in Counter |-> IF c \in CountedIn(d) THEN count[c] + 1 ELSE count[c]]
NextDelta(t) == {x \in todo[t] : \A y \in todo[t] : x[1] <= y[1]}
Delta(t) ==
  /\ st[t] = "run"
  /\ \E x \in NextDelta(t) :
       IF error
       THEN todo' = [todo EXCEPT ![t] = {}] /\ UNCHANGED count
       ELSE /\ count' = Increments(x[2])
            /\ todo' = [todo EXCEPT ![t] = OnDelta(x[2], count', todo[t] \ {x})]
  /\ UNCHANGED <<pc, req, snap, next, head, index, built, lim, error, inflight, queue, st, reply,
                 untrackedCache, failures>>

DiffEnds(t) ==
  /\ st[t] = "run" /\ todo[t] = {}
  /\ st' = [st EXCEPT ![t] = "leave"]
  /\ UNCHANGED <<pc, req, snap, next, head, index, built, lim, count, error, inflight, queue,
                 todo, reply, untrackedCache, failures>>

DiffFails(t) ==
  /\ st[t] = "run" /\ MayFail("diff")
  /\ st' = [st EXCEPT ![t] = "leaveThrow"]
  /\ todo' = [todo EXCEPT ![t] = {}]
  /\ UNCHANGED <<pc, req, snap, next, head, index, built, lim, count, error, inflight, queue,
                 reply, untrackedCache>>

\* Dec returns the value before the decrement.
IsLast(n) == n = 1

\* ON_SCOPE_EXIT runs before the handler of the exception does.
DecInflight(t) ==
  /\ st[t] \in {"leave", "leaveThrow"}
  /\ inflight' = inflight - 1
  /\ st' = [st EXCEPT ![t] = IF st[t] = "leave" THEN "none" ELSE "catch"]
  /\ pc' = IF IsLast(inflight) THEN Notified(pc) ELSE pc
  /\ UNCHANGED <<req, snap, next, head, index, built, lim, count, error, queue, todo, reply,
                 untrackedCache, failures>>

RecordError(t) ==
  /\ st[t] = "catch"
  /\ error' = TRUE
  /\ pc' = IF error THEN pc ELSE Notified(pc)
  /\ st' = [st EXCEPT ![t] = "none"]
  /\ UNCHANGED <<req, snap, next, head, index, built, lim, count, inflight, queue, todo, reply,
                 untrackedCache, failures>>

-----------------------------------------------------------------------------
(* RepoCache::Erase destroys the repository between two requests; ~Repo    *)
(* waits for the check of the untracked cache and for nothing else.        *)
Destroy ==
  /\ pc = "idle" /\ pc' = "destroy"
  /\ UNCHANGED <<req, snap, next, head, index, built, lim, count, error, inflight, queue, st,
                 todo, reply, untrackedCache, failures>>

Destructor ==
  /\ pc = "destroy"
  /\ pc' = IF untrackedCache = "unknown" THEN "destroyBlocked" ELSE "destroyed"
  /\ UNCHANGED <<req, snap, next, head, index, built, lim, count, error, inflight, queue, st,
                 todo, reply, untrackedCache, failures>>

MainStep == LookupFails \/ StartStagedScan \/ GetDirtyCandidates \/ StartDirtyScan
            \/ Wait \/ Verify \/ Destructor

TaskStep(t) == Delta(t) \/ DiffEnds(t) \/ DiffFails(t) \/ DecInflight(t) \/ RecordError(t)

Next ==
  \/ \E s \in Snapshot : GetIndexStats(s)
  \/ MainStep \/ Destroy
  \/ StartTask \/ MtimeChecked
  \/ \E t \in Scan : TaskStep(t)

Spec == Init /\ [][Next]_vars

(* The main thread and the pool's threads are scheduled.  Nobody is        *)
(* obliged to send requests or to close the repository.                    *)
FairSpec ==
  /\ Spec
  /\ WF_vars(MainStep) /\ WF_vars(StartTask) /\ WF_vars(MtimeChecked)
  /\ \A t \in Scan : WF_vars(TaskStep(t))
-----------------------------------------------------------------------------
\* inflight_ is the number of scans scheduled and not yet finished.
InflightIsExact ==
  inflight = Cardinality({t \in Scan : st[t] \in {"queued", "run", "leave", "leaveThrow"}})

InFlight == {t \in Scan : st[t] # "none"}

NothingFailed == failures = 0

(* Nothing of a request or of the repository outlives it.  inflight_       *)
(* counts the scans that have not finished, so the main thread stops       *)
(* waiting when, and only when, the last of them ends.  Between two        *)
(* requests no function of the pool reads or writes this repository's      *)
(* counters, limits, shards or error flag; none at all is left to touch a  *)
(* destroyed repository.  A request that fails leaves its scans running,   *)
(* and the destructor does not wait for those.                             *)
NothingOutlives ==
  /\ TypeOK /\ InflightIsExact
  /\ NothingFailed => /\ pc = "idle" => inflight = 0 /\ InFlight = {}
                      /\ pc = "destroyed" => \A t \in Task : st[t] = "none"

\* What is true of the repository as the request found it.
Counted(diffs, c) ==
  {y \in UNION {{i} \X Deltas(diffs[i]) : i \in Shard} : c \in CountedIn(y[2][2])}
StagedDiffs(h, v) == [i \in Shard |-> StagedDeltas[<<h, v, i>>]]
DirtyDiffs(v) == [i \in Shard |-> DirtyDeltas[<<v, i>>]]

TrueCount(c) ==
  LET Of(diffs) == Cardinality(Counted(diffs, c))
  IN  IF c = "skip_worktree" THEN AllFlagged(snap.index)
      ELSE IF c \in DirtySide
      THEN IF snap.index \notin SmallIndex THEN 0
           ELSE Of(DirtyDiffs(snap.index))
      ELSE IF snap.head # NoHead
      THEN Of(StagedDiffs(snap.head, snap.index))
      ELSE IF c \in {"staged", "staged_new"} THEN Entries[snap.index] ELSE 0

\* TrueCount, as far as the limits of this request let it be seen.
Expected(c, main) ==
  LET max == LimitsFor(snap)[main]
  IN  IF TrueCount(main) < max \/ c = main
      THEN {AtMost(TrueCount(c), max)} ELSE 0..max

(* The counts of an answer are those of the HEAD, the index and the work   *)
(* tree that the request found, up to the limits, whatever was cached from *)
(* earlier requests, however the scans interleave and wherever each scan   *)
(* stopped because a counter had reached its limit.                        *)
CountsAreTrue ==
  reply.kind = "counts" =>
    /\ \A m \in Main : reply.num[m] \in Expected(m, m)
    /\ reply.num["staged_new"] \in Expected("staged_new", "staged")
    /\ reply.num["staged_deleted"] \in Expected("staged_deleted", "staged")
    /\ reply.num["unstaged_deleted"] \in Expected("unstaged_deleted", "unstaged")
    /\ NoStagedLimits(snap) \/ reply.num["skip_worktree"] = TrueCount("skip_worktree")

(* The same, as long as nothing but the reading of an index has failed.    *)
ResultIsTrue == NothingFailed => CountsAreTrue

(* An answer with counts is never given to a request one of whose scans    *)
(* failed: this is what VERIFY(!Load(error_)) asserts after Wait().        *)
FailureIsReported ==
  \A t \in Scan : t.req = req /\ st[t] = "catch" => pc # "idle" \/ reply.kind # "counts"

(* Every request is answered: nobody waits for a scan that was not         *)
(* scheduled or for a notification already sent.  The destructor returns,  *)
(* however slow the check of the untracked cache.                          *)
EverythingEnds ==
  /\ pc \in {"staged", "candidates", "dirty", "wait", "blocked", "verify"} ~> pc = "idle"
  /\ pc = "destroy" ~> pc = "destroyed"
=============================================================================
