-------------------------------- MODULE Index --------------------------------
(***************************************************************************)
(* What of a working tree may be dirty: src/gitstatus/src/index.{h,cc},    *)
(* dir.cc and stat.h.                                                      *)
(*                                                                         *)
(* GetDirtyCandidates lets the pool visit the directories of the index,    *)
(* one task for each split, and collects the paths that git has still to   *)
(* look at: files whose stat differs from the index, names the index does  *)
(* not have, directories that cannot be read.  What a directory holds that *)
(* the index does not is remembered with the directory's stat, and not     *)
(* listed again while that stat stays the same (the untracked cache).      *)
(*                                                                         *)
(* Meanwhile other programs change the files.  The mtime of a directory is *)
(* the tick of a coarse clock at which a name in it last came, went or     *)
(* changed its type.  A descriptor stands for the path it was opened by.   *)
(***************************************************************************)
EXTENDS IndexTree

CONSTANTS
  Objects,       \* indices, sequences of [path, mode, data, stage] in git's order,
                 \* each with the capabilities of its repository: caps_
  Probes,        \* paths that candidates of these indices may have
  Scanned,       \* bound: the indices, of Objects, whose working tree is explored
  Paths,         \* paths that may exist below the root, without a final slash
  Possible,      \* [Paths -> SUBSET Node]: what may be at a path
  DirStackSize,  \* kDirStackSize: 5 in the code
  Untidy,        \* paths that the index lacks and that exist from the beginning
  MaxReq,        \* bound: requests
  MaxClock,      \* bound: ticks
  MaxEvents      \* bound: changes made by other programs, and calls that fail
                 \* without a cause in the files

Root == <<>>
FileModes == {"644", "755", "link"}
Node == [mode : FileModes \cup {"none", "dir", "locked"}, data : Nat]
None == [mode |-> "none", data |-> 0]
Dir == [mode |-> "dir", data |-> 0]
Locked == [mode |-> "locked", data |-> 0]

\* Without untracked files the cache is not used, whatever is known of it.
ScanOpts ==
  {o \in [include_untracked : BOOLEAN, untracked_cache : {"unknown", "true", "false"}] :
     o.include_untracked \/ o.untracked_cache = "unknown"}
NoStat == 0     \* st = {}
NoFd == <<0>>   \* -1; no path has a null byte

Entry == [path : Bytes, mode : FileModes, data : Nat, stage : 0..3]
Caps == [case_sensitive : BOOLEAN, has_symlinks : BOOLEAN, trust_filemode : BOOLEAN]

\* Every directory a path lies in, however deep.
Holds(p) == {SubSeq(p, 1, i) : i \in {0} \cup SlashesIn(p)}
Unslashed(path) == IF path = Root THEN Root ELSE Front(path)
Parent(p) == Unslashed(DirOf(p))
Under(p, q) == p = Root \/ p = q \/ IsPrefix(p \o <<Slash>>, q)

\* The tree that git checks out for an index, and what is in it besides.
Tree(ix) ==
  [p \in Paths |->
     IF p = Root \/ \E i \in DOMAIN ix : p # ix[i].path /\ Under(p, ix[i].path) THEN Dir
     ELSE IF \E i \in DOMAIN ix : ix[i].path = p
     THEN LET e == ix[CHOOSE i \in DOMAIN ix : ix[i].path = p]
          IN  [mode |-> e.mode, data |-> e.data]
     ELSE IF p \in Untidy THEN CHOOSE n \in Possible[p] : n # None
     ELSE None]

ASSUME IndexAssumption ==
  /\ Objects \subseteq Seq(Entry) \X Caps /\ Scanned \subseteq {o[1] : o \in Objects}
  /\ Probes \subseteq Bytes /\ IsFiniteSet(Probes)
  /\ Paths \subseteq Bytes /\ Root \in Paths
  /\ \A p \in Paths : \A d \in Holds(p) : Unslashed(d) \in Paths
  /\ \A ix \in Scanned : \A i \in DOMAIN ix : ix[i].path \in Paths
  /\ Possible \in [Paths -> SUBSET Node]
  /\ Untidy \subseteq Paths
  /\ \A p \in Untidy : /\ Possible[p] \ {None} # {}
                       /\ \A ix \in Scanned : Tree(ix)[Parent(p)] = Dir
  /\ {DirStackSize, MaxClock} \subseteq Nat \ {0} /\ {MaxReq, MaxEvents} \subseteq Nat

\* The indices that may come with the capabilities of a repository.
IndicesOf(o) == {o[1]} \cup {ix \in Scanned : o[1] \in Scanned}

\* git keeps an index in the order that git_index_is_case_sensitive tells.
ASSUME OrderAssumption ==
  \A o \in Objects : \A ix \in IndicesOf(o) : \A i, j \in DOMAIN ix :
    i < j => ~Lt(ix[j].path, ix[i].path, o[2].case_sensitive)

VARIABLES
  fs, mtime, clock,  \* the working tree and the clock of its file system
  index, caps, dirs, splits,  \* git_index_, caps_, dirs_, splits_
  cache,     \* st and unmatched of every directory; racy: see StatDir
  pc, opts,  \* the caller of GetDirtyCandidates
  task,      \* the function scheduled for every split
  inflight, error, res,       \* the locals its closures share
  req, events,  \* so far
  steady     \* ghost: paths that have not changed since the request began

env == <<fs, mtime, clock, steady>>
object == <<index, caps, dirs, splits>>
caller == <<pc, opts, req>>
vars == <<env, object, cache, caller, task, inflight, error, res, events>>

Tasks == 1..(Len(splits) - 1)
PathsOf(ix) == [i \in DOMAIN ix |-> ix[i].path]

NoFds == [j \in 1..DirStackSize |-> NoFd]
Idle == [at |-> "none", it |-> 0, fds |-> NoFds, list |-> <<>>, found |-> {}]
NewCache(ds) == [i \in DOMAIN ds |-> [st |-> NoStat, unmatched |-> {}, racy |-> FALSE]]

-----------------------------------------------------------------------------
(* The working tree, as other programs change it.                          *)

NameIn(p) == SubSeq(p, Len(DirOf(p)) + 1, Len(p))
Above(p) == {q \in Paths : q # p /\ Under(q, p)}

\* A name that comes, goes or is replaced by another type changes its parent.
Relisted(p, n) == fs[p].mode # n.mode /\ {fs[p].mode, n.mode} \notin {{"644", "755"}, {"dir", "locked"}}

Change(p, n) ==
  /\ events < MaxEvents /\ index \in Scanned
  /\ n # fs[p]
  /\ p # Root => fs[Parent(p)] = Dir
  /\ n = Locked => fs[p] = Dir
  /\ events' = events + 1
  /\ fs' = [q \in Paths |->
              IF q = p THEN n
              ELSE IF Under(p, q) /\ {fs[p], n} # {Dir, Locked} THEN None ELSE fs[q]]
  /\ mtime' = [q \in Paths |->
                 IF Relisted(p, n) /\ (q = p \/ (p # Root /\ q = Parent(p))) THEN clock
                 ELSE mtime[q]]
  /\ steady' = steady \ {q \in Paths : Under(p, q)}
  /\ UNCHANGED <<clock, object, cache, caller, task, inflight, error, res>>

Tick ==
  /\ clock < MaxClock /\ index \in Scanned
  /\ clock' = clock + 1
  /\ UNCHANGED <<fs, mtime, steady, object, cache, caller, task, inflight, error, res,
                 events>>

-----------------------------------------------------------------------------
(* Index::Index and GetDirtyCandidates.                                    *)

Init ==
  /\ \E o \in Objects : index = o[1] /\ caps = o[2]
  /\ dirs = InitDirs(PathsOf(index), caps.case_sensitive)
  /\ splits = InitSplits(dirs)
  /\ fs = Tree(index) /\ mtime = [p \in Paths |-> 1] /\ clock = 1
  /\ steady = Paths
  /\ cache = NewCache(dirs)
  /\ pc = "idle" /\ opts = (CHOOSE o \in ScanOpts : TRUE) /\ req = 0 /\ events = 0
  /\ task = [k \in Tasks |-> Idle] /\ inflight = 0 /\ error = FALSE /\ res = {}

\* Another index: the repository drops this object for a new one.
NewIndex(ix) ==
  /\ pc = "idle" /\ index \in Scanned /\ req \in 1..(MaxReq - 1) /\ ix # index
  /\ index' = ix /\ dirs' = InitDirs(PathsOf(ix), caps.case_sensitive)
  /\ splits' = InitSplits(dirs')
  /\ cache' = NewCache(dirs')
  /\ task' = [k \in 1..(Len(splits') - 1) |-> Idle]
  /\ UNCHANGED <<env, caps, caller, inflight, error, res, events>>

OpenRoot(o) ==
  /\ pc = "idle" /\ index \in Scanned /\ req < MaxReq
  /\ req' = req + 1 /\ opts' = o
  /\ steady' = Paths
  /\ UNCHANGED <<fs, mtime, clock, object, cache, events>>

GetDirtyCandidates(o) ==
  /\ OpenRoot(o)
  /\ fs[Root] = Dir
  /\ pc' = "wait" /\ inflight' = Len(splits) - 1 /\ error' = FALSE /\ res' = {}
  /\ task' = [k \in Tasks |-> [Idle EXCEPT !.at = "queued"]]

RootUnreadable(o) ==
  /\ OpenRoot(o)
  /\ fs[Root] # Dir
  /\ UNCHANGED <<pc, inflight, error, res, task>>

ReturnOnError ==
  /\ pc = "wait" /\ (inflight = 0 \/ error)
  /\ pc' = "idle"
  /\ UNCHANGED <<env, object, cache, opts, task, req, inflight, error, res, events>>

\* VERIFY(!error): the caller gets the candidates or an exception.
Return ==
  /\ pc = "wait" /\ inflight = 0
  /\ pc' = "idle"
  /\ task' = [k \in Tasks |-> Idle]
  /\ UNCHANGED <<env, object, cache, opts, req, inflight, error, res, events>>

-----------------------------------------------------------------------------
(* ScanDirs: one task visits the directories of its split, in turn.        *)

First(k) == splits[k] + 1
End(k) == splits[k + 1] + 1
DirAt(k) == dirs[task[k].it]
PathAt(k) == Unslashed(DirAt(k).path)
Running == {k \in Tasks : task[k].at \notin {"none", "queued"}}

\* The path j levels above a directory, with its final slash.
DirAbove(path) == DirOf(Unslashed(path))
DirsAbove(path) ==
  LET up[i \in Nat] == IF i = 0 THEN path ELSE DirAbove(up[i - 1]) IN up
Up(path, j) == DirsAbove(path)[j]

Opens(p) == fs[p] = Dir /\ \A q \in Above(p) : fs[q] = Dir

OpenTail(path) ==
  IF path = Root \/ ~Opens(Unslashed(Up(path, 1))) THEN NoFds
  ELSE [j \in 1..DirStackSize |-> IF j <= Cardinality(SlashesIn(path)) THEN Up(path, j) ELSE NoFd]

\* The pool starts the functions in the order of scheduling.
StartTask(k) ==
  /\ task[k].at = "queued" /\ \A j \in 1..(k - 1) : task[j].at # "queued"
  /\ Cardinality({j \in Running : task[j].at # "done"}) < NumThreads
  /\ task' = [task EXCEPT ![k].at = "open", ![k].it = First(k),
                          ![k].fds = OpenTail(dirs[First(k)].path)]
  /\ UNCHANGED <<env, object, cache, caller, inflight, error, res, events>>

\* Something fails that the files do not explain.
Fault == events < MaxEvents /\ events' = events + 1
NoFault == events' = events

\* The task, done with its directory, having found these.
Next_(k, found) ==
  [task[k] EXCEPT !.found = @ \cup found, !.it = @ + 1, !.list = <<>>,
                  !.at = IF task[k].it + 1 = End(k) THEN "collect" ELSE "open"]

\* AddUnmached(""): the directory is a candidate; nothing is known of it.
Unreadable(k) ==
  [cache EXCEPT ![task[k].it] = [st |-> NoStat, unmatched |-> {DirAt(k).path}, racy |-> FALSE]]

\* dir_fd[0] is the directory before this one, dir_fd[j] is j levels above it.
LevelsUp(k) == IF task[k].it = First(k) THEN 0
               ELSE dirs[task[k].it - 1].depth + 1 - DirAt(k).depth
ByParent(k) == LevelsUp(k) < DirStackSize /\ task[k].fds[LevelsUp(k) + 1] # NoFd

Turn(fds, n) == [j \in 1..DirStackSize |-> fds[((j - 1 + n) % DirStackSize) + 1]]
CloseTo(fds, d) == [j \in 1..DirStackSize |-> IF j <= d THEN NoFd ELSE fds[j]]
PushedInPlace(fds, d) == Turn(CloseTo(fds, d), IF d = 0 THEN 0 ELSE d - 1)
Pushed(fds, d) == Turn(CloseTo(fds, d), (IF d = 0 THEN DirStackSize ELSE d) - 1)

FdsWith(k, fd) ==
  [IF ByParent(k) THEN Pushed(task[k].fds, LevelsUp(k)) ELSE NoFds EXCEPT ![1] = fd]

\* openat checks the directory it starts from and, for a path, all below that.
CanOpen(k) ==
  IF ByParent(k)
  THEN fs[PathAt(k)] = Dir /\ (PathAt(k) # Root => fs[Parent(PathAt(k))] = Dir)
  ELSE Opens(PathAt(k))

OpenDir(k) ==
  /\ task[k].at = "open"
  /\ CanOpen(k) \/ DirAt(k).path = Root
  /\ task' = [task EXCEPT ![k].at = "stat", ![k].fds = FdsWith(k, DirAt(k).path)]
  /\ NoFault /\ UNCHANGED cache

OpenFails(k) ==
  /\ task[k].at = "open"
  /\ DirAt(k).path # Root
  /\ IF CanOpen(k) THEN Fault ELSE NoFault
  /\ task' = [task EXCEPT ![k] = [Next_(k, {DirAt(k).path}) EXCEPT !.fds = NoFds]]
  /\ cache' = Unreadable(k)

\* dup(root_fd) fails: the exception ends the task.
DupFails(k) ==
  /\ task[k].at = "open" /\ DirAt(k).path = Root
  /\ Fault
  /\ task' = [task EXCEPT ![k].at = "throw", ![k].fds = NoFds]
  /\ UNCHANGED cache

\* StatEq decides whether the directory is listed.  The stat is racy if a
\* change that is still to come in this tick would not show in it.
StatIsSame(k) ==
  opts.untracked_cache = "true" /\ cache[task[k].it].st = mtime[PathAt(k)]

RecordStat(k) ==
  [cache EXCEPT ![task[k].it].st = mtime[PathAt(k)],
                ![task[k].it].racy = mtime[PathAt(k)] = clock]

StatDir(k) ==
  /\ task[k].at = "stat"
  /\ \/ /\ ~opts.include_untracked
        /\ task' = [task EXCEPT ![k].at = "files"]
        /\ NoFault /\ UNCHANGED cache
     \/ /\ opts.include_untracked /\ StatIsSame(k)
        /\ task' = [task EXCEPT ![k].at = "cached"]
        /\ NoFault /\ UNCHANGED cache
     \/ /\ opts.include_untracked /\ ~StatIsSame(k)
        /\ task' = [task EXCEPT ![k].at = "list"]
        /\ cache' = IF opts.untracked_cache = "false" THEN cache ELSE RecordStat(k)
        /\ NoFault
     \/ /\ opts.include_untracked /\ opts.untracked_cache # "false"
        /\ Fault   \* fstat
        /\ task' = [task EXCEPT ![k] = Next_(k, {DirAt(k).path})]
        /\ cache' = Unreadable(k)

\* IsModified: the stat of a file is not that of its entry.
ModeOf(e, n) ==
  IF n.mode \notin {"644", "755"} THEN n.mode
  ELSE IF (~caps.has_symlinks /\ e.mode = "link") \/ ~caps.trust_filemode THEN e.mode
  ELSE n.mode
IsModified(e, n) == e.stage # 0 \/ e.data # n.data \/ e.mode # ModeOf(e, n)

\* Files of a directory that are gone, cannot be statted or are modified.
FilesAt(k) == {index[i] : i \in Range(DirAt(k).files)}
Suspect(k, e) == fs[PathAt(k)] # Dir \/ fs[e.path] = None \/ IsModified(e, fs[e.path])
StatFiles(k) == {e.path : e \in {f \in FilesAt(k) : Suspect(k, f)}}

Visit(k) ==
  /\ task[k].at \in {"files", "cached"}
  /\ LET new == IF task[k].at = "cached" THEN cache[task[k].it].unmatched ELSE {}
     IN  task' = [task EXCEPT ![k] = Next_(k, StatFiles(k) \cup new)]
  /\ NoFault /\ UNCHANGED cache

\* The names in a directory, in order, and whether each is a directory.
NamesIn(p) == {NameIn(q) : q \in {r \in Paths \ {Root} : Parent(r) = p /\ fs[r] # None}}
Child(p, name) == IF p = Root THEN name ELSE p \o <<Slash>> \o name
DirEntry(p, name) ==
  [name |-> name, is_dir |-> fs[Child(p, name)].mode \in {"dir", "locked"}]
Sorted(p) == SortSet(NamesIn(p), caps.case_sensitive)
Listing(p) == LET ns == Sorted(p) IN [i \in DOMAIN ns |-> DirEntry(p, ns[i])]

ListDir(k) ==
  /\ task[k].at = "list"
  /\ \/ /\ task' = [task EXCEPT ![k].at = "match", ![k].list = Listing(PathAt(k))]
        /\ NoFault /\ UNCHANGED cache
     \/ /\ Fault   \* getdents64
        /\ task' = [task EXCEPT ![k] = Next_(k, {DirAt(k).path})]
        /\ cache' = Unreadable(k)

\* The entries of the listing that are neither files nor subdirectories of
\* the index.  Subdirectories are skipped as long as they compare less.
SubdirCmp(k, j, name) == Cmp(DirAt(k).subdirs[j], name, caps.case_sensitive)
SkipTo(k, from, name) ==
  Min({j \in from..Len(DirAt(k).subdirs) : SubdirCmp(k, j, name) >= 0}
      \cup {Len(DirAt(k).subdirs) + 1})

MatchSubdir(k, s, e) ==
  LET j == SkipTo(k, s.at, e.name)
  IN  IF j <= Len(DirAt(k).subdirs) /\ SubdirCmp(k, j, e.name) = 0
      THEN [s EXCEPT !.at = j + 1]
      ELSE [at |-> j, new |-> s.new \cup {e}]

IsFile(k, e) ==
  \E f \in FilesAt(k) : Eq(NameIn(f.path), e.name, caps.case_sensitive)
NotFiles(k) == SelectSeq(task[k].list, LAMBDA e : ~IsFile(k, e))
DotGit == <<46, 103, 105, 116>>

Unmatched(k) ==
  FoldLeft(LAMBDA s, e : MatchSubdir(k, s, e), [at |-> 1, new |-> {}], NotFiles(k)).new

\* AddUnmached: a name with the slash of a directory, but no repository.
AddUnmatched(k) ==
  {DirAt(k).path \o e.name \o (IF e.is_dir THEN <<Slash>> ELSE <<>>) :
     e \in {u \in Unmatched(k) : ~(u.is_dir /\ Eq(u.name, DotGit, caps.case_sensitive))}}

\* Files are matched by the listing, then by their stat.
Listed(k, f) == \E i \in DOMAIN task[k].list :
                  Eq(NameIn(f.path), task[k].list[i].name, caps.case_sensitive)
MatchFiles(k) == {f.path : f \in {g \in FilesAt(k) : ~Listed(k, g) \/ Suspect(k, g)}}
StatsLate(k) ==
  /\ task[k].at = "match"
  /\ cache' = [cache EXCEPT ![task[k].it] =
                 [st |-> mtime[PathAt(k)], unmatched |-> AddUnmatched(k),
                  racy |-> mtime[PathAt(k)] = clock]]
  /\ task' = [task EXCEPT ![k] = Next_(k, MatchFiles(k) \cup AddUnmatched(k))]
  /\ NoFault
MatchDir(k) ==
  /\ task[k].at = "match"
  /\ cache' = [cache EXCEPT ![task[k].it].unmatched = AddUnmatched(k)]
  /\ task' = [task EXCEPT ![k] = Next_(k, MatchFiles(k) \cup AddUnmatched(k))]
  /\ NoFault

ScanDirs(k) ==
  /\ \/ OpenDir(k) \/ OpenFails(k) \/ DupFails(k) \/ StatDir(k) \/ Visit(k)
     \/ ListDir(k) \/ MatchDir(k)
  /\ UNCHANGED <<env, object, caller, inflight, error, res>>

\* The closure around ScanDirs takes the mutex to add what was found or to
\* set error; a second time, on scope exit, to count itself as finished.
Collect(k) ==
  /\ task[k].at \in {"collect", "throw"}
  /\ task' = [task EXCEPT ![k].at = "leave", ![k].fds = NoFds, ![k].found = {}]
  /\ res' = IF task[k].at = "collect" THEN res \cup task[k].found ELSE res
  /\ error' = (error \/ task[k].at = "throw")
  /\ UNCHANGED <<env, object, cache, caller, inflight, events>>

Leave(k) ==
  /\ task[k].at = "leave"
  /\ task' = [task EXCEPT ![k].at = "done"]
  /\ inflight' = inflight - 1
  /\ UNCHANGED <<env, object, cache, caller, error, res, events>>

Step(k) == StartTask(k) \/ ScanDirs(k) \/ Collect(k) \/ Leave(k)

Next ==
  \/ \E p \in Paths : \E n \in Possible[p] : Change(p, n)
  \/ Tick
  \/ \E ix \in Scanned : NewIndex(ix)
  \/ \E o \in ScanOpts : GetDirtyCandidates(o) \/ RootUnreadable(o)
  \/ \E k \in Tasks : Step(k)
  \/ Return

Spec == Init /\ [][Next]_vars

-----------------------------------------------------------------------------
(* Properties of the object that the constructor builds.                   *)

TypeOK ==
  /\ fs \in [Paths -> Node]
  /\ index \in Scanned =>
       \A p \in Paths \ {Root} : fs[p] # None => fs[Parent(p)] \in {Dir, Locked}
  /\ mtime \in [Paths -> 1..MaxClock] /\ clock \in 1..MaxClock
  /\ steady \subseteq Paths
  /\ DOMAIN cache = DOMAIN dirs /\ DOMAIN task = Tasks
  /\ \A i \in DOMAIN cache : cache[i].st \in 0..MaxClock
  /\ pc \in {"idle", "wait"} /\ opts \in ScanOpts /\ error \in BOOLEAN
  /\ \A k \in Tasks : task[k].at \in {"none", "queued", "open", "stat", "files", "cached", "list",
                                      "match", "collect", "throw", "leave", "done"}
  /\ req \in 0..MaxReq /\ events \in 0..MaxEvents

CS == caps.case_sensitive
Same(x, y) == Eq(x, y, CS)
Dirs == DOMAIN dirs
\* The directories are exactly those that hold entries, each once and with
\* its own files and subdirectories; and each opens from a directory that
\* the one before it lies in, which is what the stack of dir_fd assumes.
Fresh == req = 0 /\ events = 0 /\ clock = 1
TreeIsIndex ==
  /\ \A i \in DOMAIN index : \A d \in Holds(index[i].path) :
       \E j \in Dirs : \A h \in Dirs : Same(dirs[h].path, d) <=> h = j
  /\ \A j \in Dirs :
       /\ dirs[j].depth = Cardinality(SlashesIn(dirs[j].path))
       /\ \A i \in DOMAIN index :
            Same(DirOf(index[i].path), dirs[j].path) <=> i \in Range(dirs[j].files)
       /\ \A x, y \in DOMAIN dirs[j].subdirs :
            x < y => Lt(dirs[j].subdirs[x], dirs[j].subdirs[y], CS)
       /\ {h \in Dirs : dirs[h].path # Root /\ Same(Up(dirs[h].path, 1), dirs[j].path)}
            = {h \in Dirs : dirs[h].basename \in Range(dirs[j].subdirs)
                            /\ Same(dirs[h].path, dirs[j].path \o dirs[h].basename \o <<Slash>>)}
  /\ \A j \in Dirs \ {1} :
       LET d == dirs[j - 1].depth + 1 - dirs[j].depth
       IN  d >= 0 /\ Same(Up(dirs[j].path, 1), Up(dirs[j - 1].path, d))
  /\ \A x, y \in DOMAIN splits : x < y => splits[x] < splits[y]
  /\ splits[1] = 0 /\ Last(splits) = Len(dirs)

TreeMatchesIndex == Fresh => TreeIsIndex

Shards == UpdateShards(PathsOf(index), CS)
Candidates == Probes \cup Range(PathsOf(index))
DealtRight(paths) ==
  LET at == DealtTo(Shards, paths, CS)
  IN  \A i \in DOMAIN paths : at[i] <= Len(Shards) /\ ShardContains(Shards[at[i]], paths[i], CS)

\* Every path, in the index or not, belongs to one shard, the entries of the
\* index are cut at the same places, and dealing sorted candidates to the
\* shards never runs past the last one.
ShardsArePartition ==
  /\ \A p \in Candidates : \E i \in DOMAIN Shards : \A j \in DOMAIN Shards :
       ShardContains(Shards[j], p, CS) <=> i = j
  /\ \A i \in DOMAIN Shards \ {1} :
       /\ Shards[i].start_i = Shards[i - 1].end_i /\ Shards[i - 1].start_i < Shards[i].start_i
       /\ Lt(Shards[i - 1].start_s, Shards[i - 1].end_s, CS)
       /\ Lt(Shards[i - 1].end_s, Shards[i].start_s, CS)
       /\ IsPrefix(Shards[i].start_s, index[Shards[i].start_i + 1].path)
  /\ Shards[1].start_i = 0 /\ Last(Shards).end_i = Len(index)
  /\ DealtRight(SortSet(Candidates, CS))
ShardsPartition == Fresh => ShardsArePartition

\* CHECK(splits_.size() <= kNumShards + 1) of InitSplits.
SplitsFit == Len(splits) <= MaxSplits + 1

-----------------------------------------------------------------------------
(* Properties of a request.                                                *)

\* Nothing of a request runs once its caller is gone: the closures use the
\* caller's stack, and root_fd.
NothingOutlives ==
  /\ TypeOK
  /\ inflight = Cardinality({k \in Tasks : task[k].at \notin {"none", "done"}})
  /\ pc = "idle" => inflight = 0

\* A descriptor in the stack is that of the directory so many levels above
\* the last one opened.  At "open" that one is the directory before.
LastDir(k) == IF task[k].at = "open"
              THEN IF task[k].it = First(k) THEN Up(DirAt(k).path, 1)
                   ELSE dirs[task[k].it - 1].path
              ELSE DirAt(k).path
FdsAreAncestors ==
  \A k \in Tasks : task[k].at \in {"open", "stat", "files", "cached", "list", "match"} =>
    \A j \in 1..DirStackSize : task[k].fds[j] # NoFd =>
      j - 1 <= Cardinality(SlashesIn(LastDir(k))) /\ Same(task[k].fds[j], Up(LastDir(k), j - 1))

\* What git would report: a file that is not as in the index, as far as the
\* file system can tell; an entry of a directory of the index that it lacks.
Tracked == Range(PathsOf(index))
Differs(e, n) ==
  \/ n.mode \in {"none", "dir", "locked"} \/ e.stage # 0 \/ e.data # n.data
  \/ caps.has_symlinks /\ (e.mode = "link") # (n.mode = "link")
  \/ caps.trust_filemode /\ {e.mode, n.mode} = {"644", "755"}
New(p) ==
  /\ opts.include_untracked /\ p # Root /\ fs[p] # None /\ p \notin Tracked
  /\ ~(NameIn(p) = DotGit /\ fs[p].mode \in {"dir", "locked"})
  /\ \E j \in Dirs : dirs[j].path = DirOf(p)
  /\ fs[p].mode \in {"dir", "locked"} => ~\E j \in Dirs : dirs[j].path = p \o <<Slash>>
Dirty(p) == New(p) \/ \E i \in DOMAIN index : index[i].path = p /\ Differs(index[i], fs[p])
Covered(p) ==
  \E c \in res : c \in {Root, p} \/ (Last(c) = Slash /\ IsPrefix(c, p \o <<Slash>>))
RacyDir(p) ==
  opts.untracked_cache = "true" /\ \E j \in Dirs : dirs[j].path = DirOf(p) /\ cache[j].racy

\* Whatever is dirty from the beginning to the end of a request is covered
\* by a candidate, whatever else changes and whatever was remembered from
\* earlier requests.  The one exception is a new name in a directory whose
\* stat was taken within the tick of its last change.
CandidatesComplete ==
  pc = "wait" /\ inflight = 0 /\ ~error =>
    \A p \in steady : Above(p) \subseteq steady /\ Dirty(p) =>
      Covered(p) \/ (New(p) /\ RacyDir(p))
=============================================================================
