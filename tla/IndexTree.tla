------------------------------ MODULE IndexTree ------------------------------
(***************************************************************************)
(* How a repository's index becomes work for the threads, in               *)
(* src/gitstatus/src/index.cc (a tree of directories, cut into splits),    *)
(* repo.cc (ranges of paths: shards) and string_cmp.h (the comparisons the *)
(* two rest on).                                                           *)
(*                                                                         *)
(* Which names sort before which decides every one of these cuts, so a     *)
(* path is the sequence of its bytes.  cs is caps.case_sensitive; without  *)
(* it bytes are compared after tolower.                                    *)
(***************************************************************************)
EXTENDS Integers, Sequences, FiniteSets, SequencesExt

CONSTANTS
  MinShardWeight,   \* kMinShardWeight: 512 in the code
  EntriesPerShard,  \* kEntriesPerShard: 512 in the code
  SplitsPerThread,  \* 16 in the code
  NumThreads        \* GlobalThreadPool()->num_threads()

\* A shard of one entry each would be one shard too many.
ASSUME TreeAssumption ==
  /\ {MinShardWeight, SplitsPerThread, NumThreads} \subseteq Nat \ {0}
  /\ EntriesPerShard \in Nat \ {0, 1}

Slash == 47
Bytes == Seq(1..255)   \* strings: no byte of them is null

-----------------------------------------------------------------------------
(* string_cmp.h.  The bytes of a string end with a null: At.               *)

At(x, k) == IF k <= Len(x) THEN x[k] ELSE 0
Lower(c) == IF c \in 65..90 THEN c + 32 ELSE c
Value(c, cs) == IF cs THEN c ELSE Lower(c)

\* memcmp, strcmp, their case-blind forms, and a loop over bytes for a view
\* and a pointer; gitstatusd is built with -funsigned-char, so they agree.
Cmp(x, y, cs) ==
  LET Diff(k) == Value(At(x, k), cs) - Value(At(y, k), cs)
      differ == {k \in 1..(Len(x) + 1) : Diff(k) # 0}
  IN  IF differ = {} THEN 0 ELSE Diff(Min(differ))

Lt(x, y, cs) == Cmp(x, y, cs) < 0
Eq(x, y, cs) == Cmp(x, y, cs) = 0
\* A set of strings in order.  Equal ones are in any; here, by their bytes.
Before(x, y, cs) == Lt(x, y, cs) \/ (Eq(x, y, cs) /\ Lt(x, y, TRUE))
SortSet(S, cs) ==
  LET before == [x \in S |-> Cardinality({y \in S : Before(y, x, cs)})]
  IN  [i \in 1..Cardinality(S) |-> CHOOSE x \in S : before[x] = i - 1]
StrSort(xs, cs) ==
  LET Before_(i, j) == Lt(xs[i], xs[j], cs) \/ (Eq(xs[i], xs[j], cs) /\ i < j)
      before == [j \in DOMAIN xs |-> Cardinality({i \in DOMAIN xs : Before_(i, j)})]
  IN  [n \in 1..Len(xs) |-> xs[CHOOSE j \in DOMAIN xs : before[j] = n - 1]]

-----------------------------------------------------------------------------
(* InitDirs: the directories of a sorted index, every one before those in  *)
(* it.  A stack holds the directory of the last entry and those around it. *)

CommonDirs(a, b, cs) ==
  {i \in 1..Len(a) : /\ i <= Len(b) /\ a[i] = Slash
                     /\ Eq(SubSeq(a, 1, i), SubSeq(b, 1, i), cs)}
CommonLen(a, b, cs) == Max({0} \cup CommonDirs(a, b, cs))
CommonDepth(a, b, cs) == Cardinality(CommonDirs(a, b, cs))

IndexDir(path, basename, depth) ==
  [path |-> path, basename |-> basename, depth |-> depth, files |-> <<>>, subdirs |-> <<>>]

OnTop(s, d) == [s EXCEPT !.stack = Append(Front(s.stack), d)]

PopUnsorted(s, cs) == [stack |-> Front(s.stack), dirs |-> Append(s.dirs, Last(s.stack))]
PopDir(s, cs) ==
  [stack |-> Front(s.stack),
   dirs |-> Append(s.dirs, [Last(s.stack) EXCEPT !.subdirs = StrSort(@, cs)])]

Popping(s, n, cs) ==
  LET after[i \in 0..n] == IF i = 0 THEN s ELSE PopDir(after[i - 1], cs) IN after
PopTo(s, depth, cs) ==
  LET n == Max({0, Len(s.stack) - 1 - depth}) IN Popping(s, n, cs)[n]

PushDir(s, path, slash) ==
  LET top == Last(s.stack)
      sub == SubSeq(path, Len(top.path) + 1, slash - 1)
      in_top == OnTop(s, [top EXCEPT !.subdirs = Append(@, sub)])
  IN  [in_top EXCEPT !.stack = Append(@, IndexDir(SubSeq(path, 1, slash), sub, Len(s.stack)))]

\* After every byte of the path from the one after the first so many.
Pushing(s, path, from) ==
  LET after[i \in from..Len(path)] ==
        IF i = from THEN s
        ELSE IF path[i] = Slash THEN PushDir(after[i - 1], path, i) ELSE after[i - 1]
  IN  after
PushDirs(s, path, from) == Pushing(s, path, from)[Len(path)]

AddFile(s, i) == OnTop(s, [Last(s.stack) EXCEPT !.files = Append(@, i)])

AddEntry(s, path, i, cs) ==
  LET prev == Last(s.stack).path
      at_common == PopTo(s, CommonDepth(prev, path, cs), cs)
  IN  AddFile(PushDirs(at_common, path, CommonLen(prev, path, cs)), i)

NoDirs == [stack |-> <<IndexDir(<<>>, <<>>, 0)>>, dirs |-> <<>>]

\* paths: those of the index's entries, in its order; files are places in it.
Adding(paths, cs) ==
  LET after[i \in 0..Len(paths)] ==
        IF i = 0 THEN NoDirs ELSE AddEntry(after[i - 1], paths[i], i, cs)
  IN  after
InitDirs(paths, cs) == Reverse(PopTo(Adding(paths, cs)[Len(paths)], -1, cs).dirs)

-----------------------------------------------------------------------------
(* InitSplits: where to cut dirs_ so that a thread has enough to do.       *)

Weight(dir) == 1 + Len(dir.subdirs) + Len(dir.files)
TotalWeight(dirs) == FoldLeft(LAMBDA w, d : w + Weight(d), 0, dirs)
MaxSplits == SplitsPerThread * NumThreads
ShardWeight(dirs) == Max({MinShardWeight, TotalWeight(dirs) \div MaxSplits})

Cut(s, weight, i, enough) ==
  IF s.w + weight >= enough THEN [w |-> 0, splits |-> Append(s.splits, i)]
  ELSE [s EXCEPT !.w = @ + weight]

Cutting(dirs) ==
  LET after[i \in 0..Len(dirs)] ==
        IF i = 0 THEN [w |-> 0, splits |-> <<0>>]
        ELSE Cut(after[i - 1], Weight(dirs[i]), i, ShardWeight(dirs))
  IN  after
FullSplits(dirs) == Cutting(dirs)[Len(dirs)].splits

InitSplits(dirs) ==
  IF Last(FullSplits(dirs)) = Len(dirs) THEN FullSplits(dirs)
  ELSE Append(FullSplits(dirs), Len(dirs))

-----------------------------------------------------------------------------
(* UpdateShards: ranges of paths that split no directory, by decrementing  *)
(* the slash in which a directory ends.  An empty end is no end.           *)

Shard(start_s, end_s, start_i, end_i) ==
  [start_s |-> start_s, end_s |-> end_s, start_i |-> start_i, end_i |-> end_i]

SlashesIn(path) == {i \in 1..Len(path) : path[i] = Slash}
DirOf(path) == SubSeq(path, 1, Max({0} \cup SlashesIn(path)))
BeforeDir(dir) == [dir EXCEPT ![Len(dir)] = @ - 1]

AddShard(s, dir, idx, cs) ==
  IF dir = <<>> \/ ~Lt(s.last_s, BeforeDir(dir), cs) THEN s
  ELSE [last_s |-> dir, last_i |-> idx,
        shards |-> Append(s.shards, Shard(s.last_s, BeforeDir(dir), s.last_i, idx))]

NumShards(size) == Min({size \div EntriesPerShard + 1, 2 * NumThreads})

ShardStart(paths, n, i) == (i * Len(paths)) \div n
CutShards(paths, n, cs) ==
  LET after[i \in 0..(n - 1)] ==
        IF i = 0 THEN [last_s |-> <<>>, last_i |-> 0, shards |-> <<>>]
        ELSE AddShard(after[i - 1], DirOf(paths[ShardStart(paths, n, i) + 1]),
                      ShardStart(paths, n, i), cs)
  IN  after[n - 1]

LastShard(s, size) == Append(s.shards, Shard(s.last_s, <<>>, s.last_i, size))

UpdateShards(paths, cs) ==
  IF Len(paths) <= EntriesPerShard \/ NumThreads < 2
  THEN <<Shard(<<>>, <<>>, 0, Len(paths))>>
  ELSE LastShard(CutShards(paths, NumShards(Len(paths)), cs), Len(paths))

Truncate(path, n) == SubSeq(path, 1, Min({Len(path), n}))

ContainsWhole(shard, path, cs) ==
  /\ ~Lt(path, shard.start_s, cs)
  /\ shard.end_s = <<>> \/ ~Lt(shard.end_s, path, cs)
ShardContains(shard, path, cs) ==
  /\ ~Lt(path, shard.start_s, cs)
  /\ shard.end_s = <<>> \/ ~Lt(shard.end_s, Truncate(path, Len(shard.end_s)), cs)

(* StartDirtyScan: the sorted candidates are dealt to the shards by a      *)
(* pointer to a shard that only moves forward; a run of candidates of one  *)
(* shard is one diff.  The shard Len(shards) + 1 is past the end.          *)

Advance(shards, at, path, cs) ==
  Min({i \in at..Len(shards) : ShardContains(shards[i], path, cs)} \cup {Len(shards) + 1})

\* The pointer after every candidate.
DealtTo(shards, paths, cs) ==
  LET at[i \in 0..Len(paths)] ==
        IF i = 0 THEN 1 ELSE Advance(shards, at[i - 1], paths[i], cs)
  IN  [i \in DOMAIN paths |-> at[i]]
=============================================================================
