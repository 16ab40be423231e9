-------------------------------- MODULE TagDb --------------------------------
(***************************************************************************)
(* The tags of a repository: src/gitstatus/src/tag_db.{h,cc}, and          *)
(* Repo::GetTagName.                                                       *)
(*                                                                         *)
(* A lookup runs on the thread pool while the main thread does the rest of *)
(* the request.  It lists what is in refs/tags, without entering the       *)
(* directories there, reads packed-refs again if its stat has changed,     *)
(* asks libgit2 for the target of each name in the list, and then consults *)
(* the packed tags that are not in it.  A packed-refs that was read is     *)
(* indexed by name at once and by commit in the background; until that     *)
(* sort ends the index by name answers.                                    *)
(*                                                                         *)
(* git changes the tags meanwhile, a file at a time: packed-refs by        *)
(* renaming a new file over it, then the loose files that it made obsolete.*)
(***************************************************************************)
EXTENDS Integers, Sequences, FiniteSets, SequencesExt, FiniteSetsExt

CONSTANTS
  Names,          \* names in refs/tags; their order is strcmp's
  Nested,         \* those with a slash: foo/bar
  DirOf,          \* [Nested -> Names]: their directory in refs/tags, foo
  Commits,        \* commits
  TagObjects,     \* annotated tags
  Points,         \* [TagObjects -> Commits \cup TagObjects]
  NoRef,          \* there is no such loose tag
  Symbolic,       \* a loose tag that is a symbolic reference
  Written,        \* what git tag may store in a loose tag
  FirstLoose,     \* loose tags there may be at the beginning
  FirstPacked,    \* what packed-refs may be at the beginning
  Threads,        \* opts.num_threads
  kMaxDerefCount, \* 10 in the code
  MaxLookups,     \* bound: lookups
  MaxEvents       \* bound: git commands

Object == Commits \cup TagObjects
Value == Object \cup {Symbolic, NoRef}
NoName == 0       \* the empty string
NoStat == 0       \* pack_stat_ = {}
Line == [name : Names, id : Object, peeled : Commits \cup {NoRef}]
\* A version of packed-refs: whether it is there, what its header says and
\* whether every line of it is well formed.
Headers == {"none", "partial", "full"}
File == [exists : BOOLEAN, header : Headers, lines : Seq(Line), valid : BOOLEAN]
NoFile == [exists |-> FALSE, header |-> "none", lines |-> <<>>, valid |-> TRUE]

\* The records or numbers of a set, in an order that is total on them.
InOrder(S, Before(_, _)) ==
  CHOOSE s \in [1..Cardinality(S) -> S] : \A i, j \in DOMAIN s : i < j => Before(s[i], s[j])
ByName(x, y) == x.name < y.name

\* The commit that an annotated tag stands for, in n steps at most.
Peel[n \in Nat, o \in Object] ==
  IF o \in Commits THEN o ELSE IF n = 0 THEN NoRef ELSE Peel[n - 1, Points[o]]
Commit(v) == IF v \in Commits THEN v
             ELSE IF v \in TagObjects THEN Peel[Cardinality(TagObjects), v] ELSE NoRef

\* A file has one line for a tag, which says of an annotated one what it
\* stands for or does not say it.
WellFormed(f) ==
  /\ \A x, y \in Range(f.lines) : x.name = y.name => x = y
  /\ \A l \in Range(f.lines) : l.peeled \in {NoRef, Commit(l.id)}

\* The code gives up on tags of tags of tags beyond kMaxDerefCount.
ASSUME TagDbAssumption ==
  /\ Names \subseteq Nat \ {NoName} /\ IsFiniteSet(Names) /\ Threads \subseteq Nat \ {0}
  /\ Nested \subseteq Names /\ DirOf \in [Nested -> Names \ Nested]
  /\ Commits \cap TagObjects = {} /\ {NoRef, Symbolic} \cap Object = {}
  /\ Points \in [TagObjects -> Object]
  /\ Written \subseteq Value \ {NoRef}
  /\ FirstLoose \subseteq [Names -> Value]
  /\ \A f \in FirstPacked : f \in File /\ WellFormed(f)
  /\ \A o \in TagObjects : Commit(o) \in Commits /\ Peel[kMaxDerefCount, o] = Commit(o)
  /\ {kMaxDerefCount, MaxLookups, MaxEvents} \subseteq Nat

VARIABLES
  loose,      \* .git/refs/tags
  packed,     \* .git/packed-refs
  version,    \* its stat: another number for each file that was there
  obsolete,   \* loose tags that a git command has still to remove
  events,     \* git commands so far
  threads,    \* threads of the pool
  queue,      \* the functions it has still to start, of this object
  looseTags,  \* loose_tags_
  packStat,   \* pack_stat_
  name2id,    \* name2id_
  id2name,    \* id2name_, a set, and whether it is sorted
  dirty,      \* id2name_dirty_
  sort,       \* the function that sorts id2name_, and what it found there
  asleep,     \* who waits on cv_
  lookup,     \* TagForCommit on its thread
  main,       \* the main thread
  lookups,    \* so far
  was, kept,  \* ghosts: tags that were of the commit at some time in the
              \* lookup; tags that are of it since it began, in the same file
  packedWas,  \* ghost: tags whose packed line was of it at some time
  unseen      \* ghost: tags whose loose file the lookup does not see

files == <<loose, packed, version, obsolete, events>>
ghosts == <<was, kept, packedWas, unseen>>
pack == <<packStat, name2id, id2name>>
tagDbVars == <<files, threads, queue, looseTags, pack, dirty, sort, asleep, lookup, main, lookups,
          ghosts>>

NoLookup == [at |-> "none", oid |-> NoRef, st |-> NoStat, then |-> "none", todo |-> <<>>,
             deref |-> 0, res |-> NoName]
NoSort == [at |-> "none", entries |-> {}]

-----------------------------------------------------------------------------
(* What the files say, and git's commands.                                 *)

PackedLines(p, n) == {l \in Range(p.lines) : p.exists /\ l.name = n}
GitTarget(ls, p, n) ==
  IF ls[n] # NoRef THEN Commit(ls[n])
  ELSE IF PackedLines(p, n) = {} THEN NoRef
  ELSE Commit((CHOOSE l \in PackedLines(p, n) : TRUE).id)
GitTags(ls, p, oid) == {n \in Names : oid # NoRef /\ GitTarget(ls, p, n) = oid}
PackedTags(p, oid) ==
  {n \in Names : oid # NoRef /\ \E l \in PackedLines(p, n) : Commit(l.id) = oid}

\* Tags in packed-refs that can be read off it: without a header none, and
\* an annotated one only from the line that says what it stands for.
Readable(p, n) ==
  p.header # "none" /\ \A l \in PackedLines(p, n) : l.id \in Commits \/ l.peeled # NoRef
InLoose(ls, n) == ls[n] # NoRef

\* There is no tag foo beside a tag foo/bar.
IsTag(ls, p, n) == InLoose(ls, n) \/ PackedLines(p, n) # {}
NoClash(ls, p) == \A n \in Nested : IsTag(ls, p, n) => ~IsTag(ls, p, DirOf[n])

Findable(ls, p, oid) == {n \in GitTags(ls, p, oid) : InLoose(ls, n) \/ Readable(p, n)}

GitChanges ==
  /\ was' = was \cup GitTags(loose', packed', lookup.oid)
  /\ packedWas' = packedWas \cup PackedTags(packed', lookup.oid)
  /\ kept' = {n \in kept \cap Findable(loose', packed', lookup.oid) :
                InLoose(loose', n) = InLoose(loose, n)}
  /\ UNCHANGED <<threads, queue, looseTags, pack, dirty, sort, asleep, lookup, main, lookups,
                 unseen>>

GitCommand ==
  /\ events < MaxEvents /\ obsolete = {} /\ main # "gone" /\ packed.valid
  /\ events' = events + 1

\* git tag -f
WriteTag(n, v) ==
  /\ GitCommand
  /\ loose[n] # v
  /\ loose' = [loose EXCEPT ![n] = v] /\ NoClash(loose', packed)
  /\ UNCHANGED <<packed, version, obsolete>> /\ GitChanges

\* packed-refs as git writes it: every tag with what it stands for, sorted.
NewPack(refs) ==
  [exists |-> TRUE, header |-> "full", valid |-> TRUE,
   lines |-> InOrder({[name |-> r[1], id |-> r[2],
                       peeled |-> IF r[2] \in Commits THEN NoRef ELSE Commit(r[2])] :
                         r \in refs}, ByName)]
Unpacked == {n \in Names : loose[n] \in Object}
PackedRefs == {<<l.name, l.id>> : l \in UNION {PackedLines(packed, n) : n \in Names}}

\* git pack-refs --all
PackRefs ==
  /\ GitCommand
  /\ packed' = NewPack({r \in PackedRefs : r[1] \notin Unpacked}
                       \cup {<<n, loose[n]>> : n \in Unpacked})
  /\ version' = version + 1
  /\ obsolete' = Unpacked
  /\ UNCHANGED loose /\ GitChanges

\* git tag -d
DeleteTag(n) ==
  /\ GitCommand
  /\ InLoose(loose, n) \/ PackedLines(packed, n) # {}
  /\ IF PackedLines(packed, n) # {}
     THEN packed' = NewPack({r \in PackedRefs : r[1] # n}) /\ version' = version + 1
     ELSE UNCHANGED <<packed, version>>
  /\ obsolete' = IF InLoose(loose, n) THEN {n} ELSE {}
  /\ UNCHANGED loose /\ GitChanges

RemoveLoose(n) ==
  /\ n \in obsolete
  /\ loose' = [loose EXCEPT ![n] = NoRef] /\ obsolete' = obsolete \ {n}
  /\ UNCHANGED <<packed, version, events>> /\ GitChanges

-----------------------------------------------------------------------------
(* The main thread: GetTagName for each request, then the destructor.      *)

TagDbInit ==
  /\ loose \in FirstLoose /\ packed \in FirstPacked /\ NoClash(loose, packed) /\ version = 1
  /\ obsolete = {} /\ events = 0
  /\ threads \in Threads /\ queue = <<>>
  /\ looseTags = <<>> /\ packStat = NoStat /\ name2id = <<>>
  /\ id2name = [entries |-> {}, sorted |-> FALSE]
  /\ dirty = FALSE /\ sort = NoSort /\ asleep = {}
  /\ lookup = NoLookup /\ main = "idle" /\ lookups = 0
  /\ was = {} /\ kept = {} /\ packedWas = {} /\ unseen = {}

GetTagName(oid) ==
  /\ main = "idle" /\ lookups < MaxLookups
  /\ main' = "wait" /\ lookups' = lookups + 1
  /\ lookup' = [NoLookup EXCEPT !.at = "queued", !.oid = oid]
  /\ queue' = Append(queue, "lookup")
  /\ was' = GitTags(loose, packed, oid) /\ kept' = Findable(loose, packed, oid)
  /\ packedWas' = PackedTags(packed, oid) /\ unseen' = {}
  /\ UNCHANGED <<files, threads, looseTags, pack, dirty, sort, asleep>>

\* ProcessRequest does not return before the future is ready.
Answered ==
  /\ main = "wait" /\ lookup.at \in {"done", "failed"}
  /\ main' = "idle" /\ lookup' = NoLookup
  /\ was' = {} /\ kept' = {} /\ packedWas' = {} /\ unseen' = {}
  /\ UNCHANGED <<files, threads, queue, looseTags, pack, dirty, sort, asleep, lookups>>

Destroy ==
  /\ main = "idle"
  /\ main' = "destroy"
  /\ UNCHANGED <<files, threads, queue, looseTags, pack, dirty, sort, asleep, lookup, lookups,
                 ghosts>>

\* Wait() sleeps on cv_ while id2name_dirty_.
SleepOnSort(who) ==
  /\ dirty /\ who \notin asleep
  /\ asleep' = asleep \cup {who}
  /\ UNCHANGED <<files, threads, queue, looseTags, pack, dirty, sort, lookup, main, lookups,
                 ghosts>>
Waited(who) == ~dirty /\ who \notin asleep

Destroyed ==
  /\ main = "destroy" /\ Waited("main")
  /\ main' = "gone"
  /\ UNCHANGED <<files, threads, queue, looseTags, pack, dirty, sort, asleep, lookup, lookups,
                 ghosts>>

-----------------------------------------------------------------------------
(* The pool starts functions in the order of scheduling.                   *)

Busy == (IF lookup.at \in {"none", "queued", "done", "failed"} THEN 0 ELSE 1)
        + (IF sort.at = "sorting" THEN 1 ELSE 0)
LastScheduled(q) == Len(q)
FirstScheduled(q) == 1
Start ==
  /\ queue # <<>> /\ Busy < threads
  /\ LET f == queue[FirstScheduled(queue)]
     IN  /\ queue' = RemoveAt(queue, FirstScheduled(queue))
         /\ lookup' = IF f = "lookup" THEN [lookup EXCEPT !.at = "loose"] ELSE lookup
         /\ sort' = IF f = "sort" THEN [at |-> "sorting", entries |-> id2name.entries] ELSE sort
  /\ UNCHANGED <<files, threads, looseTags, pack, dirty, asleep, main, lookups, ghosts>>

\* The function that ParsePack schedules.
SortById ==
  /\ sort.at = "sorting"
  /\ sort' = NoSort
  /\ id2name' = [id2name EXCEPT !.sorted = TRUE]
  /\ dirty' = FALSE
  /\ IF asleep = {} THEN UNCHANGED asleep ELSE \E w \in asleep : asleep' = asleep \ {w}
  /\ UNCHANGED <<files, threads, queue, looseTags, packStat, name2id, lookup, main, lookups,
                 ghosts>>

-----------------------------------------------------------------------------
(* TagForCommit.                                                           *)

IsLooseTag(n) == n \in Range(looseTags)

\* The entries of refs/tags: the tag files in it, and its directories, which
\* are not entered.
Entries(ls) ==
  {n \in Names \ Nested : InLoose(ls, n) \/ \E m \in Nested : DirOf[m] = n /\ InLoose(ls, m)}

\* The directory is listed, or cannot be opened or read: then the list is empty.
ReadLooseTags ==
  /\ lookup.at = "loose"
  /\ \/ looseTags' = InOrder(Entries(loose), <) /\ unseen' = Nested
     \/ looseTags' = <<>> /\ unseen' = Names
  /\ lookup' = [lookup EXCEPT !.at = "stat"]
  /\ UNCHANGED <<files, threads, queue, pack, dirty, sort, asleep, main, lookups, was, kept,
                 packedWas>>

\* UpdatePack: nothing to do, or what there is to be reset.
StatPack ==
  /\ lookup.at = "stat"
  /\ lookup' =
       IF ~packed.exists THEN [lookup EXCEPT !.at = "reset", !.then = "tags"]
       ELSE IF packStat = version
       THEN [lookup EXCEPT !.at = "tags", !.todo = looseTags]
       ELSE [lookup EXCEPT !.at = "reset", !.then = "read", !.st = version]
  /\ UNCHANGED <<files, threads, queue, looseTags, pack, dirty, sort, asleep, main, lookups,
                 ghosts>>

\* Reset() after its Wait().
ResetNow ==
  /\ lookup.at = "reset"
  /\ packStat' = NoStat /\ name2id' = <<>> /\ id2name' = [entries |-> {}, sorted |-> FALSE]
  /\ lookup' = [lookup EXCEPT !.at = lookup.then, !.todo = looseTags]
  /\ UNCHANGED <<files, threads, queue, looseTags, dirty, sort, asleep, main, lookups, ghosts>>
Reset == Waited("lookup") /\ ResetNow

\* What ParsePack takes from a line: its name and the last id it has.
TagOf(line) == [name |-> line.name, id |-> IF line.peeled = NoRef THEN line.id ELSE line.peeled]
TagsOf(lines) == [i \in DOMAIN lines |-> TagOf(lines[i])]
AsListed(tags) == tags
SortedByName(tags) == InOrder(Range(tags), ByName)

\* packed-refs is opened, read and checked to be the file that was statted;
\* if so, it is parsed.
Read ==
  /\ lookup.at = "read"
  /\ packed.exists /\ version = lookup.st /\ packed.valid
  /\ packStat' = version
  /\ lookup' = [lookup EXCEPT !.at = "tags", !.todo = looseTags]
  /\ IF packed.header = "none" THEN UNCHANGED <<name2id, id2name, dirty, queue, sort>>
     ELSE /\ name2id' = SortedByName(TagsOf(packed.lines))
          /\ id2name' = [entries |-> Range(TagsOf(packed.lines)), sorted |-> FALSE]
          /\ dirty' = TRUE /\ sort' = [NoSort EXCEPT !.at = "queued"] /\ queue' = Append(queue, "sort")
  /\ UNCHANGED <<files, threads, looseTags, asleep, main, lookups, ghosts>>

ReadAgain ==
  /\ lookup.at = "read"
  /\ packed.exists /\ version # lookup.st
  /\ packStat' = version /\ lookup' = [lookup EXCEPT !.st = version]
  /\ UNCHANGED <<files, threads, queue, looseTags, name2id, id2name, dirty, sort, asleep, main,
                 lookups, ghosts>>

\* An exception: nothing of the file is kept, the lookup fails.
FailKeepingStat ==
  /\ lookup.at = "read"
  /\ ~packed.exists \/ (version = lookup.st /\ ~packed.valid)
  /\ packStat' = version /\ lookup' = [lookup EXCEPT !.at = "failed"]
  /\ UNCHANGED <<files, threads, queue, looseTags, name2id, id2name, dirty, sort, asleep, main,
                 lookups, ghosts>>
ReadFails ==
  /\ lookup.at = "read"
  /\ ~packed.exists \/ (version = lookup.st /\ ~packed.valid)
  /\ packStat' = IF packed.exists THEN version ELSE packStat
  /\ lookup' = [lookup EXCEPT !.at = "reset", !.then = "failed"]
  /\ UNCHANGED <<files, threads, queue, looseTags, name2id, id2name, dirty, sort, asleep, main,
                 lookups, ghosts>>

\* TagHasTarget for the next entry.  git_refdb_lookup does not see packed tags,
\* and a directory is no reference.  A symbolic reference is looked up by its own name again.
HasTarget(v) ==
  \/ v = lookup.oid
  \/ v \in TagObjects /\ Peel[kMaxDerefCount, v] = lookup.oid
LoosePart == lookup.at = "tags" /\ lookup.todo # <<>>
FollowSymbolic ==
  /\ LoosePart
  /\ loose[Head(lookup.todo)] = Symbolic /\ lookup.deref < kMaxDerefCount
  /\ lookup' = [lookup EXCEPT !.deref = @ + 1]
  /\ UNCHANGED <<files, threads, queue, looseTags, pack, dirty, sort, asleep, main, lookups,
                 ghosts>>

\* After the first lookup, one that fails falls back to the packed tags; but
\* every name in this loop is listed.
InPack(n) ==
  lookup.deref > 0 /\ loose[n] = NoRef /\ ~IsLooseTag(n)
  /\ \E i \in DOMAIN name2id : name2id[i] = [name |-> n, id |-> lookup.oid]
TryLooseTag ==
  /\ LoosePart
  /\ LET n == Head(lookup.todo)
     IN  /\ ~(loose[n] = Symbolic /\ lookup.deref < kMaxDerefCount)
         /\ lookup' = [lookup EXCEPT
              !.todo = Tail(@), !.deref = 0,
              !.res = IF @ < n /\ (HasTarget(loose[n]) \/ InPack(n)) THEN n ELSE @]
  /\ UNCHANGED <<files, threads, queue, looseTags, pack, dirty, sort, asleep, main, lookups,
                 ghosts>>

\* The index by name is searched from its end, the one by commit has the
\* tags of a commit side by side, or anywhere if it is not sorted.
FromNames ==
  LET hits == {i \in DOMAIN name2id : name2id[i].id = lookup.oid /\ ~IsLooseTag(name2id[i].name)}
  IN  IF hits = {} THEN {} ELSE {name2id[Max(hits)].name}
AnyFromIds == {t.name : t \in {x \in id2name.entries : x.id = lookup.oid}}
FromIds == {n \in AnyFromIds : ~IsLooseTag(n)}

PackedPart ==
  /\ lookup.at = "tags" /\ lookup.todo = <<>>
  /\ \E found \in (IF dirty THEN {FromNames}
                   ELSE IF id2name.sorted THEN {FromIds} ELSE SUBSET FromIds) :
       lookup' = [lookup EXCEPT !.at = "done", !.res = Max({@} \cup found)]
  /\ UNCHANGED <<files, threads, queue, looseTags, pack, dirty, sort, asleep, main, lookups,
                 ghosts>>

TagForCommit ==
  \/ ReadLooseTags \/ StatPack \/ Reset \/ Read \/ ReadAgain \/ ReadFails
  \/ FollowSymbolic \/ TryLooseTag \/ PackedPart
  \/ lookup.at = "reset" /\ SleepOnSort("lookup")
Destructor == Destroyed \/ (main = "destroy" /\ SleepOnSort("main"))

Git ==
  \/ PackRefs
  \/ \E n \in Names : DeleteTag(n) \/ RemoveLoose(n) \/ \E v \in Written : WriteTag(n, v)

TagDbNext ==
  \/ Git \/ Start \/ SortById \/ TagForCommit \/ Destructor
  \/ \E oid \in Commits : GetTagName(oid)
  \/ Answered \/ Destroy

Fairness ==
  WF_tagDbVars(Start) /\ WF_tagDbVars(SortById) /\ WF_tagDbVars(TagForCommit) /\ WF_tagDbVars(Destructor)
TagDbSpec == TagDbInit /\ [][TagDbNext]_tagDbVars /\ Fairness

-----------------------------------------------------------------------------

TagDbTypeOK ==
  /\ loose \in [Names -> Value] /\ version \in 1..(MaxEvents + 1)
  /\ obsolete \subseteq Names /\ events \in 0..MaxEvents
  /\ packStat \in 0..version
  /\ dirty \in BOOLEAN /\ sort.at \in {"none", "queued", "sorting"}
  /\ asleep \subseteq {"lookup", "main"}
  /\ lookup.at \in {"none", "queued", "loose", "stat", "reset", "read", "tags", "done", "failed"}
  /\ main \in {"idle", "wait", "destroy", "gone"}

\* The sort in the background has the vector to itself: it is on its way
\* exactly while id2name_dirty_, on the tags that were read last, and never
\* after the object is gone.  CHECK(id2name_dirty_) is a part of this.
SortIsAlone ==
  /\ TagDbTypeOK
  /\ dirty <=> sort # NoSort
  /\ dirty => ~id2name.sorted
  /\ id2name.entries = Range(name2id)
  /\ sort.at = "sorting" => sort.entries = id2name.entries
  /\ \A i, j \in DOMAIN queue : queue[i] = "sort" /\ queue[j] = "sort" => i = j
  /\ (\E i \in DOMAIN queue : queue[i] = "sort") <=> sort.at = "queued"
  /\ main = "gone" => sort = NoSort

\* The tag answered was of that commit at some time in the lookup, and there
\* was no later one that stayed in its file all the time.  Loose files that
\* the lookup does not see, those in directories and all of them if refs/tags
\* cannot be listed, are missed, and their packed lines are believed.
AnswerIsTrue ==
  lookup.at = "done" =>
    /\ lookup.res \in was \cup (packedWas \cap unseen) \cup {NoName}
    /\ \A n \in kept : n <= lookup.res \/ (n \in unseen /\ InLoose(loose, n))

\* Every lookup ends, though it may wait on the pool for a function that is
\* to run on the same pool; and so does the destructor.
LookupsEnd == main \in {"wait", "destroy"} ~> main \in {"idle", "gone"} \/ lookup.at \in {"done", "failed"}
=============================================================================
