--------------------------- MODULE GitstatusdProofs ---------------------------
(***************************************************************************)
(* For every set of directories and git directories, every --repo-ttl and  *)
(* every number of requests, whatever fails: answers come in the order of  *)
(* the requests and are whole, lru_ and cache_ name the same open          *)
(* repositories, and none is closed while it is used.                      *)
(***************************************************************************)
EXTENDS Gitstatusd, WellFoundedInduction, SequenceTheorems, TLAPS

(* How many requests are read and not answered. *)
Busy == IF pc \in {"read", "sent", "exited"} THEN 0 ELSE 1

(* Requests are numbered as they are sent, read and answered. *)
Numbered ==
  /\ asked = Len(answers) + Busy + Len(queue)
  /\ \A x \in DOMAIN answers : answers[x].n = x
  /\ Busy = 1 => cur.n = Len(answers) + 1
  /\ \A x \in DOMAIN queue : queue[x].n = Len(answers) + Busy + x

(* The last request that has looked for its repository. *)
Newest == Len(answers) + (IF pc = "open" THEN 0 ELSE Busy)

(* No two nodes were made by the same request, and the current one makes   *)
(* its node when it has looked for its repository.                         *)
OwnNodes ==
  /\ \A x, y \in lru : x.n = y.n => x = y
  /\ \A x \in lru : x.n <= Newest

(* The entry of an open repository and its node point to each other. *)
EntriesHaveNodes ==
  /\ \A g \in GitDir : IsOpen(g) => \E x \in lru : x.gitdir = g /\ x.n = cache[g].node
  /\ \A x \in lru : IsOpen(x.gitdir) /\ cache[x.gitdir].node = x.n

(* A node is as old as the last use of its repository. *)
AgeIsUnused == \A x \in lru : x.age = unused[x.gitdir]

(* The repository of the request stays open until its tag is known. *)
RepoStays ==
  /\ tag = "running" => pc \in {"stats", "finish", "unwind"}
  /\ pc \in {"head", "stats", "finish"} \/ tag = "running" =>
       \E g \in GitDir : IsOpen(g) /\ cache[g].repo = repo

(* The names of fields. *)
Name == Range(VcsStatus)

(* Fields that take the places after the k-th of a status about a commit, *)
(* up to the m-th.                                                         *)
Part(fields, k, m, commit) ==
  /\ fields \in Fields /\ Len(fields) = m - k
  /\ \A x \in 1..(m - k) : /\ fields[x].name = VcsStatus[k + x]
                           /\ fields[x].name \in OfCommit => fields[x].about = commit

(* The fields written so far. *)
PartOfStatus ==
  /\ pc \in {"read", "open", "head", "stats"} => resp = <<>>
  /\ pc = "finish" => Part(resp, 0, 15, head_target)
  /\ IsWhole

IInv ==
  /\ TypeOK /\ Numbered /\ OwnNodes /\ EntriesHaveNodes /\ AgeIsUnused
  /\ RepoStays /\ PartOfStatus
-----------------------------------------------------------------------------
(* Lemmas about the operators.                                             *)

(* A nonempty set of numbers has a least one. *)
LEMMA LeastOne ==
  ASSUME NEW S \in SUBSET Nat, S # {}
  PROVE  \E x \in S : \A y \in S : x <= y
<1> DEFINE R == {p \in Nat \X Nat : p[1] < p[2]}
<1>1. R = OpToRel(<, Nat)
  BY Zenon DEF OpToRel
<1>2. IsWellFoundedOn(R, Nat)
  BY <1>1, NatLessThanWellFounded, Zenon
<1>3. \E x \in S : \A y \in S : ~ (<<y, x>> \in R)
  <2> HIDE DEF R
  <2> QED
    BY <1>2, WFMin
<1>4. \A x, y \in Nat : ~ (<<y, x>> \in R) => x <= y
  <2> SUFFICES ASSUME NEW x \in Nat, NEW y \in Nat, y < x PROVE <<y, x>> \in R
    OBVIOUS
  <2>1. <<y, x>> \in Nat \X Nat /\ <<y, x>>[1] = y /\ <<y, x>>[2] = x
    OBVIOUS
  <2>2. QED
    BY <2>1
<1> HIDE DEF R
<1>5. QED
  BY <1>3, <1>4

(* What is discovered is a git directory, or nothing. *)
LEMMA GitDirsType ==
  ASSUME TypeOK, NEW target \in Target
  PROVE  GitDirs(target) \in GitDir \cup {NoGit}
<1>1. CASE target \in GitDir
  BY <1>1 DEF GitDirs
<1>2. CASE target \notin GitDir
  <2> DEFINE hits == {x \in DOMAIN Up[target] : at[Up[target][x]] # NoGit}
  <2>1. target \in Path /\ Up[target] \in Seq(Path)
    BY <1>2, DaemonAssumption DEF Target
  <2>2. hits \subseteq Nat /\ \A x \in hits : at[Up[target][x]] \in GitDir
    BY <2>1 DEF TypeOK
  <2>3. CASE hits = {}
    BY <1>2, <2>3 DEF GitDirs
  <2>4. CASE hits # {}
    <3> DEFINE x == CHOOSE x \in hits : \A y \in hits : x <= y
    <3>1. \E y \in hits : \A z \in hits : y <= z
      BY <2>2, <2>4, LeastOne
    <3>2. x \in hits
      BY <3>1
    <3>3. GitDirs(target) = at[Up[target][x]]
      BY <1>2, <2>4 DEF GitDirs
    <3>4. QED
      BY <2>2, <3>2, <3>3
  <2>5. QED
    BY <2>3, <2>4
<1>3. QED
  BY <1>1, <1>2

(* What Open makes is an entry, and it differs from the other two kinds. *)
LEMMA OpenFacts ==
  ASSUME NEW n, NEW m
  PROVE  /\ Open(n, m) # Closed /\ Open(n, m) # Null /\ Closed # Null
         /\ Open(n, m).repo = n /\ Open(n, m).node = m
         /\ n \in Num /\ m \in Num => Open(n, m) \in Entry
BY DEF Open, Closed, Null, Entry

(* An open entry is the pair of its repository and its node. *)
LEMMA EntryFacts ==
  ASSUME TypeOK, NEW g \in GitDir
  PROVE  /\ cache[g] \in Entry
         /\ IsOpen(g) => \E n \in Num, m \in Num : cache[g] = Open(n, m)
         /\ IsOpen(g) => /\ cache[g].repo \in Num /\ cache[g].node \in Num
<1>1. cache[g] \in Entry
  BY DEF TypeOK
<1>2. IsOpen(g) => \E n \in Num, m \in Num : cache[g] = Open(n, m)
  BY <1>1 DEF IsOpen, Entry
<1>3. ASSUME NEW n \in Num, NEW m \in Num, cache[g] = Open(n, m)
      PROVE  cache[g].repo \in Num /\ cache[g].node \in Num
  BY <1>3 DEF Open
<1>4. QED
  BY <1>1, <1>2, <1>3

(* The names in the responses are names. *)
LEMMA NamesOf ==
  /\ \A k \in 1..27 : VcsStatus[k] \in Name
  /\ VcsStatus \in Seq(Name) /\ Len(VcsStatus) = 27
<1>1. Len(VcsStatus) = 27 /\ DOMAIN VcsStatus = 1..27
  BY DEF VcsStatus
<1>2. \A k \in 1..27 : VcsStatus[k] \in Name
  BY <1>1 DEF Name, Range
<1>3. VcsStatus = [k \in 1..27 |-> VcsStatus[k]]
  BY DEF VcsStatus
<1>4. VcsStatus \in Seq(Name)
  BY <1>2, <1>3
<1>5. QED
  BY <1>1, <1>2, <1>4

(* Fields have the names that they are made from, and keep to the commit.  *)
LEMMA OfFacts ==
  ASSUME NEW names \in Seq(Name), NEW commit \in Commit \cup {NoCommit}
  PROVE  /\ Of(commit, names) \in Fields /\ Len(Of(commit, names)) = Len(names)
         /\ \A x \in 1..Len(names) : /\ Of(commit, names)[x].name = names[x]
                                     /\ Of(commit, names)[x].about = commit
<1>1. \A x \in 1..Len(names) : /\ Field(names[x], commit).name = names[x]
                               /\ Field(names[x], commit).about = commit
                               /\ Field(names[x], commit)
                                    \in [name : Name, about : Commit \cup {NoCommit}]
  BY DEF Field
<1>2. DOMAIN names = 1..Len(names) /\ Len(names) \in Nat
  OBVIOUS
<1> DEFINE e(x) == Field(names[x], commit)
<1>3. \A x \in 1..Len(names) : e(x) \in [name : Name, about : Commit \cup {NoCommit}]
  BY <1>1
<1>4. Of(commit, names) = [x \in 1..Len(names) |-> e(x)]
  BY <1>2 DEF Of
<1> HIDE DEF e
<1>5. [x \in 1..Len(names) |-> e(x)] \in Seq([name : Name, about : Commit \cup {NoCommit}])
  BY <1>2, <1>3, IsASeq
<1>6. Len([x \in 1..Len(names) |-> e(x)]) = Len(names)
  BY <1>2
<1>7. QED
  BY <1>1, <1>2, <1>4, <1>5, <1>6 DEF e, Fields, Name

(* What Erase leaves has the right type. *)
LEMMA EraseType ==
  ASSUME TypeOK, NEW gs, Erase(gs)
  PROVE  cache' \in [GitDir -> Entry] /\ lru' \in SUBSET Node
<1>1. Closed \in Entry
  BY DEF Entry
<1>2. QED
  BY <1>1 DEF Erase, TypeOK

(* The node and the entry that the current request makes. *)
LEMMA FreshType ==
  ASSUME TypeOK, NEW g \in GitDir
  PROVE  /\ Fresh(g) \in Node
         /\ Fresh(g).n = cur.n /\ Fresh(g).gitdir = g /\ Fresh(g).age = 0
         /\ Used(g) \in [GitDir -> Age]
         /\ Open(cur.n, cur.n) \in Entry /\ cur.n \in Num
<1>1. cur.n \in Num /\ 0 \in Age
  BY DaemonAssumption DEF TypeOK, Request, Age
<1>2. QED
  BY <1>1, OpenFacts DEF Fresh, Node, Used, TypeOK

(* A hit turns the entry to the node that it makes. *)
LEMMA HitFacts ==
  ASSUME TypeOK, Hit, pc' = "head"
  PROVE  LET g == GitDirs(cur.target) IN
         /\ pc = "open" /\ g \in GitDir /\ IsOpen(g)
         /\ lru' = {x \in lru : x.n # cache[g].node} \cup {Fresh(g)}
         /\ cache' = [cache EXCEPT ![g] = Open(cache[g].repo, cur.n)]
         /\ repo' = cache[g].repo /\ unused' = Used(g)
         /\ UNCHANGED <<world, queue, answers, cur, head_target, resp, tag>>
<1> DEFINE g == GitDirs(cur.target)
<1>1. pc = "open" /\ g # NoGit /\ cache[g] # Closed /\ cache[g] # Null
  BY DEF Hit
<1>2. g \in GitDir
  BY <1>1, GitDirsType DEF TypeOK, Request
<1>3. IsOpen(g)
  BY <1>1, <1>2, EntryFacts DEF IsOpen
<1>4. lru' = {x \in lru : x.n # cache[g].node} \cup {Fresh(g)}
  BY <1>1 DEF Hit, MovesToEnd
<1>5. \E x \in lru' : x.n = cur.n
  BY <1>2, <1>4, FreshType
<1>6. cache' = [cache EXCEPT ![g] = Open(cache[g].repo, cur.n)]
  BY <1>1, <1>5 DEF Hit
<1>7. QED
  BY <1>1, <1>2, <1>3, <1>4, <1>6 DEF Hit
-----------------------------------------------------------------------------
(* The fields of a status.                                                 *)

(* Names in the order of VcsStatus, after the k-th up to the m-th. *)
InPlace(names, k, m) == names = [i \in 1..(m - k) |-> VcsStatus[k + i]]

(* Names of fields that tell nothing about a commit. *)
NotOfCommit(names) == \A i \in 1..Len(names) : names[i] \notin OfCommit

(* Fields with names in this order make a part, if what is told about a    *)
(* commit is told about that of the response.                              *)
LEMMA OfPart ==
  ASSUME NEW k \in Nat, NEW m \in Nat, k <= m, m <= 27, NEW names, InPlace(names, k, m),
         NEW c \in Commit, NEW d \in Commit \cup {NoCommit}, d = c \/ NotOfCommit(names)
  PROVE  Part(Of(d, names), k, m, c)
<1> DEFINE e(i) == VcsStatus[k + i]
           n == m - k
<1>1. ASSUME NEW i \in 1..n PROVE e(i) \in Name
  <2>1. k + i \in 1..27
    OBVIOUS
  <2>2. QED
    BY <2>1, NamesOf
<1>2. n \in Nat /\ names = [i \in 1..n |-> e(i)]
  BY DEF InPlace
<1>3. \A x \in 1..n : names[x] = VcsStatus[k + x]
  BY DEF InPlace
<1> HIDE DEF e, n
<1>4. names \in Seq(Name)
  BY <1>1, <1>2, IsASeq
<1>5. Len(names) = n
  BY <1>2
<1>6. /\ Of(d, names) \in Fields /\ Len(Of(d, names)) = Len(names)
      /\ \A x \in 1..Len(names) : /\ Of(d, names)[x].name = names[x]
                                  /\ Of(d, names)[x].about = d
  BY <1>4, OfFacts
<1>7. \A x \in 1..n : /\ Of(d, names)[x].name = VcsStatus[k + x]
                      /\ Of(d, names)[x].name \in OfCommit => Of(d, names)[x].about = c
  BY <1>3, <1>5, <1>6 DEF NotOfCommit
<1>8. QED
  BY <1>5, <1>6, <1>7 DEF Part, n

(* Parts that follow each other make a part. *)
LEMMA PartPart ==
  ASSUME NEW k \in Nat, NEW l \in Nat, NEW m \in Nat, k <= l, l <= m, NEW c,
         NEW s, NEW t, Part(s, k, l, c), Part(t, l, m, c)
  PROVE  Part(s \o t, k, m, c)
<1>1. s \in Fields /\ t \in Fields /\ Len(s) = l - k /\ Len(t) = m - l
  BY DEF Part
<1>2. /\ s \o t \in Fields /\ Len(s \o t) = Len(s) + Len(t)
      /\ \A x \in 1..(Len(s) + Len(t)) :
           (s \o t)[x] = IF x <= Len(s) THEN s[x] ELSE t[x - Len(s)]
  <2> DEFINE S == [name : Range(VcsStatus), about : Commit \cup {NoCommit}]
  <2>1. s \in Seq(S) /\ t \in Seq(S)
    BY <1>1 DEF Fields
  <2> HIDE DEF S
  <2>2. s \o t \in Seq(S)
    BY <2>1, ConcatProperties
  <2>3. QED
    BY <2>1, <2>2, ConcatProperties DEF S, Fields
<1>3. Len(s) + Len(t) = m - k
  BY <1>1
<1>4. ASSUME NEW x \in 1..(m - k)
      PROVE  /\ (s \o t)[x].name = VcsStatus[k + x]
             /\ (s \o t)[x].name \in OfCommit => (s \o t)[x].about = c
  <2>1. CASE x <= l - k
    <3>1. x \in 1..(l - k) /\ (s \o t)[x] = s[x]
      BY <1>1, <1>2, <1>3, <2>1
    <3>2. QED
      BY <3>1 DEF Part
  <2>2. CASE x > l - k
    <3> DEFINE y == x - (l - k)
    <3>1. y \in 1..(m - l) /\ l + y = k + x
      BY <2>2
    <3>2. (s \o t)[x] = t[y]
      BY <1>1, <1>2, <1>3, <2>2
    <3> HIDE DEF y
    <3>3. /\ t[y].name = VcsStatus[l + y]
          /\ t[y].name \in OfCommit => t[y].about = c
      BY <3>1 DEF Part
    <3>4. QED
      BY <3>1, <3>2, <3>3
  <2>3. x <= l - k \/ x > l - k
    OBVIOUS
  <2>4. QED
    BY <2>1, <2>2, <2>3
<1>5. QED
  BY <1>2, <1>3, <1>4 DEF Part

(* The fields up to the tag are the first 15 of a status. *)
LEMMA BeforeTagPart ==
  ASSUME TypeOK, NEW remote \in BOOLEAN
  PROVE  Part(BeforeTag(remote), 0, 15, head_target)
<1> DEFINE c == head_target
           numbers == <<"INDEX_SIZE", "NUM_STAGED", "NUM_UNSTAGED", "NUM_CONFLICTED",
                        "NUM_UNTRACKED">>
           ranges == <<"COMMITS_AHEAD", "COMMITS_BEHIND">>
           from == IF remote THEN head ELSE NoCommit
<1>1. c \in Commit /\ from \in Commit \cup {NoCommit} /\ NoCommit \in Commit \cup {NoCommit}
  BY DEF TypeOK
<1>2. Part(Of(NoCommit, <<"WORKDIR">>), 0, 1, c)
  <2>1. InPlace(<<"WORKDIR">>, 0, 1) /\ NotOfCommit(<<"WORKDIR">>)
    BY DEF InPlace, VcsStatus, NotOfCommit, OfCommit
  <2>2. QED
    BY <1>1, <2>1, OfPart
<1>3. Part(Of(c, <<"COMMIT">>), 1, 2, c)
  <2>1. InPlace(<<"COMMIT">>, 1, 2)
    BY DEF InPlace, VcsStatus
  <2>2. QED
    BY <1>1, <2>1, OfPart
<1>4. Part(LocalBranchName, 2, 3, c)
  <2>1. InPlace(<<"LOCAL_BRANCH">>, 2, 3) /\ NotOfCommit(<<"LOCAL_BRANCH">>)
    BY DEF InPlace, VcsStatus, NotOfCommit, OfCommit
  <2>2. QED
    BY <1>1, <2>1, OfPart DEF LocalBranchName
<1>5. Part(GetRemote, 3, 6, c)
  <2> DEFINE names == <<"REMOTE_BRANCH", "REMOTE_NAME", "REMOTE_URL">>
  <2>1. InPlace(names, 3, 6) /\ NotOfCommit(names)
    BY DEF InPlace, VcsStatus, NotOfCommit, OfCommit
  <2>2. GetRemote = Of(NoCommit, names)
    BY DEF GetRemote
  <2> HIDE DEF names
  <2>3. QED
    BY <1>1, <2>1, <2>2, OfPart
<1>6. Part(RepoState, 6, 7, c)
  <2>1. InPlace(<<"ACTION">>, 6, 7) /\ NotOfCommit(<<"ACTION">>)
    BY DEF InPlace, VcsStatus, NotOfCommit, OfCommit
  <2>2. QED
    BY <1>1, <2>1, OfPart DEF RepoState
<1>7. Part(Of(c, numbers), 7, 12, c)
  <2>1. InPlace(numbers, 7, 12)
    BY DEF InPlace, VcsStatus
  <2> HIDE DEF numbers
  <2>2. QED
    BY <1>1, <2>1, OfPart
<1>8. Part(Of(from, ranges), 12, 14, c)
  <2>1. InPlace(ranges, 12, 14) /\ NotOfCommit(ranges)
    BY DEF InPlace, VcsStatus, NotOfCommit, OfCommit
  <2> HIDE DEF ranges, from
  <2>2. QED
    BY <1>1, <2>1, OfPart
<1>9. Part(NumStashes, 14, 15, c)
  <2>1. InPlace(<<"STASHES">>, 14, 15) /\ NotOfCommit(<<"STASHES">>)
    BY DEF InPlace, VcsStatus, NotOfCommit, OfCommit
  <2>2. QED
    BY <1>1, <2>1, OfPart DEF NumStashes
<1>10. BeforeTag(remote) = Of(NoCommit, <<"WORKDIR">>) \o Of(c, <<"COMMIT">>)
                             \o LocalBranchName \o GetRemote \o RepoState
                             \o Of(c, numbers) \o Of(from, ranges) \o NumStashes
  BY DEF BeforeTag, CountRange
<1> HIDE DEF c, numbers, ranges, from
<1>11. Part(Of(NoCommit, <<"WORKDIR">>) \o Of(c, <<"COMMIT">>) \o LocalBranchName
              \o GetRemote, 0, 6, c)
  BY <1>2, <1>3, <1>4, <1>5, PartPart
<1>12. Part(Of(NoCommit, <<"WORKDIR">>) \o Of(c, <<"COMMIT">>) \o LocalBranchName
              \o GetRemote \o RepoState \o Of(c, numbers), 0, 12, c)
  BY <1>11, <1>6, <1>7, PartPart
<1>13. Part(BeforeTag(remote), 0, 15, c)
  BY <1>8, <1>9, <1>10, <1>12, PartPart
<1>14. QED
  BY <1>13 DEF c


(* The fields from the tag on are the other 12. *)
LEMMA FromTagPart ==
  ASSUME TypeOK, NEW remote \in BOOLEAN
  PROVE  Part(FromTag(remote), 15, 27, head_target)
<1> DEFINE c == head_target
           tagged == <<"TAG", "NUM_UNSTAGED_DELETED", "NUM_STAGED_NEW", "NUM_STAGED_DELETED">>
           push == <<"PUSH_REMOTE_NAME", "PUSH_REMOTE_URL">>
           ranges == <<"PUSH_COMMITS_AHEAD", "PUSH_COMMITS_BEHIND">>
           flags == <<"NUM_SKIP_WORKTREE", "NUM_ASSUME_UNCHANGED">>
           message == <<"COMMIT_ENCODING", "COMMIT_SUMMARY">>
           from == IF remote THEN head ELSE NoCommit
<1>1. c \in Commit /\ from \in Commit \cup {NoCommit} /\ NoCommit \in Commit \cup {NoCommit}
  BY DEF TypeOK
<1>2. InPlace(tagged, 15, 19)
  BY DEF InPlace, VcsStatus
<1>3. InPlace(push, 19, 21) /\ NotOfCommit(push)
  BY DEF InPlace, VcsStatus, NotOfCommit, OfCommit
<1>4. InPlace(ranges, 21, 23) /\ NotOfCommit(ranges)
  BY DEF InPlace, VcsStatus, NotOfCommit, OfCommit
<1>5. InPlace(flags, 23, 25)
  BY DEF InPlace, VcsStatus
<1>6. InPlace(message, 25, 27)
  BY DEF InPlace, VcsStatus
<1>7. FromTag(remote) = Of(c, tagged) \o Of(NoCommit, push) \o Of(from, ranges)
                           \o Of(c, flags) \o Of(c, message)
  BY DEF FromTag, GetPushRemote, CountRange, GetCommitMessage
<1> HIDE DEF c, tagged, push, ranges, flags, message, from
<1>8. /\ Part(Of(c, tagged), 15, 19, c) /\ Part(Of(NoCommit, push), 19, 21, c)
      /\ Part(Of(from, ranges), 21, 23, c)
  BY <1>1, <1>2, <1>3, <1>4, OfPart
<1>9. Part(Of(c, flags), 23, 25, c) /\ Part(Of(c, message), 25, 27, c)
  BY <1>1, <1>5, <1>6, OfPart
<1>10. Part(Of(c, tagged) \o Of(NoCommit, push) \o Of(from, ranges), 15, 23, c)
  BY <1>8, PartPart
<1>11. Part(FromTag(remote), 15, 27, c)
  BY <1>7, <1>9, <1>10, PartPart
<1>12. QED
  BY <1>11 DEF c

(* A part from the first to the last place is a status. *)
LEMMA PartIsStatus ==
  ASSUME NEW fields, NEW c, Part(fields, 0, 27, c)
  PROVE  IsStatus(fields)
<1>1. fields \in Fields /\ Len(fields) = 27 /\ DOMAIN fields = 1..27
  BY DEF Part, Fields
<1>2. \A x \in 1..27 : /\ fields[x].name = VcsStatus[x]
                       /\ fields[x].name \in OfCommit => fields[x].about = c
  BY DEF Part
<1>3. [x \in DOMAIN fields |-> fields[x].name] = VcsStatus
  <2>1. VcsStatus = [x \in 1..27 |-> VcsStatus[x]]
    BY DEF VcsStatus
  <2>2. QED
    BY <1>1, <1>2, <2>1
<1>4. QED
  BY <1>1, <1>2, <1>3 DEF IsStatus
-----------------------------------------------------------------------------
(* Types.                                                                  *)

(* What a field sequence can be. *)
LEMMA FieldsFacts ==
  /\ <<>> \in Fields
  /\ \A s, t \in Fields : s \o t \in Fields
<1> DEFINE S == [name : Range(VcsStatus), about : Commit \cup {NoCommit}]
<1>1. Fields = Seq(S)
  BY DEF Fields
<1> HIDE DEF S
<1>2. <<>> \in Seq(S) /\ \A s, t \in Seq(S) : s \o t \in Seq(S)
  BY ConcatProperties, EmptySeq
<1>3. QED
  BY <1>1, <1>2

(* Dump sends the answer, or gives up. *)
LEMMA DumpFacts ==
  ASSUME Dump
  PROVE  /\ pc = "finish" /\ tag # "running" /\ tag' = "none"
         /\ UNCHANGED <<world, queue, cur, repo, head_target, cache, lru, unused>>
         /\ \/ /\ pc' = "sent" /\ answers' = Append(answers, [n |-> cur.n, ok |-> TRUE])
               /\ \E remote \in BOOLEAN : resp' = resp \o FromTag(remote)
            \/ pc' = "unwind" /\ answers' = answers /\ resp' = resp
BY Zenon DEF Dump, GivesUp

(* The first state is well typed. *)
LEMMA InitType == Init => TypeOK
<1> SUFFICES ASSUME Init PROVE TypeOK
  OBVIOUS
<1>1. 1 \in Num /\ Target # {}
  BY DaemonAssumption DEF Num, Target
<1>2. Unread \in Request
  <2>1. PICK target \in Target : TRUE
    BY <1>1
  <2>2. [n |-> 1, target |-> target] \in Request
    BY <1>1 DEF Request
  <2>3. \E r \in Request : r.n = 1
    BY <2>2
  <2>4. QED
    BY <2>3 DEF Unread
<1>3. 0 \in Commit /\ 0 \in 0..MaxMoves /\ 0 \in 0..MaxReq /\ Ttl \in Age /\ Closed \in Entry
  BY DaemonAssumption DEF Commit, Age, Entry
<1>4. QED
  BY <1>1, <1>2, <1>3, FieldsFacts DEF Init, TypeOK

(* Older ages are ages. *)
LEMMA OlderType == \A a \in Age : Older(a) \in Age
BY DaemonAssumption DEF Age, Older

(* Every step keeps the types. *)
LEMMA TypeStep == TypeOK /\ [Next]_vars => TypeOK'
<1> SUFFICES ASSUME TypeOK, [Next]_vars PROVE TypeOK'
  OBVIOUS
<1> USE DEF world, doing
<1>1. CASE DiscoverFails
  BY <1>1 DEF DiscoverFails, GivesUp, TypeOK
<1>2. CASE NotFound
  <2>1. cache' \in [GitDir -> Entry] /\ lru' \in SUBSET Node
    BY <1>2, EraseType DEF NotFound, TypeOK
  <2>2. QED
    BY <1>2, <2>1 DEF NotFound, GivesUp, TypeOK
<1>3. CASE Hit
  <2> DEFINE g == GitDirs(cur.target)
  <2>1. CASE pc' = "head"
    <3>1. /\ g \in GitDir /\ IsOpen(g) /\ cur.n \in Num /\ cache[g].repo \in Num
          /\ Open(cache[g].repo, cur.n) \in Entry
      BY <1>3, <2>1, HitFacts, EntryFacts, FreshType, OpenFacts
    <3>2. cache' \in [GitDir -> Entry]
      BY <1>3, <2>1, <3>1, HitFacts DEF TypeOK
    <3>3. lru' \in SUBSET Node /\ unused' \in [GitDir -> Age]
      BY <1>3, <2>1, <3>1, HitFacts, FreshType DEF TypeOK
    <3>4. QED
      BY <1>3, <2>1, <3>1, <3>2, <3>3, HitFacts DEF TypeOK
  <2>2. CASE pc' # "head"
    BY <1>3, <2>2 DEF Hit, TypeOK
  <2>3. QED
    BY <2>1, <2>2
<1>4. CASE OpenFails
  BY <1>4 DEF OpenFails, GivesUp, TypeOK
<1>5. CASE InitFails
  <2>1. Null \in Entry
    BY DEF Entry
  <2>2. QED
    BY <1>5, <2>1 DEF InitFails, GivesUp, TypeOK
<1>6. CASE Miss
  <2> DEFINE g == GitDirs(cur.target)
  <2>1. g \in GitDir
    BY <1>6, GitDirsType DEF Miss, TypeOK, Request
  <2>2. /\ cache' = [cache EXCEPT ![g] = Open(cur.n, cur.n)]
        /\ lru' = lru \cup {Fresh(g)} /\ repo' = cur.n /\ unused' = Used(g)
    BY <1>6 DEF Miss
  <2> HIDE DEF g
  <2>3. cache' \in [GitDir -> Entry] /\ lru' \in SUBSET Node
    BY <2>1, <2>2, FreshType DEF TypeOK
  <2>4. repo' \in Num /\ unused' \in [GitDir -> Age]
    BY <2>1, <2>2, FreshType
  <2>5. QED
    BY <1>6, <2>3, <2>4 DEF Miss, TypeOK
<1>7. CASE NoHead
  BY <1>7 DEF NoHead, GivesUp, TypeOK
<1>8. CASE GetTagName
  BY <1>8 DEF GetTagName, ResolveHead, TypeOK
<1>9. CASE GetIndexStats
  <2>1. resp' \in Fields
    BY <1>9, BeforeTagPart DEF GetIndexStats, TypeOK, Part
  <2>2. /\ pc' \in {"finish", "unwind"}
        /\ UNCHANGED <<world, queue, answers, cur, repo, head_target, cache, lru, tag, unused>>
    BY <1>9 DEF GetIndexStats, GivesUp
  <2>3. QED
    BY <2>1, <2>2 DEF TypeOK
<1>10. CASE Dump
  <2>1. resp' \in Fields
    BY <1>10, DumpFacts, FromTagPart, FieldsFacts DEF TypeOK, Part
  <2>2. [n |-> cur.n, ok |-> TRUE] \in Answer
    BY DEF TypeOK, Request, Answer
  <2>3. answers' \in Seq(Answer)
    <3> DEFINE a == [n |-> cur.n, ok |-> TRUE]
    <3>1. answers \in Seq(Answer) /\ a \in Answer
      BY <2>2 DEF TypeOK
    <3>2. answers' = answers \/ answers' = Append(answers, a)
      BY <1>10, DumpFacts
    <3> HIDE DEF a
    <3>3. QED
      BY <3>1, <3>2, AppendProperties
  <2>4. QED
    BY <1>10, <2>1, <2>3, DumpFacts DEF TypeOK
<1>11. CASE Unwind
  <2>1. [n |-> cur.n, ok |-> FALSE] \in Answer
    BY DEF TypeOK, Request, Answer
  <2>2. answers' \in Seq(Answer)
    BY <1>11, <2>1 DEF Unwind, TypeOK
  <2>3. QED
    BY <1>11, <2>2, FieldsFacts DEF Unwind, TypeOK
<1>12. CASE EndRequest
  <2>1. Unread \in Request
    <3>1. 1 \in Num
      BY DaemonAssumption DEF Num
    <3>2. [n |-> 1, target |-> cur.target] \in Request
      BY <3>1 DEF TypeOK, Request
    <3>3. \E r \in Request : r.n = 1
      BY <3>2
    <3>4. QED
      BY <3>3 DEF Unread
  <2>2. 1 \in Num /\ 0 \in Commit
    BY DaemonAssumption DEF Num, Commit
  <2>3. QED
    BY <1>12, <2>1, <2>2, FieldsFacts DEF EndRequest, TypeOK
<1>13. CASE ReadRequest
  <2>1. Head(queue) \in Request /\ Tail(queue) \in Seq(Request)
    BY <1>13 DEF ReadRequest, TypeOK
  <2>2. QED
    BY <1>13, <2>1 DEF ReadRequest, TypeOK
<1>14. CASE Idle
  <2>1. cache' \in [GitDir -> Entry] /\ lru' \in SUBSET Node
    BY <1>14, EraseType DEF Idle, Free
  <2>2. QED
    BY <1>14, <2>1 DEF Idle, TypeOK
<1>15. CASE Exit
  BY <1>15 DEF Exit, TypeOK
<1>16. CASE TagForCommit
  BY <1>16 DEF TagForCommit, TypeOK
<1>17. ASSUME NEW target \in Target, Ask(target) PROVE TypeOK'
  <2>1. [n |-> asked + 1, target |-> target] \in Request /\ asked + 1 \in 0..MaxReq
    BY <1>17, DaemonAssumption DEF Ask, TypeOK, Request, Num
  <2>2. queue' \in Seq(Request)
    BY <1>17, <2>1 DEF Ask, TypeOK
  <2>3. QED
    BY <1>17, <2>1, <2>2 DEF Ask, TypeOK
<1>18. CASE ShellExits
  BY <1>18 DEF ShellExits, TypeOK
<1>19. CASE Move
  BY <1>19, DaemonAssumption DEF Move, TypeOK
<1>20. CASE NewCommit
  BY <1>20, DaemonAssumption DEF NewCommit, TypeOK, Commit
<1>21. CASE Tick
  <2>1. lru' \in SUBSET Node
    <3>1. ASSUME NEW x \in lru PROVE [x EXCEPT !.age = Older(@)] \in Node
      BY OlderType DEF TypeOK, Node
    <3>2. QED
      BY <1>21, <3>1 DEF Tick
  <2>2. unused' \in [GitDir -> Age]
    BY <1>21, OlderType DEF Tick, TypeOK
  <2>3. QED
    BY <1>21, <2>1, <2>2 DEF Tick, TypeOK
<1>22. CASE UNCHANGED vars
  BY <1>22 DEF vars, TypeOK
<1>23. QED
  BY <1>1, <1>2, <1>3, <1>4, <1>5, <1>6, <1>7, <1>8, <1>9, <1>10, <1>11, <1>12, <1>13, <1>14,
     <1>15, <1>16, <1>17, <1>18, <1>19, <1>20, <1>21, <1>22 DEF Next, MainStep
-----------------------------------------------------------------------------
(* The numbers of requests and answers.                                    *)

(* An answer takes the number of the request, which is not busy any more. *)
LEMMA AnswerNumbered ==
  ASSUME TypeOK, Numbered, Busy = 1, pc' = "sent",
         NEW ok \in BOOLEAN, answers' = Append(answers, [n |-> cur.n, ok |-> ok]),
         UNCHANGED <<asked, queue, cur>>
  PROVE  Numbered' /\ Busy' = 0 /\ Len(answers') = Len(answers) + 1
<1> DEFINE a == [n |-> cur.n, ok |-> ok]
<1>1. a \in Answer /\ a.n = Len(answers) + 1
  BY DEF TypeOK, Request, Answer, Numbered
<1>2. answers \in Seq(Answer) /\ Len(queue) \in Nat
  BY DEF TypeOK
<1>3. answers' = Append(answers, a)
  OBVIOUS
<1> HIDE DEF a
<1>4. /\ Len(answers') = Len(answers) + 1 /\ Len(answers) \in Nat
      /\ DOMAIN answers = 1..Len(answers) /\ DOMAIN answers' = 1..(Len(answers) + 1)
      /\ \A x \in 1..Len(answers) : answers'[x] = answers[x]
      /\ answers'[Len(answers) + 1] = a
  BY <1>1, <1>2, <1>3, AppendProperties, LenProperties
<1>5. Busy' = 0
  BY DEF Busy
<1>6. asked' = Len(answers') + Busy' + Len(queue')
  BY <1>2, <1>4, <1>5 DEF Numbered
<1>7. \A x \in DOMAIN answers' : answers'[x].n = x
  BY <1>1, <1>4 DEF Numbered
<1>8. \A x \in DOMAIN queue' : queue'[x].n = Len(answers') + Busy' + x
  BY <1>2, <1>4, <1>5 DEF Numbered
<1>9. QED
  BY <1>4, <1>5, <1>6, <1>7, <1>8 DEF Numbered

(* Every step keeps the numbers. *)
LEMMA NumberedStep ==
  ASSUME TypeOK, Numbered, [Next]_vars
  PROVE  Numbered'
<1> USE DEF world, doing
<1>1. CASE UNCHANGED <<asked, queue, answers, cur>> /\ Busy' = Busy
  BY <1>1 DEF Numbered
<1>2. CASE DiscoverFails \/ NotFound \/ OpenFails \/ InitFails \/ NoHead
  <2>1. Busy' = Busy
    BY <1>2 DEF DiscoverFails, NotFound, OpenFails, InitFails, NoHead, GivesUp, Busy
  <2>2. UNCHANGED <<asked, queue, answers, cur>>
    BY <1>2 DEF DiscoverFails, NotFound, OpenFails, InitFails, NoHead
  <2>3. QED
    BY <1>1, <2>1, <2>2
<1>3. CASE Hit \/ Miss \/ GetTagName \/ TagForCommit
  <2>1. Busy' = Busy
    BY <1>3 DEF Hit, Miss, GetTagName, TagForCommit, Busy
  <2>2. UNCHANGED <<asked, queue, answers, cur>>
    BY <1>3 DEF Hit, Miss, GetTagName, TagForCommit
  <2>3. QED
    BY <1>1, <2>1, <2>2
<1>4. CASE GetIndexStats
  <2>1. Busy' = Busy /\ UNCHANGED <<asked, queue, answers, cur>>
    BY <1>4 DEF GetIndexStats, GivesUp, Busy
  <2>2. QED
    BY <1>1, <2>1
<1>5. CASE Dump
  <2>1. Busy = 1 /\ UNCHANGED <<asked, queue, cur>>
    BY <1>5, DumpFacts DEF Busy
  <2>2. CASE pc' = "sent" /\ answers' = Append(answers, [n |-> cur.n, ok |-> TRUE])
    BY <2>1, <2>2, AnswerNumbered
  <2>3. CASE pc' = "unwind" /\ answers' = answers
    BY <1>1, <2>1, <2>3 DEF Busy
  <2>4. QED
    BY <1>5, <2>2, <2>3, DumpFacts
<1>6. CASE Unwind
  <2>1. /\ Busy = 1 /\ pc' = "sent" /\ UNCHANGED <<asked, queue, cur>>
        /\ answers' = Append(answers, [n |-> cur.n, ok |-> FALSE])
    BY <1>6 DEF Unwind, Busy
  <2>2. QED
    BY <2>1, AnswerNumbered
<1>7. CASE EndRequest
  <2>1. Busy = 0 /\ Busy' = 0 /\ UNCHANGED <<asked, queue, answers>>
    BY <1>7 DEF EndRequest, Busy
  <2>2. QED
    BY <2>1 DEF Numbered
<1>8. CASE ReadRequest
  <2>1. /\ queue # <<>> /\ queue \in Seq(Request) /\ Len(answers) \in Nat
        /\ cur' = Head(queue) /\ queue' = Tail(queue) /\ UNCHANGED <<asked, answers>>
        /\ Busy = 0 /\ Busy' = 1
    BY <1>8 DEF ReadRequest, TypeOK, Busy
  <2>2. /\ Len(queue') = Len(queue) - 1 /\ Len(queue) \in Nat /\ Len(queue) >= 1
        /\ DOMAIN queue = 1..Len(queue) /\ DOMAIN queue' = 1..(Len(queue) - 1)
        /\ cur' = queue[1] /\ \A x \in 1..(Len(queue) - 1) : queue'[x] = queue[x + 1]
    BY <2>1, HeadTailProperties, LenProperties, EmptySeq
  <2>3. asked' = Len(answers') + Busy' + Len(queue') /\ cur'.n = Len(answers') + 1
    BY <2>1, <2>2 DEF Numbered
  <2>4. ASSUME NEW x \in DOMAIN queue'
        PROVE  queue'[x].n = Len(answers') + Busy' + x
    <3>1. x \in 1..(Len(queue) - 1) /\ x + 1 \in DOMAIN queue /\ queue'[x] = queue[x + 1]
      BY <2>2
    <3>2. queue[x + 1].n = Len(answers) + Busy + (x + 1)
      BY <3>1 DEF Numbered
    <3>3. QED
      BY <2>1, <2>2, <3>1, <3>2
  <2>5. QED
    BY <2>1, <2>3, <2>4 DEF Numbered
<1>9. CASE Idle \/ Exit
  <2>1. Busy = 0 /\ Busy' = 0 /\ UNCHANGED <<asked, queue, answers, cur>>
    BY <1>9 DEF Idle, Exit, Busy
  <2>2. QED
    BY <1>1, <2>1
<1>10. ASSUME NEW target \in Target, Ask(target) PROVE Numbered'
  <2> DEFINE r == [n |-> asked + 1, target |-> target]
  <2>1. /\ r \in Request /\ r.n = asked + 1 /\ asked \in Nat
        /\ asked' = asked + 1 /\ queue' = Append(queue, r)
        /\ queue \in Seq(Request) /\ Len(answers) \in Nat
        /\ Busy' = Busy /\ Busy \in Nat /\ UNCHANGED <<answers, cur>>
    BY <1>10, DaemonAssumption DEF Ask, TypeOK, Request, Num, Busy
  <2> HIDE DEF r
  <2>2. /\ Len(queue') = Len(queue) + 1 /\ Len(queue) \in Nat
        /\ DOMAIN queue = 1..Len(queue) /\ DOMAIN queue' = 1..(Len(queue) + 1)
        /\ \A x \in 1..Len(queue) : queue'[x] = queue[x]
        /\ queue'[Len(queue) + 1] = r
    BY <2>1, AppendProperties, LenProperties
  <2>3. asked' = Len(answers') + Busy' + Len(queue')
    BY <2>1, <2>2 DEF Numbered
  <2>4. \A x \in DOMAIN queue' : queue'[x].n = Len(answers') + Busy' + x
    BY <2>1, <2>2 DEF Numbered
  <2>5. QED
    BY <2>1, <2>3, <2>4 DEF Numbered
<1>11. CASE ShellExits \/ Move \/ NewCommit \/ Tick
  <2>1. Busy' = Busy /\ UNCHANGED <<asked, queue, answers, cur>>
    BY <1>11 DEF ShellExits, Move, NewCommit, Tick, Busy
  <2>2. QED
    BY <1>1, <2>1
<1>12. CASE UNCHANGED vars
  BY <1>1, <1>12 DEF vars, Busy
<1>13. QED
  BY <1>2, <1>3, <1>4, <1>5, <1>6, <1>7, <1>8, <1>9, <1>10, <1>11, <1>12 DEF Next, MainStep
-----------------------------------------------------------------------------
(* The nodes and the entries.                                              *)
Nodes == OwnNodes /\ EntriesHaveNodes /\ AgeIsUnused

(* Where a request is looked for in vain are git directories. *)
LEMMA GoneType ==
  ASSUME NEW target \in Target
  PROVE  Gone(target) \subseteq GitDir
<1>1. CASE target \in GitDir
  BY <1>1 DEF Gone
<1>2. CASE target \notin GitDir
  <2>1. target \in Path /\ Up[target] \in Seq(Path)
    BY <1>2, DaemonAssumption DEF Target
  <2>2. Range(Up[target]) \subseteq Path
    BY <2>1, LenProperties DEF Range
  <2>3. QED
    BY <1>2, <2>2, DaemonAssumption DEF Gone
<1>3. QED
  BY <1>1, <1>2

(* The last request that has looked for its repository only moves on. *)
LEMMA NewestGrows ==
  ASSUME TypeOK, Numbered, [Next]_vars
  PROVE  Newest \in Nat /\ Newest' \in Nat /\ Newest <= Newest'
<1> USE DEF world, doing
<1>1. Len(answers) \in Nat /\ Len(answers') \in Nat /\ Busy \in {0, 1} /\ Busy' \in {0, 1}
  BY TypeStep DEF TypeOK, Busy
<1>2. CASE Dump \/ Unwind
  <2>1. pc' = "sent" \/ (pc' = "unwind" /\ answers' = answers)
    BY <1>2, DumpFacts DEF Unwind
  <2>2. pc \in {"finish", "unwind"}
    BY <1>2, DumpFacts DEF Unwind
  <2>3. pc' = "sent" => Len(answers') = Len(answers) + 1
    <3>1. ASSUME NEW ok \in BOOLEAN, answers' = Append(answers, [n |-> cur.n, ok |-> ok])
          PROVE  Len(answers') = Len(answers) + 1
      <4>1. [n |-> cur.n, ok |-> ok] \in Answer /\ answers \in Seq(Answer)
        BY DEF TypeOK, Request, Answer
      <4>2. QED
        BY <3>1, <4>1, AppendProperties
    <3>2. QED
      BY <1>2, <3>1, DumpFacts DEF Unwind
  <2>4. QED
    BY <1>1, <2>1, <2>2, <2>3 DEF Newest, Busy
<1>3. CASE UNCHANGED answers /\ (UNCHANGED pc \/ pc = "open")
  BY <1>1, <1>3 DEF Newest, Busy
<1>4. CASE UNCHANGED answers /\ pc \in {"head", "stats"} /\ pc' \in {"stats", "finish", "unwind"}
  BY <1>1, <1>4 DEF Newest, Busy
<1>5. CASE UNCHANGED answers /\ pc \in {"read", "sent"} /\ pc' \in {"read", "open", "exited"}
  BY <1>1, <1>5 DEF Newest, Busy
<1>6. DiscoverFails \/ NotFound \/ Hit \/ OpenFails \/ InitFails \/ Miss
        => UNCHANGED answers /\ pc = "open"
  BY DEF DiscoverFails, NotFound, Hit, OpenFails, InitFails, Miss
<1>7. NoHead \/ GetTagName \/ GetIndexStats
        => UNCHANGED answers /\ pc \in {"head", "stats"} /\ pc' \in {"stats", "finish", "unwind"}
  BY DEF NoHead, GetTagName, GetIndexStats, GivesUp
<1>8. EndRequest \/ ReadRequest \/ Exit
        => UNCHANGED answers /\ pc \in {"read", "sent"} /\ pc' \in {"read", "open", "exited"}
  BY DEF EndRequest, ReadRequest, Exit
<1>9. Idle \/ TagForCommit \/ ShellExits \/ Move \/ NewCommit \/ Tick
        \/ (\E target \in Target : Ask(target)) \/ UNCHANGED vars
        => UNCHANGED answers /\ UNCHANGED pc
  BY DEF Idle, TagForCommit, ShellExits, Move, NewCommit, Tick, Ask, vars
<1>10. QED
  BY <1>2, <1>3, <1>4, <1>5, <1>6, <1>7, <1>8, <1>9 DEF Next, MainStep

(* Nothing happens to what stays as it is. *)
LEMMA SameNodes ==
  ASSUME TypeOK, Numbered, [Next]_vars, Nodes, UNCHANGED <<cache, lru, unused>>
  PROVE  Nodes'
<1>1. ASSUME NEW x \in lru PROVE x.n <= Newest'
  <2>1. x.n \in Nat /\ x.n <= Newest
    BY DaemonAssumption DEF TypeOK, Node, Num, Nodes, OwnNodes
  <2>2. QED
    BY <2>1, NewestGrows
<1>2. QED
  BY <1>1 DEF Nodes, OwnNodes, EntriesHaveNodes, AgeIsUnused, IsOpen

(* Erase takes an entry and its node away, and nothing else. *)
LEMMA EraseNodes ==
  ASSUME TypeOK, Numbered, [Next]_vars, Nodes,
         NEW gs \in SUBSET GitDir, Erase(gs), unused' = unused
  PROVE  Nodes'
<1>1. /\ lru' \subseteq lru
      /\ \A g \in GitDir \ gs : cache'[g] = cache[g]
      /\ \A g \in gs : cache'[g] = Closed
  BY DEF Erase, TypeOK
<1>2. OwnNodes'
  <2>1. ASSUME NEW x \in lru' PROVE x.n <= Newest'
    <3>1. x.n \in Nat /\ x.n <= Newest
      BY <1>1, DaemonAssumption DEF TypeOK, Node, Num, Nodes, OwnNodes
    <3>2. QED
      BY <3>1, NewestGrows
  <2>2. QED
    BY <1>1, <2>1 DEF Nodes, OwnNodes
<1>3. ASSUME NEW x \in lru' PROVE IsOpen(x.gitdir)' /\ cache'[x.gitdir].node = x.n
  <2>1. x.gitdir \in GitDir /\ IsOpen(x.gitdir) /\ cache[x.gitdir].node = x.n
    BY <1>1 DEF TypeOK, Node, Nodes, EntriesHaveNodes
  <2>2. x.gitdir \notin gs
    BY <2>1 DEF Erase, IsOpen
  <2>3. QED
    BY <1>1, <2>1, <2>2 DEF IsOpen
<1>4. ASSUME NEW g \in GitDir, IsOpen(g)'
      PROVE  \E x \in lru' : x.gitdir = g /\ x.n = cache'[g].node
  <2>1. g \notin gs /\ cache'[g] = cache[g] /\ IsOpen(g)
    BY <1>1, <1>4 DEF IsOpen
  <2>2. PICK x \in lru : x.gitdir = g /\ x.n = cache[g].node
    BY <2>1 DEF Nodes, EntriesHaveNodes
  <2>3. ASSUME NEW h \in gs, cache[h] # Null, cache[h] # Closed, cache[h].node = x.n
        PROVE  FALSE
    <3>1. PICK y \in lru : y.gitdir = h /\ y.n = cache[h].node
      BY <2>3 DEF Nodes, EntriesHaveNodes, IsOpen
    <3>2. y = x
      BY <2>3, <3>1 DEF Nodes, OwnNodes
    <3>3. QED
      BY <2>1, <2>2, <3>1, <3>2
  <2>4. x \in lru'
    BY <2>3 DEF Erase
  <2>5. QED
    BY <2>1, <2>2, <2>4
<1>5. AgeIsUnused'
  BY <1>1 DEF Nodes, AgeIsUnused
<1>6. QED
  BY <1>2, <1>3, <1>4, <1>5 DEF Nodes, EntriesHaveNodes

(* A hit and a miss make the node of the request, in place of the one that *)
(* the repository had, if it had one.                                      *)
LEMMA UseNodes ==
  ASSUME TypeOK, Numbered, [Next]_vars, Nodes, pc = "open", pc' = "head",
         UNCHANGED <<answers, cur>>, NEW g \in GitDir, NEW r,
         cache' = [cache EXCEPT ![g] = Open(r, cur.n)],
         lru' = {x \in lru : IsOpen(g) => x.n # cache[g].node} \cup {Fresh(g)},
         unused' = Used(g)
  PROVE  Nodes'
<1>1. Newest' = cur.n /\ cur.n \in Nat /\ \A x \in lru : x.n \in Nat /\ x.n < cur.n
  <2>1. /\ Len(answers) \in Nat /\ cur.n = Len(answers) + 1
        /\ Newest = Len(answers) /\ Newest' = Len(answers) + 1
    BY DEF TypeOK, Numbered, Busy, Newest
  <2>2. ASSUME NEW x \in lru PROVE x.n \in Nat /\ x.n <= Newest
    BY DaemonAssumption DEF TypeOK, Node, Num, Nodes, OwnNodes
  <2>3. QED
    BY <2>1, <2>2
<1>2. /\ Fresh(g) \in lru' /\ Fresh(g).n = cur.n /\ Fresh(g).gitdir = g /\ Fresh(g).age = 0
      /\ unused'[g] = 0 /\ \A h \in GitDir \ {g} : unused'[h] = unused[h]
  BY FreshType DEF Used, TypeOK
<1>3. ASSUME NEW x \in lru', x # Fresh(g)
      PROVE  x \in lru /\ x.gitdir \in GitDir \ {g} /\ (IsOpen(g) => x.n # cache[g].node)
  <2>1. x \in lru /\ (IsOpen(g) => x.n # cache[g].node)
    BY <1>3
  <2>2. x.gitdir \in GitDir /\ IsOpen(x.gitdir) /\ cache[x.gitdir].node = x.n
    BY <2>1 DEF TypeOK, Node, Nodes, EntriesHaveNodes
  <2>3. QED
    BY <2>1, <2>2
<1>4. /\ cache'[g] = Open(r, cur.n)
      /\ \A h \in GitDir \ {g} : cache'[h] = cache[h]
  BY DEF TypeOK
<1>5. cache'[g].node = cur.n /\ cache'[g] # Closed /\ cache'[g] # Null
  BY <1>4, OpenFacts
<1>6. OwnNodes'
  <2>1. \A x \in lru' : x.n <= Newest'
    BY <1>1, <1>2, <1>3
  <2>2. \A x, y \in lru' : x.n = y.n => x = y
    BY <1>1, <1>2, <1>3 DEF Nodes, OwnNodes
  <2>3. QED
    BY <2>1, <2>2 DEF OwnNodes
<1>7. ASSUME NEW x \in lru' PROVE IsOpen(x.gitdir)' /\ cache'[x.gitdir].node = x.n
  BY <1>2, <1>3, <1>4, <1>5 DEF Nodes, EntriesHaveNodes, IsOpen
<1>8. ASSUME NEW h \in GitDir, IsOpen(h)'
      PROVE  \E x \in lru' : x.gitdir = h /\ x.n = cache'[h].node
  <2>1. CASE h = g
    BY <1>2, <1>5, <2>1
  <2>2. CASE h # g
    <3>1. cache'[h] = cache[h] /\ IsOpen(h)
      BY <1>4, <1>8, <2>2 DEF IsOpen
    <3>2. PICK x \in lru : x.gitdir = h /\ x.n = cache[h].node
      BY <3>1 DEF Nodes, EntriesHaveNodes
    <3>3. IsOpen(g) => x.n # cache[g].node
      BY <2>2, <3>2 DEF Nodes, EntriesHaveNodes, OwnNodes
    <3>4. x \in lru'
      BY <3>3
    <3>5. QED
      BY <3>1, <3>2, <3>4
  <2>3. QED
    BY <2>1, <2>2
<1>9. AgeIsUnused'
  BY <1>2, <1>3 DEF Nodes, AgeIsUnused
<1>10. QED
  BY <1>6, <1>7, <1>8, <1>9 DEF Nodes, EntriesHaveNodes

(* A hit replaces the node of its repository. *)
LEMMA HitNodes ==
  ASSUME TypeOK, Numbered, [Next]_vars, Nodes, Hit
  PROVE  Nodes'
<1> DEFINE g == GitDirs(cur.target)
<1>1. CASE pc' = "head"
  <2>1. /\ pc = "open" /\ g \in GitDir /\ IsOpen(g)
        /\ lru' = {x \in lru : x.n # cache[g].node} \cup {Fresh(g)}
        /\ cache' = [cache EXCEPT ![g] = Open(cache[g].repo, cur.n)]
        /\ unused' = Used(g) /\ UNCHANGED <<answers, cur>>
    BY <1>1, HitFacts
  <2> HIDE DEF g
  <2>2. lru' = {x \in lru : IsOpen(g) => x.n # cache[g].node} \cup {Fresh(g)}
    BY <2>1
  <2>3. QED
    BY <1>1, <2>1, <2>2, UseNodes
<1>2. CASE pc' # "head"
  <2>1. UNCHANGED <<cache, lru, unused>>
    BY <1>2 DEF Hit
  <2>2. QED
    BY <2>1, SameNodes
<1>3. QED
  BY <1>1, <1>2

(* A miss has no node to replace. *)
LEMMA MissNodes ==
  ASSUME TypeOK, Numbered, [Next]_vars, Nodes, Miss
  PROVE  Nodes'
<1> DEFINE g == GitDirs(cur.target)
<1>1. g \in GitDir
  BY GitDirsType DEF Miss, TypeOK, Request
<1>2. /\ pc = "open" /\ pc' = "head" /\ ~IsOpen(g)
      /\ cache' = [cache EXCEPT ![g] = Open(cur.n, cur.n)]
      /\ lru' = lru \cup {Fresh(g)} /\ unused' = Used(g) /\ UNCHANGED <<answers, cur>>
  BY DEF Miss, IsOpen
<1> HIDE DEF g
<1>3. lru' = {x \in lru : IsOpen(g) => x.n # cache[g].node} \cup {Fresh(g)}
  BY <1>2
<1>4. QED
  BY <1>1, <1>2, <1>3, UseNodes

(* A null entry has no node. *)
LEMMA InitFailsNodes ==
  ASSUME TypeOK, Numbered, [Next]_vars, Nodes, InitFails
  PROVE  Nodes'
<1>1. PICK g \in GitDir : cache[g] = Closed /\ cache' = [cache EXCEPT ![g] = Null]
  BY GitDirsType DEF InitFails, TypeOK, Request
<1>2. UNCHANGED <<lru, unused, answers>> /\ pc = "open" /\ pc' = "unwind"
  BY DEF InitFails, GivesUp
<1>3. /\ \A h \in GitDir \ {g} : cache'[h] = cache[h]
      /\ ~IsOpen(g) /\ ~IsOpen(g)'
  BY <1>1 DEF TypeOK, IsOpen
<1>4. \A x \in lru : x.gitdir \in GitDir \ {g}
  BY <1>3 DEF TypeOK, Node, Nodes, EntriesHaveNodes
<1>5. EntriesHaveNodes'
  BY <1>2, <1>3, <1>4 DEF Nodes, EntriesHaveNodes, IsOpen
<1>6. ASSUME NEW x \in lru PROVE x.n <= Newest'
  <2>1. x.n \in Nat /\ x.n <= Newest
    BY DaemonAssumption DEF TypeOK, Node, Num, Nodes, OwnNodes
  <2>2. QED
    BY <2>1, NewestGrows
<1>7. QED
  BY <1>2, <1>5, <1>6 DEF Nodes, OwnNodes, AgeIsUnused

(* All nodes get older together with what their repositories remember. *)
LEMMA TickNodes ==
  ASSUME TypeOK, Numbered, [Next]_vars, Nodes, Tick
  PROVE  Nodes'
<1> DEFINE old(x) == [x EXCEPT !.age = Older(@)]
<1>1. /\ lru' = {old(x) : x \in lru} /\ unused' = [g \in GitDir |-> Older(unused[g])]
      /\ UNCHANGED <<cache, answers, pc>>
  BY DEF Tick
<1>2. ASSUME NEW x \in lru
      PROVE  /\ old(x).n = x.n /\ old(x).gitdir = x.gitdir /\ old(x).age = Older(x.age)
             /\ x.gitdir \in GitDir /\ x.n \in Nat
  BY DaemonAssumption DEF TypeOK, Node, Num
<1> HIDE DEF old
<1>3. Newest' = Newest
  BY <1>1 DEF Newest, Busy
<1>4. ASSUME NEW y \in lru'
      PROVE  \E x \in lru : y = old(x)
  BY <1>1
<1>5. OwnNodes'
  <2>1. ASSUME NEW x \in lru', NEW y \in lru', x.n = y.n PROVE x = y
    <3>1. PICK v \in lru : x = old(v)
      BY <1>4
    <3>2. PICK w \in lru : y = old(w)
      BY <1>4
    <3>3. v.n = w.n
      BY <1>2, <2>1, <3>1, <3>2
    <3>4. QED
      BY <3>1, <3>2, <3>3 DEF Nodes, OwnNodes
  <2>2. ASSUME NEW x \in lru' PROVE x.n <= Newest'
    <3>1. PICK v \in lru : x = old(v)
      BY <1>4
    <3>2. QED
      BY <1>2, <1>3, <3>1 DEF Nodes, OwnNodes
  <2>3. QED
    BY <2>1, <2>2 DEF OwnNodes
<1>6. EntriesHaveNodes'
  <2>1. ASSUME NEW g \in GitDir, IsOpen(g)'
        PROVE  \E x \in lru' : x.gitdir = g /\ x.n = cache'[g].node
    <3>1. PICK v \in lru : v.gitdir = g /\ v.n = cache[g].node
      BY <1>1, <2>1 DEF Nodes, EntriesHaveNodes, IsOpen
    <3>2. old(v) \in lru'
      BY <1>1
    <3>3. QED
      BY <1>1, <1>2, <3>1, <3>2
  <2>2. ASSUME NEW x \in lru' PROVE IsOpen(x.gitdir)' /\ cache'[x.gitdir].node = x.n
    <3>1. PICK v \in lru : x = old(v)
      BY <1>4
    <3>2. QED
      BY <1>1, <1>2, <3>1 DEF Nodes, EntriesHaveNodes, IsOpen
  <2>3. QED
    BY <2>1, <2>2 DEF EntriesHaveNodes
<1>7. ASSUME NEW x \in lru' PROVE x.age = unused'[x.gitdir]
  <2>1. PICK v \in lru : x = old(v)
    BY <1>4
  <2>2. QED
    BY <1>1, <1>2, <2>1 DEF Nodes, AgeIsUnused
<1>8. QED
  BY <1>5, <1>6, <1>7 DEF Nodes, AgeIsUnused

(* Every step keeps nodes and entries in agreement. *)
LEMMA NodesStep ==
  ASSUME TypeOK, Numbered, Nodes, [Next]_vars
  PROVE  Nodes'
<1> USE DEF world, doing
<1>1. CASE UNCHANGED <<cache, lru, unused>>
  BY <1>1, SameNodes
<1>2. CASE NotFound
  <2>1. CASE Erase(Gone(cur.target)) /\ unused' = unused
    <3>1. Gone(cur.target) \in SUBSET GitDir
      BY GoneType DEF TypeOK, Request
    <3>2. QED
      BY <2>1, <3>1, EraseNodes
  <2>2. QED
    BY <1>1, <1>2, <2>1 DEF NotFound
<1>3. CASE Idle
  <2>1. {x.gitdir : x \in Expired} \in SUBSET GitDir
    BY DEF Expired, TypeOK, Node
  <2>2. Erase({x.gitdir : x \in Expired}) /\ unused' = unused
    BY <1>3 DEF Idle, Free
  <2>3. QED
    BY <2>1, <2>2, EraseNodes
<1>4. CASE DiscoverFails \/ OpenFails \/ NoHead \/ GetTagName \/ GetIndexStats \/ Dump \/ Unwind
  <2>1. UNCHANGED <<cache, lru, unused>>
    BY <1>4, DumpFacts
       DEF DiscoverFails, OpenFails, NoHead, GetTagName, GetIndexStats, Unwind
  <2>2. QED
    BY <1>1, <2>1
<1>5. CASE EndRequest \/ ReadRequest \/ Exit \/ TagForCommit
             \/ \E target \in Target : Ask(target)
  BY <1>1, <1>5 DEF EndRequest, ReadRequest, Exit, TagForCommit, Ask
<1>6. CASE ShellExits \/ Move \/ NewCommit \/ UNCHANGED vars
  BY <1>1, <1>6 DEF ShellExits, Move, NewCommit, vars
<1>7. QED
  BY <1>2, <1>3, <1>4, <1>5, <1>6, HitNodes, MissNodes, InitFailsNodes, TickNodes
     DEF Next, MainStep
-----------------------------------------------------------------------------
(* The repository of the tag, and the fields.                              *)

(* Every step leaves the repository open that the tag is looked up in. *)
LEMMA RepoStaysStep ==
  ASSUME TypeOK, RepoStays, [Next]_vars
  PROVE  RepoStays'
<1> USE DEF world, doing
<1>1. CASE tag' # "running" /\ pc' \notin {"head", "stats", "finish"}
  BY <1>1 DEF RepoStays
<1>2. CASE /\ UNCHANGED <<cache, repo>>
           /\ tag' = "running" => pc' \in {"stats", "finish", "unwind"}
           /\ pc \in {"head", "stats", "finish"} \/ tag = "running"
  BY <1>2 DEF RepoStays, IsOpen
<1>3. DiscoverFails \/ NotFound \/ OpenFails \/ InitFails
        => tag' # "running" /\ pc' \notin {"head", "stats", "finish"}
  BY DEF DiscoverFails, NotFound, OpenFails, InitFails, GivesUp, RepoStays
<1>4. CASE Hit \/ Miss
  <2>1. pc = "open" /\ tag' = tag /\ tag # "running"
    BY <1>4 DEF Hit, Miss, RepoStays
  <2>2. CASE Hit /\ pc' = "head"
    <3>1. PICK g \in GitDir : /\ cache' = [cache EXCEPT ![g] = Open(cache[g].repo, cur.n)]
                             /\ repo' = cache[g].repo
      BY <2>2, HitFacts
    <3>2. cache'[g] = Open(cache[g].repo, cur.n)
      BY <3>1 DEF TypeOK
    <3>3. IsOpen(g)' /\ cache'[g].repo = repo'
      BY <3>1, <3>2, OpenFacts DEF IsOpen
    <3>4. QED
      BY <2>1, <2>2, <3>3 DEF RepoStays
  <2>3. CASE Hit /\ pc' # "head"
    <3>1. pc' = "crashed"
      BY <2>3 DEF Hit
    <3>2. QED
      BY <1>1, <2>1, <3>1
  <2>4. CASE Miss
    <3>1. PICK g \in GitDir : cache' = [cache EXCEPT ![g] = Open(cur.n, cur.n)] /\ repo' = cur.n
      BY <2>4, GitDirsType DEF Miss, TypeOK, Request
    <3>2. cache'[g] = Open(cur.n, cur.n)
      BY <3>1 DEF TypeOK
    <3>3. IsOpen(g)' /\ cache'[g].repo = repo'
      BY <3>1, <3>2, OpenFacts DEF IsOpen
    <3>4. QED
      BY <2>1, <2>4, <3>3 DEF RepoStays, Miss
  <2>5. QED
    BY <1>4, <2>2, <2>3, <2>4
<1>5. CASE NoHead \/ GetTagName \/ GetIndexStats
  <2>1. UNCHANGED <<cache, repo>> /\ pc \in {"head", "stats", "finish"}
    BY <1>5 DEF NoHead, GetTagName, GetIndexStats
  <2>2. tag' = "running" => pc' \in {"stats", "finish", "unwind"}
    BY <1>5 DEF NoHead, GetTagName, GetIndexStats, GivesUp, RepoStays
  <2>3. QED
    BY <1>2, <2>1, <2>2
<1>6. CASE Dump
  BY <1>1, <1>6, DumpFacts
<1>7. CASE Unwind \/ EndRequest \/ ReadRequest \/ Exit \/ Idle
  <2>1. tag' # "running" /\ pc' \notin {"head", "stats", "finish"}
    BY <1>7 DEF Unwind, EndRequest, ReadRequest, Exit, Idle, RepoStays
  <2>2. QED
    BY <1>1, <2>1
<1>8. CASE UNCHANGED <<cache, repo, pc>> /\ (tag' = "running" => tag = "running")
  BY <1>8 DEF RepoStays, IsOpen
<1>9. TagForCommit => UNCHANGED <<cache, repo, pc>> /\ tag' # "running"
  BY DEF TagForCommit
<1>10. ShellExits \/ Move \/ NewCommit \/ Tick \/ (\E target \in Target : Ask(target))
         \/ UNCHANGED vars
         => UNCHANGED <<cache, repo, pc, tag>>
  BY DEF ShellExits, Move, NewCommit, Tick, Ask, vars
<1>11. QED
  BY <1>1, <1>3, <1>4, <1>5, <1>6, <1>7, <1>8, <1>9, <1>10 DEF Next, MainStep

(* The last of the answers is the one that is sent. *)
LEMMA LastAnswer ==
  ASSUME TypeOK, NEW ok \in BOOLEAN, answers' = Append(answers, [n |-> cur.n, ok |-> ok])
  PROVE  Last(answers').ok = ok
<1> DEFINE a == [n |-> cur.n, ok |-> ok]
<1>1. a \in Answer /\ answers \in Seq(Answer) /\ a.ok = ok /\ answers' = Append(answers, a)
  BY DEF TypeOK, Request, Answer
<1> HIDE DEF a
<1>2. Len(answers') = Len(answers) + 1 /\ answers'[Len(answers) + 1] = a
  BY <1>1, AppendProperties, LenProperties
<1>3. QED
  BY <1>1, <1>2 DEF Last

(* Every step keeps the fields in their places. *)
LEMMA PartOfStatusStep ==
  ASSUME TypeOK, PartOfStatus, [Next]_vars
  PROVE  PartOfStatus'
<1> USE DEF world, doing
<1>1. CASE pc' \in {"unwind", "exited", "crashed"}
  BY <1>1 DEF PartOfStatus, IsWhole
<1>2. CASE pc' \in {"open", "head", "stats"} /\ pc \in {"read", "open", "head"} /\ resp' = resp
  BY <1>2 DEF PartOfStatus, IsWhole
<1>3. CASE UNCHANGED <<pc, resp, answers, head_target>>
  BY <1>3 DEF PartOfStatus, IsWhole, Part, IsStatus
<1>4. DiscoverFails \/ NotFound \/ OpenFails \/ InitFails \/ NoHead \/ Exit
        => pc' \in {"unwind", "exited", "crashed"}
  BY DEF DiscoverFails, NotFound, OpenFails, InitFails, NoHead, Exit, GivesUp
<1>5. CASE Hit
  BY <1>1, <1>2, <1>5 DEF Hit
<1>6. Miss \/ GetTagName \/ ReadRequest
        => pc' \in {"open", "head", "stats"} /\ pc \in {"read", "open", "head"} /\ resp' = resp
  BY DEF Miss, GetTagName, ReadRequest
<1>7. CASE GetIndexStats
  <2>1. CASE pc' = "finish" /\ \E remote \in BOOLEAN : resp' = BeforeTag(remote)
    <3>1. Part(resp', 0, 15, head_target)
      BY <2>1, BeforeTagPart
    <3>2. Part(resp, 0, 15, head_target)'
      BY <1>7, <3>1 DEF GetIndexStats, Part, Fields
    <3>3. QED
      BY <2>1, <3>2 DEF PartOfStatus, IsWhole
  <2>2. CASE pc' = "unwind"
    BY <1>1, <2>2
  <2>3. QED
    BY <1>7, <2>1, <2>2, Zenon DEF GetIndexStats, GivesUp
<1>8. CASE Dump
  <2>1. CASE /\ pc' = "sent" /\ answers' = Append(answers, [n |-> cur.n, ok |-> TRUE])
             /\ \E remote \in BOOLEAN : resp' = resp \o FromTag(remote)
    <3>1. PICK remote \in BOOLEAN : resp' = resp \o FromTag(remote)
      BY <2>1
    <3>2. Part(resp, 0, 15, head_target) /\ Part(FromTag(remote), 15, 27, head_target)
      BY <1>8, DumpFacts, FromTagPart DEF PartOfStatus
    <3>3. Part(resp', 0, 27, head_target)
      BY <3>1, <3>2, PartPart
    <3>4. IsStatus(resp')
      BY <3>3, PartIsStatus
    <3>5. Last(answers').ok
      BY <2>1, LastAnswer
    <3>6. QED
      BY <2>1, <3>4, <3>5 DEF PartOfStatus, IsWhole, IsStatus
  <2>2. CASE pc' = "unwind"
    BY <1>1, <2>2
  <2>3. QED
    BY <1>8, <2>1, <2>2, DumpFacts
<1>9. CASE Unwind
  <2>1. /\ pc' = "sent" /\ resp' = <<>>
        /\ answers' = Append(answers, [n |-> cur.n, ok |-> FALSE])
    BY <1>9 DEF Unwind
  <2>2. Last(answers').ok = FALSE
    BY <2>1, LastAnswer
  <2>3. QED
    BY <2>1, <2>2 DEF PartOfStatus, IsWhole
<1>10. CASE EndRequest
  BY <1>10 DEF EndRequest, PartOfStatus, IsWhole
<1>11. Idle \/ TagForCommit \/ ShellExits \/ Move \/ NewCommit \/ Tick
         \/ (\E target \in Target : Ask(target)) \/ UNCHANGED vars
         => UNCHANGED <<pc, resp, answers, head_target>>
  BY DEF Idle, TagForCommit, ShellExits, Move, NewCommit, Tick, Ask, vars
<1>12. QED
  BY <1>1, <1>2, <1>3, <1>4, <1>5, <1>6, <1>7, <1>8, <1>9, <1>10, <1>11 DEF Next, MainStep
-----------------------------------------------------------------------------
(* The theorems.                                                           *)

(* The invariant holds at first. *)
LEMMA InitIInv == Init => IInv
<1> SUFFICES ASSUME Init PROVE IInv
  OBVIOUS
<1>1. TypeOK
  BY InitType
<1>2. Numbered /\ PartOfStatus
  BY DEF Init, Numbered, PartOfStatus, IsWhole, Busy
<1>3. OwnNodes /\ EntriesHaveNodes /\ AgeIsUnused /\ RepoStays
  BY DEF Init, OwnNodes, EntriesHaveNodes, AgeIsUnused, RepoStays, IsOpen
<1>4. QED
  BY <1>1, <1>2, <1>3 DEF IInv

(* Every step keeps it. *)
LEMMA IInvStep == IInv /\ [Next]_vars => IInv'
<1> SUFFICES ASSUME IInv, [Next]_vars PROVE IInv'
  OBVIOUS
<1>1. TypeOK' /\ Numbered' /\ RepoStays' /\ PartOfStatus'
  BY TypeStep, NumberedStep, RepoStaysStep, PartOfStatusStep DEF IInv
<1>2. Nodes'
  BY NodesStep DEF IInv, Nodes
<1>3. QED
  BY <1>1, <1>2 DEF IInv, Nodes

(* The inductive invariant of the daemon. *)
THEOREM Invariance == Spec => []IInv
  BY InitIInv, IInvStep, PTL DEF Spec

(* A function on 1..n with numbers for values is a sequence of length n. *)
LEMMA NumbersAreSeq ==
  ASSUME NEW n \in Nat, NEW s, s = [x \in 1..n |-> s[x]], \A x \in 1..n : s[x] \in Nat
  PROVE  s \in Seq(Nat) /\ Len(s) = n
BY IsASeq

(* Two sequences that count, the second on from the end of the first. *)
LEMMA CountOn ==
  ASSUME NEW s \in Seq(Nat), NEW t \in Seq(Nat),
         \A x \in 1..Len(s) : s[x] = x, \A x \in 1..Len(t) : t[x] = Len(s) + x
  PROVE  /\ s \o t \in Seq(Nat) /\ Len(s \o t) = Len(s) + Len(t)
         /\ \A x \in 1..Len(s \o t) : (s \o t)[x] = x
<1>1. Len(s) \in Nat /\ Len(t) \in Nat
  OBVIOUS
<1>2. /\ s \o t \in Seq(Nat) /\ Len(s \o t) = Len(s) + Len(t)
      /\ \A x \in 1..Len(s \o t) : (s \o t)[x] = IF x <= Len(s) THEN s[x] ELSE t[x - Len(s)]
  BY ConcatProperties
<1>3. ASSUME NEW x \in 1..Len(s \o t) PROVE (s \o t)[x] = x
  <2>1. CASE x <= Len(s)
    BY <1>1, <1>2, <2>1
  <2>2. CASE x > Len(s)
    <3>1. x - Len(s) \in 1..Len(t) /\ Len(s) + (x - Len(s)) = x
      BY <1>1, <1>2, <2>2
    <3>2. QED
      BY <1>1, <1>2, <2>2, <3>1
  <2>3. QED
    BY <1>1, <1>2, <2>1, <2>2
<1>4. QED
  BY <1>2, <1>3

(* Answers come in the order of the requests, one for each, and are whole. *)
THEOREM AnswersAreInOrder == Spec => []AnswersInOrder
<1>1. IInv => AnswersInOrder
  <2> SUFFICES ASSUME IInv, Alive
               PROVE  LET all == [x \in DOMAIN answers |-> answers[x].n]
                                   \o (IF pc \in {"read", "sent"} THEN <<>> ELSE <<cur.n>>)
                                   \o [x \in DOMAIN queue |-> queue[x].n]
                      IN  all = [n \in 1..asked |-> n]
    BY Zenon DEF AnswersInOrder, IInv, PartOfStatus
  <2> DEFINE a == [x \in DOMAIN answers |-> answers[x].n]
             b == IF pc \in {"read", "sent"} THEN <<>> ELSE <<cur.n>>
             c == [x \in DOMAIN queue |-> queue[x].n]
  <2>1. /\ answers \in Seq(Answer) /\ DOMAIN answers = 1..Len(answers) /\ Len(answers) \in Nat
        /\ queue \in Seq(Request) /\ DOMAIN queue = 1..Len(queue) /\ Len(queue) \in Nat
    BY DEF IInv, TypeOK
  <2>2. /\ Busy \in Nat /\ Len(answers) + Busy \in Nat
        /\ asked = Len(answers) + Busy + Len(queue) /\ asked \in Nat
        /\ Busy = (IF pc \in {"read", "sent"} THEN 0 ELSE 1)
    BY <2>1 DEF IInv, Numbered, Busy, Alive
  <2>3. a \in Seq(Nat) /\ Len(a) = Len(answers) /\ \A x \in 1..Len(answers) : a[x] = x
    <3>1. a = [x \in 1..Len(answers) |-> a[x]] /\ \A x \in 1..Len(answers) : a[x] = x
      BY <2>1 DEF IInv, Numbered
    <3>2. QED
      BY <2>1, <3>1, NumbersAreSeq
  <2>4. b \in Seq(Nat) /\ Len(b) = Busy /\ \A x \in 1..Busy : b[x] = Len(answers) + x
    <3>1. b = [x \in 1..Busy |-> b[x]] /\ \A x \in 1..Busy : b[x] = Len(answers) + x
      BY <2>1, <2>2 DEF IInv, Numbered
    <3>2. QED
      BY <2>1, <2>2, <3>1, NumbersAreSeq
  <2>5. /\ c \in Seq(Nat) /\ Len(c) = Len(queue)
        /\ \A x \in 1..Len(queue) : c[x] = Len(answers) + Busy + x
    <3>1. /\ c = [x \in 1..Len(queue) |-> c[x]]
          /\ \A x \in 1..Len(queue) : c[x] = Len(answers) + Busy + x
      BY <2>1 DEF IInv, Numbered
    <3>2. QED
      BY <2>1, <2>2, <3>1, NumbersAreSeq
  <2> HIDE DEF a, b, c
  <2>6. /\ a \o b \in Seq(Nat) /\ Len(a \o b) = Len(a) + Len(b)
        /\ \A x \in 1..Len(a \o b) : (a \o b)[x] = x
    BY <2>3, <2>4, CountOn
  <2>7. /\ (a \o b) \o c \in Seq(Nat) /\ Len((a \o b) \o c) = asked
        /\ \A x \in 1..asked : ((a \o b) \o c)[x] = x
    <3>1. Len(a \o b) = Len(answers) + Busy
      BY <2>3, <2>4, <2>6
    <3>2. \A x \in 1..Len(c) : c[x] = Len(a \o b) + x
      BY <2>5, <3>1
    <3>3. /\ (a \o b) \o c \in Seq(Nat) /\ Len((a \o b) \o c) = Len(a \o b) + Len(c)
          /\ \A x \in 1..Len((a \o b) \o c) : ((a \o b) \o c)[x] = x
      BY <2>5, <2>6, <3>2, CountOn
    <3>4. QED
      BY <2>2, <2>5, <3>1, <3>3
  <2>8. (a \o b) \o c = [n \in 1..asked |-> n]
    <3> DEFINE d == (a \o b) \o c
    <3>1. d \in Seq(Nat) /\ Len(d) = asked /\ \A x \in 1..asked : d[x] = x
      BY <2>7
    <3> HIDE DEF d
    <3>2. d = [n \in 1..asked |-> n]
      BY <3>1
    <3>3. QED
      BY <3>2 DEF d
  <2>9. QED
    BY <2>8 DEF a, b, c
<1>2. QED
  BY <1>1, Invariance, PTL

(* lru_ and cache_ name the same open repositories. *)
THEOREM LruIsCache == Spec => []LruMatchesCache
<1>1. IInv => LruMatchesCache
  BY DEF IInv, EntriesHaveNodes, LruMatchesCache
<1>2. QED
  BY <1>1, Invariance, PTL

(* The tag is looked up in an open repository. *)
THEOREM TagIsSafe == Spec => []TagHasItsRepo
<1>1. IInv => TagHasItsRepo
  BY DEF IInv, RepoStays, TagHasItsRepo
<1>2. QED
  BY <1>1, Invariance, PTL

(* What is closed has not been asked about for --repo-ttl, or is gone. *)
THEOREM OnlyUnusedIsClosed == Spec => ClosedWhenUnused
<1> DEFINE Rightly ==
             \A g \in GitDir : IsOpen(g) /\ ~IsOpen(g)' => unused[g] = Ttl \/ LooksInVain(g)
<1>1. ASSUME IInv, [Next]_vars PROVE Rightly
  <2> SUFFICES ASSUME NEW g \in GitDir, IsOpen(g), ~IsOpen(g)'
               PROVE  unused[g] = Ttl \/ LooksInVain(g)
    OBVIOUS
  <2> USE DEF world, doing
  <2>0. TypeOK /\ AgeIsUnused
    BY <1>1 DEF IInv
  <2>1. CASE NotFound
    <3>1. pc = "open" /\ GitDirs(cur.target) = NoGit
      BY <2>1 DEF NotFound
    <3>2. g \in Gone(cur.target)
      BY <2>0, <2>1 DEF NotFound, Erase, IsOpen, TypeOK
    <3>3. QED
      BY <3>1, <3>2 DEF LooksInVain
  <2>2. CASE Idle
    <3>1. PICK x \in Expired : x.gitdir = g
      BY <2>0, <2>2 DEF Idle, Free, Erase, IsOpen, TypeOK
    <3>2. x \in lru /\ x.age >= Ttl /\ x.age = unused[g]
      BY <2>0, <3>1 DEF Expired, AgeIsUnused
    <3>3. x.age \in 0..Ttl
      BY <2>0, <3>2 DEF TypeOK, Node, Age
    <3>4. QED
      BY <3>2, <3>3, DaemonAssumption
  <2>3. CASE Hit
    <3>1. CASE pc' = "head"
      <4>1. PICK h \in GitDir : cache' = [cache EXCEPT ![h] = Open(cache[h].repo, cur.n)]
        BY <2>0, <2>3, <3>1, HitFacts
      <4>2. cache'[g] = cache[g] \/ cache'[g] = Open(cache[h].repo, cur.n)
        BY <2>0, <4>1 DEF TypeOK
      <4>3. QED
        BY <4>2, OpenFacts DEF IsOpen
    <3>2. CASE pc' # "head"
      BY <2>3, <3>2 DEF Hit, IsOpen
    <3>3. QED
      BY <3>1, <3>2
  <2>4. CASE Miss
    <3>1. PICK h : cache' = [cache EXCEPT ![h] = Open(cur.n, cur.n)]
      BY <2>4 DEF Miss
    <3>2. cache'[g] = cache[g] \/ cache'[g] = Open(cur.n, cur.n)
      BY <2>0, <3>1 DEF TypeOK
    <3>3. QED
      BY <3>2, OpenFacts DEF IsOpen
  <2>5. CASE InitFails
    <3>1. PICK h \in GitDir : cache[h] = Closed /\ cache' = [cache EXCEPT ![h] = Null]
      BY <2>0, <2>5, GitDirsType DEF InitFails, TypeOK, Request
    <3>2. g # h /\ cache'[g] = cache[g]
      BY <2>0, <3>1 DEF IsOpen, TypeOK
    <3>3. QED
      BY <3>2 DEF IsOpen
  <2>6. CASE \/ DiscoverFails \/ OpenFails \/ NoHead \/ GetTagName \/ GetIndexStats \/ Dump
             \/ Unwind
    <3>1. UNCHANGED cache
      BY <2>6, DumpFacts
         DEF DiscoverFails, OpenFails, NoHead, GetTagName, GetIndexStats, Unwind
    <3>2. QED
      BY <3>1 DEF IsOpen
  <2>7. CASE EndRequest \/ ReadRequest \/ Exit \/ TagForCommit
               \/ \E target \in Target : Ask(target)
    BY <2>7 DEF EndRequest, ReadRequest, Exit, TagForCommit, Ask, IsOpen
  <2>8. CASE ShellExits \/ Move \/ NewCommit \/ Tick \/ UNCHANGED vars
    BY <2>8 DEF ShellExits, Move, NewCommit, Tick, vars, IsOpen
  <2>9. QED
    BY <1>1, <2>1, <2>2, <2>3, <2>4, <2>5, <2>6, <2>7, <2>8 DEF Next, MainStep
<1>2. IInv /\ [Next]_vars => [Rightly]_vars
  BY <1>1
<1>3. QED
  BY <1>2, Invariance, PTL DEF Spec, ClosedWhenUnused
=============================================================================
