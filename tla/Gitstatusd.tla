------------------------------ MODULE Gitstatusd ------------------------------
(***************************************************************************)
(* The main loop of gitstatusd (GitStatus and ProcessRequest in            *)
(* src/gitstatus/src/gitstatus.cc) with the repositories it keeps open     *)
(* (RepoCache), the requests it reads (RequestReader), the responses it    *)
(* writes (ResponseWriter) and the tag lookup that runs on the thread pool *)
(* while a request is being processed (Repo::GetTagName).                  *)
(*                                                                         *)
(* What GetIndexStats does inside is in RepoScan; here it ends or throws.  *)
(* A request is known by its number, an open repository by the number of   *)
(* the request that opened it, a commit by how often HEAD has moved since  *)
(* the request was read.  Of a field in a response, what matters is its    *)
(* name and the commit that it tells something about.                      *)
(***************************************************************************)
EXTENDS Naturals, Sequences, FiniteSets, Functions, SequencesExt

CONSTANTS
  Path,    \* directories
  Up,      \* [Path -> Seq(Path)]: a directory and its ancestors, nearest first
  GitDir,  \* canonical git directories
  Own,     \* [Path -> GitDir]: <path>/.git/ as a directory
  NoGit,   \* no .git
  Ttl,     \* --repo-ttl-seconds
  MaxReq,  \* bound: requests
  MaxMoves,\* bound: changes of .git on disk
  MaxCommits, \* bound: commits while a request is processed
  Faults   \* what may fail: "discover", "open", "odb", "head", "stats", "tag", "git"

Num == 1..MaxReq
Target == Path \cup GitDir  \* a git directory: GIT_DIR is set, the request is from_dotgit
Request == [n : Num, target : Target]
Commit == 0..MaxCommits
NoCommit == MaxCommits + 1
\* _gitstatus_process_response: the parameters that the third field of a
\* response and those after it are assigned to.
VcsStatus ==
  <<"WORKDIR", "COMMIT", "LOCAL_BRANCH", "REMOTE_BRANCH", "REMOTE_NAME", "REMOTE_URL", "ACTION",
    "INDEX_SIZE", "NUM_STAGED", "NUM_UNSTAGED", "NUM_CONFLICTED", "NUM_UNTRACKED",
    "COMMITS_AHEAD", "COMMITS_BEHIND", "STASHES", "TAG", "NUM_UNSTAGED_DELETED",
    "NUM_STAGED_NEW", "NUM_STAGED_DELETED", "PUSH_REMOTE_NAME", "PUSH_REMOTE_URL",
    "PUSH_COMMITS_AHEAD", "PUSH_COMMITS_BEHIND", "NUM_SKIP_WORKTREE", "NUM_ASSUME_UNCHANGED",
    "COMMIT_ENCODING", "COMMIT_SUMMARY">>

Field(name, about) == [name |-> name, about |-> about]
Fields == Seq([name : Range(VcsStatus), about : Commit \cup {NoCommit}])
Answer == [n : Num, ok : BOOLEAN]
Unread == CHOOSE r \in Request : r.n = 1  \* a Request before it is read
Age == 0..Ttl
Closed == [state |-> "closed"]
Null == [state |-> "null"]
Open(n, m) == [state |-> "open", repo |-> n, node |-> m]
Entry == {Closed, Null} \cup {Open(n, m) : n \in Num, m \in Num}
Node == [n : Num, gitdir : GitDir, age : Age]

ASSUME DaemonAssumption ==
  /\ Path # {} /\ Up \in [Path -> Seq(Path)] /\ \A p \in Path : Up[p] # <<>> /\ Head(Up[p]) = p
  /\ Own \in [Path -> GitDir] /\ IsInjective(Own)
  /\ Path \cap GitDir = {} /\ NoGit \notin GitDir
  /\ Ttl \in Nat \ {0} /\ MaxReq \in Nat \ {0}
  /\ MaxMoves \in Nat /\ MaxCommits \in Nat
  /\ Faults \subseteq {"discover", "open", "odb", "head", "stats", "tag", "git"}

VARIABLES
  at,      \* [Path -> GitDir or NoGit]: what .git in a directory is or points to
  moves,   \* how often that has changed
  head,    \* the commit at HEAD, counted from the last request
  shell,   \* the shell is there and holds the lock
  asked,   \* requests sent
  queue,   \* requests not read
  answers, \* responses written
  pc,      \* where the main thread is
  cur,     \* the request being processed
  repo,    \* the repository it is about
  head_target, \* the commit at its HEAD when that was looked up
  resp,    \* ResponseWriter::strm_, after the id and the 1: the fields so far
  cache,   \* [GitDir -> Entry]: RepoCache::cache_
  lru,     \* RepoCache::lru_; an age is the time since the node was inserted
  tag,     \* the tag lookup: "none", "running", "done" or "failed"
  unused   \* [GitDir -> Age]: time since a request was last about it

world == <<at, moves, head, shell, asked>>
doing == <<cur, repo, head_target, resp>>
vars == <<world, queue, answers, pc, doing, cache, lru, tag, unused>>

TypeOK ==
  /\ at \in [Path -> GitDir \cup {NoGit}] /\ moves \in 0..MaxMoves /\ head \in Commit
  /\ shell \in BOOLEAN
  /\ asked \in 0..MaxReq /\ queue \in Seq(Request) /\ answers \in Seq(Answer)
  /\ pc \in {"read", "open", "head", "stats", "finish", "unwind", "sent", "exited", "crashed"}
  /\ cur \in Request /\ repo \in Num /\ head_target \in Commit /\ resp \in Fields
  /\ cache \in [GitDir -> Entry] /\ lru \in SUBSET Node
  /\ tag \in {"none", "running", "done", "failed"}
  /\ unused \in [GitDir -> Age]

Init ==
  /\ at \in [Path -> GitDir \cup {NoGit}] /\ moves = 0 /\ shell = TRUE
  /\ head = 0 /\ head_target = 0 /\ resp = <<>>
  /\ asked = 0 /\ queue = <<>> /\ answers = <<>>
  /\ pc = "read" /\ cur = Unread /\ repo = 1
  /\ cache = [g \in GitDir |-> Closed] /\ lru = {}
  /\ tag = "none" /\ unused = [g \in GitDir |-> Ttl]

-----------------------------------------------------------------------------
\* GitDirs: git_repository_discover_ex, searching upwards from a directory.
GitDirs(target) ==
  IF target \in GitDir
  THEN IF target \in Range(at) THEN target ELSE NoGit
  ELSE LET hits == {x \in DOMAIN Up[target] : at[Up[target][x]] # NoGit}
       IN  IF hits = {} THEN NoGit
           ELSE at[Up[target][CHOOSE x \in hits : \A y \in hits : x <= y]]

\* Where Open looks for what is gone: the git directory itself, or .git/ here and above.
Gone(target) == IF target \in GitDir THEN {target} ELSE {Own[p] : p \in Range(Up[target])}

\* RepoCache::Erase of the entries of some git directories.
LeavesNodes(gs) ==
  /\ cache' = [g \in GitDir |-> IF g \in gs THEN Closed ELSE cache[g]]
  /\ lru' = lru
Erase(gs) ==
  /\ cache' = [g \in GitDir |-> IF g \in gs THEN Closed ELSE cache[g]]
  /\ lru' = {x \in lru : \A g \in gs : cache[g] # Null /\ cache[g] # Closed =>
                                        cache[g].node # x.n}

Fresh(g) == [n |-> cur.n, gitdir |-> g, age |-> 0]
Used(g) == [unused EXCEPT ![g] = 0]

\* An exception, or a return without Dump: the destructors take over.
GivesUp == pc' = "unwind"

DiscoverFails ==
  /\ pc = "open" /\ "discover" \in Faults
  /\ GivesUp
  /\ UNCHANGED <<world, queue, answers, doing, cache, lru, tag, unused>>

\* There is nothing to be found any more.  Erase follows the pointer of every entry.
NotFound ==
  /\ pc = "open" /\ GitDirs(cur.target) = NoGit
  /\ IF \E g \in Gone(cur.target) : cache[g] = Null
     THEN pc' = "crashed" /\ UNCHANGED <<cache, lru>>
     ELSE GivesUp /\ Erase(Gone(cur.target))
  /\ UNCHANGED <<world, queue, answers, doing, tag, unused>>

\* The repository is in the cache: it becomes the most recently used one.  The
\* read through a null entry is undefined; the build dies of it (a fault at a
\* small address), as in NotFound.
KeepsPlace(g) == lru' = lru
MovesToEnd(g) == lru' = {x \in lru : x.n # cache[g].node} \cup {Fresh(g)}

Hit ==
  /\ pc = "open"
  /\ LET g == GitDirs(cur.target) IN
     /\ g # NoGit /\ cache[g] # Closed
     /\ IF cache[g] = Null
        THEN pc' = "crashed" /\ UNCHANGED <<repo, cache, lru, unused>>
        ELSE /\ MovesToEnd(g)
             /\ cache' = [cache EXCEPT ![g] =
                   IF \E x \in lru' : x.n = cur.n THEN Open(@.repo, cur.n) ELSE @]
             /\ repo' = cache[g].repo /\ unused' = Used(g)
             /\ pc' = "head"
  /\ UNCHANGED <<world, queue, answers, cur, head_target, resp, tag>>

\* OpenRepo finds no repository after all, a bare one, or throws.
OpenFails ==
  /\ pc = "open" /\ "open" \in Faults
  /\ GitDirs(cur.target) # NoGit /\ cache[GitDirs(cur.target)] = Closed
  /\ GivesUp
  /\ UNCHANGED <<world, queue, answers, doing, cache, lru, tag, unused>>

\* cache_.emplace(gitdir, nullptr), then an exception from libgit2 or from the
\* constructor of Repo: the entry stays, without a repository.
InitFails ==
  /\ pc = "open" /\ "odb" \in Faults
  /\ LET g == GitDirs(cur.target) IN
     /\ g # NoGit /\ cache[g] = Closed
     /\ cache' = [cache EXCEPT ![g] = Null]
  /\ GivesUp
  /\ UNCHANGED <<world, queue, answers, doing, lru, tag, unused>>

Miss ==
  /\ pc = "open"
  /\ LET g == GitDirs(cur.target) IN
     /\ g # NoGit /\ cache[g] = Closed
     /\ cache' = [cache EXCEPT ![g] = Open(cur.n, cur.n)]
     /\ lru' = lru \cup {Fresh(g)}
     /\ repo' = cur.n /\ unused' = Used(g)
  /\ pc' = "head"
  /\ UNCHANGED <<world, queue, answers, cur, head_target, resp, tag>>

-----------------------------------------------------------------------------
(* ProcessRequest, with the repository open.                               *)

\* No configuration, or neither a commit nor an unborn branch at HEAD.
NoHead ==
  /\ pc = "head" /\ "head" \in Faults
  /\ GivesUp
  /\ UNCHANGED <<world, queue, answers, doing, cache, lru, tag, unused>>

\* Head: the commit at HEAD, or none on an unborn branch.
ResolveHead == head_target' = head

GetTagName ==
  /\ pc = "head" /\ pc' = "stats" /\ tag' = "running"
  /\ ResolveHead
  /\ UNCHANGED <<world, queue, answers, cur, repo, resp, cache, lru, unused>>

\* On the thread pool.
TagForCommit ==
  /\ tag = "running"
  /\ tag' \in {"done"} \cup (IF "tag" \in Faults THEN {"failed"} ELSE {})
  /\ UNCHANGED <<world, queue, answers, pc, doing, cache, lru, unused>>

\* The wrappers of libgit2 that may throw: no workdir, a reference of another
\* type, a remote branch without the name of its remote, a walk that fails.
GitFails == "git" \in Faults

Of(commit, names) == [x \in DOMAIN names |-> Field(names[x], commit)]

LocalBranchName == Of(NoCommit, <<"LOCAL_BRANCH">>)
\* Found or not, there are as many fields.
GetRemote == Of(NoCommit, <<"REMOTE_BRANCH", "REMOTE_NAME", "REMOTE_URL">>)
RepoState == Of(NoCommit, <<"ACTION">>)
\* Zero where it fails.
NumStashes == Of(NoCommit, <<"STASHES">>)
GetPushRemote == Of(NoCommit, <<"PUSH_REMOTE_NAME", "PUSH_REMOTE_URL">>)
GetCommitMessage(id) == Of(id, <<"COMMIT_ENCODING", "COMMIT_SUMMARY">>)

\* Two ranges from or to HEAD, which is looked up again.  Without a remote there
\* is nothing to count.
OneZero(names, remote) ==
  IF remote THEN Of(head, names) ELSE Of(NoCommit, SubSeq(names, 1, 1))
CountRange(names, remote) == Of(IF remote THEN head ELSE NoCommit, names)

\* The fields up to the tag.  A request without diff does not call GetIndexStats
\* and has zeros for its counts.
BeforeTag(remote) ==
  Of(NoCommit, <<"WORKDIR">>) \o Of(head_target, <<"COMMIT">>)
    \o LocalBranchName \o GetRemote \o RepoState
    \o Of(head_target, <<"INDEX_SIZE", "NUM_STAGED", "NUM_UNSTAGED", "NUM_CONFLICTED",
                         "NUM_UNTRACKED">>)
    \o CountRange(<<"COMMITS_AHEAD", "COMMITS_BEHIND">>, remote) \o NumStashes

GetIndexStats ==
  /\ pc = "stats"
  /\ \/ /\ pc' = "finish"
        /\ \E remote \in BOOLEAN : resp' = BeforeTag(remote)
     \/ /\ GitFails \/ "stats" \in Faults
        /\ GivesUp /\ UNCHANGED resp
  /\ UNCHANGED <<world, queue, answers, cur, repo, head_target, cache, lru, tag, unused>>

FromTag(remote) ==
  Of(head_target, <<"TAG", "NUM_UNSTAGED_DELETED", "NUM_STAGED_NEW", "NUM_STAGED_DELETED">>)
    \o GetPushRemote \o CountRange(<<"PUSH_COMMITS_AHEAD", "PUSH_COMMITS_BEHIND">>, remote)
    \o Of(head_target, <<"NUM_SKIP_WORKTREE", "NUM_ASSUME_UNCHANGED">>)
    \o GetCommitMessage(head_target)

\* tag.get() waits, rethrows what the lookup threw, and empties the future.
Dump ==
  /\ pc = "finish" /\ tag # "running"
  /\ tag' = "none"
  /\ \/ /\ tag # "failed" /\ pc' = "sent"
        /\ \E remote \in BOOLEAN : resp' = resp \o FromTag(remote)
        /\ answers' = Append(answers, [n |-> cur.n, ok |-> TRUE])
     \/ /\ tag = "failed" \/ GitFails
        /\ GivesUp /\ UNCHANGED <<answers, resp>>
  /\ UNCHANGED <<world, queue, cur, repo, head_target, cache, lru, unused>>

\* The destructors: wait for the tag, then drop the fields and say that there
\* is no status.
DoesNotWait ==
  /\ pc = "unwind" /\ pc' = "sent"
  /\ answers' = Append(answers, [n |-> cur.n, ok |-> FALSE]) /\ resp' = <<>>
  /\ UNCHANGED <<world, queue, cur, repo, head_target, cache, lru, tag, unused>>
SaysNothing ==
  /\ pc = "unwind" /\ tag # "running" /\ tag' = "none" /\ pc' = "sent" /\ resp' = <<>>
  /\ UNCHANGED <<world, queue, answers, cur, repo, head_target, cache, lru, unused>>
Unwind ==
  /\ pc = "unwind" /\ tag # "running"
  /\ tag' = "none" /\ pc' = "sent"
  /\ answers' = Append(answers, [n |-> cur.n, ok |-> FALSE]) /\ resp' = <<>>
  /\ UNCHANGED <<world, queue, cur, repo, head_target, cache, lru, unused>>

\* ProcessRequest has returned or thrown; what it knew is gone.
EndRequest ==
  /\ pc = "sent" /\ pc' = "read"
  /\ cur' = Unread /\ repo' = 1 /\ head_target' = 0 /\ resp' = <<>>
  /\ head' = 0
  /\ UNCHANGED <<at, moves, shell, asked, queue, answers, cache, lru, tag, unused>>

-----------------------------------------------------------------------------
(* The main loop.                                                          *)
ReadRequest ==
  /\ pc = "read" /\ queue # <<>>
  /\ cur' = Head(queue) /\ queue' = Tail(queue)
  /\ pc' = "open"
  /\ UNCHANGED <<world, answers, repo, head_target, resp, cache, lru, tag, unused>>

\* RepoCache::Free: close what has not been asked about for Ttl, oldest first.
ExpiredLate == {x \in lru : x.age > Ttl}
Expired == {x \in lru : x.age >= Ttl}
Free == Erase({x.gitdir : x \in Expired})

\* A second without a request.
Idle ==
  /\ pc = "read" /\ queue = <<>> /\ shell
  /\ Expired # {}
  /\ Free
  /\ UNCHANGED <<world, queue, answers, pc, doing, tag, unused>>

\* The end of the file, or a second without a request and without the lock.
Exit ==
  /\ pc = "read" /\ queue = <<>> /\ ~shell
  /\ pc' = "exited"
  /\ UNCHANGED <<world, queue, answers, doing, cache, lru, tag, unused>>

-----------------------------------------------------------------------------
(* The shell, the disk and the clock.                                      *)
Ask(target) ==
  /\ shell /\ asked < MaxReq
  /\ asked' = asked + 1
  /\ queue' = Append(queue, [n |-> asked + 1, target |-> target])
  /\ UNCHANGED <<at, moves, head, shell, answers, pc, doing, cache, lru, tag, unused>>

ShellExits ==
  /\ shell /\ shell' = FALSE
  /\ UNCHANGED <<at, moves, head, asked, queue, answers, pc, doing, cache, lru, tag, unused>>

Move ==
  /\ moves < MaxMoves /\ moves' = moves + 1
  /\ \E p \in Path, g \in GitDir \cup {NoGit} : at' = [at EXCEPT ![p] = g]
  /\ UNCHANGED <<head, shell, asked, queue, answers, pc, doing, cache, lru, tag, unused>>

\* Before HEAD is looked up, and after the last field, it makes no difference.
NewCommit ==
  /\ pc \in {"stats", "finish"} /\ head < MaxCommits /\ head' = head + 1
  /\ UNCHANGED <<at, moves, shell, asked, queue, answers, pc, doing, cache, lru, tag, unused>>

Older(a) == IF a < Ttl THEN a + 1 ELSE a

Tick ==
  /\ lru' = {[x EXCEPT !.age = Older(@)] : x \in lru}
  /\ unused' = [g \in GitDir |-> Older(unused[g])]
  /\ <<lru', unused'>> # <<lru, unused>>
  /\ UNCHANGED <<world, queue, answers, pc, doing, cache, tag>>

MainStep ==
  \/ ReadRequest \/ Idle \/ Exit
  \/ DiscoverFails \/ NotFound \/ Hit \/ OpenFails \/ InitFails \/ Miss
  \/ NoHead \/ GetTagName \/ GetIndexStats \/ Dump \/ Unwind \/ EndRequest

Next ==
  \/ MainStep \/ TagForCommit
  \/ \E target \in Target : Ask(target)
  \/ ShellExits \/ Move \/ NewCommit \/ Tick

Spec == Init /\ [][Next]_vars

(* The main thread and the pool are scheduled and time passes.             *)
FairSpec == Spec /\ WF_vars(MainStep) /\ WF_vars(TagForCommit) /\ WF_vars(Tick)
-----------------------------------------------------------------------------
Alive == pc \notin {"exited", "crashed"}
IsOpen(g) == cache[g] \notin {Closed, Null}

\* What must be about the commit in the response.  The commits ahead and behind
\* are not: HEAD may have moved when they are counted.
OfCommit ==
  {"COMMIT", "NUM_STAGED", "TAG", "NUM_STAGED_NEW", "NUM_STAGED_DELETED",
   "COMMIT_ENCODING", "COMMIT_SUMMARY"}

\* A status has each field in the place where the shell looks for it, and all
\* that is told about a commit is about one; a refusal has no fields at all.
IsStatus(fields) ==
  /\ [x \in DOMAIN fields |-> fields[x].name] = VcsStatus
  /\ \A x, y \in DOMAIN fields :
       {fields[x].name, fields[y].name} \subseteq OfCommit => fields[x].about = fields[y].about
IsWhole == pc = "sent" => IF Last(answers).ok THEN IsStatus(resp) ELSE resp = <<>>

(* Each request is answered once and in the order of the requests, however *)
(* many of them fail half-way: the shell matches answers to queries.  The  *)
(* answers are whole, although remotes are found or not, fields are        *)
(* written before something fails, and HEAD moves in between.              *)
AnswersInOrder ==
  /\ Alive => LET all == [x \in DOMAIN answers |-> answers[x].n]
                        \o (IF pc \in {"read", "sent"} THEN <<>> ELSE <<cur.n>>)
                        \o [x \in DOMAIN queue |-> queue[x].n]
           IN  all = [n \in 1..asked |-> n]
  /\ IsWhole

(* lru_ has one node for each open repository, and the entry points to it: *)
(* nothing is freed twice and nothing stays open that lru_ does not know.  *)
LruMatchesCache ==
  /\ TypeOK
  /\ \A g \in GitDir : IsOpen(g) => \E x \in lru : x.gitdir = g /\ x.n = cache[g].node
  /\ \A x \in lru : IsOpen(x.gitdir) /\ cache[x.gitdir].node = x.n

(* A tag lookup never works on a repository that has been closed.          *)
TagHasItsRepo ==
  tag = "running" => \E g \in GitDir : IsOpen(g) /\ cache[g].repo = repo

(* A repository is closed only after Ttl without a request about it, or by *)
(* a request that finds nothing where it was: Free goes by the age of the  *)
(* node in lru_, which has to follow every use, a hit as well as a miss.   *)
LooksInVain(g) == pc = "open" /\ GitDirs(cur.target) = NoGit /\ g \in Gone(cur.target)
ClosedWhenUnused ==
  [][\A g \in GitDir : IsOpen(g) /\ ~IsOpen(g)' => unused[g] = Ttl \/ LooksInVain(g)]_vars

(* Every request is answered, whatever fails on the way, except when the   *)
(* daemon has died of a null entry that InitFails left in the cache.       *)
EveryoneAnswered == \A n \in Num : asked >= n ~> Len(answers) >= n \/ pc = "crashed"

(* options.cc: "For every request read from stdin there is response        *)
(* written to stdout."  There is none for a request that comes to a null   *)
(* entry.                                                                  *)
EveryRequestHasResponse == \A n \in Num : asked >= n ~> Len(answers) >= n

(* A repository nobody asks about is closed in the end.                    *)
UnusedIsClosed ==
  \A g \in GitDir : IsOpen(g) ~> ~IsOpen(g) \/ unused[g] = 0 \/ ~shell \/ ~Alive
=============================================================================
