# Verification of Powerlevel10k and gitstatus

TLA+ models of the concurrent and stateful parts of Powerlevel10k, a zsh prompt, and of gitstatus,
the daemon from which it gets the status of git repositories. Paths below are relative to the
repository; `PROJECT.json` names the source lines behind every definition.

    tlc -workers 2 -config WorkerAll.cfg WorkerMC.tla       # check a model
    tlapm ThreadPoolProofs.tla                              # check the proofs of a module

## 1. The system and its parts

```
 interactive zsh                                          background processes
 ----------------------------------------------------     ---------------------------------------
 p10k.zsh: precmd -> segments -> prompt                   gitstatusd (C++), one per shell
   vcs segment --- gitstatus.plugin.zsh ---- fifo ------> main loop -- repository cache
               <-- callback (zle -F) ------- pipe -------            -- Repo (index, HEAD diff, tags)
   async segments - worker.zsh (master) ---- fifo ------> worker     -- thread pool
               <-- callback (zle -F) ------- pipe -------   `- subprocess per segment
   state dump, instant prompt ---- files shared by all shells of a user
```

| Part | State it keeps | Operations | What is hard | What makes it correct |
|---|---|---|---|---|
| thread pool (`thread_pool.cc`) | priority queue of delayed functions, sleeper flag, count in flight | Schedule, worker loop, Wait, destructor | notifications after the mutex is released, three condition variables, spurious wakeups | no function waits while a thread is free; Wait means drained; the destructor returns |
| repository scan (`repo.cc`) | counters, limits, cached HEAD diff, index, error flag, in-flight count | GetIndexStats, staged and dirty scans per shard, destructor | scans of many shards over shared counters that stop each other, failures on pool threads, caching across requests | counts are those of the snapshot found, nothing outlives a request |
| main loop and repository cache (`gitstatus.cc`, `repo_cache.cc`, `request.cc`, `response.cc`) | open repositories, LRU order, response being built | read, open, tag lookup, stats, respond, evict, exit | exceptions at every step while the tag lookup runs on the pool; repositories that move on disk | one response per request, in order; cache and LRU agree; unused repositories are closed |
| gitstatusd session (`gitstatus_start`, `_stop`, `_gitstatus_daemon`) | state 0-1-2, process id, lock file, fifo, pipe | start (sync, async), stop, install, watchdog | five processes and two files, each of which can vanish at any point | a started daemon is clean; a dead shell leaves nothing; a start ends |
| vcs segment (`_p9k_vcs_gitstatus`, `gitstatus_query`) | next_dir, last known statuses, in-flight count, VCS_STATUS_* | query, late answer, resume, render | answers that come while the user has moved on | what is coloured is about here and now; grey ends |
| async worker (`worker.zsh`) | request map, in-flight counts, two channels | start, stop, invoke, serve, collect, receive | coalescing of requests, subprocesses that end in any order, death of the worker | latest request of a segment is served, never a late reply |
| index, shards and untracked cache (`index.cc`, `dir.cc`, `string_cmp.h`, `Repo::Shard`) | directories, splits, cached listings with mtimes | build, split, scan in parallel | racy mtimes, fan-out with closures on the stack, sorted sequences merged in two orders | candidates cover whatever is dirty; every path is in one shard |
| check of directory mtimes (`check_dir_mtime.cc`) | directories beside `.git` | clean up, probe | several daemons in one place, killed at any step, telling use from leavings by age | the cache is on only where it may be; nothing is left |
| tag database (`tag_db.cc`) | packed tags sorted by name and by id | update, lookup, destroy | sort on the pool that a later lookup on the pool waits for, refs that move between files | the greatest tag of a commit; every lookup ends |
| prompt cycle (`p10k.zsh` precmd, widgets) | reset state, line state, scheduled redraws | precmd, set_prompt, reset, hooks | callbacks in the line editor | redraws neither lost nor at the wrong time |
| state dump, instant prompt, caches | dump and compiled dump, prompt files, signatures | dump, restore, delete | several shells, one set of files, no lock | what is restored fits the parameters |
| async segments (time, cpu, ram, ...) | values shown | compute in a subprocess, reply | state set in a subprocess is lost | values are those last measured |
| pure-zsh fallback, bash binding | as the session | start, query, callback | background jobs, timeouts | the same API, the same promises |
| wizard, migration, build scripts | files of the user | sequential dialogues and scripts | partial failures | no configuration is lost |
| icons, parser, segments, templates | - | formatting, parsing | - | - |

`PROJECT.json` lists them all, the ones without a module and the reason too.

## 2. What is modelled, and how it corresponds to the code

**ThreadPool** (`thread_pool.{h,cc}`). A worker is a program counter: about to lock, waiting on
`cv_`, waiting on `sleeper_cv_`, running. A region that holds the mutex is one action (`Pop`,
`Sleep`, `WaitBehindSleeper`, `WaitForWork`, `Exit`); each `notify_one` after it is an action of its
own (`NotifyOne`), so anything may happen in between. Spurious wakeups happen. Clients call
Schedule, Wait and the destructor. **DelayedExecutor** is what the pool promises without locks: the
first due function starts as soon as a thread is free. ThreadPool implements it, liveness included
(`ImplementsExecutor`). The proofs are in **ThreadPoolProofs**; every other component has them in a
module named likewise, but DirMtime and TagDb share **GitDirProofs**, and Worker and PromptCycle
**ShellProofs**.

**RepoScan** (`repo.{h,cc}`). The main thread goes through `GetIndexStats` (load HEAD and index,
reuse or reset the counters, schedule one scan per shard against HEAD, find candidates, schedule one
scan per shard against the work tree, wait, check the error flag, answer). A scan handles one delta
per action (what it has still to report is a set of deltas with their places in the diff), stops when its
limit is reached, fails and records its error in the order of the code
(in-flight count first, error second). The pool is what `DelayedExecutor` promises: functions start
in the order of scheduling. libgit2 is external: a diff is a given sequence of deltas. How an index
is cut into shards is in IndexTree, what the candidates are in Index. The deltas,
limits and sizes of **RepoScanMC** are chosen so that counts are below and above limits and differ
between snapshots.

**Gitstatusd** (`gitstatus.cc`, `repo_cache.{h,cc}`, `request.cc`, `response.cc`). One action per
step of `ProcessRequest` and per exception that can leave it; unwinding waits for the tag lookup,
which is a task that ends or fails on its own. Discovering a repository and opening it are one step
in `RepoCache::Open` here: the disk does not change in between. An entry of the cache is closed, null
(inserted, not yet filled) or open. A response is the sequence of its fields as `gitstatus.cc` and
`git.cc` write them, each with the commit it tells something about; `VcsStatus` is the sequence in which
`_gitstatus_process_response` of the shell takes them. Commits are counted from the start of a request,
because only whether HEAD moves within one can be noticed.

**IndexTree** (`string_cmp.h`, `Index::InitDirs`, `InitSplits`, `Repo::UpdateShards`, `Shard::Contains`,
the dealing of candidates in `StartDirtyScan`). Functions on sequences of bytes, with and without case:
the directories of an index in the order that a stack builds them, the splits that the pool gets, the
shards that diffs get. gitstatusd is built with `-funsigned-char`, so that all comparisons agree on
bytes above 127. The constants of the code (512 entries, 16 splits a thread) are CONSTANTS. A loop is a
function of the number of its iterations (`Popping`, `Pushing`, `Adding`, `Cutting`, `CutShards`,
`DealtTo`), so that a proof can speak of each. A set of names in order (`SortSet`) puts equal names by
their bytes; the code leaves them in any order.

**Index** (`Index::GetDirtyCandidates`, `ScanDirs`, `OpenTail`, `dir.cc`) extends it. A task for each
split visits its directories in turn: open through the rotating stack of descriptors, stat, match the
files, then either use what is remembered of the directory or list it and match the listing against the
index by merging two sorted sequences. Other programs create, remove, change and lock files and
directories between any two of these steps, and a call may fail for no reason in the files. `steady` is a
ghost: the paths that did not change since the request began, for which the answer must be right.

**DirMtime** (`check_dir_mtime.cc`). One action per system call of each daemon: removing what others
left, by age, then making a directory with two in it, waiting for the clock, and looking whether their
mtimes change. Daemons are slow or killed anywhere; the file system keeps mtimes or not.

**TagDb** (`tag_db.{h,cc}`, `Repo::GetTagName`). A lookup on the pool (list refs/tags, stat
packed-refs, reset, read, try each listed name, search the packed tags), the sort that it leaves to the
pool, the destructor, and git commands that rename packed-refs and remove loose files one at a time. The
listing has the entries of refs/tags, directories among them, and not what is in a directory; it is empty
when refs/tags cannot be opened or read. `Nested` are the names with a slash, `DirOf` gives their
directory. The pool starts functions in order, on one thread or two. packed-refs is a sequence of lines,
or is malformed.

**GitstatusSession** (`gitstatus.plugin.zsh`: `gitstatus_start`, `gitstatus_stop`,
`_gitstatus_daemon`, reading in `_gitstatus_process_response`; `install` for its progress). A shell
and up to two sessions, each with a wrapper, a watchdog, a lock file, a fifo, a pipe and requests.
Every blocking call of the handshake is a place of the shell; every line after which a process may be
found by the others is an action. Whether there is a lock file (not on WSL 1) and whether zsh tells
the process id of a process substitution is chosen at the start. The lock of `zsystem flock` goes with
the shell; the watchdog holds the pipe open. Its five seconds are "any time after it has the lock".

**GitPrompt** (`_p9k_vcs_gitstatus`, `_p9k_vcs_resume`, `_p9k_vcs_render`, the known-status cache, and
`gitstatus_query`, `_process_response`, `_process_results`). A prompt asks, waits and shows; a timeout
may strike at any time (the latency bookkeeping that chooses timeouts is abstracted). A status is known
by the directory asked about, the work tree found, the prompt at which gitstatusd looked, and whether
it has a diff: what the properties tell apart.

**PromptCycle** (`p10k.zsh`: `_p9k_precmd_impl`, `_p9k_set_prompt`, `_p9k_on_expand`,
`_p9k_reset_prompt`, `_p9k_widget_hook` and the other hooks, the traps, `p10k display`, setup and
teardown). zsh runs one widget, callback or trap at a time, so each is one action; the functions they
call are operators on the state `sh` of the shell, composed as the code calls them, with the names of the
code. What zsh does is external: it expands PROMPT before the line editor is active, calls the hooks, and
runs the trap of an interrupt, after which the line may end (`LineAborted`) or, if only a widget was
interrupted, go on. `screen` is what the user sees: the whole prompt or the trimmed one. A segment is
either compiled into PROMPT (`built`) or read when PROMPT is expanded (`live`); the status, a part that a
function of the user's hides and shows, and a segment with SHOW_ON_COMMAND stand for the rest. An
interrupt takes away a scheduled redraw; that does no harm because keys are pending then and their widget
schedules the next.

**Worker** (`worker.zsh`). Master and worker over two channels of whole messages; the two request
maps, in-flight counts and subprocesses. **LatestRequest** is what a segment may expect: the latest
request is served, results with one id never overtake each other. Worker implements it.

## 3. The runs

| Run | Instance | Shows |
|---|---|---|
| `threadpool` | 3 workers, 1 client, 3 functions, 2 instants | no lost wakeup, Wait drains, Wait and destructor return, refinement of DelayedExecutor |
| `reposcan` | 2 threads, 2 shards, 2 commits, 2 indices, 2 requests, index reads may fail, one other failure | until the failure: counts are true, nothing outlives a request, nothing uses a destroyed repository; always: requests and the destructor end |
| `index` | indices of up to 5 of 10 paths chosen to sort badly, with and without case; for two of them a working tree, 2 requests, 2 threads, 2 ticks, 1 change or failure | directories, splits and shards are right, nothing outlives a request, descriptors are those of ancestors, candidates cover what is dirty |
| `index_splits` | the same indices, minimal weights | finding 1 |
| `dirmtime` | 2 daemons, 1 of them may be killed, leavings of a third (cut off anywhere, or foreign), 4 seconds with 2 to become stale | the verdict is true and nothing is left |
| `tagdb` | 4 names, one of them in the directory of another, 2 commits, an annotated tag and a tag of a tag, listings that fail, 2 lookups, 2 git commands, 1 or 2 threads, 6 kinds of packed-refs | the sort is alone with its vector, answers are true but for tags whose files the lookup does not see, lookups and the destructor end |
| `gitstatusd` | 2 directories, 2 git directories, 2 requests, 1 change of `.git` on disk, 1 commit within a request, ttl 2, every failure | answers in order, whole and for everyone, LRU and cache agree, tag lookup within its repository's life, eviction neither early nor never |
| `gitstatusd_null_entry` | the object database may fail to open | finding 2 |
| `session` | 2 starts, both platforms' choices, every failure | a successful start leaves nothing behind, the watchdog bites only orphans, nothing is left of an unwanted session, a start ends |
| `gitprompt` | 3 directories (one below another, one disabled, one ignored work tree), 3 prompts, repositories come and go, the daemon may die | one query at a time, next_dir follows it, coloured means here and now, known statuses contain the directory, grey ends |
| `promptcycle` | 4 configurations, 2 directories, 2 answers, 3 lines | the screen is current when zle is at rest, a segment for a command follows the line, a finished line is not drawn on, a prompt trimmed by an interrupt is about to come back |
| `worker` | 2 segments, one whose reply asks for the other, 2 subprocesses each, 3 requests, 2 starts, the worker may be killed | one request in flight per segment, replies before done, nothing forgotten, refinement of LatestRequest |

**Bounds.** Three workers are one sleeper, one waiter and one busy thread, the three roles of the
algorithm; three functions let one overtake, one be overtaken and one arrive in between; two instants
are "now" and "later". Two shards are enough for one scan to stop another; two requests are one
that fills the cache of the HEAD diff and one that reuses it or finds it invalid. Two requests
to gitstatusd are a miss and a hit on every path; three were checked by hand with the same result. Two
starts of a session are a session and its successor; the pipe holds one progress byte at most, which
is enough to be mistaken for something else. Three prompts are an unanswered one, one that supersedes
it and one that comes while its answer is on the way. Three requests with an id are one at the worker,
one replaced and the one that replaces it. The configurations of
`promptcycle` are one per kind of transient prompt, with functions of the user's that hide after the line
what they show before it; two answers are an old one and a new one (directories and answers are
symmetric), three lines are the empty one, one that a segment waits for and one that it does not.
The indices of `index` have at most five files, enough for a directory with a sibling that
sorts before its slash, a case-blind twin and a subdirectory; the shards are of two entries so that such
an index has three. A stack of three descriptors turns over in a tree of depth three; two ticks are the
racy one and the next; the second request meets what the first one remembered. In `tagdb` the second
lookup meets the sort of the first, on one thread, behind it in the queue; two git commands are a pack
and a change after it; the name with a slash may be loose over an older packed line of it, and beside it
a listing has its directory. In `dirmtime` two daemons remove each other's directories only if one is slow:
four seconds let a directory become stale at two under its owner and its owner go on.
Each bound is a CONSTANT or is named at its definition;
deadlock is not checked where the bounds, or a shell that exits, stop the system.

**Fairness.** Threads and processes that can take a step take it; a due timeout strikes; gitstatusd
answers and the line editor calls the handlers of readable descriptors. In `tagdb` the pool starts what
is queued while it has a free thread, and the sort, the lookup and the destructor go on when they can;
git owes nothing. `index` and `dirmtime` have no liveness property. Nothing obliges anyone to ask,
to start, to stop or to fail. `promptcycle` needs no fairness: `PromptComesBack` says that what puts a trimmed prompt back
is always scheduled. Three assumptions go beyond scheduling, and are stated where they are
used: in `threadpool`, `CallsReturn` supposes that functions return (`ImplementsExecutor`
does not); in `session`, a download ends; in `gitprompt`, gitstatusd answers or
dies. `LatestIsServed` ends where the shell hangs in opening the fifo of a dead worker, `StartEnds`
where it hangs in opening that of a dead wrapper, `GreyEnds` where gitstatusd has died: in all three
the code has no timeout, and the property would not hold.

## 4. Findings

Two have a run whose counterexample shows them.

1. *One split too many* (`index.cc:402`). `InitSplits` cuts when the weight reaches that of a shard and
   adds the rest. Directories that fill each split exactly leave a rest that is one more than
   `CHECK(splits_.size() <= kNumShards + 1)` admits, and gitstatusd aborts. With one thread and the
   real weights: a root of weight 18 with a first directory of 494, fifteen directories of 512, a last one
   of 2.
2. *Null entry* (`repo_cache.cc:127`). A repository that cannot be opened leaves a null pointer in the
   cache; the next request about it kills the daemon.

Four more are kept as a property that ought to hold and a configuration with which TLC shows within a
minute that it does not. They are not in the list of runs, to keep that short.

| Counterexample | Property | Defect |
|---|---|---|
| `tlc -config RepoScanMaskedError.cfg RepoScanMC` | `FailureIsReported` | *Masked error* (`repo.cc:460`). A failed scan leaves the in-flight count before it sets `error_`; the main thread can pass `Wait` and the check in between, answer with incomplete counts, and leave the error for the next request. |
| `tlc -config RepoScanStaleHead.cfg RepoScanMC` | `CountsAreTrue` | *Zero staged changes* (`repo.cc:186`). `head_` is set and the counters zeroed before the scan starts; if the lookup of the commit throws, the next request takes the zeros for cached counts. |
| `tlc -config GitPromptMixed.cfg GitPromptMC` | `GreyIsLastKnown` | *Mixed grey status* (`p10k.zsh:4144`). The commit summary is not among the variables saved and restored; a status shown from the cache has the summary of another repository. |
| `tlc -config GitstatusSessionPartialRead.cfg GitstatusSession` | `QueryEnds` | *Endless read* (`gitstatus.plugin.zsh:309`). When a failed gitstatusd is downloaded again, a query reads a progress byte and then, without a timeout, waits for the end of a response. |

Seen while modelling, without a run of their own: with failures of `GetDirtyCandidates` the staged
scans of the failed request still run during the next one (`ResultIsTrue` and
`NothingOutlives` are stated for behaviours in which nothing but reading the index has failed; after
such a failure they do not hold); without a process id, `gitstatus_stop` leaves a wrapper that waits
for a writer of a fifo it has removed (`NothingLeft` excludes that platform); a wrapper killed between
telling its id and opening the fifo leaves `gitstatus_start` hanging (`Stuck`); the request lost in a
failed gitstatusd stays counted as in flight, so the segment stays grey. With
POWERLEVEL9K_STATUS_ERROR_SHOW_ONCE any rebuild of the same prompt takes its error away
(`p10k.zsh:3571`: `ErrorOf` and `SetPrompt` of PromptCycle), while `config/p10k-lean.zsh:1712` promises
"suppress on subsequent prompts". The time is formatted when the prompt is built, but the tick of the
realtime clock asks for a redraw only (`p10k.zsh:3799`, `3859`). An interrupt counts as a line for
POWERLEVEL9K_TRANSIENT_PROMPT=same-dir (`p10k.zsh:8409`), so the first command after a `cd` is trimmed
too. A response that is malformed, or a write that fails, makes `_p9k_worker_receive` return before the
replies it evaluated before it are drawn (`worker.zsh:147`).

Of the new modules: a tag that `git pack-refs` moves between the listing of loose tags and its lookup is
missed, because packed tags are hidden from libgit2 (`gitstatus.cc:194`) and the packed lines were read
before; `AnswerIsTrue` asks only for tags that stay in their file, `repo.h:74` promises the last one. The
list of loose tags has only the entries of refs/tags (the TODO at `tag_db.cc:158`), and none of them if
refs/tags cannot be opened or read, which nobody notices (`tag_db.cc:156`, `160`). So a loose tag foo/bar,
and after such a failure any loose tag, is not found, and if it overrides an older line of packed-refs,
that line is answered. `AnswerIsTrue` excepts these tags, the set `unseen` of a lookup, and no others. A tag
that is a symbolic reference never resolves: it is looked up by its own name again (`tag_db.cc:304`).
A packed-refs that is not fully peeled or not sorted is used although the log says "Won't resolve tags."
(`tag_db.cc:237`). A new file in the tick in which its directory was statted stays unseen while the
directory does not change again (`RacyDir` in `CandidatesComplete`): that is the limit of any cache by
mtime, and not the case if the clock of the file system is as fine as its changes. A check of mtimes that
takes longer than ten seconds is disturbed by other daemons (`late` in `VerdictIsTrue`). The commits ahead
and behind are counted from HEAD as it is then (`gitstatus.cc:127`), and may belong to another commit than
the rest of the response (`OfCommit`). `gitstatus-git-backend.zsh:77` defines functions that call
themselves.

## 5. What is proved

Eight modules of theorems, for every value of the constants. In each, an inductive invariant holds at the
start and is kept by every action, a lemma per action; the theorems follow from it. The properties are
those that the runs check. Facts about sequences, finite sets and cardinality are cited from the
libraries; what a proof needs beyond them is a lemma of its module.

**ThreadPoolProofs**, from `PoolAssumption` (finitely many workers, at least one, disjoint from the
clients). The inductive invariant `IInv` adds to the types, the exact count and the single sleeper:
- `SleeperCovers`: the sleeper wakes no later than any queued function, or a notification to it is
  owed;
- `CvCovers`: with work and no sleeper, a thread is on its way to the queue, a notification to a
  waiter is owed, or every thread is busy;
- `WakerRuns` (only running workers owe notifications) and `NoneExitedBeforeExit`.

`NoLostWakeup` alone is not inductive: it says nothing about owed notifications to a set of waiters
that another thread empties first. Each action is a lemma; `WakesOnly` collects the actions that only
let threads out of waits. Theorems: `TypeCorrect`, `SleeperAndInflight`, `WakeupNeverLost`,
`WaitCorrect` (an action property), and `IsAnExecutor`: every behaviour of the pool is, but for its
liveness, one of DelayedExecutor. That needs one invariant more, `EachOnce`: a function is queued
once or run by one worker, never both, so that the function a worker starts is the one the executor starts.

**RepoScanProofs**, from `ScanAssumption` (any numbers of threads, shards and requests, any limits, deltas
and faults). Two invariants, the second on top of the first:
- `Control` says who runs: what has not been scheduled has nothing to do (`Fresh`), the queue holds each
  scan once (`InQueue`), the index and HEAD that each step of `GetIndexStats` relies on are there
  (`Placed`), the mtime check is looked at before the destructor is over (`CacheChecked`), and, while
  nothing has failed, all scans are those of the present request (`Quiet`).
- `Right` says what they count. `Exact` says of a counter that it is never more than the deltas its
  scans have gone past, and is less only if the limit at which scans stop counting is reached.
  `StagedRight` keeps this for the HEAD diff beyond its request, for as long as the next request may reuse
  it; `DirtyRight` within one.

`ResultIsTrue` speaks only of an answer: nothing in it survives a step of a scan, hence the deltas still
to come in `Right`. Theorems: `ControlHolds`, `NothingOutlivesItsRequest`, `ResultsAreTrue`.

**GitDirProofs**, of DirMtime, from `DirMtimeAssumption` (finitely many daemons and directories left behind, a
directory stale at two seconds or later). `IInv` adds to the types, for each daemon:
- `Owned`: nobody else makes anything in its directory, and while it is not late all it made exists;
- `Aging`: a directory in use can look stale only if its owner is late;
- `Stamped`: the mtimes read when `a` and `b` were made are older than the clock once the second has been
  waited for, so a change afterwards shows if the file system shows any;
- `Verdict`: what has been found out so far is so;
- `Removing` and `Seen`: whatever a daemon saw stale is removed, being removed, or ahead in its list.

The verdict is right whatever the other daemons do because of the first two; no clause about one
daemon alone is inductive. Theorems: `Invariance`, `VerdictCorrect`, `NothingLeftBehind`.

and of TagDb, from `TagDbAssumption` (finitely many names, each of `Nested` with a directory that is not
nested itself; well-formed packed files; annotated tags that peel within the code's limit). `DbInv` adds
to the types:
- `Turns`: a lookup is on its way exactly while the main thread waits for it, is in the queue at most once,
  and nothing is changed while the sort runs;
- `Cached`: the index by name is in order, and is that of the version of packed-refs whose stat is kept;
- `Ghosts`: what is said below of the lookup holds of the files now, and no tag has the name of a
  directory that holds one, as git sees to;
- `ListedRight`: what stayed loose during a lookup is in its list unless it is `unseen` (in a directory, or
  all if the listing failed), and what stayed packed is not; a packed tag that is not in the list was once
  a tag of the commit while the lookup ran, or is unseen and its line was of the commit;
- `SearchRight` and `ResultRight`: the packed tags in use are true and complete to that extent, and a
  loose one that stayed is still to be tried, not greater than the result, or unseen.

`AnswerIsTrue` speaks only of the end, and git changes both places meanwhile: hence ghosts of what was a
tag of the commit at some time of the lookup (`was`), of the names that had a packed line of the commit,
overridden or not (`packedWas`), of what stayed in its file all the time (`kept`), and of the names whose
loose files the listing could not have (`unseen`).
Theorems: `DbInvariance`, `SortStaysAlone`, `AnswersAreTrue`: both safety invariants of the run `tagdb`.

**IndexProofs**, from `IndexAssumption` and `TreeAssumption` (any indices, capabilities and numbers of
threads; paths closed under parents; at least two entries in a shard; finitely many paths at which the
shards are tried), and, for the third part, `OrderAssumption`: libgit2 keeps the entries of an index in the
order of their paths, with or without case as `git_index_is_case_sensitive` tells, which is what `caps_` is
made of. The paths of two entries may be the same (stages of a conflict). It has three parts. The first is about requests. `IndexInv` adds to the types:
- `Constructed`: directories and splits are those of the index, so that what is proved of `InitDirs` and
  `InitSplits` for every index holds in every state;
- `CacheRight`: there is an entry for every directory;
- `TasksRight`: a task at work is within its split, and what its rotating stack holds is so many levels
  above the directory that it opened last (`Ancestors`), or nothing;
- `AtRest`, and the exact count in flight: nobody is at work when the caller is gone.

A step from one directory to the next keeps `Ancestors` only if the next one lies in a directory that the
last one lies in. So that is proved of the list that `InitDirs` makes of any index, sorted or not, by
following its stack from entry to entry.
The second part is about `UpdateShards`. The order of strings is that of the first byte in which they
differ, with and without case. `Sharded` says that the shards are cut at places of the index that increase,
that each starts at a directory and ends just before the next one starts, "just before" being the
directory with its slash decremented. From that follow that every path is in one shard (nothing lies
between `d.` and `d/` but what starts with `d.`, and for those `Contains` looks only at the first bytes),
and that a pointer that only moves forward deals any sorted candidates (`Advance`). All of it is proved for
indices of any length. Induction is over the number of iterations, by the least one at which a statement
fails (`Steps`), as the library's theorems are out of reach.
The third part is that `InitDirs` makes exactly the tree of the index. `Views` forgets in what order a
stack and the directories already done are; `Family` says of such a set that each directory is in it once,
that what it lies in is in it too, and that the names one has are those of the directories in it. `Whole`
adds what only an index in order ensures: a directory is done when no later path lies in it (`Closed`, by
`Gone`: a path between two with a directory in common lies in that directory, `Between`). So a directory
never comes back after it was popped, and neither does a name in a list (`NewName`). `TreeOfFirst` is the invariant after
n entries; popping, pushing and adding a file keep it (`PopWhole`, `PushWhole`, `AddFileWhole`), and at the
end the stack is empty. Names are compared with or without case: a second entry may spell a directory
otherwise, and the proof is about what is equal in that sense.
Theorems: `IndexInvariance`, `RequestsEndAlone`, `StackHoldsAncestors`, `ShardsStayPartition` and
`TreeStaysIndex` (in every state, after `NewIndex` too), and `ShardsAreRight` and `TreeIsRightWhenFresh`,
which state them as the run `index` does.

**ShellProofs**, of Worker, from `WorkerAssumption` (finitely many ids, any bounds). `WorkerInv` adds to the types and
`RepliesBeforeDone`:
- `Phases`: which ends of the channels are open from start to stop, and what may be in them;
- `Jobs`: the worker counts the subprocesses it has, and they belong to the request served last;
- while the worker lives, `OnePlace`: a request is on its way, at work, or done and on its way back, and the
  master's map knows; and `Numbers`: served before under way before waiting, which is the last one asked.

`OneInFlight` is the first part of `OnePlace`; alone it says nothing about when the master may send the
next one. Theorems: `WorkerInvariance`, `AtMostOneInFlight`, `NoneIsForgotten`, `RepliesComeFirst`, and
`KeepsThePromise`: but for its liveness, every behaviour is one of LatestRequest, with restarts, shutdowns
and the death of the worker;

and of PromptCycle, from `PromptAssumption` (any lines, directories and set of configurations). `IInv`
adds to the types `Steady` and `Followed`. `Steady` says that between two steps no redraw is under way or owed
(`Rested`), that what was computed from the line and compiled into PROMPT is so (`UpToDate`), when a line
may be finished (`NotFinished`, `BuiltByPrecmd`), and that the screen is current, or trimmed and about to
come back (`Screened`). `Followed`: the hook has seen the line unless keys are pending or a menu is open.
There is a lemma for each function of the code, as a handler is a composition of them. Theorems:
`Invariance`, `RedrawsAreNotLost`, `OnCommandCorrect`, `PromptIsRestored`, and the action property
`FinishedIsLeftAlone`: every property of the run `promptcycle`.

**GitPromptProofs**, from `PromptAssumption` (directories with their ancestors; any sets disabled and
ignored). `IInv` adds to the types and `ShownIsCurrent`: the count of outstanding queries and
`next_dir` at each point of precmd (`QueryState`, `WithinPrecmd`), that the outstanding query is about
the current directory unless `next_dir` says otherwise (`AsksAboutHere`), that a callback tells whether
the answer is complete (`CallbackTellsDiff`), that a dead pipe still counts (`CountCovers`), and that
statuses are filed under their work tree (`LastByWork`). Theorems: `TypeCorrect`, `OneQueryAtATime`,
`NextDirCorrect`, `ShownCorrect`, `KnownCorrect`: every safety invariant of the run `gitprompt`.

**GitstatusdProofs**, from `DaemonAssumption` (some directories with their ancestors, injective `Own`,
positive bounds; any faults). `IInv` adds to the types:
- `Numbered`: answers, the request in progress and the queue carry consecutive numbers. `AnswersInOrder`
  says this of the whole sequence; a step needs it of each part.
- `OwnNodes` and `EntriesHaveNodes`: an entry and its node point to each other, no two nodes were made by
  one request, and the request that looks for its repository has made none yet. Without the last, a hit
  could replace a node of another repository.
- `AgeIsUnused`: a node is as old as the last use of its repository, which makes eviction by age right.
- `RepoStays`: from the lookup of HEAD to the end of the tag lookup there is an open entry with the
  repository of the request; in particular no tag lookup is running when a request is read or answered.
- `PartOfStatus`: the response holds nothing, the first 15 fields, or all 27. `Part` says of fields that
  they take given places and tell of one commit; parts that follow each other make a part (`PartPart`),
  so `BeforeTag` and `FromTag` are proved field by field.

Theorems: `Invariance`, and every safety property of the run `gitstatusd`: `AnswersAreInOrder`,
`LruIsCache`, `TagIsSafe` and the action property `OnlyUnusedIsClosed`.

**GitstatusSessionProofs**, from `StartsAssumption` (some starts). `IInv` adds to the types that the
parameters of the shell fit the place it is at (`ClientFits`), and for every session:
- `PipeFits`: the process group comes first in the pipe, hello at most once, and anything but the process
  group from a wrapper that has left the fifo behind;
- `FilesFit`: the fifo is there only while the wrapper waits at it or died there; the watchdog has
  the lock of a session in use only if its file is gone;
- `HandshakeFits`: what the pipe, the requests and the files may hold at each place of `gitstatus_start`.

`HandshakeDone` speaks of the end of the handshake; that nothing of it is left then is a matter of every
place before. Theorems: `Invariance`, `HandshakeIsDone`, `OnlyOrphansAreBitten`: every safety invariant of
the run `session`.

Type invariants are conjuncts of the first invariant of each run; the theorems named `TypeCorrect`,
`ControlHolds` or `Invariance`, alone or with a prefix, prove them.

Only model-checked:
- liveness under fairness and everything with ENABLED: `CallsReturn`, `EverythingEnds`, `LookupsEnd`,
  `NothingLeft` of GitstatusSession, `StartEnds`, `GreyEnds`, and the liveness of the two refinements
  (`ImplementsExecutor`, `LatestIsServed`) and of the main loop (`EveryoneAnswered`, `UnusedIsClosed`);
- `CandidatesComplete`: it needs that merging a sorted listing with sorted subdirectories by a pointer
  misses no name, and what the mtime of a directory tells of its names. The finite sets of the bounds apply.

## 6. What is not modelled

- Wording, layout, colours and icons; options and their error messages; log files.
- In Index: the names that macOS composes anew (`dir.cc`, `bits.h`), and the stat fields of an index
  entry one by one: a file is as the index has it, or it is not.
- In TagDb: the bytes of packed-refs, and a packed-refs whose new version has the stat of the old one; an
  empty directory that is left in refs/tags, which would hide a packed tag of its name
  (`IsLooseTag`); directories in directories, of which the listing has no more than of one.
- In ThreadPool: gitstatusd never waits for its global pool and never destroys it. `WaitDrains`, and
  `CallsReturn` for `Wait` and the destructor, are about what the class promises.
- In DirMtime: the names of the directories, of which `mkdtemp` sees to it that they differ.
- In Gitstatusd: malformed requests, a relative directory, a negative time to live, the values of the
  fields. A loop that is never idle because requests keep coming closes no repository
  (`gitstatus.cc:208`); the number of requests is bounded, so `UnusedIsClosed` is about what happens once
  they pause.
- The arena (`arena.{h,cc}`): a sequential allocator; a stale pointer into one would be a use after
  `Reuse`, which the models do not see, as they have values and not memory. `options.cc`: one pass over
  the arguments, no state kept. Logging, timers, `print.h`, `strings.cc`: no state that others read.
- Hazards not in the list of `PROJECT.json`, in parts without a module: several shells remove, move and
  compile one dump file without a lock (`p10k.zsh:7075`); whatever a dump depends on must be in its
  signature (`p10k.zsh:7092`); the counters of the CPU are kept in a subprocess that ends
  (`p10k.zsh:2937`).
- In GitstatusSession: the steps of the wrapper before it starts gitstatusd that can fail while the pipe
  is open (`gitstatus.plugin.zsh:391-411`), a start in a forked shell, interruption by Ctrl-C, failures to create the lock
  file or the pipe, Cygwin's way to open it, mirrors and checksums of the installer.
- In GitPrompt: GIT_DIR, the adaptive timeout, svn and hg, the restart of a failed gitstatusd.
- In PromptCycle: lines with another `CONTEXT` than `start`. The hooks of the line editor do nothing then
  (`p10k.zsh:8520`, `8525`, `8542`) and `_p9k__line_finished` still blocks redraws, so a continuation line
  (PS2), a `vared` and a `select` are parts of the phase "command". The "line being edited" of
  `ScreenIsCurrent`, `OnCommandFollowsLine` and `PromptComesBack` is one with `CONTEXT=start`.
- In PromptCycle: the keymap and visual-mode states, the empty line and the ruler above a prompt, the
  instant prompt and the dump that the first expansion schedules, and the wrapping of every widget on
  zsh before 5.3.
- In Worker: the heartbeat and the reassembly of partial reads.
- The parts without a module in section 1; those planned are in section 7.

## 7. Plan

In the order of importance. The models so far have the whole of gitstatusd that keeps state: the pool, the
index and its shards, the scan, the tags, the mtime check, the main loop; then the session that starts it,
the segment that asks it, the worker beside it, and the prompt that shows what they find.

1. A proof of the one invariant without: `CandidatesComplete`, from `TreeStaysIndex`.
2. A composition of TagDb with ThreadPool in place of "functions start in the order of scheduling", and
   of RepoScan with Index in place of "candidates are found".
3. **StateDump**: several shells that dump, restore, delete and compile the same files, crashes between
   steps. Property: a shell restores only what was dumped for its signature. **PromptCache** for the
   stat and ephemeral caches.
4. **AsyncSegments** over Worker: what a subprocess may change and what only the reply changes (cpu
   usage, time, ip, wifi). **PureBackend** and the bash binding, as implementations of one abstract
   **StatusService** that GitstatusSession and GitPrompt implement too.
5. **PromptCycle**, what is left of it: the state of the vi keymaps, and a composition with the callbacks
   of GitPrompt and Worker in place of their answers; the show-once status as a run.
6. **Wizard**: order of questions, restart, and the writes of the two files.
