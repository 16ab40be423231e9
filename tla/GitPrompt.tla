------------------------------- MODULE GitPrompt -------------------------------
(***************************************************************************)
(* How the prompt gets the status of the current repository from           *)
(* gitstatusd: _p9k_vcs_gitstatus, _p9k_vcs_resume and _p9k_vcs_render in  *)
(* src/internal/p10k.zsh over gitstatus_query, gitstatus_process_results   *)
(* and _gitstatus_process_response in src/gitstatus/gitstatus.plugin.zsh.  *)
(*                                                                         *)
(* Before every prompt the shell asks for the status of its directory and  *)
(* waits a little; an answer that is late comes through a callback while   *)
(* the user types.  At most one query may be outstanding, so a prompt that *)
(* comes up meanwhile leaves its directory in _p9k__gitstatus_next_dir for *)
(* the callback to pick up.  gitstatusd answers in order, with what it     *)
(* sees when it gets to the query.                                         *)
(*                                                                         *)
(* A status is known by the directory asked about, the work tree it lies   *)
(* in, the prompt during which gitstatusd looked and whether there is a    *)
(* diff in it.                                                             *)
(***************************************************************************)
EXTENDS Naturals, Sequences, FiniteSets

CONSTANTS
  Dir,       \* directories
  Up,        \* [Dir -> Seq(Dir)]: a directory and its ancestors, nearest first
  Disabled,  \* directories that match VCS_DISABLED_DIR_PATTERN
  Ignored,   \* work trees that match VCS_DISABLED_WORKDIR_PATTERN
  None,      \* no status, no work tree
  Unset,     \* _p9k__gitstatus_next_dir is not set
  Empty,     \* _p9k__gitstatus_next_dir is set and empty
  MayDie,    \* BOOLEAN: gitstatusd may be killed
  MaxPrompts \* bound: prompts

Prompt == 0..MaxPrompts
Query == [dir : Dir, cb : {0, 1}, diff : BOOLEAN]
Answer == [dir : Dir, cb : {0, 1}, diff : BOOLEAN, work : Dir \cup {None}, prompt : Prompt]
Status == Answer \cup {None}

ASSUME PromptAssumption ==
  /\ Up \in [Dir -> Seq(Dir)]
  /\ \A d \in Dir : Up[d] # <<>> /\ Head(Up[d]) = d
  /\ Disabled \subseteq Dir /\ Ignored \subseteq Dir /\ MayDie \in BOOLEAN
  /\ {None, Unset, Empty} \cap Dir = {} /\ Unset # Empty /\ None \notin Answer
  /\ MaxPrompts \in Nat

VARIABLES
  fast,       \* _p9k_vcs_index # 0: the prompt has one plain vcs segment
  cwd,        \* _p9k__cwd_a
  prompt,     \* number of the prompt
  repos,      \* directories that are the root of a work tree
  pc,         \* where _p9k_precmd is: "idle" is in the line editor or in a command
  nextDir,    \* _p9k__gitstatus_next_dir
  last,       \* _p9k__gitstatus_last
  status,     \* VCS_STATUS_*; None: VCS_STATUS_RESULT is unset or tout
  summary,    \* VCS_STATUS_COMMIT_SUMMARY: the status it came with
  inflight,   \* _GITSTATUS_NUM_INFLIGHT_POWERLEVEL9K
  running,    \* _GITSTATUS_STATE_POWERLEVEL9K = 2
  alive,      \* gitstatusd has not been killed
  toDaemon,   \* queries gitstatusd has not answered
  fromDaemon, \* answers the shell has not read
  shown       \* the vcs segment of the prompt

vars == <<fast, cwd, prompt, repos, pc, nextDir, last, status, summary, inflight, running, alive,
          toDaemon, fromDaemon, shown>>
world == <<fast, repos, alive>>

Segment == [kind : {"none", "empty", "grey", "coloured"}, status : Status, summary : Status]
NoSegment == [kind |-> "none", status |-> None, summary |-> None]

TypeOK ==
  /\ fast \in BOOLEAN /\ cwd \in Dir /\ prompt \in Prompt /\ repos \in SUBSET Dir
  /\ pc \in {"idle", "query", "again", "results"}
  /\ nextDir \in Dir \cup {Unset, Empty}
  /\ last \in [Dir -> Status]
  /\ status \in Status /\ summary \in Status
  /\ inflight \in Nat /\ running \in BOOLEAN /\ alive \in BOOLEAN
  /\ toDaemon \in Seq(Query) /\ fromDaemon \in Seq(Answer)
  /\ shown \in Segment

Init ==
  /\ fast \in BOOLEAN /\ cwd \in Dir /\ prompt = 0 /\ repos \in SUBSET Dir
  /\ pc = "idle" /\ nextDir = Unset /\ last = [d \in Dir |-> None]
  /\ status = None /\ summary = None
  /\ inflight = 0 /\ running = TRUE /\ alive = TRUE
  /\ toDaemon = <<>> /\ fromDaemon = <<>> /\ shown = NoSegment

-----------------------------------------------------------------------------
\* The nearest of d and its ancestors that is in the set.
Nearest(d, set) ==
  LET hits == {x \in DOMAIN Up[d] : Up[d][x] \in set}
  IN  IF hits = {} THEN None
      ELSE Up[d][CHOOSE x \in hits : \A y \in hits : x <= y]

\* _p9k_vcs_status_for_dir
Known(d, l) ==
  LET n == Nearest(d, {x \in Dir : l[x] # None}) IN IF n = None THEN None ELSE l[n]

\* _p9k_vcs_status_purge
Ancestors(d) == {Up[d][x] : x \in DOMAIN Up[d]}
Purged(l, d) == [x \in Dir |-> IF x \in Ancestors(d) THEN None ELSE l[x]]

\* VCS_STATUS_RESULT is ok-*, after _p9k_maybe_ignore_git_repo.
IsOk(st) == st # None /\ st.work # None /\ st.work \notin Ignored

\* _p9k_vcs_status_save
SavedForCwd(l, st) == IF IsOk(st) THEN [l EXCEPT ![cwd] = st] ELSE l
Saved(l, st) == IF IsOk(st) THEN [l EXCEPT ![st.work] = st] ELSE l

\* _p9k_vcs_render, given what next_dir, last, VCS_STATUS_* and the summary have
\* become.  Restoring a known status does not restore the summary.
Render(d, next, l, st, sum) ==
  IF next # Unset
  THEN IF Known(d, l) # None
       THEN [kind |-> "grey", status |-> Known(d, l), summary |-> sum]
       ELSE [kind |-> "empty", status |-> None, summary |-> None]
  ELSE [kind |-> IF IsOk(st) THEN "coloured" ELSE "none", status |-> st, summary |-> sum]

\* next_dir once its directory has been asked about.
StillWanted(d) == d
AfterAsking(d) == Empty

\* gitstatus_query up to the write, with n queries outstanding.
SendUncounted(d, cb, diff, n) ==
  /\ alive
  /\ toDaemon' = Append(toDaemon, [dir |-> d, cb |-> cb, diff |-> diff])
  /\ inflight' = n
Send(d, cb, diff, n) ==
  /\ alive
  /\ toDaemon' = Append(toDaemon, [dir |-> d, cb |-> cb, diff |-> diff])
  /\ inflight' = n + 1

\* The write to a dead daemon fails, and gitstatus_query with it.
SendFails(n) ==
  /\ ~alive
  /\ status' = None /\ inflight' = n
  /\ UNCHANGED toDaemon

\* _gitstatus_process_response, one response.
Take(a) ==
  /\ fromDaemon # <<>> /\ a = Head(fromDaemon)
  /\ fromDaemon' = Tail(fromDaemon)
  /\ summary' = IF a.work = None THEN summary ELSE a

-----------------------------------------------------------------------------
(* Before a prompt: _p9k_precmd and _p9k_vcs_gitstatus.                    *)

\* The query without diff, when nothing is known about the directory.
AskBranch(d) ==
  /\ Send(d, 0, FALSE, inflight)
  /\ pc' = "query"
  /\ UNCHANGED <<nextDir, status, shown>>

\* The query with diff.  If fast the shell first composes the prompt and then
\* reads the answer the way it reads a late one; otherwise it reads it right away.
AskStatus(d, l, n, st, sum) ==
  /\ Send(d, 1, TRUE, n)
  /\ IF fast
     THEN /\ pc' = "results" /\ nextDir' = AfterAsking(d) /\ status' = None
          /\ shown' = Render(d, nextDir', l, None, sum)
     ELSE pc' = "again" /\ status' = st /\ UNCHANGED <<nextDir, shown>>

AskFails(n) ==
  /\ SendFails(n)
  /\ pc' = "idle" /\ shown' = NoSegment
  /\ UNCHANGED nextDir

KeepsOldDir(d) == Empty
Supersedes(d) == d

Precmd(d) ==
  /\ pc = "idle" /\ prompt < MaxPrompts
  /\ prompt' = prompt + 1 /\ cwd' = d
  /\ \/ /\ ~running \/ d \in Disabled
        /\ shown' = NoSegment
        /\ UNCHANGED <<pc, nextDir, inflight, toDaemon, status>>
     \/ /\ running /\ d \notin Disabled /\ nextDir # Unset
        /\ nextDir' = Supersedes(d)
        /\ shown' = Render(d, d, last, status, summary)
        /\ UNCHANGED <<pc, inflight, toDaemon, status>>
     \/ /\ running /\ d \notin Disabled /\ nextDir = Unset
        /\ \/ Known(d, last) = None /\ AskBranch(d)
           \/ Known(d, last) # None /\ AskStatus(d, last, inflight, None, summary)
           \/ AskFails(inflight)
  /\ UNCHANGED <<world, last, summary, running, fromDaemon>>

\* The answer to the query without diff came in time.
BranchKnown ==
  /\ pc = "query"
  /\ \E a \in Answer :
       /\ Take(a)
       /\ last' = Saved(last, a)
       /\ \/ IsOk(a) /\ AskStatus(cwd, last', inflight - 1, a, summary')
          \/ IsOk(a) /\ AskFails(inflight - 1)
          \/ /\ ~IsOk(a)
             /\ pc' = "idle" /\ status' = a /\ inflight' = inflight - 1
             /\ shown' = Render(cwd, nextDir, last', a, summary')
             /\ UNCHANGED <<nextDir, toDaemon>>
  /\ UNCHANGED <<cwd, prompt, world, running>>

\* The answer to the query with diff came in time, unless fast.
StatusKnown ==
  /\ pc = "again" /\ pc' = "idle"
  /\ \E a \in Answer :
       /\ Take(a)
       /\ last' = IF IsOk(a) THEN Saved(last, a) ELSE Purged(last, cwd)
       /\ status' = a /\ inflight' = inflight - 1
       /\ shown' = Render(cwd, nextDir, last', a, summary')
  /\ UNCHANGED <<cwd, prompt, world, nextDir, running, toDaemon>>

\* No answer in time.
NotesNothing ==
  /\ pc # "idle" /\ pc' = "idle"
  /\ status' = IF pc = "results" THEN status ELSE None
  /\ UNCHANGED <<cwd, prompt, world, nextDir, last, summary, inflight, running, toDaemon,
                 fromDaemon, shown>>
Timeout ==
  /\ \/ /\ pc \in {"query", "again"}
        /\ nextDir' = Empty /\ status' = None
        /\ shown' = Render(cwd, Empty, last, None, summary)
     \/ pc = "results" /\ UNCHANGED <<nextDir, status, shown>>
  /\ pc' = "idle"
  /\ UNCHANGED <<cwd, prompt, world, last, summary, inflight, running, toDaemon, fromDaemon>>

-----------------------------------------------------------------------------
(* A late answer: _p9k_vcs_resume, called by gitstatus_process_results or  *)
(* by the line editor.                                                     *)

\* What is to be asked next.
BranchIsEnough(a) == IF nextDir \in Dir THEN nextDir ELSE Unset
Wanted(a) ==
  IF nextDir \in Dir THEN nextDir
  ELSE IF IsOk(a) /\ a.cb = 0 THEN cwd
  ELSE Unset

Resume ==
  /\ pc = "results" \/ (pc = "idle" /\ running)
  /\ pc' = "idle"
  /\ \E a \in Answer :
       /\ Take(a)
       /\ last' = IF nextDir \notin Dir /\ ~IsOk(a) /\ a.cb = 1
                  THEN Purged(last, cwd) ELSE Saved(last, a)
       /\ \/ /\ Wanted(a) = Unset
             /\ nextDir' = Unset /\ status' = a /\ inflight' = inflight - 1
             /\ UNCHANGED toDaemon
          \/ /\ Wanted(a) # Unset
             /\ Send(Wanted(a), 1, TRUE, inflight - 1)
             /\ nextDir' = AfterAsking(Wanted(a)) /\ status' = None
          \/ /\ Wanted(a) # Unset
             /\ SendFails(inflight - 1)
             /\ nextDir' = Unset
       /\ shown' = IF cwd \in Disabled THEN NoSegment
                   ELSE Render(cwd, nextDir', last', status', summary')
  /\ UNCHANGED <<cwd, prompt, world, running>>

\* gitstatus_stop, when reading finds the end of the pipe.  A query notices that it
\* has failed; the callback of the line editor leaves the prompt alone.
ReadFails ==
  /\ running /\ ~alive
  /\ running' = FALSE /\ pc' = "idle"
  /\ inflight' = 0 /\ status' = None
  /\ toDaemon' = <<>> /\ fromDaemon' = <<>>
  /\ shown' = IF pc \in {"query", "again"} THEN NoSegment ELSE shown
  /\ UNCHANGED <<cwd, prompt, world, nextDir, last, summary>>

-----------------------------------------------------------------------------
(* gitstatusd, and the world it looks at.                                  *)
DaemonAnswers ==
  /\ alive /\ toDaemon # <<>>
  /\ LET q == Head(toDaemon) IN
       fromDaemon' = Append(fromDaemon,
         [dir |-> q.dir, cb |-> q.cb, diff |-> q.diff, prompt |-> prompt,
          work |-> Nearest(q.dir, repos)])
  /\ toDaemon' = Tail(toDaemon)
  /\ UNCHANGED <<cwd, prompt, world, pc, nextDir, last, status, summary, inflight, running,
                 shown>>

DaemonDies ==
  /\ MayDie /\ alive /\ alive' = FALSE /\ toDaemon' = <<>>
  /\ UNCHANGED <<fast, cwd, prompt, repos, pc, nextDir, last, status, summary, inflight,
                 running, fromDaemon, shown>>

\* A command creates or removes a repository.
Command ==
  /\ pc = "idle" /\ prompt < MaxPrompts
  /\ \E d \in Dir : repos' \in {repos \cup {d}, repos \ {d}} \ {repos}
  /\ UNCHANGED <<fast, cwd, prompt, alive, pc, nextDir, last, status, summary, inflight,
                 running, toDaemon, fromDaemon, shown>>

Shell == BranchKnown \/ StatusKnown \/ Timeout \/ Resume \/ ReadFails

Next == (\E d \in Dir : Precmd(d)) \/ Shell \/ DaemonAnswers \/ DaemonDies \/ Command

Spec == Init /\ [][Next]_vars

(* gitstatusd answers; the line editor calls back when an answer is there. *)
FairSpec == Spec /\ WF_vars(DaemonAnswers) /\ WF_vars(Shell)
-----------------------------------------------------------------------------
Outstanding == Len(toDaemon) + Len(fromDaemon)

(* Never two queries at a time: gitstatus_query says that is illegal.  The *)
(* count of outstanding queries is exact.                                  *)
OneQuery == alive => inflight = Outstanding /\ Outstanding <= 1

(* Between prompts next_dir is set exactly while a query is outstanding:   *)
(* what is shown in grey is going to be replaced.                          *)
NextDirTracksQuery ==
  alive /\ pc = "idle" => (nextDir # Unset <=> Outstanding = 1)

(* A coloured status is complete and was taken in the current directory    *)
(* after the prompt came up, never in a directory left meanwhile; and if   *)
(* there is no segment, gitstatusd has found nothing to show there.        *)
ShownIsCurrent ==
  pc = "idle" /\ alive /\ cwd \notin Disabled /\ prompt > 0
    => \/ shown.kind \in {"grey", "empty"}
       \/ shown.status # None /\ shown.status.dir = cwd /\ shown.status.prompt = prompt
          /\ (shown.kind = "coloured" => shown.status.diff /\ shown.summary = shown.status)

(* What is known about a directory is about a work tree that contains it.  *)
KnownIsAbove == \A d \in Dir : Known(d, last) # None => Known(d, last).work \in Ancestors(d)

(* Powerlevel10k "displays the last known Git status in grey", all of it   *)
(* about one repository.                                                   *)
GreyIsLastKnown == shown.kind = "grey" => shown.summary.work = shown.status.work

(* As long as gitstatusd lives a grey prompt does not stay grey.           *)
GreyEnds ==
  shown.kind \in {"grey", "empty"} ~> shown.kind \in {"none", "coloured"} \/ ~alive
=============================================================================
