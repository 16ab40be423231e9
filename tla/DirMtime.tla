------------------------------- MODULE DirMtime -------------------------------
(***************************************************************************)
(* Whether the untracked cache can be trusted:                             *)
(* src/gitstatus/src/check_dir_mtime.cc.                                   *)
(*                                                                         *)
(* For each repository it opens, a gitstatusd makes a few directories next *)
(* to it and looks whether their mtime changes when something is created   *)
(* in them.  Several of them, of several shells, do this in one place, and *)
(* each first removes what earlier ones, killed meanwhile, left behind.    *)
(* They tell a directory that was left from one in use by its age only.    *)
(*                                                                         *)
(* Time passes as it likes: a process may be slow, or stopped.             *)
(***************************************************************************)
EXTENDS Integers, Sequences, FiniteSets, SequencesExt

CONSTANTS
  Daemons,   \* processes of gitstatusd, each with one check to make
  Left,      \* directories that were there before: their names
  LeftGrown, \* how many parts of each there may be, [Left -> 0..5]
  Mine,      \* those of them that a daemon may remove; others are foreign
  StaleAge,  \* seconds after which a directory is stale: 10 in the code
  MaxClock,  \* bound: seconds
  MaxCrash   \* bound: daemons that are killed

Probes == Daemons \cup Left
Parts == <<"tmp", "a", "b", "a1", "b1">>   \* in the order of their creation
Part == Range(Parts)
In == [a |-> "tmp", b |-> "tmp", a1 |-> "a", b1 |-> "b"]
Inside(x) == {y \in DOMAIN In : In[y] = x}
Grown(n) == Range(SubSeq(Parts, 1, n))     \* a check that was killed

ASSUME DirMtimeAssumption ==
  /\ Daemons \cap Left = {} /\ Mine \subseteq Left
  /\ IsFiniteSet(Daemons) /\ IsFiniteSet(Left)
  /\ StaleAge \in Nat \ {0, 1} /\ MaxClock \in Nat \ {0} /\ MaxCrash \in Nat
  /\ LeftGrown \subseteq [Left -> 0..Len(Parts)]

VARIABLES
  fs,      \* whether a new directory, or file, changes the mtime of its
           \* directory, and whether directories can be made here at all
  clock,   \* in seconds
  exists,  \* parts of each probe's directory that exist
  mtime,   \* of each of these parts
  daemon,  \* the call of CheckDirMtime in each daemon
  late     \* ghost: daemons whose directory became stale under them

vars == <<fs, clock, exists, mtime, daemon, late>>

NewCall == [at |-> "new", now |-> 0, list |-> <<>>, step |-> 0, st |-> [a |-> 0, b |-> 0],
            made |-> <<>>, result |-> FALSE, saw |-> {}]

Init ==
  /\ fs \in [dirs : BOOLEAN, files : BOOLEAN, writable : BOOLEAN]
  /\ clock = 1
  /\ \E n \in LeftGrown : exists = [p \in Probes |-> IF p \in Left THEN Grown(n[p]) ELSE {}]
  /\ mtime = [p \in Probes |-> [x \in Part |-> 1]]
  /\ daemon = [d \in Daemons |-> NewCall]
  /\ late = {}

Ended(d) == daemon[d].at \in {"done", "crashed"}

\* A directory in use is stale once this long has passed since its last change.
IsStale(p, now) == mtime[p]["tmp"] + StaleAge <= now
Tick ==
  /\ clock < MaxClock /\ clock' = clock + 1
  /\ late' = late \cup {d \in Daemons : ~Ended(d) /\ exists[d] # {} /\ IsStale(d, clock')}
  /\ UNCHANGED <<fs, exists, mtime, daemon>>

-----------------------------------------------------------------------------
(* mkdir, creat, rmdir, unlink.                                            *)

Shows(x) == IF x = "b1" THEN fs.files ELSE fs.dirs
Changed(p, x) ==
  mtime' = [mtime EXCEPT ![p] = [y \in Part |->
              IF y = x THEN IF x \in exists[p] THEN 1 ELSE clock
              ELSE IF x # "tmp" /\ y = In[x] /\ Shows(x) THEN clock ELSE @[y]]]
CanMake(p, x) == (IF x = "tmp" THEN fs.writable ELSE In[x] \in exists[p]) /\ x \notin exists[p]
Make(p, x) == exists' = [exists EXCEPT ![p] = @ \cup {x}] /\ Changed(p, x)

CanRemove(p, x) == x \in exists[p] /\ Inside(x) \cap exists[p] = {}
RemoveDir(p, x) ==
  IF CanRemove(p, x) THEN exists' = [exists EXCEPT ![p] = @ \ {x}] /\ Changed(p, x)
  ELSE UNCHANGED <<exists, mtime>>

Becomes(d, call) == daemon' = [daemon EXCEPT ![d] = call] /\ UNCHANGED <<fs, clock, late>>

-----------------------------------------------------------------------------
(* RemoveStaleDirs.                                                        *)

ListDir(d) ==
  /\ daemon[d].at = "new"
  /\ LET there == {p \in Probes : exists[p] # {}}
     IN  Becomes(d, [daemon[d] EXCEPT !.at = "stat", !.now = clock, !.list = SetToSeq(there),
                                      !.saw = {p \in there \cap Mine : IsStale(p, clock)}])
  /\ UNCHANGED <<exists, mtime>>

\* The directory cannot be opened or listed: nothing is removed.
ListFails(d) ==
  /\ daemon[d].at = "new" /\ ~fs.writable
  /\ Becomes(d, [daemon[d] EXCEPT !.at = "make"])
  /\ UNCHANGED <<exists, mtime>>

Entry(d) == Head(daemon[d].list)
NextEntry(d) == [daemon[d] EXCEPT !.at = "stat", !.list = Tail(@), !.step = 0]
Order == <<"b1", "a1", "a", "b", "tmp">>

AnyAge(p, now) == TRUE
OldEnough(p, now) == mtime[p]["tmp"] + StaleAge <= now
StatEntry(d) ==
  /\ daemon[d].at = "stat" /\ daemon[d].list # <<>>
  /\ LET p == Entry(d)
     IN  Becomes(d, IF exists[p] # {} /\ OldEnough(p, daemon[d].now)
                    THEN [daemon[d] EXCEPT !.at = "remove", !.step = 1]
                    ELSE NextEntry(d))
  /\ UNCHANGED <<exists, mtime>>

\* What is not there any more is as good as removed; anything else that
\* keeps a part from being removed ends the removal of this directory.
RemovePart(d) ==
  /\ daemon[d].at = "remove"
  /\ LET p == Entry(d)
         x == Order[daemon[d].step]
         foreign == p \in Left \ Mine
     IN  /\ IF foreign THEN UNCHANGED <<exists, mtime>> ELSE RemoveDir(p, x)
         /\ Becomes(d, IF foreign \/ (x \in exists[p] /\ ~CanRemove(p, x)) \/ x = "tmp"
                       THEN NextEntry(d)
                       ELSE [daemon[d] EXCEPT !.step = @ + 1])

Cleaned(d) ==
  /\ daemon[d].at = "stat" /\ daemon[d].list = <<>>
  /\ Becomes(d, [daemon[d] EXCEPT !.at = "make", !.now = 0])
  /\ UNCHANGED <<exists, mtime>>

-----------------------------------------------------------------------------
(* CheckDirMtime, after that.                                              *)

NextPart(d) == Parts[Len(daemon[d].made) + 1]
Returns(d, result) == [daemon[d] EXCEPT !.at = "exit", !.result = result]

\* Makes the next part and undertakes to remove it.  The directories a and b
\* are statted when they are made, and again when something is made in them.
After(x) == CASE x \in {"tmp", "a"} -> "make" [] x = "b" -> "sleep" [] OTHER -> "check"
MakePart(d) ==
  /\ daemon[d].at = "make" /\ CanMake(d, NextPart(d))
  /\ Make(d, NextPart(d))
  /\ Becomes(d, [daemon[d] EXCEPT !.at = After(NextPart(d)),
                                  !.now = IF NextPart(d) = "b" THEN clock ELSE 0,
                                  !.made = Append(@, NextPart(d)),
                                  !.st = [y \in DOMAIN @ |-> IF y = NextPart(d) THEN clock ELSE @[y]]])
MakeFails(d) ==
  /\ daemon[d].at = "make" /\ ~CanMake(d, NextPart(d))
  /\ Becomes(d, Returns(d, FALSE))
  /\ UNCHANGED <<exists, mtime>>

Sleep(d) ==
  /\ daemon[d].at = "sleep" /\ clock > daemon[d].now
  /\ Becomes(d, [daemon[d] EXCEPT !.at = "make", !.now = 0])
  /\ UNCHANGED <<exists, mtime>>

\* StatChanged for the directory of the part just made.
OnlyExists(d) == In[Last(daemon[d].made)] \in exists[d]
StatChanged(d) ==
  LET x == In[Last(daemon[d].made)] IN x \in exists[d] /\ mtime[d][x] # daemon[d].st[x]
Check(d) ==
  /\ daemon[d].at = "check"
  /\ Becomes(d, IF ~StatChanged(d) THEN Returns(d, FALSE)
                ELSE IF Last(daemon[d].made) = "b1" THEN Returns(d, TRUE)
                ELSE [daemon[d] EXCEPT !.at = "make"])
  /\ UNCHANGED <<exists, mtime>>

\* The scope guards, the last one first.
FirstMade(d) == Head(daemon[d].made)
LastMade(d) == Last(daemon[d].made)
Exit(d) ==
  /\ daemon[d].at = "exit"
  /\ IF daemon[d].made = <<>>
     THEN Becomes(d, [NewCall EXCEPT !.at = "done", !.result = daemon[d].result,
                                    !.saw = daemon[d].saw]) /\ UNCHANGED <<exists, mtime>>
     ELSE /\ RemoveDir(d, LastMade(d))
          /\ Becomes(d, [daemon[d] EXCEPT !.made = Front(@)])

\* gitstatusd is killed.
Crash(d) ==
  /\ ~Ended(d) /\ Cardinality({e \in Daemons : daemon[e].at = "crashed"}) < MaxCrash
  /\ Becomes(d, [NewCall EXCEPT !.at = "crashed"])
  /\ UNCHANGED <<exists, mtime>>

CheckDirMtime(d) ==
  \/ ListDir(d) \/ ListFails(d) \/ StatEntry(d) \/ RemovePart(d) \/ Cleaned(d)
  \/ MakePart(d) \/ MakeFails(d) \/ Sleep(d) \/ Check(d) \/ Exit(d)

Next == Tick \/ \E d \in Daemons : CheckDirMtime(d) \/ Crash(d)

Spec == Init /\ [][Next]_vars

-----------------------------------------------------------------------------

TypeOK ==
  /\ clock \in 1..MaxClock /\ late \subseteq Daemons
  /\ exists \in [Probes -> SUBSET Part] /\ mtime \in [Probes -> [Part -> 1..MaxClock]]
  /\ \A d \in Daemons : daemon[d].at \in {"new", "stat", "remove", "make", "sleep", "check",
                                          "exit", "done", "crashed"}

\* The cache is never enabled where new names do not show in the mtime; and
\* where they do it is, unless the check took so long that others saw its
\* directory as left behind: they never disturb one that is in use.
VerdictIsTrue ==
  \A d \in Daemons : daemon[d].at = "done" =>
    /\ daemon[d].result => fs.dirs /\ fs.files /\ fs.writable
    /\ fs.dirs /\ fs.files /\ fs.writable /\ d \notin late => daemon[d].result

\* A check leaves nothing behind, whoever else removed a part of it or was in
\* the middle of it; and when all have ended well there is nothing left of
\* what one of them found stale, though several may have removed it at once.
NothingLeft ==
  /\ TypeOK
  /\ \A d \in Daemons : daemon[d].at = "done" => exists[d] = {}
  /\ (\A d \in Daemons : daemon[d].at = "done") =>
       \A d \in Daemons : \A p \in daemon[d].saw : exists[p] = {}
=============================================================================
