--------------------------- MODULE GitPromptProofs ---------------------------
(***************************************************************************)
(* For every set of directories, however they nest, and every number of    *)
(* prompts: gitstatusd never has two queries at a time, next_dir follows   *)
(* them, and what is shown in colour belongs to the current prompt.        *)
(***************************************************************************)
EXTENDS GitPrompt, WellFoundedInduction, TLAPS

(* inflight never counts less than what is to be read, even from a pipe    *)
(* whose other end is dead.                                                *)
CountCovers == inflight >= Len(fromDaemon)

(* The number of outstanding queries and next_dir, at every point of       *)
(* _p9k_precmd.                                                            *)
QueryState ==
  alive =>
    /\ running
    /\ inflight = Outstanding /\ Outstanding <= 1
    /\ pc = "idle" => (nextDir # Unset <=> Outstanding = 1)
    /\ pc \in {"query", "again"} => nextDir = Unset /\ Outstanding = 1
    /\ pc = "results" => nextDir = Empty /\ Outstanding = 1

(* What is asked with diff has the callback that takes it as complete.     *)
CallbackTellsDiff ==
  /\ \A x \in DOMAIN toDaemon : toDaemon[x].cb = 1 => toDaemon[x].diff
  /\ \A x \in DOMAIN fromDaemon : fromDaemon[x].cb = 1 => fromDaemon[x].diff

(* The outstanding query is about the current directory, and its answer    *)
(* about the current prompt, unless next_dir says otherwise or the segment *)
(* is disabled here.                                                       *)
AsksAboutHere ==
  alive /\ cwd \notin Disabled =>
    /\ nextDir \in Dir => nextDir = cwd
    /\ nextDir = Empty \/ pc \in {"query", "again"} =>
         /\ \A x \in DOMAIN toDaemon : toDaemon[x].dir = cwd
         /\ \A x \in DOMAIN fromDaemon : fromDaemon[x].dir = cwd /\ fromDaemon[x].prompt = prompt

(* Within _p9k_precmd: which query is outstanding, and what is shown.      *)
WithinPrecmd ==
  /\ pc # "idle" => cwd \notin Disabled
  /\ pc = "again" => /\ \A x \in DOMAIN toDaemon : toDaemon[x].cb = 1
                     /\ \A x \in DOMAIN fromDaemon : fromDaemon[x].cb = 1
  /\ pc = "results" => shown.kind \in {"grey", "empty"}

(* A status is remembered under its own work tree.                         *)
LastByWork == \A d \in Dir : last[d] # None => last[d].work = d

IInv ==
  /\ TypeOK /\ CountCovers /\ QueryState /\ CallbackTellsDiff /\ AsksAboutHere
  /\ WithinPrecmd /\ LastByWork /\ ShownIsCurrent
-----------------------------------------------------------------------------
(* Lemmas about the operators.                                             *)

(* A nonempty set of numbers has a least one. *)
LEMMA LeastOne ==
  ASSUME NEW S \in SUBSET Nat, S # {}
  PROVE  \E x \in S : \A y \in S : x <= y
<1> DEFINE R == {p \in Nat \X Nat : p[1] < p[2]}
<1>1. R = OpToRel(<, Nat)
  BY Zenon DEF OpToRel
<1>2. IsWellFoundedOn(R, Nat)
  BY <1>1, NatLessThanWellFounded, Zenon
<1>3. \E x \in S : \A y \in S : ~ (<<y, x>> \in R)
  <2> HIDE DEF R
  <2> QED
    BY <1>2, WFMin
<1>4. \A x, y \in Nat : ~ (<<y, x>> \in R) => x <= y
  <2> SUFFICES ASSUME NEW x \in Nat, NEW y \in Nat, y < x PROVE <<y, x>> \in R
    OBVIOUS
  <2>1. <<y, x>> \in Nat \X Nat /\ <<y, x>>[1] = y /\ <<y, x>>[2] = x
    OBVIOUS
  <2>2. QED
    BY <2>1
<1> HIDE DEF R
<1>5. QED
  BY <1>3, <1>4

(* The nearest hit is one of d and its ancestors and lies in the set.      *)
LEMMA NearestHits ==
  ASSUME NEW d \in Dir, NEW set
  PROVE  Nearest(d, set) = None \/ Nearest(d, set) \in Ancestors(d) \cap set
<1> DEFINE hits == {x \in DOMAIN Up[d] : Up[d][x] \in set}
<1>1. CASE hits = {}
  BY <1>1 DEF Nearest
<1>2. CASE hits # {}
  <2>1. Up[d] \in Seq(Dir)
    BY PromptAssumption
  <2>2. hits \in SUBSET Nat
    BY <2>1
  <2>3. \E x \in hits : \A y \in hits : x <= y
    BY <1>2, <2>2, LeastOne
  <2> DEFINE n == CHOOSE x \in hits : \A y \in hits : x <= y
  <2>4. n \in hits
    BY <2>3
  <2>5. Nearest(d, set) = Up[d][n]
    BY <1>2 DEF Nearest
  <2>6. QED
    BY <2>4, <2>5 DEF Ancestors
<1>3. QED
  BY <1>1, <1>2

\* The parents of a directory are directories.
LEMMA AncestorsAreDirs == \A d \in Dir : Ancestors(d) \subseteq Dir
  BY PromptAssumption DEF Ancestors

\* The nearest of some parents is one of them.
LEMMA NearestType ==
  ASSUME NEW d \in Dir, NEW set
  PROVE  Nearest(d, set) \in Dir \cup {None}
  BY NearestHits, AncestorsAreDirs

(* What is known about d was remembered for d or one of its ancestors.     *)
LEMMA KnownRemembered ==
  ASSUME NEW l \in [Dir -> Status], NEW d \in Dir
  PROVE  Known(d, l) = None \/ \E n \in Ancestors(d) : l[n] # None /\ Known(d, l) = l[n]
<1> DEFINE set == {x \in Dir : l[x] # None}
           n == Nearest(d, set)
<1>1. CASE n = None
  BY <1>1 DEF Known
<1>2. CASE n # None
  <2>1. n \in Ancestors(d) \cap set
    BY <1>2, NearestHits
  <2>2. Known(d, l) = l[n]
    BY <1>2 DEF Known
  <2> HIDE DEF n
  <2>3. QED
    BY <2>1, <2>2
<1>3. QED
  BY <1>1, <1>2

\* What is known about a directory is a status, or nothing.
LEMMA KnownType ==
  ASSUME NEW l \in [Dir -> Status], NEW d \in Dir
  PROVE  Known(d, l) \in Status
<1>1. None \in Status
  BY DEF Status
<1>2. QED
  BY <1>1, KnownRemembered, AncestorsAreDirs

\* What is remembered stays typed when an answer is saved and when a directory is purged.
LEMMA LastType ==
  ASSUME NEW l \in [Dir -> Status], NEW d \in Dir, NEW a \in Answer
  PROVE  Saved(l, a) \in [Dir -> Status] /\ Purged(l, d) \in [Dir -> Status]
  BY DEF Saved, Purged, IsOk, Status, Answer

(* A segment is grey or empty exactly when next_dir is set.                *)
LEMMA RenderType ==
  ASSUME NEW l \in [Dir -> Status], NEW d \in Dir, NEW next, NEW st \in Status,
         NEW sum \in Status
  PROVE  /\ Render(d, next, l, st, sum) \in Segment
         /\ next # Unset => Render(d, next, l, st, sum).kind \in {"grey", "empty"}
         /\ next = Unset => Render(d, next, l, st, sum) =
                 [kind |-> IF IsOk(st) THEN "coloured" ELSE "none", status |-> st, summary |-> sum]
  BY KnownType DEF Render, Segment, Status

\* Saving an answer and purging a directory keep each status with its work tree.
LEMMA LastByWorkKept ==
  ASSUME TypeOK, LastByWork, NEW a \in Answer, NEW d \in Dir
  PROVE  /\ last' = Saved(last, a) => LastByWork'
         /\ last' = Purged(last, d) => LastByWork'
<1>1. CASE last' = Saved(last, a)
  <2> SUFFICES ASSUME NEW x \in Dir, last'[x] # None PROVE last'[x].work = x
    BY <1>1 DEF LastByWork
  <2>1. CASE ~IsOk(a) \/ x # a.work
    BY <1>1, <2>1 DEF Saved, TypeOK, LastByWork
  <2>2. CASE IsOk(a) /\ x = a.work
    BY <1>1, <2>2 DEF Saved, TypeOK
  <2>3. QED
    BY <2>1, <2>2
<1>2. CASE last' = Purged(last, d)
  BY <1>2 DEF TypeOK, LastByWork, Purged
<1>3. QED
  BY <1>1, <1>2

(* Reading an answer takes the first one off the pipe.                     *)
LEMMA TakeFacts ==
  ASSUME TypeOK, CallbackTellsDiff, NEW a \in Answer, Take(a)
  PROVE  /\ fromDaemon' \in Seq(Answer) /\ summary' \in Status
         /\ Len(fromDaemon) >= 1 /\ Len(fromDaemon') = Len(fromDaemon) - 1
         /\ 1 \in DOMAIN fromDaemon /\ a = fromDaemon[1]
         /\ \A x \in DOMAIN fromDaemon' : fromDaemon'[x].cb = 1 => fromDaemon'[x].diff
<1>1. fromDaemon \in Seq(Answer) /\ fromDaemon # <<>> /\ fromDaemon' = Tail(fromDaemon)
  BY DEF TypeOK, Take
<1>2. /\ fromDaemon' \in Seq(Answer) /\ Len(fromDaemon) >= 1
      /\ Len(fromDaemon') = Len(fromDaemon) - 1
      /\ 1 \in DOMAIN fromDaemon /\ a = fromDaemon[1]
  BY <1>1 DEF Take
<1>3. \A x \in DOMAIN fromDaemon' : x + 1 \in DOMAIN fromDaemon
                                   /\ fromDaemon'[x] = fromDaemon[x + 1]
  BY <1>1
<1>4. summary' \in Status
  BY DEF TypeOK, Take, Status
<1>5. QED
  BY <1>2, <1>3, <1>4 DEF CallbackTellsDiff

(* A query sent goes to the end of the pipe.                               *)
LEMMA AppendFacts ==
  ASSUME TypeOK, CallbackTellsDiff, NEW q \in Query, q.cb = 1 => q.diff,
         toDaemon' = Append(toDaemon, q)
  PROVE  /\ toDaemon' \in Seq(Query) /\ Len(toDaemon') = Len(toDaemon) + 1
         /\ \A x \in DOMAIN toDaemon' : toDaemon'[x].cb = 1 => toDaemon'[x].diff
         /\ Len(toDaemon) = 0 => \A x \in DOMAIN toDaemon' : toDaemon'[x] = q
<1>1. toDaemon \in Seq(Query)
  BY DEF TypeOK
<1>2. /\ toDaemon' \in Seq(Query) /\ Len(toDaemon') = Len(toDaemon) + 1
      /\ \A x \in DOMAIN toDaemon' : \/ x \in DOMAIN toDaemon /\ toDaemon'[x] = toDaemon[x]
                                     \/ x = Len(toDaemon) + 1 /\ toDaemon'[x] = q
  BY <1>1
<1>3. Len(toDaemon) = 0 => \A x \in DOMAIN toDaemon' : toDaemon'[x] = q
  BY <1>1, <1>2
<1>4. QED
  BY <1>2, <1>3 DEF CallbackTellsDiff

WithDiff(d) == [dir |-> d, cb |-> 1, diff |-> TRUE]
WithoutDiff(d) == [dir |-> d, cb |-> 0, diff |-> FALSE]

\* The two queries that the prompt sends.
LEMMA QueryType ==
  ASSUME NEW d \in Dir
  PROVE  /\ WithDiff(d) \in Query /\ WithDiff(d).cb = 1 /\ WithDiff(d).diff
         /\ WithDiff(d).dir = d
         /\ WithoutDiff(d) \in Query /\ WithoutDiff(d).cb = 0 /\ WithoutDiff(d).dir = d
  BY DEF WithDiff, WithoutDiff, Query
-----------------------------------------------------------------------------
(* The initial state and every step.                                       *)
LEMMA InitIInv == Init => IInv
<1> SUFFICES ASSUME Init PROVE IInv
  OBVIOUS
<1> USE DEF Init
<1>1. TypeOK
  BY PromptAssumption DEF TypeOK, Prompt, Status, Segment, NoSegment
<1>2. CountCovers /\ QueryState /\ CallbackTellsDiff /\ AsksAboutHere
  BY PromptAssumption DEF CountCovers, QueryState, CallbackTellsDiff, AsksAboutHere, Outstanding
<1>3. WithinPrecmd /\ LastByWork /\ ShownIsCurrent
  BY DEF WithinPrecmd, LastByWork, ShownIsCurrent
<1>4. QED
  BY <1>1, <1>2, <1>3 DEF IInv

(* A query with diff, in a directory where the segment is enabled and with *)
(* no other query outstanding.                                             *)
LEMMA AskStatusPreserves ==
  ASSUME IInv, LastByWork', last' \in [Dir -> Status],
         cwd' \in Dir \ Disabled, prompt' \in Prompt, NEW n \in Nat, NEW st \in Status,
         summary' \in Status, nextDir = Unset,
         AskStatus(cwd', last', n, st, summary'),
         fromDaemon' = <<>>, n = 0, Len(toDaemon) = 0,
         running, UNCHANGED <<world, running>>
  PROVE  IInv'
<1> USE DEF IInv
<1>1. alive /\ toDaemon' = Append(toDaemon, WithDiff(cwd')) /\ inflight' = n + 1
  BY DEF AskStatus, Send, WithDiff
<1>2. /\ alive /\ toDaemon' \in Seq(Query) /\ inflight' = 1
      /\ Len(toDaemon') = 1
      /\ \A x \in DOMAIN toDaemon' : /\ toDaemon'[x].cb = 1 /\ toDaemon'[x].diff
                                     /\ toDaemon'[x].dir = cwd'
  BY <1>1, AppendFacts, QueryType
<1>3. /\ Len(fromDaemon') = 0 /\ fromDaemon' \in Seq(Answer) /\ DOMAIN fromDaemon' = {}
      /\ Outstanding' = 1
  BY <1>2 DEF Outstanding
<1>4. \/ pc' = "results" /\ nextDir' = Empty /\ shown' \in Segment
         /\ shown'.kind \in {"grey", "empty"} /\ status' = None
      \/ pc' = "again" /\ nextDir' = Unset /\ shown' = shown /\ status' = st
  <2>1. None \in Status /\ Empty # Unset
    BY PromptAssumption DEF Status
  <2>2. CASE fast
    BY <2>1, <2>2, RenderType DEF AskStatus, AfterAsking
  <2>3. CASE ~fast
    BY <2>3 DEF AskStatus
  <2>4. QED
    BY <2>2, <2>3
<1>5. TypeOK'
  BY <1>2, <1>3, <1>4 DEF TypeOK, world, Status
<1>6. CountCovers' /\ QueryState'
  BY <1>2, <1>3, <1>4, PromptAssumption DEF CountCovers, QueryState, world
<1>7. CallbackTellsDiff' /\ WithinPrecmd'
  BY <1>2, <1>3, <1>4 DEF CallbackTellsDiff, WithinPrecmd
<1>8. AsksAboutHere'
  BY <1>2, <1>3, <1>4, PromptAssumption DEF AsksAboutHere
<1>9. ShownIsCurrent'
  BY <1>4 DEF ShownIsCurrent
<1>10. QED
  BY <1>5, <1>6, <1>7, <1>8, <1>9

\* precmd keeps the invariant.
LEMMA PrecmdPreserves ==
  ASSUME IInv, NEW d \in Dir, Precmd(d)
  PROVE  IInv'
<1> USE DEF IInv
<1>1. /\ pc = "idle" /\ prompt' = prompt + 1 /\ prompt' \in Prompt /\ cwd' = d
      /\ UNCHANGED <<world, last, summary, running, fromDaemon>>
  BY PromptAssumption DEF Precmd, TypeOK, Prompt
<1>2. LastByWork'
  BY <1>1 DEF LastByWork
<1>3. CASE /\ ~running \/ d \in Disabled
           /\ shown' = NoSegment
           /\ UNCHANGED <<pc, nextDir, inflight, toDaemon, status>>
  <2>1. TypeOK'
    BY <1>1, <1>3 DEF TypeOK, world, NoSegment, Segment, Status
  <2>2. CountCovers' /\ QueryState' /\ CallbackTellsDiff' /\ WithinPrecmd'
    BY <1>1, <1>3
    DEF CountCovers, QueryState, CallbackTellsDiff, WithinPrecmd, Outstanding, world
  <2>3. AsksAboutHere' /\ ShownIsCurrent'
    BY <1>1, <1>3 DEF AsksAboutHere, ShownIsCurrent, QueryState, world
  <2>4. QED
    BY <1>2, <2>1, <2>2, <2>3
<1>4. CASE /\ running /\ d \notin Disabled /\ nextDir # Unset
           /\ nextDir' = Supersedes(d)
           /\ shown' = Render(d, d, last, status, summary)
           /\ UNCHANGED <<pc, inflight, toDaemon, status>>
  <2>1. nextDir' = d /\ d # Unset /\ d # Empty /\ shown' \in Segment
        /\ shown'.kind \in {"grey", "empty"}
    BY <1>4, PromptAssumption, RenderType DEF TypeOK, Supersedes
  <2>2. TypeOK'
    BY <1>1, <1>4, <2>1 DEF TypeOK, world
  <2>3. CountCovers' /\ QueryState' /\ CallbackTellsDiff' /\ WithinPrecmd'
    BY <1>1, <1>4, <2>1
    DEF CountCovers, QueryState, CallbackTellsDiff, WithinPrecmd, Outstanding, world
  <2>4. AsksAboutHere' /\ ShownIsCurrent'
    BY <1>1, <1>4, <2>1 DEF AsksAboutHere, ShownIsCurrent, world
  <2>5. QED
    BY <1>2, <2>2, <2>3, <2>4
<1>5. CASE running /\ d \notin Disabled /\ nextDir = Unset /\ AskBranch(d)
  <2>1. alive
    BY <1>5 DEF AskBranch, Send
  <2>2. inflight = 0 /\ Len(toDaemon) = 0 /\ Len(fromDaemon) = 0
    BY <1>1, <1>5, <2>1 DEF QueryState, Outstanding, TypeOK
  <2>3. /\ toDaemon' \in Seq(Query) /\ inflight' = 1 /\ Len(toDaemon') = 1
        /\ \A x \in DOMAIN toDaemon' : toDaemon'[x].dir = d /\ toDaemon'[x].cb = 0
    <3>1. toDaemon' = Append(toDaemon, WithoutDiff(d)) /\ inflight' = inflight + 1
      BY <1>5 DEF AskBranch, Send, WithoutDiff
    <3>2. QED
      BY <2>2, <3>1, AppendFacts, QueryType
  <2>4. Outstanding' = 1 /\ DOMAIN fromDaemon' = {}
    BY <1>1, <2>2, <2>3 DEF Outstanding, TypeOK
  <2>5. pc' = "query" /\ UNCHANGED <<nextDir, status, shown>>
    BY <1>5 DEF AskBranch
  <2>6. TypeOK'
    BY <1>1, <2>3, <2>5 DEF TypeOK, world
  <2>7. CountCovers' /\ QueryState'
    BY <1>1, <1>5, <2>2, <2>3, <2>4, <2>5 DEF CountCovers, QueryState, world
  <2>8. CallbackTellsDiff' /\ WithinPrecmd' /\ ShownIsCurrent'
    BY <1>1, <1>5, <2>3, <2>4, <2>5 DEF CallbackTellsDiff, WithinPrecmd, ShownIsCurrent
  <2>9. AsksAboutHere'
    BY <1>1, <1>5, <2>3, <2>4, <2>5, PromptAssumption DEF AsksAboutHere
  <2>10. QED
    BY <1>2, <2>6, <2>7, <2>8, <2>9
<1>6. CASE running /\ d \notin Disabled /\ nextDir = Unset
           /\ AskStatus(d, last, inflight, None, summary)
  <2>1. alive
    BY <1>6 DEF AskStatus, Send
  <2>2. inflight = 0 /\ Len(toDaemon) = 0 /\ fromDaemon' = <<>>
    BY <1>1, <1>6, <2>1 DEF QueryState, Outstanding, TypeOK
  <2>3. AskStatus(cwd', last', inflight, None, summary')
    BY <1>1, <1>6
  <2>4. last' \in [Dir -> Status] /\ summary' \in Status /\ None \in Status
        /\ cwd' \in Dir \ Disabled /\ inflight \in Nat
    BY <1>1, <1>6 DEF TypeOK, Status
  <2>5. QED
    BY <1>1, <1>2, <1>6, <2>2, <2>3, <2>4, AskStatusPreserves
<1>7. CASE running /\ d \notin Disabled /\ nextDir = Unset /\ AskFails(inflight)
  <2>1. /\ ~alive /\ pc' = "idle" /\ status' = None /\ shown' = NoSegment
        /\ UNCHANGED <<inflight, toDaemon, nextDir>>
    BY <1>7 DEF AskFails, SendFails
  <2>2. TypeOK'
    BY <1>1, <2>1 DEF TypeOK, world, NoSegment, Segment, Status
  <2>3. CountCovers' /\ CallbackTellsDiff' /\ WithinPrecmd'
    BY <1>1, <2>1 DEF CountCovers, CallbackTellsDiff, WithinPrecmd
  <2>4. QueryState' /\ AsksAboutHere' /\ ShownIsCurrent'
    BY <1>1, <2>1 DEF QueryState, AsksAboutHere, ShownIsCurrent, world
  <2>5. QED
    BY <1>2, <2>2, <2>3, <2>4
<1>8. QED
  BY <1>3, <1>4, <1>5, <1>6, <1>7 DEF Precmd

(* Under the invariant, reading the only answer there is leaves none.      *)
LEMMA LastAnswer ==
  ASSUME IInv, NEW a \in Answer, Take(a)
  PROVE  /\ inflight >= 1 /\ inflight - 1 \in Nat
         /\ alive => /\ inflight = 1 /\ Len(toDaemon) = 0 /\ fromDaemon' = <<>>
                     /\ DOMAIN fromDaemon' = {} /\ DOMAIN toDaemon = {}
<1> USE DEF IInv
<1>1. /\ fromDaemon' \in Seq(Answer) /\ Len(fromDaemon) >= 1
      /\ Len(fromDaemon') = Len(fromDaemon) - 1
  BY TakeFacts
<1>2. inflight \in Nat /\ toDaemon \in Seq(Query) /\ Len(fromDaemon) \in Nat
  BY DEF TypeOK
<1>3. inflight >= 1 /\ inflight - 1 \in Nat
  BY <1>1, <1>2 DEF CountCovers
<1>4. ASSUME alive PROVE inflight = 1 /\ Len(toDaemon) = 0 /\ Len(fromDaemon') = 0
  BY <1>1, <1>2, <1>4 DEF QueryState, Outstanding
<1>5. QED
  BY <1>1, <1>2, <1>3, <1>4

(* An answer that is shown and ends the exchange, whoever reads it.        *)
LEMMA ShowAnswerPreserves ==
  ASSUME IInv, NEW a \in Answer, Take(a),
         pc' = "idle", status' = a, inflight' = inflight - 1,
         LastByWork', last' \in [Dir -> Status],
         nextDir' \in Dir \cup {Unset, Empty}, alive => nextDir' = Unset,
         UNCHANGED <<toDaemon, cwd, prompt, world, running>>,
         shown' = IF cwd \in Disabled THEN NoSegment
                  ELSE Render(cwd, nextDir', last', a, summary'),
         alive /\ cwd \notin Disabled =>
           a.dir = cwd /\ a.prompt = prompt /\ (IsOk(a) => a.diff)
  PROVE  IInv'
<1> USE DEF IInv
<1>1. /\ fromDaemon' \in Seq(Answer) /\ summary' \in Status
      /\ Len(fromDaemon) \in Nat /\ Len(fromDaemon') = Len(fromDaemon) - 1
      /\ \A x \in DOMAIN fromDaemon' : fromDaemon'[x].cb = 1 => fromDaemon'[x].diff
  BY TakeFacts DEF TypeOK
<1>2. /\ inflight \in Nat /\ inflight - 1 \in Nat
      /\ alive => /\ inflight = 1 /\ Len(toDaemon) = 0 /\ Len(fromDaemon') = 0
                  /\ DOMAIN fromDaemon' = {} /\ DOMAIN toDaemon = {}
  BY LastAnswer DEF TypeOK
<1>3. a \in Status /\ a # None /\ cwd \in Dir
  BY PromptAssumption DEF Status, TypeOK
<1>4. shown' \in Segment
  BY <1>1, <1>3, RenderType DEF NoSegment, Segment, Status
<1>5. TypeOK'
  BY <1>1, <1>2, <1>3, <1>4 DEF TypeOK, world
<1>6. CountCovers' /\ CallbackTellsDiff' /\ WithinPrecmd'
  BY <1>1, <1>2 DEF CountCovers, CallbackTellsDiff, WithinPrecmd
<1>7. alive => Outstanding' = 0
  BY <1>2 DEF Outstanding
<1>8. QueryState'
  BY <1>2, <1>7 DEF QueryState, world
<1>9. AsksAboutHere'
  BY <1>2, PromptAssumption DEF AsksAboutHere, world
<1>10. ShownIsCurrent'
  <2>1. alive /\ cwd \notin Disabled =>
          shown' = [kind |-> IF IsOk(a) THEN "coloured" ELSE "none", status |-> a,
                    summary |-> summary']
    BY <1>1, <1>3, RenderType
  <2>2. IsOk(a) => summary' = a
    BY DEF Take, IsOk
  <2>3. QED
    BY <1>3, <2>1, <2>2 DEF ShownIsCurrent, world
<1>11. QED
  BY <1>5, <1>6, <1>8, <1>9, <1>10

\* So does the arrival of a branch without its status.
LEMMA BranchKnownPreserves ==
  ASSUME IInv, BranchKnown
  PROVE  IInv'
<1> USE DEF IInv
<1>1. /\ pc = "query" /\ cwd \notin Disabled
      /\ UNCHANGED <<cwd, prompt, world, running>>
  BY DEF BranchKnown, WithinPrecmd
<1>2. PICK a \in Answer :
        /\ Take(a)
        /\ last' = Saved(last, a)
        /\ \/ IsOk(a) /\ AskStatus(cwd, last', inflight - 1, a, summary')
           \/ IsOk(a) /\ AskFails(inflight - 1)
           \/ /\ ~IsOk(a)
              /\ pc' = "idle" /\ status' = a /\ inflight' = inflight - 1
              /\ shown' = Render(cwd, nextDir, last', a, summary')
              /\ UNCHANGED <<nextDir, toDaemon>>
  BY DEF BranchKnown
<1>3. /\ last' \in [Dir -> Status] /\ LastByWork' /\ a \in Status /\ a # None
      /\ cwd \in Dir
  BY <1>2, LastType, LastByWorkKept, PromptAssumption DEF TypeOK, Status
<1>4. /\ fromDaemon' \in Seq(Answer) /\ summary' \in Status
      /\ Len(fromDaemon') = Len(fromDaemon) - 1
      /\ 1 \in DOMAIN fromDaemon /\ a = fromDaemon[1]
      /\ \A x \in DOMAIN fromDaemon' : fromDaemon'[x].cb = 1 => fromDaemon'[x].diff
  BY <1>2, TakeFacts
<1>5. /\ inflight \in Nat /\ inflight - 1 \in Nat
      /\ alive => /\ inflight = 1 /\ Len(toDaemon) = 0 /\ fromDaemon' = <<>>
                  /\ DOMAIN fromDaemon' = {} /\ nextDir = Unset /\ running
  BY <1>1, <1>2, LastAnswer DEF TypeOK, QueryState
<1>6. inflight - 1 >= Len(fromDaemon')
  BY <1>4, <1>5 DEF CountCovers, TypeOK
<1>7. CASE IsOk(a) /\ AskStatus(cwd, last', inflight - 1, a, summary')
  <2>1. alive
    BY <1>7 DEF AskStatus, Send
  <2>2. AskStatus(cwd', last', inflight - 1, a, summary')
    BY <1>1, <1>7
  <2>3. prompt' \in Prompt /\ cwd' \in Dir \ Disabled
    BY <1>1 DEF TypeOK
  <2>4. QED
    BY <1>1, <1>3, <1>4, <1>5, <2>1, <2>2, <2>3, AskStatusPreserves
<1>8. CASE IsOk(a) /\ AskFails(inflight - 1)
  <2>1. /\ ~alive /\ pc' = "idle" /\ status' = None /\ shown' = NoSegment
        /\ inflight' = inflight - 1 /\ UNCHANGED <<toDaemon, nextDir>>
    BY <1>8 DEF AskFails, SendFails
  <2>2. TypeOK'
    BY <1>1, <1>3, <1>4, <1>5, <2>1 DEF TypeOK, world, NoSegment, Segment, Status
  <2>3. CountCovers' /\ CallbackTellsDiff' /\ WithinPrecmd'
    BY <1>1, <1>4, <1>6, <2>1 DEF CountCovers, CallbackTellsDiff, WithinPrecmd
  <2>4. QueryState' /\ AsksAboutHere' /\ ShownIsCurrent'
    BY <1>1, <2>1 DEF QueryState, AsksAboutHere, ShownIsCurrent, world
  <2>5. QED
    BY <1>3, <2>2, <2>3, <2>4
<1>9. CASE /\ ~IsOk(a)
           /\ pc' = "idle" /\ status' = a /\ inflight' = inflight - 1
           /\ shown' = Render(cwd, nextDir, last', a, summary')
           /\ UNCHANGED <<nextDir, toDaemon>>
  <2>1. alive => a.dir = cwd /\ a.prompt = prompt
    BY <1>1, <1>4 DEF AsksAboutHere
  <2>2. nextDir' \in Dir \cup {Unset, Empty} /\ (alive => nextDir' = Unset)
    BY <1>5, <1>9 DEF TypeOK
  <2>3. shown' = IF cwd \in Disabled THEN NoSegment
                 ELSE Render(cwd, nextDir', last', a, summary')
    BY <1>1, <1>9
  <2>4. QED
    BY <1>1, <1>2, <1>3, <1>9, <2>1, <2>2, <2>3, ShowAnswerPreserves
<1>10. QED
  BY <1>2, <1>7, <1>8, <1>9

\* And of a status.
LEMMA StatusKnownPreserves ==
  ASSUME IInv, StatusKnown
  PROVE  IInv'
<1> USE DEF IInv
<1>1. /\ pc = "again" /\ pc' = "idle" /\ cwd \notin Disabled
      /\ UNCHANGED <<cwd, prompt, world, nextDir, running, toDaemon>>
  BY DEF StatusKnown, WithinPrecmd
<1>2. PICK a \in Answer :
        /\ Take(a)
        /\ last' = IF IsOk(a) THEN Saved(last, a) ELSE Purged(last, cwd)
        /\ status' = a /\ inflight' = inflight - 1
        /\ shown' = Render(cwd, nextDir, last', a, summary')
  BY DEF StatusKnown
<1>3. last' \in [Dir -> Status] /\ LastByWork'
  BY <1>2, LastType, LastByWorkKept DEF TypeOK
<1>4. 1 \in DOMAIN fromDaemon /\ a = fromDaemon[1]
  BY <1>2, TakeFacts
<1>5. alive => a.dir = cwd /\ a.prompt = prompt /\ a.diff
  BY <1>1, <1>4 DEF AsksAboutHere, WithinPrecmd, CallbackTellsDiff
<1>6. nextDir' \in Dir \cup {Unset, Empty} /\ (alive => nextDir' = Unset)
  BY <1>1 DEF TypeOK, QueryState
<1>7. shown' = IF cwd \in Disabled THEN NoSegment
               ELSE Render(cwd, nextDir', last', a, summary')
  BY <1>1, <1>2
<1>8. QED
  BY <1>1, <1>2, <1>3, <1>5, <1>6, <1>7, ShowAnswerPreserves

\* And a query that takes too long.
LEMMA TimeoutPreserves ==
  ASSUME IInv, Timeout
  PROVE  IInv'
<1> USE DEF IInv
<1>1. /\ pc' = "idle"
      /\ UNCHANGED <<cwd, prompt, world, last, summary, inflight, running, toDaemon, fromDaemon>>
  BY DEF Timeout
<1>2. LastByWork' /\ CountCovers' /\ CallbackTellsDiff' /\ WithinPrecmd'
  BY <1>1 DEF LastByWork, CountCovers, CallbackTellsDiff, WithinPrecmd
<1>3. /\ pc \in {"query", "again", "results"} /\ cwd \notin Disabled
      /\ shown' \in Segment /\ shown'.kind \in {"grey", "empty"} /\ status' \in Status
      /\ nextDir' \in {Empty, nextDir} /\ (pc # "results" => nextDir' = Empty)
  <2>1. CASE /\ pc \in {"query", "again"}
             /\ nextDir' = Empty /\ status' = None
             /\ shown' = Render(cwd, Empty, last, None, summary)
    <3>1. None \in Status
      BY DEF Status
    <3>2. QED
      BY <2>1, <3>1, RenderType, PromptAssumption DEF TypeOK, WithinPrecmd
  <2>2. CASE pc = "results" /\ UNCHANGED <<nextDir, status, shown>>
    BY <2>2 DEF TypeOK, WithinPrecmd
  <2>3. QED
    BY <2>1, <2>2 DEF Timeout
<1>4. alive => nextDir' = Empty /\ Outstanding = 1
  BY <1>3 DEF QueryState
<1>5. TypeOK'
  BY <1>1, <1>3 DEF TypeOK, world
<1>6. QueryState'
  BY <1>1, <1>4, PromptAssumption DEF QueryState, Outstanding, world
<1>7. AsksAboutHere'
  BY <1>1, <1>3, <1>4, PromptAssumption DEF AsksAboutHere, QueryState, world
<1>8. ShownIsCurrent'
  BY <1>3 DEF ShownIsCurrent
<1>9. QED
  BY <1>2, <1>5, <1>6, <1>7, <1>8

\* So does the callback, called in the line editor or between results.
LEMMA ResumePreserves ==
  ASSUME IInv, Resume
  PROVE  IInv'
<1> USE DEF IInv
<1>1. /\ pc = "results" \/ (pc = "idle" /\ running)
      /\ pc' = "idle" /\ UNCHANGED <<cwd, prompt, world, running>>
  BY DEF Resume
<1>2. PICK a \in Answer :
        /\ Take(a)
        /\ last' = IF nextDir \notin Dir /\ ~IsOk(a) /\ a.cb = 1
                   THEN Purged(last, cwd) ELSE Saved(last, a)
        /\ \/ /\ Wanted(a) = Unset
              /\ nextDir' = Unset /\ status' = a /\ inflight' = inflight - 1
              /\ UNCHANGED toDaemon
           \/ /\ Wanted(a) # Unset
              /\ Send(Wanted(a), 1, TRUE, inflight - 1)
              /\ nextDir' = AfterAsking(Wanted(a)) /\ status' = None
           \/ /\ Wanted(a) # Unset
              /\ SendFails(inflight - 1)
              /\ nextDir' = Unset
        /\ shown' = IF cwd \in Disabled THEN NoSegment
                    ELSE Render(cwd, nextDir', last', status', summary')
  BY DEF Resume
<1>3. last' \in [Dir -> Status] /\ LastByWork' /\ cwd \in Dir
  BY <1>2, LastType, LastByWorkKept DEF TypeOK
<1>4. /\ fromDaemon' \in Seq(Answer) /\ summary' \in Status
      /\ Len(fromDaemon) \in Nat /\ Len(fromDaemon') = Len(fromDaemon) - 1
      /\ 1 \in DOMAIN fromDaemon /\ a = fromDaemon[1]
      /\ \A x \in DOMAIN fromDaemon' : fromDaemon'[x].cb = 1 => fromDaemon'[x].diff
  BY <1>2, TakeFacts DEF TypeOK
<1>5. /\ inflight \in Nat /\ inflight - 1 \in Nat
      /\ alive => /\ inflight = 1 /\ Len(toDaemon) = 0 /\ Len(fromDaemon') = 0
                  /\ DOMAIN fromDaemon' = {} /\ nextDir \in Dir \cup {Empty} /\ running
  <2>1. alive => nextDir # Unset
    BY <1>1, <1>2, <1>4, LastAnswer, PromptAssumption DEF TypeOK, QueryState, Outstanding
  <2>2. QED
    BY <1>2, <2>1, LastAnswer DEF TypeOK, QueryState
<1>6. Wanted(a) \in Dir \cup {Unset}
  BY <1>3 DEF Wanted
<1>7. CASE /\ Wanted(a) = Unset
           /\ nextDir' = Unset /\ status' = a /\ inflight' = inflight - 1
           /\ UNCHANGED toDaemon
  <2>1. nextDir \notin Dir /\ ~(IsOk(a) /\ a.cb = 0)
    BY <1>3, <1>7, PromptAssumption DEF Wanted
  <2>2. IsOk(a) => a.diff
    BY <1>4, <2>1 DEF CallbackTellsDiff, Answer
  <2>3. alive /\ cwd \notin Disabled => a.dir = cwd /\ a.prompt = prompt
    BY <1>4, <1>5, <2>1 DEF AsksAboutHere
  <2>4. QED
    BY <1>1, <1>2, <1>3, <1>7, <2>2, <2>3, ShowAnswerPreserves
<1>8. CASE /\ Wanted(a) # Unset
           /\ Send(Wanted(a), 1, TRUE, inflight - 1)
           /\ nextDir' = AfterAsking(Wanted(a)) /\ status' = None
  <2> DEFINE d == Wanted(a)
  <2>1. /\ alive /\ nextDir' = Empty /\ inflight' = (inflight - 1) + 1
        /\ toDaemon' = Append(toDaemon, WithDiff(d)) /\ d \in Dir
    BY <1>6, <1>8 DEF Send, AfterAsking, WithDiff
  <2>2. cwd \notin Disabled => d = cwd
    BY <1>8, <2>1 DEF Wanted, AsksAboutHere
  <2> HIDE DEF d
  <2>3. /\ toDaemon' \in Seq(Query) /\ inflight' = 1 /\ Len(toDaemon') = 1
        /\ \A x \in DOMAIN toDaemon' : /\ toDaemon'[x].cb = 1 /\ toDaemon'[x].diff
                                       /\ toDaemon'[x].dir = d
    BY <1>5, <2>1, AppendFacts, QueryType
  <2>4. Outstanding' = 1
    BY <1>5, <2>1, <2>3 DEF Outstanding
  <2>5. /\ shown' \in Segment
        /\ cwd \notin Disabled => shown'.kind \in {"grey", "empty"}
    <3>1. None \in Status /\ Empty # Unset /\ NoSegment \in Segment
      BY PromptAssumption DEF Status, NoSegment, Segment
    <3>2. QED
      BY <1>2, <1>3, <1>4, <1>8, <2>1, <3>1, RenderType
  <2>6. TypeOK'
    BY <1>1, <1>3, <1>4, <1>8, <2>1, <2>3, <2>5 DEF TypeOK, world, Status
  <2>7. CountCovers' /\ CallbackTellsDiff' /\ WithinPrecmd'
    BY <1>1, <1>4, <1>5, <2>1, <2>3 DEF CountCovers, CallbackTellsDiff, WithinPrecmd
  <2>8. QueryState'
    BY <1>1, <1>5, <2>1, <2>3, <2>4, PromptAssumption DEF QueryState, world
  <2>9. AsksAboutHere'
    BY <1>1, <1>5, <2>1, <2>2, <2>3, PromptAssumption DEF AsksAboutHere, world
  <2>10. ShownIsCurrent'
    BY <1>1, <2>5 DEF ShownIsCurrent
  <2>11. QED
    BY <1>3, <2>6, <2>7, <2>8, <2>9, <2>10
<1>9. CASE /\ Wanted(a) # Unset
           /\ SendFails(inflight - 1)
           /\ nextDir' = Unset
  <2>1. ~alive /\ status' = None /\ inflight' = inflight - 1 /\ toDaemon' = toDaemon
    BY <1>9 DEF SendFails
  <2>2. shown' \in Segment
    <3>1. None \in Status /\ NoSegment \in Segment
      BY DEF Status, NoSegment, Segment
    <3>2. QED
      BY <1>2, <1>3, <1>4, <2>1, <3>1, RenderType
  <2>3. TypeOK'
    BY <1>1, <1>3, <1>4, <1>5, <1>9, <2>1, <2>2 DEF TypeOK, world, Status
  <2>4. CountCovers' /\ CallbackTellsDiff' /\ WithinPrecmd'
    BY <1>1, <1>4, <1>5, <2>1 DEF CountCovers, CallbackTellsDiff, WithinPrecmd
  <2>5. QueryState' /\ AsksAboutHere' /\ ShownIsCurrent'
    BY <1>1, <2>1 DEF QueryState, AsksAboutHere, ShownIsCurrent, world
  <2>6. QED
    BY <1>3, <2>3, <2>4, <2>5
<1>10. QED
  BY <1>2, <1>7, <1>8, <1>9

\* And a response that cannot be read.
LEMMA ReadFailsPreserves ==
  ASSUME IInv, ReadFails
  PROVE  IInv'
<1> USE DEF IInv, ReadFails
<1>1. TypeOK'
  <2>1. toDaemon' \in Seq(Query) /\ fromDaemon' \in Seq(Answer)
    OBVIOUS
  <2>2. status' \in Status /\ shown' \in Segment
    BY DEF TypeOK, NoSegment, Segment, Status
  <2>3. QED
    BY <2>1, <2>2 DEF TypeOK, world
<1>2. CountCovers' /\ CallbackTellsDiff' /\ WithinPrecmd' /\ LastByWork'
  BY DEF CountCovers, CallbackTellsDiff, WithinPrecmd, LastByWork
<1>3. QueryState' /\ AsksAboutHere' /\ ShownIsCurrent'
  BY DEF QueryState, AsksAboutHere, ShownIsCurrent, world
<1>4. QED
  BY <1>1, <1>2, <1>3

(* gitstatusd looks at the world once it gets to the query: its answer is  *)
(* about the prompt that is up by then.                                    *)
LEMMA DaemonAnswersPreserves ==
  ASSUME IInv, DaemonAnswers
  PROVE  IInv'
<1> USE DEF IInv
<1> DEFINE q == Head(toDaemon)
           a == [dir |-> q.dir, cb |-> q.cb, diff |-> q.diff, prompt |-> prompt,
                 work |-> Nearest(q.dir, repos)]
<1>1. /\ alive /\ toDaemon # <<>> /\ fromDaemon' = Append(fromDaemon, a)
      /\ toDaemon' = Tail(toDaemon)
      /\ UNCHANGED <<cwd, prompt, world, pc, nextDir, last, status, summary, inflight, running,
                     shown>>
  BY DEF DaemonAnswers
<1>2. toDaemon \in Seq(Query) /\ fromDaemon \in Seq(Answer)
  BY DEF TypeOK
<1>3. q \in Query /\ 1 \in DOMAIN toDaemon /\ q = toDaemon[1]
  BY <1>1, <1>2
<1>4. /\ a \in Answer /\ a.dir = q.dir /\ a.cb = q.cb /\ a.diff = q.diff /\ a.prompt = prompt
  <2>1. q.dir \in Dir /\ q.cb \in {0, 1} /\ q.diff \in BOOLEAN /\ prompt \in Prompt
    BY <1>3 DEF Query, TypeOK
  <2>2. Nearest(q.dir, repos) \in Dir \cup {None}
    BY <2>1, NearestType
  <2> HIDE DEF q
  <2>3. QED
    BY <2>1, <2>2 DEF Answer
<1>5. /\ Len(toDaemon) = 1 /\ Len(fromDaemon) = 0
  <2>1. Len(toDaemon) \in Nat /\ Len(toDaemon) # 0 /\ Len(fromDaemon) \in Nat
    BY <1>1, <1>2
  <2>2. Len(toDaemon) + Len(fromDaemon) <= 1
    BY <1>1 DEF QueryState, Outstanding
  <2> HIDE DEF q, a
  <2>3. \A m, n \in Nat : m # 0 /\ m + n <= 1 => m = 1 /\ n = 0
    OBVIOUS
  <2>4. QED
    BY <2>1, <2>2, <2>3
<1>6. q.cb = 1 => q.diff
  BY <1>3 DEF CallbackTellsDiff
<1>7. /\ nextDir = Empty \/ pc \in {"query", "again"} =>
           (cwd \notin Disabled => q.dir = cwd)
      /\ pc = "again" => q.cb = 1
  BY <1>1, <1>3 DEF AsksAboutHere, WithinPrecmd
<1> HIDE DEF q, a
<1>8. /\ fromDaemon' \in Seq(Answer) /\ Len(fromDaemon') = 1
      /\ \A x \in DOMAIN fromDaemon' : fromDaemon'[x] = a
      /\ toDaemon' \in Seq(Query) /\ Len(toDaemon') = 0 /\ DOMAIN toDaemon' = {}
  BY <1>1, <1>2, <1>4, <1>5
<1>9. TypeOK'
  BY <1>1, <1>8 DEF TypeOK, world
<1>10. Outstanding' = Outstanding
  BY <1>5, <1>8 DEF Outstanding
<1>11. QueryState'
  BY <1>1, <1>10 DEF QueryState, world
<1>12. CountCovers'
  BY <1>1, <1>8, <1>10 DEF CountCovers, QueryState, Outstanding
<1>13. CallbackTellsDiff' /\ WithinPrecmd'
  BY <1>1, <1>4, <1>6, <1>7, <1>8 DEF CallbackTellsDiff, WithinPrecmd
<1>14. AsksAboutHere'
  BY <1>1, <1>4, <1>7, <1>8 DEF AsksAboutHere, world
<1>15. LastByWork' /\ ShownIsCurrent'
  BY <1>1 DEF LastByWork, ShownIsCurrent, IsOk, world
<1>16. QED
  BY <1>9, <1>11, <1>12, <1>13, <1>14, <1>15

\* And the death of gitstatusd, and a command.
LEMMA WorldPreserves ==
  ASSUME IInv, DaemonDies \/ Command \/ UNCHANGED vars
  PROVE  IInv'
<1> USE DEF IInv
<1>1. CASE DaemonDies
  <2> USE <1>1 DEF DaemonDies
  <2>1. TypeOK'
    <3>1. toDaemon' \in Seq(Query)
      OBVIOUS
    <3>2. QED
      BY <3>1 DEF TypeOK
  <2>2. CountCovers' /\ CallbackTellsDiff' /\ WithinPrecmd' /\ LastByWork'
    BY DEF CountCovers, CallbackTellsDiff, WithinPrecmd, LastByWork
  <2>3. QueryState' /\ AsksAboutHere' /\ ShownIsCurrent'
    BY DEF QueryState, AsksAboutHere, ShownIsCurrent
  <2>4. QED
    BY <2>1, <2>2, <2>3
<1>2. CASE Command \/ UNCHANGED vars
  <2>1. /\ repos' \in SUBSET Dir
        /\ UNCHANGED <<fast, cwd, prompt, alive, pc, nextDir, last, status, summary, inflight,
                       running, toDaemon, fromDaemon, shown>>
    BY <1>2 DEF Command, vars, TypeOK
  <2>2. TypeOK'
    BY <2>1 DEF TypeOK
  <2>3. CountCovers' /\ CallbackTellsDiff' /\ WithinPrecmd' /\ LastByWork'
    BY <2>1 DEF CountCovers, CallbackTellsDiff, WithinPrecmd, LastByWork
  <2>4. QueryState' /\ AsksAboutHere' /\ ShownIsCurrent'
    BY <2>1 DEF QueryState, AsksAboutHere, ShownIsCurrent, Outstanding, IsOk
  <2>5. QED
    BY <2>2, <2>3, <2>4
<1>3. QED
  BY <1>1, <1>2

\* The invariant of the module holds in every reachable state, for any set of directories
\* and repositories: in particular what is typed.
THEOREM Invariance == Spec => []IInv
<1>1. IInv /\ [Next]_vars => IInv'
  BY PrecmdPreserves, BranchKnownPreserves, StatusKnownPreserves, TimeoutPreserves,
     ResumePreserves, ReadFailsPreserves, DaemonAnswersPreserves, WorldPreserves
  DEF Next, Shell
<1>2. QED
  BY InitIInv, <1>1, PTL DEF Spec

(* The variables keep their types: gitstatus counts no query it has not    *)
(* sent, whatever gitstatusd does.                                         *)
THEOREM TypeCorrect == Spec => []TypeOK
<1>1. IInv => TypeOK
  BY DEF IInv
<1>2. QED
  BY Invariance, <1>1, PTL

(* gitstatus_query is never called with a query outstanding.               *)
THEOREM OneQueryAtATime == Spec => []OneQuery
<1>1. IInv => OneQuery
  BY DEF IInv, QueryState, OneQuery
<1>2. QED
  BY Invariance, <1>1, PTL

(* next_dir and the outstanding query come and go together.                *)
THEOREM NextDirCorrect == Spec => []NextDirTracksQuery
<1>1. IInv => NextDirTracksQuery
  BY DEF IInv, QueryState, NextDirTracksQuery
<1>2. QED
  BY Invariance, <1>1, PTL

(* A coloured segment is never about another directory or an old prompt.   *)
THEOREM ShownCorrect == Spec => []ShownIsCurrent
<1>1. IInv => ShownIsCurrent
  BY DEF IInv
<1>2. QED
  BY Invariance, <1>1, PTL

(* What is known about a directory was taken in a work tree above it.      *)
THEOREM KnownCorrect == Spec => []KnownIsAbove
<1>1. ASSUME IInv PROVE KnownIsAbove
  <2> SUFFICES ASSUME NEW d \in Dir, Known(d, last) # None
               PROVE  Known(d, last).work \in Ancestors(d)
    BY DEF KnownIsAbove
  <2>1. PICK n \in Ancestors(d) : last[n] # None /\ Known(d, last) = last[n]
    BY <1>1, KnownRemembered DEF IInv, TypeOK
  <2>2. last[n].work = n
    BY <1>1, <2>1, AncestorsAreDirs DEF IInv, LastByWork
  <2>3. QED
    BY <2>1, <2>2
<1>2. QED
  BY Invariance, <1>1, PTL
=============================================================================
