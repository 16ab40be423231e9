-------------------------- MODULE ThreadPoolProofs --------------------------
(***************************************************************************)
(* For every number of workers, of clients, of functions and of instants,  *)
(* the thread pool loses no wakeup, has at most one sleeper, and counts    *)
(* the functions in flight exactly.                                        *)
(***************************************************************************)
EXTENDS ThreadPool, FiniteSetTheorems, TLAPS

(* No worker leaves its loop before the destructor has begun. *)
NoneExitedBeforeExit == \A w \in Worker : pc[w] = "exited" => exit

(* Only a worker that runs a function, or is about to, owes a notification. *)
WakerRuns == \A w \in Worker : wake[w] # "none" => pc[w] = "run"

(* A sleeper never oversleeps any function of the queue, unless somebody   *)
(* is about to notify it.                                                  *)
SleeperCovers ==
  \A w \in Worker : pc[w] = "sleep" =>
    \/ \E a \in Actor : wake[a] = "sleeper"
    \/ \A x \in work : deadline[w] <= x.t

(* Without a sleeper, a queue with work in it has a thread about to look   *)
(* at it, or a notification on its way, or every thread busy.              *)
CvCovers ==
  work # {} /\ ~exit /\ ~haveSleeper =>
    \/ \E w \in Worker : AtLoop(w)
    \/ \E a \in Actor : wake[a] = "cv"
    \/ Running = Worker

IInv ==
  /\ TypeOK /\ InflightIsExact /\ OneSleeper
  /\ NoneExitedBeforeExit /\ WakerRuns /\ SleeperCovers /\ CvCovers
-----------------------------------------------------------------------------
Busy == {w \in Worker : pc[w] \in {"run", "enter"}}

(* A set of workers has at most as many members as there are workers. *)
LEMMA CountBound == \A S \in SUBSET Worker :
                       IsFiniteSet(S) /\ Cardinality(S) \in 0..Cardinality(Worker)
  BY PoolAssumption, FS_Subset, FS_CardinalityType

(* A worker that parks changes only its own program counter among workers, *)
(* whether or not it tells the waiting clients that the pool is idle.      *)
LEMMA ParkEffect ==
  ASSUME TypeOK, NEW w \in Worker, NEW where \in {"cv", "sleep", "exited"}, Park(w, where)
  PROVE  /\ pc' \in [Actor -> WorkerPc \cup ClientPc]
         /\ pc'[w] = where
         /\ \A v \in Worker \ {w} : pc'[v] = pc[v]
         /\ \A c \in Client : pc'[c] \in ClientPc
<1> DEFINE p == [pc EXCEPT ![w] = where]
<1>1. /\ p \in [Actor -> WorkerPc \cup ClientPc] /\ p[w] = where
      /\ \A v \in Worker \ {w} : p[v] = pc[v] /\ pc[v] \in WorkerPc
      /\ \A c \in Client : p[c] \in ClientPc
  BY PoolAssumption DEF TypeOK, Actor, WorkerPc, ClientPc
<1>2. pc' = NotifyIdle(w, p)
  BY DEF Park
<1>3. CASE pc' = p
  BY <1>1, <1>3
<1>4. CASE pc' = [a \in Actor |-> IF p[a] = "wait" THEN "waitWoken" ELSE p[a]]
  BY <1>1, <1>4 DEF Actor, WorkerPc, ClientPc
<1>5. QED
  BY <1>2, <1>3, <1>4 DEF NotifyIdle

(* The counter follows the set of busy workers when one worker joins it,   *)
(* leaves it or neither.                                                   *)
LEMMA BusyLeaves ==
  ASSUME TypeOK, InflightIsExact, NEW w \in Worker, AtLoop(w),
         pc'[w] \notin {"run", "enter"}, \A v \in Worker \ {w} : pc'[v] = pc[v],
         numInflight' = InflightAt(w)
  PROVE  InflightIsExact'
<1>1. IsFiniteSet(Busy) /\ numInflight = Cardinality(Busy)
  BY CountBound DEF InflightIsExact, Busy
<1>2. Busy' = Busy \ {w}
  BY DEF Busy
<1>3. pc[w] = "enter" <=> w \in Busy
  BY DEF Busy, AtLoop
<1>4. Cardinality(Busy') = IF w \in Busy THEN Cardinality(Busy) - 1 ELSE Cardinality(Busy)
  BY <1>1, <1>2, FS_RemoveElement
<1>5. QED
  BY <1>1, <1>3, <1>4 DEF InflightIsExact, Busy, InflightAt

(* Steps that move no worker into or out of a function keep the count. *)
LEMMA BusySame ==
  ASSUME InflightIsExact, numInflight' = numInflight,
         \A v \in Worker : pc'[v] \in {"run", "enter"} <=> pc[v] \in {"run", "enter"}
  PROVE  InflightIsExact'
<1>1. Busy' = Busy
  BY DEF Busy
<1>2. QED
  BY <1>1 DEF InflightIsExact, Busy

(* A step that only lets threads out of their waits, whoever wakes them. *)
WakesOnly ==
  /\ pc' \in [Actor -> WorkerPc \cup ClientPc]
  /\ \A c \in Client : pc'[c] \in ClientPc
  /\ \A v \in Worker : \/ pc'[v] = pc[v]
                       \/ pc[v] = "cv" /\ pc'[v] = "cvWoken"
                       \/ pc[v] = "sleep" /\ pc'[v] = "sleepWoken"
  /\ wake' \in [Actor -> {"none", "cv", "sleeper"}]
  /\ \A v \in Worker : wake'[v] # "none" => wake[v] # "none"
  /\ UNCHANGED <<work, lastIdx, numInflight, haveSleeper, job, deadline, now>>
  /\ exit' \in BOOLEAN /\ (exit => exit')

\* A step that only makes a waiting thread runnable keeps all but the cover by a wakeup.
LEMMA WakesOnlyPreserves ==
  ASSUME IInv, WakesOnly
  PROVE  /\ TypeOK' /\ InflightIsExact' /\ OneSleeper' /\ NoneExitedBeforeExit' /\ WakerRuns'
         /\ wake' = wake => SleeperCovers' /\ CvCovers'
<1> USE DEF IInv, WakesOnly
<1>1. InflightIsExact'
  BY BusySame
<1>2. TypeOK'
  BY <1>1 DEF TypeOK, WorkerPc, Work
<1>3. Sleeping' = Sleeping
  BY DEF Sleeping
<1>4. OneSleeper'
  BY <1>3 DEF OneSleeper
<1>5. NoneExitedBeforeExit' /\ WakerRuns'
  BY DEF NoneExitedBeforeExit, WakerRuns
<1>6. ASSUME wake' = wake PROVE SleeperCovers'
  BY <1>6 DEF SleeperCovers
<1>7. ASSUME wake' = wake PROVE CvCovers'
  <2>1. (\E w \in Worker : AtLoop(w)) => (\E w \in Worker : AtLoop(w))'
    BY DEF AtLoop
  <2>2. Running' = Running
    BY DEF Running
  <2>3. QED
    BY <1>7, <2>1, <2>2 DEF CvCovers
<1>8. QED
  BY <1>1, <1>2, <1>4, <1>5, <1>6, <1>7

(* A pending notification that finds nobody to wake is not needed.         *)
LEMMA NotifyOnePreserves ==
  ASSUME IInv, NEW a \in Actor, NotifyOne(a)
  PROVE  IInv'
<1> USE DEF IInv
<1>1. WakesOnly
  BY DEF NotifyOne, WakesOnly, WaitingOn, Woken, TypeOK, Actor, WorkerPc, ClientPc
<1>2. wake' = [wake EXCEPT ![a] = "none"] /\ wake \in [Actor -> {"none", "cv", "sleeper"}]
  BY DEF NotifyOne, TypeOK
<1>3. SleeperCovers'
  <2> SUFFICES ASSUME NEW w \in Worker, pc'[w] = "sleep",
                      \A b \in Actor : wake'[b] # "sleeper"
               PROVE  \A x \in work' : deadline'[w] <= x.t
    BY DEF SleeperCovers
  <2>1. pc[w] = "sleep"
    BY <1>1 DEF WakesOnly
  <2>2. wake[a] # "sleeper"
    <3> SUFFICES ASSUME wake[a] = "sleeper" PROVE FALSE
      OBVIOUS
    <3>1. PICK v \in WaitingOn("sleeper") : pc' = [pc EXCEPT ![v] = "sleepWoken"]
      BY <2>1 DEF NotifyOne, WaitingOn, Woken
    <3>2. v \in Worker /\ pc[v] = "sleep"
      BY DEF WaitingOn
    <3>3. v = w
      BY <2>1, <3>2 DEF OneSleeper, Sleeping
    <3>4. QED
      BY <3>1, <3>3, <3>2 DEF TypeOK, Actor
  <2>3. \A b \in Actor : wake[b] # "sleeper"
    BY <1>2, <2>2
  <2>4. QED
    BY <2>1, <2>3 DEF SleeperCovers, NotifyOne
<1>4. CvCovers'
  <2> SUFFICES ASSUME work # {}, ~exit, ~haveSleeper
               PROVE  \/ \E w \in Worker : AtLoop(w)'
                      \/ \E b \in Actor : wake'[b] = "cv"
                      \/ Running' = Worker
    BY DEF CvCovers, NotifyOne
  <2>1. CASE \E w \in Worker : AtLoop(w)
    BY <2>1, <1>1 DEF AtLoop, WakesOnly
  <2>2. CASE Running = Worker
    BY <2>2, <1>1 DEF Running, WakesOnly
  <2>3. CASE \E b \in Actor : wake[b] = "cv" /\ b # a
    BY <2>3, <1>2
  <2>4. CASE wake[a] = "cv" /\ WaitingOn("cv") # {}
    <3>1. PICK w \in WaitingOn("cv") : pc' = [pc EXCEPT ![w] = "cvWoken"]
      BY <2>4 DEF NotifyOne, Woken
    <3>2. w \in Worker
      BY DEF WaitingOn
    <3>3. QED
      BY <3>1, <3>2 DEF AtLoop, TypeOK, Actor
  <2>5. CASE wake[a] = "cv" /\ WaitingOn("cv") = {}
    <3>1. \A w \in Worker : pc[w] \in {"enter", "cvWoken", "sleepWoken", "run"}
      BY <2>5 DEF WaitingOn, OneSleeper, Sleeping, NoneExitedBeforeExit, TypeOK, WorkerPc
    <3>2. pc' = pc
      BY <2>5 DEF NotifyOne
    <3>3. QED
      BY <3>1, <3>2 DEF AtLoop, Running
  <2>6. QED
    BY <2>1, <2>2, <2>3, <2>4, <2>5 DEF CvCovers
<1>5. QED
  BY <1>1, <1>3, <1>4, WakesOnlyPreserves

(* Work that becomes the first of the queue is announced to whoever has to *)
(* know; other work changes nothing, for it is due later.                  *)
LEMMA SchedulePreserves ==
  ASSUME IInv, NEW a \in Actor, NEW t \in Time, Schedule(a, t)
  PROVE  IInv'
<1> USE DEF IInv
<1> DEFINE w == [t |-> t, idx |-> lastIdx + 1]
<1>1. /\ UNCHANGED <<numInflight, exit, haveSleeper, pc, job, deadline, now>>
      /\ work' = work \cup {w} /\ lastIdx' = lastIdx + 1 /\ lastIdx < MaxIdx
      /\ wake' = [wake EXCEPT ![a] = WakeFor(w, work')] /\ wake[a] = "none"
  BY DEF Schedule, MaySchedule
<1>2. WakeFor(w, work') \in {"none", "cv", "sleeper"}
  BY DEF WakeFor
<1>3. TypeOK'
  BY <1>1, <1>2, PoolAssumption DEF TypeOK, Work, Time, Index, WakeFor
<1>4. InflightIsExact' /\ OneSleeper' /\ NoneExitedBeforeExit' /\ WakerRuns'
  <2>1. a \in Worker => pc[a] = "run"
    BY DEF Schedule, MaySchedule, TypeOK, WorkerPc
  <2>2. WakerRuns'
    BY <1>1, <2>1 DEF WakerRuns, TypeOK
  <2>3. QED
    BY <1>1, <2>2, BusySame DEF OneSleeper, Sleeping, NoneExitedBeforeExit
<1>5. \A b \in Actor : wake[b] # "none" => wake'[b] = wake[b]
  BY <1>1 DEF TypeOK
<1>6. SleeperCovers'
  <2> SUFFICES ASSUME NEW u \in Worker, pc[u] = "sleep",
                      \A b \in Actor : wake'[b] # "sleeper"
               PROVE  \A x \in work' : deadline[u] <= x.t
    BY <1>1 DEF SleeperCovers
  <2>1. \A x \in work : deadline[u] <= x.t
    BY <1>5 DEF SleeperCovers
  <2>2. haveSleeper
    BY DEF OneSleeper, Sleeping
  <2>3. wake'[a] = WakeFor(w, work')
    BY <1>1 DEF TypeOK
  <2>4. ~IsTop(w, work')
    BY <2>2, <2>3 DEF WakeFor
  <2>5. PICK y \in work : ~Before(w, y)
    BY <2>4, <1>1 DEF IsTop
  <2>6. y.t <= w.t
    BY <2>5 DEF Before, TypeOK, Work, Time
  <2>7. deadline[u] <= w.t
    BY <2>1, <2>6 DEF TypeOK, Work, Time
  <2>8. QED
    BY <2>1, <2>7, <1>1
<1>7. CvCovers'
  <2> SUFFICES ASSUME ~exit, ~haveSleeper
               PROVE  \/ \E v \in Worker : AtLoop(v)
                      \/ \E b \in Actor : wake'[b] = "cv"
                      \/ Running = Worker
    BY <1>1 DEF CvCovers, AtLoop, Running
  <2>1. CASE work = {}
    <3>1. IsTop(w, work')
      BY <2>1, <1>1 DEF IsTop
    <3>2. QED
      BY <3>1, <1>1 DEF WakeFor, TypeOK
  <2>2. CASE work # {}
    BY <2>2, <1>5 DEF CvCovers
  <2>3. QED
    BY <2>1, <2>2
<1>8. QED
  BY <1>3, <1>4, <1>6, <1>7

(* A worker parks: to exit, because the queue is empty, because a sleeper  *)
(* already covers the queue, or to become that sleeper.                    *)
LEMMA ParkPreservesTypes ==
  ASSUME IInv, NEW w \in Worker, NEW where \in {"cv", "sleep", "exited"}, AtLoop(w),
         Park(w, where), deadline' \in [Worker -> Time], haveSleeper' \in BOOLEAN
  PROVE  TypeOK' /\ InflightIsExact'
<1> USE DEF IInv
<1>1. /\ pc' \in [Actor -> WorkerPc \cup ClientPc]
      /\ pc'[w] = where
      /\ \A v \in Worker \ {w} : pc'[v] = pc[v]
      /\ \A c \in Client : pc'[c] \in ClientPc
  BY ParkEffect
<1>2. InflightIsExact'
  BY <1>1, BusyLeaves DEF Park
<1>3. numInflight' \in 0..Cardinality(Worker)
  BY <1>2, CountBound DEF InflightIsExact
<1>4. job' \in [Worker -> 0..MaxIdx]
  BY PoolAssumption DEF Park, TypeOK
<1>5. QED
  BY <1>1, <1>2, <1>3, <1>4 DEF TypeOK, Park, WorkerPc

(* A worker that goes on without sleeping leaves have_sleeper_ telling the *)
(* truth, whether or not it was the sleeper.                               *)
LEMMA NotSleeping ==
  ASSUME OneSleeper, NEW w \in Worker, AtLoop(w), haveSleeper' = SleeperAt(w),
         pc'[w] \notin {"sleep", "sleepWoken"}, \A v \in Worker \ {w} : pc'[v] = pc[v]
  PROVE  OneSleeper'
<1>1. Sleeping' = Sleeping \ {w}
  BY DEF Sleeping
<1>2. CASE w \in Sleeping
  <2>1. Sleeping = {w} /\ pc[w] = "sleepWoken"
    BY <1>2 DEF OneSleeper, Sleeping, AtLoop
  <2>2. QED
    BY <1>1, <2>1 DEF OneSleeper, SleeperAt
<1>3. CASE w \notin Sleeping
  <2>1. pc[w] # "sleepWoken"
    BY <1>3 DEF Sleeping
  <2>2. QED
    BY <1>1, <1>3, <2>1 DEF OneSleeper, SleeperAt
<1>4. QED
  BY <1>2, <1>3

\* A thread that ends keeps the invariant.
LEMMA ExitPreserves ==
  ASSUME IInv, NEW w \in Worker, Exit(w)
  PROVE  IInv'
<1> USE DEF IInv
<1>1. /\ AtLoop(w) /\ exit /\ Park(w, "exited") /\ haveSleeper' = SleeperAt(w)
      /\ deadline' = deadline /\ work' = work /\ wake' = wake /\ exit' = exit
  BY DEF Exit, Park
<1>2. pc'[w] = "exited" /\ \A v \in Worker \ {w} : pc'[v] = pc[v]
  BY <1>1, ParkEffect
<1>3. TypeOK' /\ InflightIsExact'
  BY <1>1, ParkPreservesTypes DEF TypeOK, SleeperAt
<1>4. OneSleeper'
  BY <1>1, <1>2, NotSleeping
<1>5. NoneExitedBeforeExit' /\ WakerRuns' /\ SleeperCovers' /\ CvCovers'
  BY <1>1, <1>2 DEF NoneExitedBeforeExit, WakerRuns, AtLoop, SleeperCovers, CvCovers
<1>6. QED
  BY <1>3, <1>4, <1>5

\* So does one that finds the queue empty.
LEMMA WaitForWorkPreserves ==
  ASSUME IInv, NEW w \in Worker, WaitForWork(w)
  PROVE  IInv'
<1> USE DEF IInv
<1>1. /\ AtLoop(w) /\ work = {} /\ Park(w, "cv") /\ haveSleeper' = SleeperAt(w)
      /\ deadline' = deadline /\ work' = work /\ wake' = wake /\ exit' = exit
  BY DEF WaitForWork, Park
<1>2. pc'[w] = "cv" /\ \A v \in Worker \ {w} : pc'[v] = pc[v]
  BY <1>1, ParkEffect
<1>3. TypeOK' /\ InflightIsExact'
  BY <1>1, ParkPreservesTypes DEF TypeOK, SleeperAt
<1>4. OneSleeper'
  BY <1>1, <1>2, NotSleeping
<1>5. NoneExitedBeforeExit' /\ WakerRuns' /\ SleeperCovers' /\ CvCovers'
  BY <1>1, <1>2 DEF NoneExitedBeforeExit, WakerRuns, AtLoop, SleeperCovers, CvCovers
<1>6. QED
  BY <1>3, <1>4, <1>5

\* And one that finds a sleeper before it.
LEMMA WaitBehindSleeperPreserves ==
  ASSUME IInv, NEW w \in Worker, WaitBehindSleeper(w)
  PROVE  IInv'
<1> USE DEF IInv
<1>1. /\ AtLoop(w) /\ Park(w, "cv") /\ SleeperAt(w) /\ haveSleeper' = haveSleeper
      /\ deadline' = deadline /\ work' = work /\ wake' = wake /\ exit' = exit
  BY DEF WaitBehindSleeper, Park
<1>2. pc'[w] = "cv" /\ \A v \in Worker \ {w} : pc'[v] = pc[v]
  BY <1>1, ParkEffect
<1>3. TypeOK' /\ InflightIsExact'
  BY <1>1, ParkPreservesTypes DEF TypeOK
<1>4. OneSleeper'
  BY <1>1, <1>2 DEF OneSleeper, Sleeping, SleeperAt, AtLoop
<1>5. NoneExitedBeforeExit' /\ WakerRuns' /\ SleeperCovers' /\ CvCovers'
  BY <1>1, <1>2 DEF NoneExitedBeforeExit, WakerRuns, AtLoop, SleeperCovers, CvCovers, SleeperAt
<1>6. QED
  BY <1>3, <1>4, <1>5

\* And one that becomes the sleeper.
LEMMA SleepPreserves ==
  ASSUME IInv, NEW w \in Worker, Sleep(w)
  PROVE  IInv'
<1> USE DEF IInv
<1>1. /\ AtLoop(w) /\ Park(w, "sleep") /\ ~SleeperAt(w) /\ haveSleeper' = TRUE
      /\ work' = work /\ wake' = wake /\ exit' = exit
  BY DEF Sleep, Park
<1>2. pc'[w] = "sleep" /\ \A v \in Worker \ {w} : pc'[v] = pc[v]
  BY <1>1, ParkEffect
<1>3. PICK top \in work : IsTop(top, work) /\ deadline' = [deadline EXCEPT ![w] = top.t]
  BY DEF Sleep
<1>4. TypeOK' /\ InflightIsExact'
  <2>1. deadline' \in [Worker -> Time]
    BY <1>3 DEF TypeOK, Work
  <2>2. QED
    BY <1>1, <2>1, ParkPreservesTypes
<1>5. OneSleeper'
  BY <1>1, <1>2 DEF OneSleeper, Sleeping, SleeperAt
<1>6. \A x \in work : deadline'[w] <= x.t
  BY <1>3 DEF IsTop, Before, TypeOK, Work, Time
<1>7. \A v \in Worker : pc'[v] = "sleep" => v = w
  BY <1>2, <1>5 DEF OneSleeper, Sleeping
<1>8. SleeperCovers'
  BY <1>1, <1>6, <1>7 DEF SleeperCovers
<1>9. NoneExitedBeforeExit' /\ WakerRuns' /\ CvCovers'
  BY <1>1, <1>2 DEF NoneExitedBeforeExit, WakerRuns, AtLoop, CvCovers
<1>10. QED
  BY <1>4, <1>5, <1>8, <1>9

(* A worker takes the first function of the queue.  If there was no        *)
(* sleeper it signals for the rest; if there was one, the rest is due no   *)
(* earlier than what the sleeper waits for.                                *)
LEMMA PopPreserves ==
  ASSUME IInv, NEW w \in Worker, Pop(w)
  PROVE  IInv'
<1> USE DEF IInv
<1>1. /\ AtLoop(w) /\ ~exit /\ work' \subseteq work /\ haveSleeper' = SleeperAt(w)
      /\ pc' = [pc EXCEPT ![w] = "run"] /\ numInflight' = InflightAt(w) + 1
      /\ wake' = [wake EXCEPT ![w] = Handoff(w, work')]
      /\ UNCHANGED <<lastIdx, exit, deadline, now>>
  BY DEF Pop
<1>2. pc'[w] = "run" /\ \A v \in Worker \ {w} : pc'[v] = pc[v]
  BY <1>1 DEF TypeOK, Actor
<1>3. InflightIsExact'
  <2>1. IsFiniteSet(Busy) /\ numInflight = Cardinality(Busy)
    BY CountBound DEF InflightIsExact, Busy
  <2>2. Busy' = Busy \cup {w}
    BY <1>2 DEF Busy
  <2>3. pc[w] = "enter" <=> w \in Busy
    BY <1>1 DEF Busy, AtLoop
  <2>4. Cardinality(Busy') = IF w \in Busy THEN Cardinality(Busy) ELSE Cardinality(Busy) + 1
    BY <2>1, <2>2, FS_AddElement
  <2>5. Cardinality(Busy) \in Nat
    BY <2>1, FS_CardinalityType
  <2>6. numInflight' = Cardinality(Busy')
    BY <1>1, <2>1, <2>3, <2>4, <2>5 DEF InflightAt
  <2>7. QED
    BY <2>6 DEF InflightIsExact, Busy
<1>4. TypeOK'
  <2>1. numInflight' \in 0..Cardinality(Worker)
    BY <1>3, CountBound DEF InflightIsExact
  <2>2. job' \in [Worker -> 0..MaxIdx]
    BY DEF Pop, TypeOK, Work, Index
  <2>3. wake' \in [Actor -> {"none", "cv", "sleeper"}]
    BY <1>1 DEF TypeOK, Handoff
  <2>4. haveSleeper' \in BOOLEAN
    BY <1>1 DEF TypeOK, SleeperAt
  <2>5. pc' \in [Actor -> WorkerPc \cup ClientPc] /\ \A v \in Worker : pc'[v] \in WorkerPc
    BY <1>1, <1>2 DEF TypeOK, WorkerPc
  <2>6. \A c \in Client : pc'[c] \in ClientPc
    BY <1>1, PoolAssumption DEF TypeOK
  <2>7. QED
    BY <1>1, <2>1, <2>2, <2>3, <2>4, <2>5, <2>6 DEF TypeOK
<1>5. OneSleeper'
  BY <1>1, <1>2, NotSleeping
<1>6. NoneExitedBeforeExit' /\ WakerRuns'
  BY <1>1, <1>2 DEF NoneExitedBeforeExit, WakerRuns, TypeOK
<1>7. SleeperCovers'
  <2> SUFFICES ASSUME NEW u \in Worker, pc'[u] = "sleep",
                      \A b \in Actor : wake'[b] # "sleeper"
               PROVE  \A x \in work' : deadline[u] <= x.t
    BY <1>1 DEF SleeperCovers
  <2>1. u # w /\ pc[u] = "sleep"
    BY <1>2
  <2>2. wake[w] # "sleeper"
    BY <1>1 DEF WakerRuns, AtLoop
  <2>3. QED
    BY <1>1, <2>1, <2>2 DEF SleeperCovers, TypeOK
<1>8. CvCovers'
  <2> SUFFICES ASSUME work' # {}, ~haveSleeper'
               PROVE  \E b \in Actor : wake'[b] = "cv"
    BY DEF CvCovers
  <2>1. wake'[w] = "cv"
    BY <1>1 DEF Handoff, TypeOK, Actor
  <2>2. QED
    BY <2>1 DEF Actor
<1>9. QED
  BY <1>3, <1>4, <1>5, <1>6, <1>7, <1>8

-----------------------------------------------------------------------------
\* And what a client does.
LEMMA ClientPreserves ==
  ASSUME IInv, NEW c \in Client, ClientStep(c)
  PROVE  IInv'
<1> USE DEF IInv
<1>1. wake' = wake
  BY DEF ClientStep, Wait, WaitRecheck, SetExit, NotifyAllWorkers, NotifySleeper, Join
<1>2. CASE Wait(c) \/ WaitRecheck(c) \/ Join(c) \/ SetExit(c)
  <2>1. \E to \in ClientPc : pc' = [pc EXCEPT ![c] = to]
    BY <1>2 DEF Wait, WaitRecheck, Join, SetExit, ClientPc
  <2>2. /\ pc' \in [Actor -> WorkerPc \cup ClientPc]
        /\ \A d \in Client : pc'[d] \in ClientPc
        /\ \A v \in Worker : pc'[v] = pc[v]
    BY <2>1, PoolAssumption DEF TypeOK, Actor
  <2>3. /\ UNCHANGED <<work, lastIdx, numInflight, haveSleeper, job, deadline, now>>
        /\ exit' \in BOOLEAN /\ (exit => exit')
    BY <1>2 DEF TypeOK, Wait, WaitRecheck, Join, SetExit
  <2>4. WakesOnly
    BY <1>1, <2>2, <2>3 DEF WakesOnly, TypeOK
  <2>5. QED
    BY <1>1, <2>4, WakesOnlyPreserves
<1>3. CASE NotifyAllWorkers(c)
  <2>1. WakesOnly
    BY <1>3, PoolAssumption
       DEF WakesOnly, NotifyAllWorkers, TypeOK, Actor, WorkerPc, ClientPc
  <2>2. QED
    BY <1>1, <2>1, WakesOnlyPreserves
<1>4. CASE NotifySleeper(c)
  <2>1. WakesOnly
    BY <1>4, PoolAssumption
       DEF WakesOnly, NotifySleeper, WaitingOn, TypeOK, Actor, WorkerPc, ClientPc
  <2>2. QED
    BY <1>1, <2>1, WakesOnlyPreserves
<1>5. QED
  BY <1>2, <1>3, <1>4 DEF ClientStep

\* And a sleeper whose time has come, or a wakeup without a notification.
LEMMA WakeupPreserves ==
  ASSUME IInv,
         \/ \E w \in Worker : SleeperTimeout(w)
         \/ \E a \in Actor : SpuriousWakeup(a)
  PROVE  IInv'
<1>1. WakesOnly /\ wake' = wake
  BY PoolAssumption
     DEF IInv, WakesOnly, SleeperTimeout, SpuriousWakeup, TypeOK, Actor, WorkerPc, ClientPc
<1>2. QED
  BY <1>1, WakesOnlyPreserves DEF IInv

\* And a function that returns.
LEMMA ReturnPreserves ==
  ASSUME IInv, NEW w \in Worker, Return(w)
  PROVE  IInv'
<1> USE DEF IInv
<1>1. /\ UNCHANGED <<work, lastIdx, numInflight, exit, haveSleeper, job, deadline, wake, now>>
      /\ pc[w] = "run" /\ wake[w] = "none" /\ pc' = [pc EXCEPT ![w] = "enter"]
  BY DEF Return
<1>2. pc'[w] = "enter" /\ \A v \in Actor \ {w} : pc'[v] = pc[v]
  BY <1>1 DEF TypeOK, Actor
<1>3. TypeOK'
  BY <1>1, <1>2, PoolAssumption DEF TypeOK, Actor, WorkerPc
<1>4. InflightIsExact'
  BY <1>1, <1>2, BusySame DEF Actor
<1>5. OneSleeper'
  <2>1. Sleeping' = Sleeping
    BY <1>1, <1>2 DEF Sleeping, Actor
  <2>2. QED
    BY <1>1, <2>1 DEF OneSleeper
<1>6. NoneExitedBeforeExit' /\ WakerRuns' /\ SleeperCovers'
  BY <1>1, <1>2 DEF NoneExitedBeforeExit, WakerRuns, SleeperCovers, Actor
<1>7. CvCovers'
  BY <1>2 DEF CvCovers, AtLoop
<1>8. QED
  BY <1>3, <1>4, <1>5, <1>6, <1>7

\* And the passing of time.
LEMMA TickPreserves ==
  ASSUME IInv, Tick \/ UNCHANGED vars
  PROVE  IInv'
<1> USE DEF IInv
<1>1. UNCHANGED <<work, lastIdx, numInflight, exit, haveSleeper, pc, job, deadline, wake>>
  BY DEF Tick, vars
<1>2. TypeOK'
  BY <1>1, PoolAssumption DEF TypeOK, Tick, vars, Time
<1>3. InflightIsExact'
  BY <1>1, BusySame
<1>4. OneSleeper' /\ NoneExitedBeforeExit' /\ WakerRuns' /\ SleeperCovers' /\ CvCovers'
  BY <1>1 DEF OneSleeper, Sleeping, NoneExitedBeforeExit, WakerRuns, SleeperCovers,
              CvCovers, AtLoop, Running
<1>5. QED
  BY <1>2, <1>3, <1>4

\* The invariant holds at first.
LEMMA InitIInv == Init => IInv
<1> SUFFICES ASSUME Init PROVE IInv
  OBVIOUS
<1>1. Cardinality(Worker) \in Nat
  BY PoolAssumption, FS_CardinalityType
<1>2. TypeOK
  <2>1. /\ pc \in [Actor -> WorkerPc \cup ClientPc]
        /\ \A w \in Worker : pc[w] \in WorkerPc
        /\ \A c \in Client : pc[c] \in ClientPc
    BY PoolAssumption DEF Init, Actor, WorkerPc, ClientPc
  <2>2. numInflight \in 0..Cardinality(Worker) /\ 0 \in 0..MaxIdx /\ 0 \in Time
    BY <1>1, PoolAssumption DEF Init, Time
  <2>3. QED
    BY <2>1, <2>2 DEF Init, TypeOK
<1>3. InflightIsExact
  <2>1. {w \in Worker : pc[w] \in {"run", "enter"}} = Worker
    BY DEF Init, Actor
  <2>2. QED
    BY <2>1 DEF Init, InflightIsExact
<1>4. OneSleeper /\ NoneExitedBeforeExit /\ WakerRuns /\ SleeperCovers /\ CvCovers
  BY DEF Init, OneSleeper, Sleeping, NoneExitedBeforeExit, WakerRuns, SleeperCovers,
         CvCovers, Actor
<1>5. QED
  BY <1>2, <1>3, <1>4 DEF IInv

\* Every step keeps it.
LEMMA NextIInv == IInv /\ [Next]_vars => IInv'
<1> SUFFICES ASSUME IInv, [Next]_vars PROVE IInv'
  OBVIOUS
<1>1. CASE \E w \in Worker : NextIteration(w)
  BY <1>1, ExitPreserves, WaitForWorkPreserves, PopPreserves, WaitBehindSleeperPreserves,
     SleepPreserves DEF NextIteration
<1>2. CASE \E w \in Worker : Return(w)
  BY <1>2, ReturnPreserves
<1>3. CASE \E w \in Worker : SleeperTimeout(w)
  BY <1>3, WakeupPreserves
<1>4. CASE \E c \in Client : ClientStep(c)
  BY <1>4, ClientPreserves
<1>5. CASE \E a \in Actor : NotifyOne(a)
  BY <1>5, NotifyOnePreserves
<1>6. CASE \E a \in Actor : SpuriousWakeup(a)
  BY <1>6, WakeupPreserves
<1>7. CASE \E a \in Actor : \E t \in Time : Schedule(a, t)
  BY <1>7, SchedulePreserves
<1>8. CASE Tick \/ UNCHANGED vars
  BY <1>8, TickPreserves
<1>9. QED
  BY <1>1, <1>2, <1>3, <1>4, <1>5, <1>6, <1>7, <1>8 DEF Next, WorkerStep

(* What the invariant is for.  If there is a sleeper it covers the queue,  *)
(* if there is none CvCovers does, and a worker that is neither busy, nor  *)
(* asleep, nor on its way to the mutex waits on cv_.                       *)
LEMMA IInvNoLostWakeup == IInv => NoLostWakeup
<1> SUFFICES ASSUME IInv, NEW top \in work, IsTop(top, work), ~exit, Running # Worker
             PROVE  AwakeOrComing \/ \E w \in Worker : pc[w] = "sleep" /\ deadline[w] <= top.t
  BY DEF NoLostWakeup
<1> USE DEF IInv
<1>1. CASE haveSleeper
  <2>1. PICK w \in Worker : pc[w] \in {"sleep", "sleepWoken"}
    BY <1>1 DEF OneSleeper, Sleeping
  <2>2. CASE pc[w] = "sleepWoken"
    BY <2>2 DEF AwakeOrComing, AtLoop
  <2>3. CASE pc[w] = "sleep" /\ deadline[w] <= top.t
    BY <2>3
  <2>4. CASE pc[w] = "sleep" /\ \E a \in Actor : wake[a] = "sleeper"
    BY <2>4 DEF AwakeOrComing, WaitingOn
  <2>5. QED
    BY <2>1, <2>2, <2>3, <2>4 DEF SleeperCovers
<1>2. CASE ~haveSleeper
  <2>1. CASE \E w \in Worker : AtLoop(w)
    BY <2>1 DEF AwakeOrComing
  <2>2. CASE ~\E w \in Worker : AtLoop(w)
    <3>1. \E a \in Actor : wake[a] = "cv"
      BY <1>2, <2>2 DEF CvCovers
    <3>2. PICK w \in Worker : pc[w] # "run"
      BY DEF Running
    <3>3. pc[w] = "cv"
      BY <1>2, <2>2, <3>2 DEF AtLoop, OneSleeper, Sleeping, NoneExitedBeforeExit, TypeOK, WorkerPc
    <3>4. QED
      BY <3>1, <3>3 DEF AwakeOrComing, WaitingOn
  <2>3. QED
    BY <2>1, <2>2
<1>3. QED
  BY <1>1, <1>2

-----------------------------------------------------------------------------
(* Every variable of the pool keeps its type; num_inflight_ is never        *)
(* negative and never exceeds the number of threads.                        *)
THEOREM TypeCorrect == Spec => []TypeOK
<1>1. Spec => []IInv
  BY InitIInv, NextIInv, PTL DEF Spec
<1>2. IInv => TypeOK
  BY DEF IInv
<1>3. QED
  BY <1>1, <1>2, PTL

(* At most one thread is in sleeper_cv_.wait_until, and have_sleeper_ says  *)
(* whether there is one; num_inflight_ counts the busy threads.             *)
THEOREM SleeperAndInflight == Spec => [](OneSleeper /\ InflightIsExact)
<1>1. Spec => []IInv
  BY InitIInv, NextIInv, PTL DEF Spec
<1>2. IInv => OneSleeper /\ InflightIsExact
  BY DEF IInv
<1>3. QED
  BY <1>1, <1>2, PTL

(* No notification is ever missing: a queue with work in it is looked at    *)
(* in time whenever some thread is not running a function.                  *)
THEOREM WakeupNeverLost == Spec => []NoLostWakeup
<1>1. Spec => []IInv
  BY InitIInv, NextIInv, PTL DEF Spec
<1>2. QED
  BY <1>1, IInvNoLostWakeup, PTL

(* Wait() returns only with the queue empty and no function running.        *)
THEOREM WaitCorrect == Spec => WaitDrains
<1>1. Spec => []IInv
  BY InitIInv, NextIInv, PTL DEF Spec
<1>2. IInv /\ [Next]_vars =>
        [\A c \in Client : pc[c] \in {"wait", "waitWoken"} /\ pc'[c] = "out"
           => work = {} /\ Running = {}]_vars
  <2> SUFFICES ASSUME IInv, Next, NEW c \in Client,
                      pc[c] \in {"wait", "waitWoken"}, pc'[c] = "out"
               PROVE  work = {} /\ Running = {}
    BY DEF vars
  <2>1. WaitRecheck(c) /\ Drained
    <3>1. CASE \E d \in Client : ClientStep(d)
      BY <3>1, PoolAssumption DEF ClientStep, Wait, WaitRecheck, SetExit, NotifyAllWorkers, NotifySleeper, Join,
                  WaitingOn, Drained, IInv, TypeOK, Actor
    <3>2. CASE \E w \in Worker : NextIteration(w)
      BY <3>2, PoolAssumption DEF NextIteration, Exit, WaitForWork, Pop, WaitBehindSleeper, Sleep,
                  Park, NotifyIdle, IInv, TypeOK, Actor
    <3>3. CASE \E w \in Worker : Return(w) \/ SleeperTimeout(w)
      BY <3>3, PoolAssumption DEF Return, SleeperTimeout, IInv, TypeOK, Actor
    <3>4. CASE \E a \in Actor : NotifyOne(a) \/ SpuriousWakeup(a) \/ \E t \in Time : Schedule(a, t)
      BY <3>4, PoolAssumption DEF NotifyOne, SpuriousWakeup, Schedule, WaitingOn, Woken, IInv, TypeOK, Actor
    <3>5. CASE Tick
      BY <3>5 DEF Tick
    <3>6. QED
      BY <3>1, <3>2, <3>3, <3>4, <3>5 DEF Next, WorkerStep
  <2>2. Busy = {}
    BY <2>1, CountBound, FS_EmptySet DEF Drained, IInv, InflightIsExact, Busy
  <2>3. QED
    BY <2>1, <2>2 DEF Drained, Busy, Running
<1>3. QED
  BY <1>1, <1>2, PTL DEF Spec, WaitDrains

-----------------------------------------------------------------------------
(* A function has one index, given when it is scheduled: it is in the queue *)
(* once or on one thread, never both and never on two.                      *)
EachOnce ==
  /\ \A x \in work : x.idx \in 1..lastIdx
  /\ \A x, y \in work : x.idx = y.idx => x = y
  /\ \A w \in Running : job[w] \in 1..lastIdx
  /\ \A v, w \in Running : job[v] = job[w] => v = w
  /\ \A x \in work, w \in Running : x.idx # job[w]

(* What the abstract executor sees of a step that neither schedules, starts *)
(* nor ends a function.                                                     *)
Quiet ==
  /\ UNCHANGED <<work, lastIdx, exit, now>>
  /\ Running' = Running
  /\ \A w \in Running : job'[w] = job[w]

\* A thread that parks changes nothing that a client sees.
LEMMA ParkIsQuiet ==
  ASSUME TypeOK, NEW w \in Worker, NEW where \in {"cv", "sleep", "exited"},
         AtLoop(w), Park(w, where)
  PROVE  Quiet
<1>1. pc'[w] = where /\ \A v \in Worker \ {w} : pc'[v] = pc[v]
  BY ParkEffect
<1>2. Running' = Running /\ w \notin Running
  BY <1>1 DEF Running, AtLoop
<1>3. \A v \in Running : job'[v] = job[v]
  BY <1>2 DEF Park, TypeOK, Running
<1>4. QED
  BY <1>2, <1>3 DEF Quiet, Park

\* A step pops a function, ends one, is a client's, or changes nothing DelayedExecutor
\* sees.
LEMMA StepKinds ==
  ASSUME TypeOK, [Next]_vars
  PROVE  \/ Quiet
         \/ \E w \in Worker : Pop(w) \/ Return(w)
         \/ \E a \in Actor, t \in Time : Schedule(a, t)
         \/ \E c \in Client : SetExit(c)
         \/ Tick
<1>1. CASE \E w \in Worker : Exit(w) \/ WaitForWork(w) \/ WaitBehindSleeper(w) \/ Sleep(w)
  BY <1>1, ParkIsQuiet DEF Exit, WaitForWork, WaitBehindSleeper, Sleep
<1>2. CASE \E w \in Worker : SleeperTimeout(w)
  BY <1>2 DEF SleeperTimeout, Quiet, Running, TypeOK, Actor
<1>3. CASE \E c \in Client : \/ Wait(c) \/ WaitRecheck(c) \/ NotifyAllWorkers(c)
                             \/ NotifySleeper(c) \/ Join(c)
  BY <1>3, PoolAssumption DEF Wait, WaitRecheck, NotifyAllWorkers, NotifySleeper, Join, WaitingOn, Quiet,
     Running, TypeOK, Actor
<1>4. CASE \E a \in Actor : NotifyOne(a) \/ SpuriousWakeup(a)
  BY <1>4, PoolAssumption DEF NotifyOne, SpuriousWakeup, WaitingOn, Woken, Quiet, Running, TypeOK, Actor
<1>5. CASE UNCHANGED vars
  BY <1>5 DEF vars, Quiet, Running
<1>6. QED
  BY <1>1, <1>2, <1>3, <1>4, <1>5 DEF Next, WorkerStep, NextIteration, ClientStep

\* A pop takes one function out of the queue.
LEMMA PopEffect ==
  ASSUME TypeOK, NEW w \in Worker, NEW top \in work, AtLoop(w),
         work' = work \ {top}, job' = [job EXCEPT ![w] = top.idx], pc' = [pc EXCEPT ![w] = "run"]
  PROVE  /\ Running' = Running \cup {w} /\ w \notin Running
         /\ job'[w] = top.idx /\ \A v \in Running : job'[v] = job[v]
<1>1. Running' = Running \cup {w} /\ w \notin Running
  BY DEF Running, AtLoop, TypeOK, Actor
<1>2. job'[w] = top.idx /\ \A v \in Running : job'[v] = job[v]
  BY <1>1 DEF Running, TypeOK
<1>3. QED
  BY <1>1, <1>2

\* No function is in two places.
LEMMA EachOnceIsKept ==
  ASSUME TypeOK, EachOnce, [Next]_vars
  PROVE  EachOnce'
<1>0. lastIdx \in Nat
  BY PoolAssumption DEF TypeOK
<1>1. CASE Quiet
  BY <1>1 DEF Quiet, EachOnce
<1>2. ASSUME NEW w \in Worker, Pop(w) PROVE EachOnce'
  <2>1. PICK top \in work : work' = work \ {top} /\ job' = [job EXCEPT ![w] = top.idx]
    BY <1>2 DEF Pop
  <2>2. lastIdx' = lastIdx /\ AtLoop(w) /\ pc' = [pc EXCEPT ![w] = "run"]
    BY <1>2 DEF Pop
  <2>3. /\ Running' = Running \cup {w} /\ w \notin Running
        /\ job'[w] = top.idx /\ \A v \in Running : job'[v] = job[v]
    BY <2>1, <2>2, PopEffect
  <2>4. QED
    BY <2>1, <2>2, <2>3 DEF EachOnce
<1>3. ASSUME NEW w \in Worker, Return(w) PROVE EachOnce'
  <2>1. UNCHANGED <<work, lastIdx, job>> /\ Running' \subseteq Running
    BY <1>3 DEF Return, Running, TypeOK, Actor
  <2>2. QED
    BY <2>1 DEF EachOnce
<1>4. ASSUME NEW a \in Actor, NEW t \in Time, Schedule(a, t) PROVE EachOnce'
  <2>1. /\ work' = work \cup {[t |-> t, idx |-> lastIdx + 1]}
        /\ lastIdx' = lastIdx + 1 /\ UNCHANGED <<job, pc>>
    BY <1>4 DEF Schedule
  <2>2. Running' = Running
    BY <2>1 DEF Running
  <2>3. QED
    BY <1>0, <2>1, <2>2 DEF EachOnce
<1>5. CASE \E c \in Client : SetExit(c)
  <2>1. UNCHANGED <<work, lastIdx, job>> /\ Running' = Running
    BY <1>5, PoolAssumption DEF SetExit, Running, TypeOK, Actor
  <2>2. QED
    BY <2>1 DEF EachOnce
<1>6. CASE Tick
  BY <1>6 DEF Tick, EachOnce, Running
<1>7. QED
  BY <1>1, <1>2, <1>3, <1>4, <1>5, <1>6, StepKinds

(* A worker that is not running leaves a thread free for the executor.      *)
LEMMA ThreadIsFree ==
  ASSUME NEW w \in Worker, w \notin Running
  PROVE  Cardinality({job[v] : v \in Running}) < Cardinality(Worker)
<1>1. Running \subseteq Worker \ {w}
  BY DEF Running
<1>2. IsFiniteSet(Worker \ {w}) /\ Cardinality(Worker \ {w}) = Cardinality(Worker) - 1
  BY PoolAssumption, FS_RemoveElement
<1>3. IsFiniteSet(Running) /\ Cardinality(Running) <= Cardinality(Worker) - 1
  BY <1>1, <1>2, FS_Subset
<1>4. /\ IsFiniteSet({job[v] : v \in Running})
      /\ Cardinality({job[v] : v \in Running}) <= Cardinality(Running)
  <2> DEFINE theirs == {job[v] : v \in Running}
             f == [v \in Running |-> job[v]]
  <2>1. f \in Surjection(Running, theirs)
    BY DEF Surjection
  <2>2. IsFiniteSet(theirs) /\ Cardinality(theirs) <= Cardinality(Running)
    BY <1>3, <2>1, FS_Surjection
  <2>3. QED
    BY <2>2
<1>5. Cardinality(Running) \in Nat /\ Cardinality(Worker) \in Nat
      /\ Cardinality({job[v] : v \in Running}) \in Nat
  BY <1>3, <1>4, PoolAssumption, FS_CardinalityType
<1>6. QED
  BY <1>3, <1>4, <1>5

\* The Cardinality of the instantiated module is the same.
LEMMA SameCardinality == \A S : Executor!Cardinality(S) = Cardinality(S)
  BY DEF Executor!Cardinality, Cardinality

\* Every step of the pool is one of DelayedExecutor, or a stutter.
LEMMA ExecutorStep ==
  ASSUME TypeOK, EachOnce, [Next]_vars
  PROVE  [Executor!Next]_(Executor!vars)
<1>1. CASE Quiet
  <2>1. {job[v] : v \in Running}' = {job[v] : v \in Running}
    BY <1>1 DEF Quiet
  <2>2. QED
    BY <1>1, <2>1 DEF Quiet, Executor!vars
<1>2. ASSUME NEW w \in Worker, Pop(w) PROVE Executor!Next
  <2>1. PICK top \in work :
          /\ IsTop(top, work) /\ top.t <= now
          /\ work' = work \ {top} /\ job' = [job EXCEPT ![w] = top.idx]
    BY <1>2 DEF Pop
  <2>2. UNCHANGED <<lastIdx, exit, now>> /\ ~exit /\ AtLoop(w) /\ pc' = [pc EXCEPT ![w] = "run"]
    BY <1>2 DEF Pop
  <2>3. /\ Running' = Running \cup {w} /\ w \notin Running
        /\ job'[w] = top.idx /\ \A v \in Running : job'[v] = job[v]
    BY <2>1, <2>2, PopEffect
  <2>4. {job[v] : v \in Running}' = {job[v] : v \in Running} \cup {top.idx}
    BY <2>3
  <2>5. Executor!First(top)
    BY <2>1 DEF Executor!First, IsTop, Before
  <2>6. Executor!Start(top)
    BY <2>1, <2>2, <2>3, <2>4, <2>5, ThreadIsFree, SameCardinality DEF Executor!Start
  <2>7. QED
    BY <2>6 DEF Executor!Next, Executor!StartFirst
<1>3. ASSUME NEW w \in Worker, Return(w) PROVE Executor!Next
  <2>1. UNCHANGED <<work, lastIdx, exit, job, now>> /\ w \in Running /\ Running' = Running \ {w}
    BY <1>3 DEF Return, Running, TypeOK, Actor
  <2>2. job[w] \in 1..MaxIdx
    BY <2>1, PoolAssumption DEF EachOnce, TypeOK
  <2>3. PICK i \in 1..MaxIdx : i = job[w]
    BY <2>2
  <2>4. i \in {job[v] : v \in Running}
    BY <2>1, <2>3
  <2>5. {job[v] : v \in Running}' = {job[v] : v \in Running} \ {i}
    BY <2>1, <2>3 DEF EachOnce
  <2>6. Executor!Finish(i)
    BY <2>1, <2>4, <2>5 DEF Executor!Finish
  <2>7. QED
    BY <2>6 DEF Executor!Next
<1>4. ASSUME NEW a \in Actor, NEW t \in Time, Schedule(a, t) PROVE Executor!Next
  <2>1. {job[v] : v \in Running}' = {job[v] : v \in Running}
    BY <1>4 DEF Schedule, Running
  <2>2. Executor!Submit(t)
    BY <1>4, <2>1 DEF Schedule, Executor!Submit
  <2>3. QED
    BY <2>2 DEF Executor!Next, Time
<1>5. ASSUME NEW c \in Client, SetExit(c) PROVE Executor!Next
  <2>1. Running' = Running /\ UNCHANGED <<work, lastIdx, job, now>> /\ exit' = TRUE
    BY <1>5, PoolAssumption DEF SetExit, Running, TypeOK, Actor
  <2>2. {job[v] : v \in Running}' = {job[v] : v \in Running}
    BY <2>1
  <2>3. Executor!Stop
    BY <2>1, <2>2 DEF Executor!Stop
  <2>4. QED
    BY <2>3 DEF Executor!Next
<1>6. CASE Tick
  <2>1. {job[v] : v \in Running}' = {job[v] : v \in Running}
    BY <1>6 DEF Tick, Running
  <2>2. Executor!Tick
    BY <1>6, <2>1 DEF Tick, Executor!Tick
  <2>3. QED
    BY <2>2 DEF Executor!Next
<1>7. QED
  BY <1>1, <1>2, <1>3, <1>4, <1>5, <1>6, StepKinds

\* The pool begins as DelayedExecutor does.
LEMMA InitExecutor == Init => EachOnce /\ Executor!Init
<1> SUFFICES ASSUME Init PROVE EachOnce /\ Executor!Init
  OBVIOUS
<1>1. Running = {}
  BY DEF Init, Running, Actor
<1>2. {job[v] : v \in Running} = {}
  BY <1>1
<1>3. EachOnce
  BY <1>1 DEF Init, EachOnce
<1>4. Executor!Init
  BY <1>2 DEF Init, Executor!Init
<1>5. QED
  BY <1>3, <1>4

(* The pool is the executor of DelayedExecutor as far as safety goes: each  *)
(* function starts once, on a thread that is free, not before its time, in  *)
(* the order of (time, order of scheduling), and none after the destructor  *)
(* has begun.                                                               *)
THEOREM IsAnExecutor == Spec => Executor!Init /\ [][Executor!Next]_(Executor!vars)
<1>1. Spec => []IInv
  BY InitIInv, NextIInv, PTL DEF Spec
<1>2. IInv => TypeOK
  BY DEF IInv
<1>3. Spec => []EachOnce
  BY <1>1, <1>2, InitExecutor, EachOnceIsKept, PTL DEF Spec
<1>4. QED
  BY <1>1, <1>2, <1>3, InitExecutor, ExecutorStep, PTL DEF Spec
=============================================================================
