----------------------------- MODULE ThreadPool -----------------------------
(***************************************************************************)
(* gitstatusd's thread pool: src/gitstatus/src/thread_pool.{h,cc}.         *)
(*                                                                         *)
(* A fixed set of workers serves a priority queue of functions, each with  *)
(* the earliest time at which it may run.  The code uses one mutex and     *)
(* three condition variables.  A region that holds the mutex is one step;  *)
(* every notification is sent AFTER the mutex is released and is therefore *)
(* a step of its own, so that everything another thread may do in between  *)
(* is explored.  Condition variables may wake a waiter for no reason.      *)
(***************************************************************************)
EXTENDS Naturals, FiniteSets

CONSTANTS
  Worker,    \* the pool's threads, Loop(1) .. Loop(num_threads)
  Client,    \* threads outside the pool that call Schedule, Wait, ~ThreadPool
  MaxIdx,    \* bound: how many functions are scheduled in a behaviour
  MaxTime    \* bound: the last instant of the clock

ASSUME PoolAssumption ==
  /\ IsFiniteSet(Worker) /\ Worker # {}
  /\ Worker \cap Client = {}
  /\ MaxIdx \in Nat /\ MaxTime \in Nat

VARIABLES
  work,         \* work_: the queued functions, [t: Time, idx: Index]
  lastIdx,      \* last_idx_
  numInflight,  \* num_inflight_
  exit,         \* exit_
  haveSleeper,  \* have_sleeper_
  pc,           \* where each thread is
  job,          \* idx of the function a worker runs (0: none)
  deadline,     \* the timeout of a worker's sleeper_cv_.wait_until
  wake,         \* the notify_one a thread still has to send
  now           \* Clock::now()

vars == <<work, lastIdx, numInflight, exit, haveSleeper, pc, job, deadline,
          wake, now>>

Actor == Worker \cup Client
Time == 0..MaxTime
Index == 1..MaxIdx
Work == [t : Time, idx : Index]

WorkerPc == {"enter",      \* before Next() locks the mutex
             "cv",         \* in cv_.wait
             "cvWoken",    \* out of it, the mutex not yet locked again
             "sleep",      \* in sleeper_cv_.wait_until
             "sleepWoken", \* out of it, the mutex not yet locked again
             "run",        \* Next() has returned a function
             "exited"}     \* Next() has returned nullptr
ClientPc == {"out", "wait", "waitWoken", "notifyAll", "notifyOne", "join", "joined"}

TypeOK ==
  /\ work \subseteq Work
  /\ lastIdx \in 0..MaxIdx
  /\ numInflight \in 0..Cardinality(Worker)
  /\ exit \in BOOLEAN /\ haveSleeper \in BOOLEAN
  /\ pc \in [Actor -> WorkerPc \cup ClientPc]
  /\ \A w \in Worker : pc[w] \in WorkerPc
  /\ \A c \in Client : pc[c] \in ClientPc
  /\ job \in [Worker -> 0..MaxIdx]
  /\ deadline \in [Worker -> Time]
  /\ wake \in [Actor -> {"none", "cv", "sleeper"}]
  /\ now \in Time

Init ==
  /\ work = {} /\ lastIdx = 0
  /\ numInflight = Cardinality(Worker)
  /\ exit = FALSE /\ haveSleeper = FALSE
  /\ pc = [a \in Actor |-> IF a \in Worker THEN "enter" ELSE "out"]
  /\ job = [w \in Worker |-> 0]
  /\ deadline = [w \in Worker |-> 0]
  /\ wake = [a \in Actor |-> "none"]
  /\ now = 0

-----------------------------------------------------------------------------
\* Work::operator<: the top of the queue is the least (t, idx).
Before(x, y) == x.t < y.t \/ (x.t = y.t /\ x.idx < y.idx)
IsTop(x, q) == x \in q /\ \A y \in q \ {x} : Before(x, y)

\* A thread may call Schedule from outside the pool, or from the function it runs.
\* Schedule signals only for work that became the first of the queue.
WakeFor(x, q) ==
  IF ~IsTop(x, q) THEN "none" ELSE IF haveSleeper THEN "sleeper" ELSE "cv"

MaySchedule(a) ==
  /\ wake[a] = "none"
  /\ pc[a] = "run" \/ (pc[a] = "out" /\ ~exit)

Schedule(a, t) ==
  /\ MaySchedule(a) /\ lastIdx < MaxIdx
  /\ LET w == [t |-> t, idx |-> lastIdx + 1] IN
       /\ work' = work \cup {w}
       /\ wake' = [wake EXCEPT ![a] = WakeFor(w, work')]
  /\ lastIdx' = lastIdx + 1
  /\ UNCHANGED <<numInflight, exit, haveSleeper, pc, job, deadline, now>>

\* notify_one on cv_ or on sleeper_cv_, after the mutex has been released.
WaitingOn(cv) == {w \in Worker : pc[w] = IF cv = "cv" THEN "cv" ELSE "sleep"}
Woken(cv) == IF cv = "cv" THEN "cvWoken" ELSE "sleepWoken"

NotifyOne(a) ==
  /\ wake[a] # "none"
  /\ \/ \E w \in WaitingOn(wake[a]) : pc' = [pc EXCEPT ![w] = Woken(wake[a])]
     \/ WaitingOn(wake[a]) = {} /\ pc' = pc
  /\ wake' = [wake EXCEPT ![a] = "none"]
  /\ UNCHANGED <<work, lastIdx, numInflight, exit, haveSleeper, job, deadline, now>>

-----------------------------------------------------------------------------
(* Next(), inside Loop.  The worker holds the mutex from the moment it     *)
(* enters or returns from a wait until it waits again or returns.          *)
AtLoop(w) == pc[w] \in {"enter", "cvWoken", "sleepWoken"}

\* num_inflight_ after the decrement on entry; have_sleeper_ after the reset
\* that follows wait_until.
InflightAt(w) == IF pc[w] = "enter" THEN numInflight - 1 ELSE numInflight
SleeperAt(w) == haveSleeper /\ pc[w] # "sleepWoken"

\* idle_cv_.notify_all() on entry, with the queue empty and nothing in flight.
NotifyIdle(w, p) ==
  IF pc[w] = "enter" /\ work = {} /\ InflightAt(w) = 0
  THEN [a \in Actor |-> IF p[a] = "wait" THEN "waitWoken" ELSE p[a]]
  ELSE p

\* The worker leaves the mutex by waiting or by exiting.
Park(w, where) ==
  /\ pc' = NotifyIdle(w, [pc EXCEPT ![w] = where])
  /\ numInflight' = InflightAt(w)
  /\ job' = [job EXCEPT ![w] = 0]
  /\ UNCHANGED <<work, lastIdx, exit, wake, now>>

Exit(w) ==
  /\ AtLoop(w) /\ exit
  /\ Park(w, "exited")
  /\ haveSleeper' = SleeperAt(w)
  /\ UNCHANGED deadline

WaitForWork(w) ==
  /\ AtLoop(w) /\ ~exit /\ work = {}
  /\ Park(w, "cv")
  /\ haveSleeper' = SleeperAt(w)
  /\ UNCHANGED deadline

\* The worker that took a function passes the rest of the queue on, unless a
\* sleeper is there to look after it.
NoHandoff(w, rest) == "none"
Handoff(w, rest) == IF rest # {} /\ ~SleeperAt(w) THEN "cv" ELSE "none"

Pop(w) ==
  /\ AtLoop(w) /\ ~exit
  /\ \E top \in work :
       /\ IsTop(top, work) /\ top.t <= now
       /\ work' = work \ {top}
       /\ job' = [job EXCEPT ![w] = top.idx]
  /\ numInflight' = InflightAt(w) + 1
  /\ pc' = [pc EXCEPT ![w] = "run"]
  /\ haveSleeper' = SleeperAt(w)
  /\ wake' = [wake EXCEPT ![w] = Handoff(w, work')]
  /\ UNCHANGED <<lastIdx, exit, deadline, now>>

WaitBehindSleeper(w) ==
  /\ AtLoop(w) /\ ~exit /\ SleeperAt(w)
  /\ \E top \in work : IsTop(top, work) /\ top.t > now
  /\ Park(w, "cv")
  /\ UNCHANGED <<haveSleeper, deadline>>

Sleep(w) ==
  /\ AtLoop(w) /\ ~exit /\ ~SleeperAt(w)
  /\ \E top \in work :
       /\ IsTop(top, work) /\ top.t > now
       /\ deadline' = [deadline EXCEPT ![w] = top.t]
  /\ Park(w, "sleep")
  /\ haveSleeper' = TRUE

\* f() returns and Loop calls Next() again.
Return(w) ==
  /\ pc[w] = "run" /\ wake[w] = "none"
  /\ pc' = [pc EXCEPT ![w] = "enter"]
  /\ UNCHANGED <<work, lastIdx, numInflight, exit, haveSleeper, job, deadline,
                 wake, now>>

\* wait_until gives up at its deadline.
SleeperTimeout(w) ==
  /\ pc[w] = "sleep" /\ deadline[w] <= now
  /\ pc' = [pc EXCEPT ![w] = "sleepWoken"]
  /\ UNCHANGED <<work, lastIdx, numInflight, exit, haveSleeper, job, deadline,
                 wake, now>>

\* A condition variable may wake any waiter.
SpuriousWakeup(a) ==
  /\ pc[a] \in {"cv", "sleep", "wait"}
  /\ pc' = [pc EXCEPT ![a] = CASE pc[a] = "cv" -> "cvWoken"
                               [] pc[a] = "sleep" -> "sleepWoken"
                               [] pc[a] = "wait" -> "waitWoken"]
  /\ UNCHANGED <<work, lastIdx, numInflight, exit, haveSleeper, job, deadline,
                 wake, now>>

-----------------------------------------------------------------------------
(* Wait() and ~ThreadPool(), called from outside the pool.                 *)
Drained == work = {} /\ numInflight = 0

Wait(c) ==
  /\ pc[c] = "out" /\ wake[c] = "none" /\ ~exit /\ ~Drained
  /\ pc' = [pc EXCEPT ![c] = "wait"]
  /\ UNCHANGED <<work, lastIdx, numInflight, exit, haveSleeper, job, deadline,
                 wake, now>>

WaitOnce(c) ==
  /\ pc[c] = "waitWoken"
  /\ pc' = [pc EXCEPT ![c] = "out"]
  /\ UNCHANGED <<work, lastIdx, numInflight, exit, haveSleeper, job, deadline,
                 wake, now>>

WaitRecheck(c) ==
  /\ pc[c] = "waitWoken"
  /\ pc' = [pc EXCEPT ![c] = IF Drained THEN "out" ELSE "wait"]
  /\ UNCHANGED <<work, lastIdx, numInflight, exit, haveSleeper, job, deadline,
                 wake, now>>

\* The object is destroyed once every other client is done with it.
SetExit(c) ==
  /\ ~exit /\ wake[c] = "none" /\ \A d \in Client : pc[d] = "out" /\ wake[d] = "none"
  /\ exit' = TRUE
  /\ pc' = [pc EXCEPT ![c] = "notifyAll"]
  /\ UNCHANGED <<work, lastIdx, numInflight, haveSleeper, job, deadline, wake, now>>

NotifyOneWorker(c) ==
  /\ pc[c] = "notifyAll"
  /\ \/ \E w \in WaitingOn("cv") : pc' = [pc EXCEPT ![c] = "notifyOne", ![w] = "cvWoken"]
     \/ WaitingOn("cv") = {} /\ pc' = [pc EXCEPT ![c] = "notifyOne"]
  /\ UNCHANGED <<work, lastIdx, numInflight, exit, haveSleeper, job, deadline,
                 wake, now>>

NotifyAllWorkers(c) ==
  /\ pc[c] = "notifyAll"
  /\ pc' = [a \in Actor |-> IF a = c THEN "notifyOne"
                            ELSE IF pc[a] = "cv" THEN "cvWoken" ELSE pc[a]]
  /\ UNCHANGED <<work, lastIdx, numInflight, exit, haveSleeper, job, deadline,
                 wake, now>>

NotifySleeper(c) ==
  /\ pc[c] = "notifyOne"
  /\ \/ \E w \in WaitingOn("sleeper") :
          pc' = [pc EXCEPT ![c] = "join", ![w] = "sleepWoken"]
     \/ WaitingOn("sleeper") = {} /\ pc' = [pc EXCEPT ![c] = "join"]
  /\ UNCHANGED <<work, lastIdx, numInflight, exit, haveSleeper, job, deadline,
                 wake, now>>

Join(c) ==
  /\ pc[c] = "join" /\ \A w \in Worker : pc[w] = "exited"
  /\ pc' = [pc EXCEPT ![c] = "joined"]
  /\ UNCHANGED <<work, lastIdx, numInflight, exit, haveSleeper, job, deadline,
                 wake, now>>

Tick ==
  /\ now < MaxTime
  /\ now' = now + 1
  /\ UNCHANGED <<work, lastIdx, numInflight, exit, haveSleeper, pc, job, deadline, wake>>

-----------------------------------------------------------------------------
NextIteration(w) ==
  Exit(w) \/ WaitForWork(w) \/ Pop(w) \/ WaitBehindSleeper(w) \/ Sleep(w)

WorkerStep(w) == NextIteration(w) \/ Return(w) \/ SleeperTimeout(w)

ClientStep(c) ==
  \/ Wait(c) \/ WaitRecheck(c)
  \/ SetExit(c) \/ NotifyAllWorkers(c) \/ NotifySleeper(c) \/ Join(c)

Next ==
  \/ \E w \in Worker : WorkerStep(w)
  \/ \E c \in Client : ClientStep(c)
  \/ \E a \in Actor : NotifyOne(a) \/ SpuriousWakeup(a) \/ \E t \in Time : Schedule(a, t)
  \/ Tick

Spec == Init /\ [][Next]_vars

(* Threads are scheduled, time passes and a thread that has unlocked the   *)
(* mutex goes on to send its notification.  Nothing obliges a client to    *)
(* call anything, a condition variable to wake a thread nobody notified,   *)
(* nor a function to return.                                               *)
FairSpec ==
  /\ Spec
  /\ \A w \in Worker : WF_vars(NextIteration(w)) /\ WF_vars(SleeperTimeout(w))
  /\ \A a \in Actor : WF_vars(NotifyOne(a))
  /\ \A c \in Client : WF_vars(WaitRecheck(c)) /\ WF_vars(NotifyAllWorkers(c))
                       /\ WF_vars(NotifySleeper(c)) /\ WF_vars(Join(c))
  /\ WF_vars(Tick)

-----------------------------------------------------------------------------
Running == {w \in Worker : pc[w] = "run"}
Sleeping == {w \in Worker : pc[w] \in {"sleep", "sleepWoken"}}

(* num_inflight_, from which Wait() decides that the pool is idle, counts  *)
(* exactly the threads that run a function or have not yet come back to    *)
(* Next() from one, whatever the order in which threads wake and lock.     *)
InflightIsExact ==
  numInflight = Cardinality({w \in Worker : pc[w] \in {"run", "enter"}})

(* thread_pool.h: "At most one thread can wait on this condvar at a time", *)
(* and have_sleeper_ says whether there is one: a Schedule that reads it   *)
(* never signals the wrong condition variable.                             *)
OneSleeper ==
  /\ \A v, w \in Sleeping : v = w
  /\ haveSleeper <=> Sleeping # {}

(* No lost wakeup: while the first function of the queue is due or will be *)
(* and a thread waits with nothing to do, somebody is bound to look at the *)
(* queue in time: a thread on its way to lock the mutex, a notification    *)
(* not yet delivered, or the sleeper, with a deadline no later than the    *)
(* function's time.  A running function does not count: it may be long.    *)
AwakeOrComing ==
  \/ \E w \in Worker : AtLoop(w)
  \/ \E a \in Actor : wake[a] = "cv" /\ WaitingOn("cv") # {}
  \/ \E a \in Actor : wake[a] = "sleeper" /\ WaitingOn("sleeper") # {}

NoLostWakeup ==
  \A top \in work :
    IsTop(top, work) /\ ~exit /\ Running # Worker =>
      AwakeOrComing \/ \E w \in Worker : pc[w] = "sleep" /\ deadline[w] <= top.t

(* Wait() "blocks until the work queue is empty and there are no currently *)
(* running functions": the thread that called it leaves it in such a state *)
(* and never through a wakeup that is early or stale.                      *)
WaitDrains ==
  [][\A c \in Client : pc[c] \in {"wait", "waitWoken"} /\ pc'[c] = "out"
       => work = {} /\ Running = {}]_vars

(* The pool is the executor of DelayedExecutor, its liveness included: a   *)
(* function that is due starts as long as one thread is free, although     *)
(* every notification is sent late and the functions that run before it    *)
(* may never return.                                                       *)
Executor == INSTANCE DelayedExecutor WITH
  NumThreads <- Cardinality(Worker),
  pending <- work,
  running <- {job[w] : w \in Running},
  last <- lastIdx,
  stopped <- exit

ImplementsExecutor == Executor!FairSpec

FunctionsReturn == \A w \in Worker : []<>(pc[w] # "run")

(* Unless some function never returns, nobody is blocked for ever: the     *)
(* thread that destroys the pool returns from the join, since no worker    *)
(* stays in a wait that nobody will ever signal again, and a thread in     *)
(* Wait() gets out, since the idle notification is not missed.             *)
CallsReturn ==
  /\ FunctionsReturn => \A c \in Client : pc[c] = "notifyAll" ~> pc[c] = "joined"
  /\ FunctionsReturn => \A c \in Client : pc[c] = "wait" ~> pc[c] = "out"
=============================================================================
