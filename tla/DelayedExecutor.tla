-------------------------- MODULE DelayedExecutor ---------------------------
(***************************************************************************)
(* What ThreadPool promises (src/gitstatus/src/thread_pool.h): a function  *)
(* scheduled for time t runs once, on one of the threads, at or after t,   *)
(* in the order of (t, order of scheduling), and as soon as a thread is    *)
(* free: no function waits for another one while a thread has nothing to   *)
(* do.  There are no locks here and no condition variables.                *)
(***************************************************************************)
EXTENDS Naturals, FiniteSets

CONSTANTS NumThreads, MaxIdx, MaxTime

VARIABLES
  pending,  \* functions scheduled and not started, [t, idx]
  running,  \* idx of the functions running
  last,     \* how many functions were ever scheduled
  stopped,  \* the destructor has begun
  now

vars == <<pending, running, last, stopped, now>>

Init == pending = {} /\ running = {} /\ last = 0 /\ stopped = FALSE /\ now = 0

Submit(t) ==
  /\ last < MaxIdx
  /\ last' = last + 1
  /\ pending' = pending \cup {[t |-> t, idx |-> last + 1]}
  /\ UNCHANGED <<running, stopped, now>>

First(x) == \A y \in pending \ {x} : x.t < y.t \/ (x.t = y.t /\ x.idx < y.idx)

Start(x) ==
  /\ ~stopped /\ Cardinality(running) < NumThreads
  /\ x.t <= now /\ First(x)
  /\ pending' = pending \ {x}
  /\ running' = running \cup {x.idx}
  /\ UNCHANGED <<last, stopped, now>>

StartFirst == \E x \in pending : Start(x)

Finish(i) ==
  /\ i \in running
  /\ running' = running \ {i}
  /\ UNCHANGED <<pending, last, stopped, now>>

Stop == stopped' = TRUE /\ UNCHANGED <<pending, running, last, now>>

Tick == now < MaxTime /\ now' = now + 1 /\ UNCHANGED <<pending, running, last, stopped>>

Next ==
  \/ \E t \in 0..MaxTime : Submit(t)
  \/ StartFirst
  \/ \E i \in 1..MaxIdx : Finish(i)
  \/ Stop \/ Tick

Spec == Init /\ [][Next]_vars

(* Functions may run for ever; the others start all the same. *)
FairSpec == Spec /\ WF_vars(StartFirst) /\ WF_vars(Tick)
=============================================================================
