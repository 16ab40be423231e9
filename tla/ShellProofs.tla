----------------------------- MODULE ShellProofs -----------------------------
(***************************************************************************)
(* What holds of the prompt in the shell, for every value of the           *)
(* constants.                                                              *)
(*                                                                         *)
(* Worker: an id has one request at the worker at most, none is forgotten, *)
(* replies come before their request is done, and so every step of the     *)
(* worker is one that LatestRequest allows.                                *)
(*                                                                         *)
(* PromptCycle: a step is a composition of operators on the state of the   *)
(* shell, so there is a lemma for each operator, which says what it keeps, *)
(* and one for each action, which puts them together.                      *)
(***************************************************************************)
EXTENDS Worker, PromptCycle, FiniteSetTheorems, SequenceTheorems, TLAPS

-----------------------------------------------------------------------------
(* Worker.                                                                 *)


(* Which ends of the pipes are open in which phase of a worker's life, and *)
(* what may be in them.                                                    *)
Phases ==
  /\ respFd <=> worker # "off"
  /\ ~respFd => toMaster = <<>> /\ \A i \in Id : requestMap[i] = Absent
  /\ reqFd => worker \in {"up", "dead"} /\ ~opening
  /\ opening => worker \in {"announced", "dead"} /\ toMaster = <<>>
  /\ worker = "up" => reqFd
  /\ worker # "up" => toWorker = <<>> /\ fds = {}
  /\ worker = "starting" => toMaster = <<>>
  /\ ~reqFd => /\ Len(toMaster) <= 1
               /\ \A x \in DOMAIN toMaster : toMaster[x].kind = "s"
               /\ \A i \in Id : requestMap[i] # InFlight
  /\ reqFd => \A x \in DOMAIN toMaster : toMaster[x].kind # "s"

(* A request of an id is in one place: on its way to the worker, at work   *)
(* there, or done and on its way back; and it is once in that place.       *)
Out(i) == reqFd /\ requestMap[i] # Absent
OnePlace(i) ==
  /\ \A x, y \in Requests(i) : x = y
  /\ Requests(i) # {} => Dones(i) = {} /\ Replies(i) = {} /\ At(i) = {}
  /\ Dones(i) # {} => At(i) = {}
  /\ Replies(i) # {} => Dones(i) # {} \/ At(i) # {}
  /\ Out(i) <=> Requests(i) # {} \/ Dones(i) # {} \/ At(i) # {}
DoneOnce(i) == \A x, y \in Dones(i) : x = y

(* How the numbers served, under way, waiting and asked follow each other. *)
Numbers(i) ==
  /\ \A x \in Requests(i) : served[i] < toWorker[x].n /\ toWorker[x].n <= asked[i]
  /\ requestMap[i] \in Num =>
       /\ requestMap[i] = asked[i] /\ served[i] < asked[i]
       /\ \A x \in Requests(i) : toWorker[x].n < asked[i]
  /\ requestMap[i] = Absent => served[i] = asked[i]
  /\ requestMap[i] = InFlight =>
       served[i] = asked[i] \/ \E x \in Requests(i) : toWorker[x].n = asked[i]

(* The jobs at work are those of the request served last, and inflight     *)
(* counts them.                                                            *)
Jobs ==
  /\ IsFiniteSet(fds)
  /\ \A i \in Id : inflight[i] = Cardinality(At(i))
  /\ \A job \in fds : job.n = served[job.id]

Alive == respFd /\ worker # "dead"
WorkerInv ==
  /\ WorkerTypeOK /\ Phases /\ Jobs /\ RepliesBeforeDone
  /\ \A i \in Id : DoneOnce(i)
  /\ Alive => \A i \in Id : OnePlace(i) /\ Numbers(i)
-----------------------------------------------------------------------------
(* Lemmas about the pipes.                                                 *)

(* What is taken from the head of a pipe moves the rest by one.            *)
LEMMA Shift ==
  ASSUME NEW S, NEW s \in Seq(S), s # <<>>
  PROVE  /\ Tail(s) \in Seq(S) /\ Head(s) \in S /\ Head(s) = s[1] /\ 1 \in DOMAIN s
         /\ \A x \in DOMAIN s : x \in Nat \ {0}
         /\ \A x \in DOMAIN Tail(s) : x \in Nat \ {0} /\ x + 1 \in DOMAIN s /\ Tail(s)[x] = s[x + 1]
         /\ \A x \in DOMAIN s : x = 1 \/ (x - 1 \in DOMAIN Tail(s) /\ Tail(s)[x - 1] = s[x])
<1>1. Tail(s) \in Seq(S) /\ Head(s) \in S
  BY HeadTailProperties
<1>2. QED
  BY <1>1, HeadTailProperties, LenProperties, EmptySeq

(* What is put into a pipe is behind all the rest.                         *)
LEMMA Put ==
  ASSUME NEW S, NEW s \in Seq(S), NEW e \in S
  PROVE  /\ s \o <<e>> = Append(s, e) /\ Append(s, e) \in Seq(S)
         /\ DOMAIN Append(s, e) = DOMAIN s \cup {Len(s) + 1}
         /\ \A x \in DOMAIN s : x \in Nat /\ x < Len(s) + 1 /\ Append(s, e)[x] = s[x]
         /\ Append(s, e)[Len(s) + 1] = e
<1>1. s \o <<e>> = Append(s, e) /\ Append(s, e) \in Seq(S)
  BY AppendIsConcat, AppendProperties
<1>2. QED
  BY <1>1, AppendProperties, LenProperties

(* The kinds of responses.                                                 *)
LEMMA Kinds ==
  /\ [kind |-> "s"] \in Response
  /\ \A i \in Id : Done(i) \in Response /\ Done(i).kind = "d" /\ Done(i).id = i
  /\ \A i \in Id, n \in Num : [kind |-> "e", id |-> i, n |-> n] \in Response
  /\ \A r \in Response : r.kind \in {"d", "e"} => r.id \in Id
  /\ \A r \in Response : r.kind = "e" => r.n \in Num
  /\ \A r \in Response : r.kind \in {"s", "d", "e"}
BY DEF Response, Done

(* Numbers of requests, and what request_map may hold.                     *)
LEMMA Marks ==
  /\ Absent # InFlight /\ Absent \notin Num /\ InFlight \notin Num
  /\ MaxReq \in Nat /\ MaxJobs \in Nat /\ MaxStarts \in Nat /\ IsFiniteSet(Id)
  /\ \A n \in Num : n \in Nat /\ n > 0 /\ n <= MaxReq
  /\ \A n \in 0..MaxReq : n < MaxReq => n + 1 \in Num
BY WorkerAssumption DEF Num

\* The invariant holds at first.
LEMMA InitIsIn == WorkerInit => WorkerInv
<1> SUFFICES ASSUME WorkerInit PROVE WorkerInv
  OBVIOUS
<1>1. WorkerTypeOK
  <2>1. Zeros \in [Id -> 0..MaxReq] /\ Zeros \in [Id -> 0..MaxJobs] /\ 0 \in 0..MaxStarts
    BY Marks DEF Zeros
  <2>2. <<>> \in Seq(Request) /\ <<>> \in Seq(Response)
    BY EmptySeq
  <2>3. QED
    BY <2>1, <2>2 DEF WorkerInit, WorkerTypeOK
<1>2. Phases
  BY Marks, EmptySeq DEF WorkerInit, Phases
<1>3. Jobs
  BY FS_EmptySet DEF WorkerInit, Jobs, At, Zeros
<1>4. RepliesBeforeDone /\ \A i \in Id : DoneOnce(i)
  BY DEF WorkerInit, RepliesBeforeDone, Replies, Dones, DoneOnce
<1>5. QED
  BY <1>1, <1>2, <1>3, <1>4 DEF WorkerInit, WorkerInv, Alive
-----------------------------------------------------------------------------
(* The actions keep the invariant.                                         *)

(* Shutting a worker down leaves nothing of it.                            *)
LEMMA StopKeeps == ASSUME WorkerInv, StopEffect PROVE WorkerInv'
<1>1. WorkerTypeOK'
  <2>1. Zeros \in [Id -> 0..MaxJobs]
    BY Marks DEF Zeros
  <2>2. <<>> \in Seq(Request) /\ <<>> \in Seq(Response)
    BY EmptySeq
  <2>3. QED
    BY <2>1, <2>2 DEF WorkerInv, StopEffect, WorkerTypeOK
<1>2. Phases'
  BY Marks, EmptySeq DEF StopEffect, Phases
<1>3. Jobs'
  BY FS_EmptySet DEF StopEffect, Jobs, At, Zeros
<1>4. RepliesBeforeDone' /\ \A i \in Id : DoneOnce(i)'
  BY DEF StopEffect, RepliesBeforeDone, Replies, Dones, DoneOnce
<1>5. QED
  BY <1>1, <1>2, <1>3, <1>4 DEF StopEffect, WorkerInv, Alive

\* Starting a worker keeps the invariant.
LEMMA StartKeeps == ASSUME WorkerInv, Start PROVE WorkerInv'
<1>1. WorkerTypeOK'
  BY Marks DEF WorkerInv, Start, WorkerTypeOK, Zeros
<1>2. toMaster = <<>> /\ toWorker = <<>> /\ fds = {} /\ ~reqFd /\ ~opening
      /\ \A i \in Id : requestMap[i] = Absent
  BY DEF WorkerInv, Start, Phases
<1>3. Phases'
  BY <1>2, Marks DEF Start, Phases
<1>4. Jobs'
  BY <1>2 DEF WorkerInv, Start, Jobs, At
<1>5. RepliesBeforeDone' /\ \A i \in Id : DoneOnce(i)'
  BY <1>2 DEF Start, RepliesBeforeDone, Replies, Dones, DoneOnce
<1>6. ASSUME NEW i \in Id PROVE OnePlace(i)' /\ Numbers(i)'
  BY <1>2, Marks DEF Start, OnePlace, Numbers, Out, Requests, Dones, Replies, At, Zeros
<1>7. QED
  BY <1>1, <1>3, <1>4, <1>5, <1>6 DEF WorkerInv

(* A request asked for is written to the fifo or left in request_map.      *)
LEMMA Enqueued ==
  ASSUME WorkerInv, respFd, ~opening, NEW i \in Id, asked[i] < MaxReq, Enqueue(i, asked[i] + 1),
         asked' = [asked EXCEPT ![i] = @ + 1], UNCHANGED <<served, worker, reqFd>>
  PROVE  /\ toWorker' \in Seq(Request) /\ requestMap' \in [Id -> {Absent, InFlight} \cup Num]
         /\ asked' \in [Id -> 0..MaxReq]
         /\ ~reqFd => \A j \in Id : requestMap'[j] # InFlight
         /\ worker # "up" => toWorker' = <<>>
         /\ Alive => \A j \in Id :
              /\ Numbers(j)'
              /\ \A x, y \in Requests(j)' : x = y
              /\ \/ /\ Requests(j)' = Requests(j)
                    /\ Out(j)' <=> Out(j)
                 \/ ~Out(j) /\ Out(j)' /\ Requests(j)' # {}
<1> DEFINE n == asked[i] + 1
<1>1. n \in Num /\ asked[i] \in Nat /\ asked' \in [Id -> 0..MaxReq]
  BY Marks DEF WorkerInv, WorkerTypeOK, Num
<1>2. toWorker \in Seq(Request) /\ requestMap \in [Id -> {Absent, InFlight} \cup Num]
  BY DEF WorkerInv, WorkerTypeOK
<1> DEFINE r == [id |-> i, n |-> n]
<1>3. r \in Request
  BY <1>1 DEF Request
<1>4. CASE ~(reqFd /\ requestMap[i] = Absent)
  <2>1. toWorker' = toWorker /\ requestMap' = [requestMap EXCEPT ![i] = n]
    BY <1>4 DEF Enqueue
  <2>2. ASSUME Alive, NEW j \in Id
        PROVE  /\ Numbers(j)' /\ Requests(j)' = Requests(j)
               /\ \A x, y \in Requests(j)' : x = y
               /\ Out(j)' <=> Out(j)
    <3>1. Numbers(j) /\ \A x, y \in Requests(j) : x = y
      BY <2>2 DEF WorkerInv, OnePlace
    <3>2. Requests(j)' = Requests(j)
      BY <2>1 DEF Requests
    <3>3. Out(j)' <=> Out(j)
      BY <1>1, <1>2, <1>4, <2>1, Marks DEF Out
    <3>4. asked[j] \in Nat /\ served[j] \in Nat /\ \A x \in Requests(j) : toWorker[x].n \in Nat
      <4>1. asked[j] \in Nat /\ served[j] \in Nat
        BY Marks DEF WorkerInv, WorkerTypeOK
      <4>2. \A x \in DOMAIN toWorker : toWorker[x] \in Request
        BY <1>2, ElementOfSeq, LenProperties
      <4>3. QED
        BY <4>1, <4>2, Marks DEF Requests, Request
    <3>5. Numbers(j)'
      <4>1. CASE j = i
        BY <1>1, <1>2, <2>1, <3>1, <3>2, <3>4, <4>1, Marks DEF WorkerInv, WorkerTypeOK, Numbers
      <4>2. CASE j # i
        BY <1>1, <1>2, <2>1, <3>1, <3>2, <4>2 DEF WorkerInv, WorkerTypeOK, Numbers
      <4>3. QED
        BY <4>1, <4>2
    <3>6. QED
      BY <3>1, <3>2, <3>3, <3>5
  <2>3. QED
    BY <1>1, <1>2, <2>1, <2>2, Marks DEF WorkerInv, Phases
<1>5. CASE reqFd /\ requestMap[i] = Absent
  <2>1. requestMap' = [requestMap EXCEPT ![i] = InFlight]
    BY <1>5 DEF Enqueue
  <2>2. CASE worker = "dead"
    BY <1>1, <1>2, <1>5, <2>1, <2>2 DEF Enqueue, Sent, Alive, WorkerInv, Phases
  <2>3. CASE worker # "dead"
    <3>1. toWorker' = Append(toWorker, r) /\ toWorker' \in Seq(Request)
      <4>1. toWorker \o <<r>> = Append(toWorker, r) /\ Append(toWorker, r) \in Seq(Request)
        BY <1>2, <1>3, Put
      <4>2. QED
        BY <1>5, <2>3, <4>1 DEF Enqueue, Sent
    <3> DEFINE last == Len(toWorker) + 1
    <3> HIDE DEF r
    <3>2. /\ DOMAIN toWorker' = DOMAIN toWorker \cup {last}
          /\ \A x \in DOMAIN toWorker : toWorker'[x] = toWorker[x] /\ x < last
          /\ toWorker'[last] = r
      BY <1>2, <1>3, <3>1, Put
    <3>3. Alive
      BY <2>3 DEF Alive
    <3>4. OnePlace(i) /\ Numbers(i) /\ ~Out(i) /\ Requests(i) = {}
      BY <1>5, <3>3 DEF WorkerInv, OnePlace, Out
    <3>5. Requests(i)' = {last} /\ Out(i)'
      <4>1. Out(i)'
        BY <1>2, <1>5, <2>1, Marks DEF Out
      <4>2. \A x \in DOMAIN toWorker : toWorker[x].id # i
        BY <3>4 DEF Requests
      <4>3. QED
        BY <3>2, <4>1, <4>2 DEF Requests, r
    <3>6. Numbers(i)'
      BY <1>1, <1>2, <2>1, <3>2, <3>4, <3>5, Marks DEF Numbers, r, WorkerInv, WorkerTypeOK
    <3>7. ASSUME NEW j \in Id, j # i
          PROVE  /\ Requests(j)' = Requests(j) /\ (Out(j)' <=> Out(j)) /\ Numbers(j)'
                 /\ \A x, y \in Requests(j)' : x = y
      <4>1. Numbers(j) /\ OnePlace(j)
        BY <3>3 DEF WorkerInv
      <4>2. Requests(j)' = Requests(j) /\ \A x \in Requests(j) : toWorker'[x] = toWorker[x]
        BY <3>2, <3>7 DEF Requests, r
      <4>3. requestMap'[j] = requestMap[j] /\ asked'[j] = asked[j] /\ served'[j] = served[j]
        BY <1>2, <2>1, <3>7 DEF WorkerInv, WorkerTypeOK
      <4>4. QED
        BY <4>1, <4>2, <4>3 DEF Numbers, Out, OnePlace
    <3>8. worker = "up"
      BY <1>5, <2>3 DEF WorkerInv, Phases
    <3>9. QED
      BY <1>1, <1>2, <1>5, <2>1, <3>1, <3>4, <3>5, <3>6, <3>7, <3>8
  <2>4. QED
    BY <2>2, <2>3
<1>6. QED
  BY <1>4, <1>5

\* So does a request, sent or kept.
LEMMA InvokeKeeps == ASSUME WorkerInv, NEW i \in Id, Invoke(i) PROVE WorkerInv'
<1>1. /\ respFd /\ ~opening /\ asked[i] < MaxReq /\ Enqueue(i, asked[i] + 1)
      /\ asked' = [asked EXCEPT ![i] = @ + 1]
      /\ UNCHANGED <<respFd, reqFd, opening, worker, toMaster, fds, inflight, served, shown,
                     starts>>
  BY DEF Invoke
<1>2. /\ toWorker' \in Seq(Request) /\ requestMap' \in [Id -> {Absent, InFlight} \cup Num]
      /\ asked' \in [Id -> 0..MaxReq]
      /\ ~reqFd => \A j \in Id : requestMap'[j] # InFlight
      /\ worker # "up" => toWorker' = <<>>
      /\ Alive => \A j \in Id :
           /\ Numbers(j)'
           /\ \A x, y \in Requests(j)' : x = y
           /\ \/ /\ Requests(j)' = Requests(j)
                 /\ Out(j)' <=> Out(j)
              \/ ~Out(j) /\ Out(j)' /\ Requests(j)' # {}
  BY <1>1, Enqueued
<1>3. WorkerTypeOK'
  BY <1>1, <1>2 DEF WorkerInv, WorkerTypeOK
<1>4. Phases'
  BY <1>1, <1>2 DEF WorkerInv, Phases
<1>5. Jobs' /\ RepliesBeforeDone' /\ \A j \in Id : DoneOnce(j)'
  BY <1>1 DEF WorkerInv, Jobs, At, RepliesBeforeDone, Replies, Dones, DoneOnce
<1>6. ASSUME Alive, NEW j \in Id PROVE OnePlace(j)'
  <2>1. OnePlace(j) /\ Dones(j)' = Dones(j) /\ Replies(j)' = Replies(j) /\ At(j)' = At(j)
    BY <1>1, <1>6 DEF WorkerInv, Dones, Replies, At
  <2>2. Replies(j) # {} => Dones(j) # {} \/ At(j) # {}
    BY <1>6 DEF WorkerInv, OnePlace
  <2>3. QED
    BY <1>2, <1>6, <2>1, <2>2 DEF OnePlace
<1>7. QED
  BY <1>1, <1>2, <1>3, <1>4, <1>5, <1>6 DEF WorkerInv, Alive

(* What the master takes from the response pipe.                           *)
LEMMA Taken ==
  ASSUME WorkerInv, toMaster # <<>>, toMaster' = Tail(toMaster), served' = served
  PROVE  /\ toMaster' \in Seq(Response) /\ Head(toMaster) = toMaster[1] /\ 1 \in DOMAIN toMaster
         /\ Len(toMaster') = Len(toMaster) - 1 /\ Head(toMaster) \in Response
         /\ \A x \in DOMAIN toMaster : x \in Nat /\ x >= 1
         /\ \A x \in DOMAIN toMaster' : x + 1 \in DOMAIN toMaster /\ toMaster'[x] = toMaster[x + 1]
         /\ \A i \in Id : /\ DoneOnce(i)'
                          /\ Dones(i)' # {} => Dones(i) # {}
                          /\ Dones(i) \subseteq {1} \/ Dones(i)' # {}
                          /\ Replies(i)' # {} => Replies(i) # {}
         /\ RepliesBeforeDone'
<1>1. toMaster \in Seq(Response)
  BY DEF WorkerInv, WorkerTypeOK
<1>2. /\ toMaster' \in Seq(Response) /\ Head(toMaster) = toMaster[1] /\ 1 \in DOMAIN toMaster
      /\ Head(toMaster) \in Response
      /\ \A x \in DOMAIN toMaster : x \in Nat \ {0}
      /\ \A x \in DOMAIN toMaster' : x \in Nat \ {0} /\ x + 1 \in DOMAIN toMaster
                                     /\ toMaster'[x] = toMaster[x + 1]
      /\ \A x \in DOMAIN toMaster :
           x = 1 \/ (x - 1 \in DOMAIN toMaster' /\ toMaster'[x - 1] = toMaster[x])
  BY <1>1, Shift
<1>3. Len(toMaster') = Len(toMaster) - 1
  BY <1>1, HeadTailProperties
<1>4. ASSUME NEW i \in Id
      PROVE  /\ \A x \in Dones(i)' : x \in Nat /\ x + 1 \in Dones(i)
             /\ \A x \in Replies(i)' : x \in Nat /\ x + 1 \in Replies(i)
             /\ \A x \in Dones(i) : x = 1 \/ x - 1 \in Dones(i)'
  BY <1>2 DEF Dones, Replies
<1>5. ASSUME NEW i \in Id
      PROVE  /\ DoneOnce(i)'
             /\ Dones(i)' # {} => Dones(i) # {}
             /\ Dones(i) \subseteq {1} \/ Dones(i)' # {}
             /\ Replies(i)' # {} => Replies(i) # {}
  BY <1>4 DEF WorkerInv, DoneOnce
<1>6. ASSUME NEW i \in Id, NEW x \in Replies(i)'
      PROVE  toMaster'[x].n = served'[i] /\ \A y \in Dones(i)' : x < y
  <2>1. x \in DOMAIN toMaster' /\ toMaster'[x] = toMaster[x + 1]
    BY <1>2, <1>6 DEF Replies
  <2>2. x \in Nat /\ x + 1 \in Replies(i) /\ toMaster[x + 1].n = served[i]
    BY <1>4, <1>6 DEF WorkerInv, RepliesBeforeDone
  <2>3. \A y \in Dones(i)' : y \in Nat /\ x + 1 < y + 1
    BY <1>4, <2>2 DEF WorkerInv, RepliesBeforeDone
  <2>4. QED
    BY <2>1, <2>2, <2>3
<1>7. RepliesBeforeDone'
  BY <1>6 DEF RepliesBeforeDone
<1>8. \A x \in DOMAIN toMaster : x \in Nat /\ x >= 1
  BY <1>2
<1>9. QED
  BY <1>2, <1>3, <1>5, <1>7, <1>8

\* And taking note of a reply.
LEMMA ReceiveReplyKeeps == ASSUME WorkerInv, ReceiveReply PROVE WorkerInv'
<1> DEFINE r == Head(toMaster)
           j == Chained[r.id]
<1>1. /\ respFd /\ ~opening /\ toMaster # <<>> /\ r.kind = "e"
      /\ shown' = [shown EXCEPT ![r.id] = r.n] /\ toMaster' = Tail(toMaster)
      /\ UNCHANGED <<respFd, reqFd, opening, worker, fds, inflight, served, starts>>
  BY DEF ReceiveReply, Responds
<1>2. /\ toMaster' \in Seq(Response) /\ r = toMaster[1] /\ 1 \in DOMAIN toMaster
      /\ Len(toMaster') = Len(toMaster) - 1 /\ r \in Response
      /\ \A x \in DOMAIN toMaster : x \in Nat /\ x >= 1
      /\ \A x \in DOMAIN toMaster' : x + 1 \in DOMAIN toMaster /\ toMaster'[x] = toMaster[x + 1]
      /\ \A i \in Id : /\ DoneOnce(i)'
                       /\ Dones(i)' # {} => Dones(i) # {}
                       /\ Dones(i) \subseteq {1} \/ Dones(i)' # {}
                       /\ Replies(i)' # {} => Replies(i) # {}
      /\ RepliesBeforeDone'
  BY <1>1, Taken
<1>3. r.id \in Id /\ r.n \in Num /\ j \in Id \cup {None} /\ reqFd
  <2>1. r.id \in Id /\ r.n \in Num
    BY <1>1, <1>2, Kinds
  <2>2. reqFd
    BY <1>1, <1>2 DEF WorkerInv, Phases
  <2>3. QED
    BY <2>1, <2>2, WorkerAssumption
<1>4. shown' \in [Id -> 0..MaxReq]
  BY <1>1, <1>3, Marks DEF WorkerInv, WorkerTypeOK
<1>5. /\ toWorker' \in Seq(Request) /\ requestMap' \in [Id -> {Absent, InFlight} \cup Num]
      /\ asked' \in [Id -> 0..MaxReq]
      /\ worker # "up" => toWorker' = <<>>
      /\ Alive => \A i \in Id :
           /\ Numbers(i)'
           /\ \A x, y \in Requests(i)' : x = y
           /\ \/ /\ Requests(i)' = Requests(i)
                 /\ Out(i)' <=> Out(i)
              \/ ~Out(i) /\ Out(i)' /\ Requests(i)' # {}
  <2>1. CASE j # None /\ asked[j] < MaxReq
    <3>1. j \in Id /\ asked' = [asked EXCEPT ![j] = @ + 1] /\ Enqueue(j, asked[j] + 1)
      BY <1>3, <2>1 DEF ReceiveReply
    <3>2. QED
      BY <1>1, <2>1, <3>1, Enqueued
  <2>2. CASE ~(j # None /\ asked[j] < MaxReq)
    <3>1. UNCHANGED <<asked, requestMap, toWorker>>
      BY <2>2 DEF ReceiveReply
    <3>2. QED
      BY <1>1, <3>1 DEF WorkerInv, WorkerTypeOK, Phases, Numbers, OnePlace, Requests, Out
  <2>3. QED
    BY <2>1, <2>2
<1>6. WorkerTypeOK'
  BY <1>1, <1>2, <1>4, <1>5 DEF WorkerInv, WorkerTypeOK
<1>7. Phases'
  BY <1>1, <1>2, <1>3, <1>5 DEF WorkerInv, Phases
<1>8. Jobs'
  BY <1>1 DEF WorkerInv, Jobs, At
<1>9. ASSUME Alive, NEW i \in Id PROVE OnePlace(i)'
  <2>1. OnePlace(i) /\ At(i)' = At(i)
    BY <1>1, <1>9 DEF WorkerInv, At
  <2>2. Dones(i) # {} => Dones(i)' # {}
    BY <1>1, <1>2 DEF Dones
  <2>3. Dones(i)' # {} => Dones(i) # {}
    BY <1>2
  <2>4. Replies(i)' # {} => Replies(i) # {}
    BY <1>2
  <2>5. Replies(i) # {} => Dones(i) # {} \/ At(i) # {}
    BY <2>1 DEF OnePlace
  <2>6. QED
    BY <1>5, <1>9, <2>1, <2>2, <2>3, <2>4, <2>5 DEF OnePlace
<1>10. QED
  BY <1>1, <1>2, <1>5, <1>6, <1>7, <1>8, <1>9 DEF WorkerInv, Alive

(* A request that is done makes room for the one that waits.                *)
LEMMA DoneTaken ==
  ASSUME WorkerInv, respFd, ~opening, toMaster # <<>>, Head(toMaster).kind = "d",
         NEW i \in Id, Head(toMaster).id = i,
         ~(worker = "dead" /\ requestMap[i] \in Num), SendPending(i), toMaster' = Tail(toMaster),
         UNCHANGED <<respFd, reqFd, opening, worker, fds, inflight, asked, served, shown, starts>>
  PROVE  WorkerInv'
<1>1. /\ toMaster' \in Seq(Response) /\ Head(toMaster) = toMaster[1] /\ 1 \in DOMAIN toMaster
      /\ Len(toMaster') = Len(toMaster) - 1 /\ Head(toMaster) \in Response
      /\ \A x \in DOMAIN toMaster : x \in Nat /\ x >= 1
      /\ \A x \in DOMAIN toMaster' : x + 1 \in DOMAIN toMaster /\ toMaster'[x] = toMaster[x + 1]
      /\ \A j \in Id : /\ DoneOnce(j)'
                       /\ Dones(j)' # {} => Dones(j) # {}
                       /\ Dones(j) \subseteq {1} \/ Dones(j)' # {}
                       /\ Replies(j)' # {} => Replies(j) # {}
      /\ RepliesBeforeDone'
  BY Taken
<1>2. reqFd
  BY <1>1, Kinds DEF WorkerInv, Phases
<1>3. toWorker \in Seq(Request) /\ requestMap \in [Id -> {Absent, InFlight} \cup Num]
  BY DEF WorkerInv, WorkerTypeOK
<1>4. \A x \in DOMAIN toWorker : toWorker[x] \in Request
  BY <1>3, ElementOfSeq, LenProperties
<1>5. ASSUME NEW j \in Id, j # i PROVE Dones(j)' # {} <=> Dones(j) # {}
  BY <1>1, <1>5 DEF Dones
<1>6. 1 \in Dones(i) /\ Dones(i)' = {}
  <2>1. 1 \in Dones(i) /\ \A x \in Dones(i) : x = 1
    BY <1>1, <1>2 DEF WorkerInv, DoneOnce, Dones
  <2>2. \A x \in Dones(i)' : x + 1 \in Dones(i) /\ x \in Nat /\ x >= 1
    <3>1. \A x \in DOMAIN toMaster' : x \in Nat /\ x >= 1
      BY <1>1, LenProperties
    <3>2. QED
      BY <1>1, <3>1 DEF Dones
  <2>3. QED
    BY <2>1, <2>2
<1>7. Jobs'
  BY DEF WorkerInv, Jobs, At
<1>8. CASE requestMap[i] \notin Num
  <2>1. requestMap' = [requestMap EXCEPT ![i] = Absent] /\ toWorker' = toWorker
    BY <1>8 DEF SendPending
  <2>2. WorkerTypeOK'
    BY <1>1, <1>3, <2>1 DEF WorkerInv, WorkerTypeOK
  <2>3. Phases'
    BY <1>1, <1>2, <2>1 DEF WorkerInv, Phases
  <2>4. ASSUME Alive, NEW j \in Id PROVE OnePlace(j)' /\ Numbers(j)'
    <3>1. OnePlace(j) /\ Numbers(j) /\ At(j)' = At(j) /\ Requests(j)' = Requests(j)
      BY <2>1, <2>4 DEF WorkerInv, At, Requests
    <3>2. CASE j # i
      <4>1. requestMap'[j] = requestMap[j]
        BY <1>3, <2>1, <3>2
      <4>2. OnePlace(j)'
        BY <1>1, <1>5, <3>1, <3>2, <4>1 DEF OnePlace, Out
      <4>3. Numbers(j)'
        BY <2>1, <3>1, <4>1 DEF Numbers
      <4>4. QED
        BY <4>2, <4>3
    <3>3. CASE j = i
      <4>1. requestMap'[i] = Absent /\ ~Out(i)'
        BY <1>2, <1>3, <2>1 DEF Out
      <4>2. Requests(i) = {} /\ At(i) = {} /\ Out(i)
        BY <1>6, <3>1, <3>3 DEF OnePlace
      <4>3. requestMap[i] = InFlight
        BY <1>2, <1>3, <1>8, <4>2 DEF Out
      <4>4. Replies(i)' = {}
        <5>1. \A x \in Replies(i) : x < 1 /\ x \in Nat /\ x >= 1
          BY <1>1, <1>2, <1>6 DEF WorkerInv, RepliesBeforeDone, Replies
        <5>2. QED
          BY <1>1, <1>2, <5>1
      <4>5. OnePlace(i)'
        BY <1>6, <3>1, <3>3, <4>1, <4>2, <4>4 DEF OnePlace
      <4>6. Numbers(i)'
        BY <2>1, <3>1, <3>3, <4>1, <4>2, <4>3, Marks DEF Numbers
      <4>7. QED
        BY <3>3, <4>5, <4>6
    <3>4. QED
      BY <3>2, <3>3
  <2>5. QED
    BY <1>1, <1>7, <2>2, <2>3, <2>4 DEF WorkerInv, Alive
<1>9. CASE requestMap[i] \in Num
  <2> DEFINE r == [id |-> i, n |-> requestMap[i]]
             last == Len(toWorker) + 1
  <2>1. r \in Request /\ worker = "up" /\ Alive
    BY <1>2, <1>9 DEF Request, WorkerInv, Phases, Alive
  <2>2. requestMap' = [requestMap EXCEPT ![i] = InFlight]
    BY <1>9 DEF SendPending
  <2>3. toWorker' = Append(toWorker, r) /\ toWorker' \in Seq(Request)
    <3>1. toWorker \o <<r>> = Append(toWorker, r) /\ Append(toWorker, r) \in Seq(Request)
      BY <1>3, <2>1, Put
    <3>2. QED
      BY <1>9, <2>1, <3>1 DEF SendPending, Sent
  <2> HIDE DEF r
  <2>4. /\ DOMAIN toWorker' = DOMAIN toWorker \cup {last}
        /\ \A x \in DOMAIN toWorker : toWorker'[x] = toWorker[x] /\ x < last
        /\ toWorker'[last] = r
    BY <1>3, <2>1, <2>3, Put
  <2>5. WorkerTypeOK'
    BY <1>1, <1>2, <1>3, <2>2, <2>3 DEF WorkerInv, WorkerTypeOK
  <2>6. Phases'
    BY <1>1, <1>2, <2>1 DEF WorkerInv, Phases
  <2>7. ASSUME NEW j \in Id PROVE OnePlace(j)' /\ Numbers(j)'
    <3>1. OnePlace(j) /\ Numbers(j) /\ At(j)' = At(j)
      BY <2>1 DEF WorkerInv, At
    <3>2. CASE j # i
      <4>1. requestMap'[j] = requestMap[j]
        BY <1>3, <2>2, <3>2
      <4>2. Requests(j)' = Requests(j) /\ \A x \in Requests(j) : toWorker'[x] = toWorker[x]
        BY <2>4, <3>2 DEF Requests, r
      <4>3. OnePlace(j)'
        BY <1>1, <1>5, <3>1, <3>2, <4>1, <4>2 DEF OnePlace, Out
      <4>4. Numbers(j)'
        BY <3>1, <4>1, <4>2 DEF Numbers
      <4>5. QED
        BY <4>3, <4>4
    <3>3. CASE j = i
      <4>1. requestMap'[i] = InFlight /\ Out(i)'
        BY <1>2, <1>3, <2>2, Marks DEF Out
      <4>2. Requests(i) = {} /\ At(i) = {}
        BY <1>6, <3>1, <3>3 DEF OnePlace
      <4>3. Requests(i)' = {last}
        BY <2>4, <4>2 DEF Requests, r
      <4>4. Replies(i)' = {}
        <5>1. \A x \in Replies(i) : x < 1 /\ x \in Nat /\ x >= 1
          BY <1>1, <1>2, <1>6 DEF WorkerInv, RepliesBeforeDone, Replies
        <5>2. QED
          BY <1>1, <1>2, <5>1
      <4>5. OnePlace(i)'
        BY <1>6, <3>1, <3>3, <4>1, <4>2, <4>3, <4>4 DEF OnePlace
      <4>6. Numbers(i)'
        <5>1. r.n = asked[i] /\ served[i] < asked[i] /\ asked[i] \in Nat
          BY <1>2, <1>9, <3>1, <3>3, Marks DEF Numbers, r, WorkerInv, WorkerTypeOK
        <5>2. QED
          BY <2>4, <4>1, <4>3, <5>1, Marks DEF Numbers
      <4>7. QED
        BY <3>3, <4>5, <4>6
    <3>4. QED
      BY <3>2, <3>3
  <2>8. QED
    BY <1>1, <1>7, <2>5, <2>6, <2>7 DEF WorkerInv
<1>10. QED
  BY <1>8, <1>9

\* And of the end of a request, with the one sent in its place.
LEMMA ReceiveDoneKeeps == ASSUME WorkerInv, ReceiveDone PROVE WorkerInv'
<1>1. respFd /\ ~opening /\ toMaster # <<>> /\ Head(toMaster).kind = "d"
  BY DEF ReceiveDone, Responds
<1>2. toMaster \in Seq(Response)
  BY DEF WorkerInv, WorkerTypeOK
<1>3. Head(toMaster) \in Response
  BY <1>1, <1>2, HeadTailProperties
<1>4. PICK i \in Id : Head(toMaster).id = i
  BY <1>1, <1>3, Kinds
<1>5. \/ /\ ~(worker = "dead" /\ requestMap[i] \in Num) /\ SendPending(i)
         /\ toMaster' = Tail(toMaster)
         /\ UNCHANGED <<respFd, reqFd, opening, worker, fds, inflight, asked, served, shown,
                        starts>>
      \/ StopEffect
  BY <1>4 DEF ReceiveDone
<1>6. QED
  BY <1>1, <1>4, <1>5, StopKeeps, DoneTaken

\* And of the worker's announcement.
LEMMA ReceiveStartedKeeps == ASSUME WorkerInv, ReceiveStarted PROVE WorkerInv'
<1>1. CASE StopEffect
  BY <1>1, StopKeeps
<1>2. CASE ~StopEffect
  <2>1. /\ respFd /\ ~opening /\ toMaster # <<>> /\ ~reqFd
        /\ opening' = TRUE /\ toMaster' = Tail(toMaster)
        /\ UNCHANGED <<respFd, reqFd, requestMap, worker, toWorker, fds, inflight, asked,
                       served, shown, starts>>
    BY <1>2 DEF ReceiveStarted, Responds
  <2>2. toMaster \in Seq(Response) /\ Len(toMaster) <= 1
    BY <2>1 DEF WorkerInv, WorkerTypeOK, Phases
  <2>3. toMaster' = <<>>
    BY <2>1, <2>2, HeadTailProperties, EmptySeq
  <2>4. WorkerTypeOK'
    BY <2>1, <2>3, EmptySeq DEF WorkerInv, WorkerTypeOK
  <2>5. worker \in {"announced", "dead"}
    BY <2>1 DEF WorkerInv, WorkerTypeOK, Phases
  <2>6. Phases'
    BY <2>1, <2>3, <2>5, EmptySeq DEF WorkerInv, Phases
  <2>7. Jobs' /\ RepliesBeforeDone' /\ \A j \in Id : DoneOnce(j)'
    BY <2>1, <2>3 DEF WorkerInv, Jobs, At, RepliesBeforeDone, Replies, Dones, DoneOnce
  <2>8. \A j \in Id : Dones(j) = {} /\ Replies(j) = {} /\ Dones(j)' = {} /\ Replies(j)' = {}
    BY <2>1, <2>3 DEF WorkerInv, Phases, Dones, Replies
  <2>9. ASSUME Alive, NEW i \in Id PROVE OnePlace(i)' /\ Numbers(i)'
    <3>1. OnePlace(i) /\ Numbers(i)
      BY <2>9 DEF WorkerInv
    <3>2. At(i)' = At(i) /\ Requests(i)' = Requests(i) /\ (Out(i)' <=> Out(i))
      BY <2>1 DEF At, Requests, Out
    <3>3. OnePlace(i)'
      BY <2>8, <3>1, <3>2 DEF OnePlace
    <3>4. Numbers(i)'
      BY <2>1, <3>1, <3>2 DEF Numbers
    <3>5. QED
      BY <3>3, <3>4
  <2>10. QED
    BY <2>1, <2>4, <2>6, <2>7, <2>9 DEF WorkerInv, Alive
<1>3. QED
  BY <1>1, <1>2

\* And making it.
LEMMA AnnounceKeeps == ASSUME WorkerInv, Announce PROVE WorkerInv'
<1>1. /\ worker = "starting" /\ worker' = "announced"
      /\ UNCHANGED <<respFd, reqFd, opening, requestMap, toWorker, fds, inflight, asked, served,
                     shown, starts>>
  BY DEF Announce
<1>2. toMaster = <<>> /\ ~reqFd /\ ~opening /\ respFd
  BY <1>1 DEF WorkerInv, Phases
<1>3. toMaster' = <<[kind |-> "s"]>>
  BY <1>2 DEF Announce
<1>4. toMaster' \in Seq(Response) /\ Len(toMaster') = 1
      /\ \A x \in DOMAIN toMaster' : toMaster'[x] = [kind |-> "s"]
  BY <1>3, Kinds
<1>5. WorkerTypeOK'
  BY <1>1, <1>4 DEF WorkerInv, WorkerTypeOK
<1>6. Phases'
  BY <1>1, <1>2, <1>4 DEF WorkerInv, Phases
<1>7. \A i \in Id : Dones(i) = {} /\ Replies(i) = {} /\ Dones(i)' = {} /\ Replies(i)' = {}
  BY <1>2, <1>4 DEF Dones, Replies
<1>8. Jobs' /\ RepliesBeforeDone' /\ \A j \in Id : DoneOnce(j)'
  BY <1>1, <1>7 DEF WorkerInv, Jobs, At, RepliesBeforeDone, DoneOnce
<1>9. ASSUME NEW i \in Id PROVE OnePlace(i)' /\ Numbers(i)'
  <2>1. OnePlace(i) /\ Numbers(i)
    BY <1>1, <1>2 DEF WorkerInv, Alive
  <2>2. At(i)' = At(i) /\ Requests(i)' = Requests(i) /\ (Out(i)' <=> Out(i))
    BY <1>1 DEF At, Requests, Out
  <2>3. OnePlace(i)'
    BY <1>7, <2>1, <2>2 DEF OnePlace
  <2>4. Numbers(i)'
    BY <1>1, <2>1, <2>2 DEF Numbers
  <2>5. QED
    BY <2>3, <2>4
<1>10. QED
  BY <1>5, <1>6, <1>8, <1>9 DEF WorkerInv

\* And the death of the worker at any moment.
LEMMA DieKeeps == ASSUME WorkerInv, Die PROVE WorkerInv'
<1>1. /\ worker \in {"starting", "announced", "up"}
      /\ worker' = "dead" /\ toWorker' = <<>> /\ fds' = {} /\ inflight' = Zeros
      /\ UNCHANGED <<respFd, reqFd, opening, requestMap, toMaster, asked, served, shown, starts>>
  BY WorkerAssumption DEF Die
<1>2. WorkerTypeOK'
  <2>1. Zeros \in [Id -> 0..MaxJobs]
    BY Marks DEF Zeros
  <2>2. <<>> \in Seq(Request)
    BY EmptySeq
  <2>3. QED
    BY <1>1, <2>1, <2>2 DEF WorkerInv, WorkerTypeOK
<1>3. Phases'
  BY <1>1 DEF WorkerInv, Phases
<1>4. Jobs'
  BY <1>1, FS_EmptySet DEF Jobs, At, Zeros
<1>5. RepliesBeforeDone' /\ \A j \in Id : DoneOnce(j)'
  BY <1>1 DEF WorkerInv, RepliesBeforeDone, Replies, Dones, DoneOnce
<1>6. QED
  BY <1>1, <1>2, <1>3, <1>4, <1>5 DEF WorkerInv, Alive

(* Jobs started for one request are as many as their numbers.              *)
Started(i, n, m) == {[id |-> i, n |-> n, k |-> k] : k \in 1..m}

\* The subprocesses that a request starts are finitely many.
LEMMA JobsStarted ==
  ASSUME NEW i, NEW n, NEW m \in Nat
  PROVE  IsFiniteSet(Started(i, n, m)) /\ Cardinality(Started(i, n, m)) = m
<1> DEFINE T == Started(i, n, m)
           f == [k \in 1..m |-> [id |-> i, n |-> n, k |-> k]]
<1>1. f \in Bijection(1..m, T)
  <2>1. f \in [1..m -> T] /\ \A t \in T : \E k \in 1..m : f[k] = t
    BY DEF Started
  <2>2. \A a, b \in 1..m : f[a] = f[b] => a = b
    OBVIOUS
  <2>3. QED
    BY <2>1, <2>2 DEF Bijection, Injection, Surjection, IsInjective
<1>2. ExistsBijection(1..m, T)
  BY <1>1 DEF ExistsBijection
<1>3. QED
  BY <1>2, FS_NatBijection, FS_CountingElements

\* Serving a request keeps the invariant.
LEMMA ServeKeeps == ASSUME WorkerInv, Serve PROVE WorkerInv'
<1>1. /\ worker = "up" /\ toWorker # <<>> /\ toWorker' = Tail(toWorker)
      /\ UNCHANGED <<respFd, reqFd, opening, requestMap, worker, asked, shown, starts>>
  BY DEF Serve
<1>2. toWorker \in Seq(Request) /\ toMaster \in Seq(Response)
  BY DEF WorkerInv, WorkerTypeOK
<1>3. /\ toWorker' \in Seq(Request) /\ Head(toWorker) = toWorker[1] /\ 1 \in DOMAIN toWorker
      /\ Head(toWorker) \in Request
      /\ \A x \in DOMAIN toWorker' : x \in Nat \ {0} /\ x + 1 \in DOMAIN toWorker
                                     /\ toWorker'[x] = toWorker[x + 1]
      /\ \A x \in DOMAIN toWorker :
           x = 1 \/ (x - 1 \in DOMAIN toWorker' /\ toWorker'[x - 1] = toWorker[x])
  BY <1>1, <1>2, Shift
<1>4. PICK i \in Id, n \in Num : /\ toWorker[1].id = i /\ toWorker[1].n = n
                                /\ Head(toWorker).id = i /\ Head(toWorker).n = n
  BY <1>3 DEF Request
<1>5. PICK started \in 0..MaxJobs :
        /\ fds' = fds \cup Started(i, n, started)
        /\ inflight' = [inflight EXCEPT ![i] = @ + started]
        /\ served' = [served EXCEPT ![i] = n]
        /\ toMaster' = IF inflight'[i] > 0 THEN toMaster ELSE Append(toMaster, Done(i))
  <2>1. LET a == Head(toWorker).id
            b == Head(toWorker).n
        IN  \E started \in 0..MaxJobs :
              /\ fds' = fds \cup Started(a, b, started)
              /\ inflight' = [inflight EXCEPT ![a] = @ + started]
              /\ served' = [served EXCEPT ![a] = b]
              /\ toMaster' = IF inflight'[a] > 0 THEN toMaster ELSE Append(toMaster, Done(a))
    BY DEF Serve, Started
  <2>2. QED
    BY <1>4, <2>1
<1> DEFINE T == Started(i, n, started)
<1>6. respFd /\ Alive /\ reqFd /\ respFd'
  BY <1>1 DEF WorkerInv, Phases, Alive
<1>7. OnePlace(i) /\ Numbers(i) /\ 1 \in Requests(i)
  BY <1>3, <1>4, <1>6 DEF WorkerInv, Requests
<1>8. Requests(i) = {1} /\ Dones(i) = {} /\ Replies(i) = {} /\ At(i) = {}
  BY <1>7 DEF OnePlace
<1>9. started \in Nat /\ started <= MaxJobs /\ inflight[i] = 0 /\ inflight'[i] = started
  <2>1. Cardinality(At(i)) = 0
    BY <1>8, FS_EmptySet
  <2>2. inflight[i] = 0
    BY <2>1 DEF WorkerInv, Jobs
  <2>3. inflight \in [Id -> 0..MaxJobs]
    BY DEF WorkerInv, WorkerTypeOK
  <2>4. QED
    BY <1>5, <2>2, <2>3, Marks
<1>10. Requests(i)' = {}
  BY <1>3, <1>8 DEF Requests
<1>11. At(i)' = T /\ \A j \in Id : j # i => At(j)' = At(j)
  <2>1. \A t \in T : t.id = i
    BY DEF Started
  <2>2. \A job \in fds : job.id # i
    BY <1>8 DEF At
  <2>3. QED
    BY <1>5, <2>1, <2>2 DEF At
<1>12. IsFiniteSet(T) /\ Cardinality(T) = started /\ T \subseteq Job
  <2>1. ASSUME NEW k \in 1..started PROVE [id |-> i, n |-> n, k |-> k] \in Job
    <3>1. k \in 1..MaxJobs
      BY <1>9, Marks
    <3>2. QED
      BY <3>1 DEF Job
  <2>2. T \subseteq Job
    BY <2>1 DEF Started
  <2>3. started \in Nat
    BY <1>9
  <2>4. IsFiniteSet(T) /\ Cardinality(T) = started
    BY <2>3, JobsStarted
  <2>5. QED
    BY <2>2, <2>4
<1>13. \/ started > 0 /\ toMaster' = toMaster
       \/ started = 0 /\ toMaster' = Append(toMaster, Done(i))
  BY <1>5, <1>9
<1>14. /\ toMaster' \in Seq(Response)
       /\ \A x \in DOMAIN toMaster : x \in DOMAIN toMaster' /\ toMaster'[x] = toMaster[x]
       /\ \A x \in DOMAIN toMaster' : \/ x \in DOMAIN toMaster
                                      \/ started = 0 /\ x = Len(toMaster) + 1 /\ toMaster'[x] = Done(i)
       /\ started = 0 => Len(toMaster) + 1 \in DOMAIN toMaster'
                         /\ toMaster'[Len(toMaster) + 1] = Done(i)
  <2>1. CASE started > 0
    BY <1>2, <1>9, <1>13, <2>1
  <2>2. CASE started = 0
    <3>1. toMaster' = Append(toMaster, Done(i)) /\ Done(i) \in Response
      BY <1>13, <2>2, Kinds
    <3>2. QED
      BY <1>2, <2>2, <3>1, Put
  <2>3. QED
    BY <1>9, <2>1, <2>2
<1>15. \A j \in Id : Replies(j)' = Replies(j) /\ (j # i => Dones(j)' = Dones(j))
  BY <1>14, Kinds DEF Replies, Dones
<1>16. Dones(i)' = IF started = 0 THEN {Len(toMaster) + 1} ELSE {}
  <2>1. \A x \in DOMAIN toMaster : ~(toMaster[x].kind = "d" /\ toMaster[x].id = i)
    BY <1>8 DEF Dones
  <2>2. QED
    BY <1>14, <2>1, Kinds DEF Dones
<1>17. WorkerTypeOK'
  <2>1. inflight' \in [Id -> 0..MaxJobs] /\ served' \in [Id -> 0..MaxReq]
    BY <1>5, <1>9, Marks DEF WorkerInv, WorkerTypeOK
  <2>2. fds' \in SUBSET Job
    BY <1>5, <1>12 DEF WorkerInv, WorkerTypeOK
  <2>3. QED
    BY <1>1, <1>3, <1>14, <2>1, <2>2 DEF WorkerInv, WorkerTypeOK
<1>18. Phases'
  <2>1. \A x \in DOMAIN toMaster' : toMaster'[x].kind # "s"
    BY <1>6, <1>14, Kinds DEF WorkerInv, Phases
  <2>2. QED
    BY <1>1, <1>6, <2>1 DEF WorkerInv, Phases
<1>19. Jobs'
  <2>1. IsFiniteSet(fds')
    BY <1>5, <1>12, FS_Union DEF WorkerInv, Jobs
  <2>2. \A j \in Id : inflight'[j] = Cardinality(At(j)')
    BY <1>5, <1>9, <1>11, <1>12 DEF WorkerInv, WorkerTypeOK, Jobs
  <2>3. \A job \in fds' : job.n = served'[job.id]
    <3>1. ASSUME NEW job \in T PROVE job.n = served'[job.id]
      BY <1>5 DEF WorkerInv, WorkerTypeOK, Started
    <3>2. ASSUME NEW job \in fds PROVE job.n = served'[job.id]
      <4>1. job.id # i /\ job.id \in Id /\ job.n = served[job.id]
        BY <1>8 DEF At, WorkerInv, WorkerTypeOK, Job, Jobs
      <4>2. QED
        BY <1>5, <4>1 DEF WorkerInv, WorkerTypeOK
    <3>3. QED
      BY <1>5, <3>1, <3>2
  <2>4. QED
    BY <2>1, <2>2, <2>3 DEF Jobs
<1>20. RepliesBeforeDone'
  <2>1. ASSUME NEW j \in Id, NEW x \in Replies(j)'
        PROVE  toMaster'[x].n = served'[j] /\ \A y \in Dones(j)' : x < y
    <3>1. j # i /\ x \in Replies(j) /\ Dones(j)' = Dones(j)
      BY <1>8, <1>15, <2>1
    <3>2. toMaster[x].n = served[j] /\ \A y \in Dones(j) : x < y
      BY <3>1 DEF WorkerInv, RepliesBeforeDone
    <3>3. toMaster'[x] = toMaster[x] /\ served'[j] = served[j]
      BY <1>5, <1>14, <3>1 DEF Replies, WorkerInv, WorkerTypeOK
    <3>4. QED
      BY <3>1, <3>2, <3>3
  <2>2. QED
    BY <2>1 DEF RepliesBeforeDone
<1>21. \A j \in Id : DoneOnce(j)'
  BY <1>15, <1>16 DEF WorkerInv, DoneOnce
<1>22. ASSUME NEW j \in Id PROVE OnePlace(j)' /\ Numbers(j)'
  <2>1. OnePlace(j) /\ Numbers(j) /\ (Out(j)' <=> Out(j))
    BY <1>1, <1>6 DEF WorkerInv, Out
  <2>2. CASE j = i
    <3>1. OnePlace(i)'
      <4>1. Out(i)'
        BY <1>7, <2>1, <2>2 DEF OnePlace
      <4>2. started # 0 => [id |-> i, n |-> n, k |-> 1] \in T
        BY <1>9 DEF Started
      <4>3. T # {} <=> started # 0
        BY <4>2 DEF Started
      <4>4. QED
        BY <1>8, <1>10, <1>11, <1>15, <1>16, <4>1, <4>3 DEF OnePlace
    <3>2. Numbers(i)'
      <4>1. served'[i] = n /\ served[i] < n /\ n <= asked[i] /\ asked[i] \in Nat /\ served[i] \in Nat
            /\ n \in Nat
        BY <1>4, <1>5, <1>7, Marks DEF Numbers, WorkerInv, WorkerTypeOK
      <4>2. requestMap'[i] = requestMap[i] /\ asked'[i] = asked[i]
        BY <1>1
      <4>3. requestMap[i] \in Num => requestMap[i] = asked[i] /\ n < asked[i]
        BY <1>4, <1>7 DEF Numbers
      <4>4. requestMap[i] # Absent
        BY <1>7 DEF OnePlace, Out
      <4>5. requestMap[i] = InFlight => n = asked[i]
        BY <1>4, <1>8, <1>7, <4>1 DEF Numbers
      <4>6. QED
        BY <1>10, <4>1, <4>2, <4>3, <4>4, <4>5 DEF Numbers
    <3>3. QED
      BY <2>2, <3>1, <3>2
  <2>3. CASE j # i
    <3>1. \A x \in Requests(j)' : x + 1 \in Requests(j) /\ toWorker'[x] = toWorker[x + 1] /\ x \in Nat
      BY <1>3 DEF Requests
    <3>2. \A x \in Requests(j) : x - 1 \in Requests(j)' /\ toWorker'[x - 1] = toWorker[x]
      BY <1>3, <1>4, <2>3 DEF Requests
    <3>3. OnePlace(j)'
      <4>1. \A x, y \in Requests(j)' : x = y
        BY <2>1, <3>1 DEF OnePlace
      <4>2. Requests(j)' # {} <=> Requests(j) # {}
        BY <3>1, <3>2
      <4>3. QED
        BY <1>11, <1>15, <2>1, <2>3, <4>1, <4>2 DEF OnePlace
    <3>4. Numbers(j)'
      <4>1. served'[j] = served[j] /\ requestMap' = requestMap /\ asked' = asked
        BY <1>1, <1>5, <2>3 DEF WorkerInv, WorkerTypeOK
      <4>2. QED
        BY <2>1, <3>1, <3>2, <4>1 DEF Numbers
    <3>5. QED
      BY <3>3, <3>4
  <2>4. QED
    BY <2>2, <2>3
<1>23. QED
  BY <1>17, <1>18, <1>19, <1>20, <1>21, <1>22 DEF WorkerInv

(* A callback replies, or not, and then its request may be done.           *)
LEMMA PutBoth ==
  ASSUME toMaster \in Seq(Response), NEW e \in Response, NEW f \in Response,
         NEW u \in {<<>>, <<e>>}, NEW v \in {<<>>, <<f>>}, toMaster' = toMaster \o u \o v
  PROVE  /\ toMaster' \in Seq(Response)
         /\ \A x \in DOMAIN toMaster : /\ x \in Nat /\ x <= Len(toMaster)
                                       /\ x \in DOMAIN toMaster' /\ toMaster'[x] = toMaster[x]
         /\ \A x \in DOMAIN toMaster' :
              \/ x \in DOMAIN toMaster
              \/ x > Len(toMaster) /\ toMaster'[x] = e /\ (v # <<>> => x < Len(toMaster'))
              \/ x > Len(toMaster) /\ v # <<>> /\ x = Len(toMaster') /\ toMaster'[x] = f
         /\ v # <<>> => Len(toMaster') \in DOMAIN toMaster' /\ toMaster'[Len(toMaster')] = f
<1>1. u \in Seq(Response) /\ v \in Seq(Response)
  <2>1. <<>> \in Seq(Response) /\ <<e>> \in Seq(Response) /\ <<f>> \in Seq(Response)
    OBVIOUS
  <2>2. QED
    BY <2>1
<1>2. toMaster \o u \in Seq(Response) /\ Len(toMaster \o u) = Len(toMaster) + Len(u)
      /\ \A x \in 1..(Len(toMaster) + Len(u)) : (toMaster \o u)[x] = IF x <= Len(toMaster) THEN toMaster[x] ELSE u[x - Len(toMaster)]
  BY <1>1, ConcatProperties
<1>3. toMaster' \in Seq(Response) /\ Len(toMaster') = Len(toMaster) + Len(u) + Len(v)
      /\ \A x \in 1..(Len(toMaster) + Len(u) + Len(v)) :
           toMaster'[x] = IF x <= Len(toMaster) + Len(u) THEN (toMaster \o u)[x] ELSE v[x - (Len(toMaster) + Len(u))]
  BY <1>1, <1>2, ConcatProperties
<1>4. DOMAIN toMaster' = 1..Len(toMaster') /\ DOMAIN toMaster = 1..Len(toMaster) /\ Len(toMaster) \in Nat /\ Len(toMaster') \in Nat
  BY <1>3, LenProperties
<1>5. (u = <<>> /\ Len(u) = 0) \/ (Len(u) = 1 /\ u[1] = e)
  OBVIOUS
<1>6. (v = <<>> /\ Len(v) = 0) \/ (Len(v) = 1 /\ v[1] = f)
  OBVIOUS
<1>7. QED
  <2>1. \A x \in DOMAIN toMaster : x \in Nat /\ x <= Len(toMaster) /\ x \in DOMAIN toMaster' /\ toMaster'[x] = toMaster[x]
    BY <1>2, <1>3, <1>4, <1>5, <1>6
  <2>2. ASSUME NEW x \in DOMAIN toMaster', x \notin DOMAIN toMaster
        PROVE  \/ x > Len(toMaster) /\ toMaster'[x] = e /\ (v # <<>> => x < Len(toMaster'))
               \/ x > Len(toMaster) /\ v # <<>> /\ x = Len(toMaster') /\ toMaster'[x] = f
    <3>1. x \in Nat /\ x > Len(toMaster) /\ x <= Len(toMaster')
      BY <1>4, <2>2
    <3>2. CASE x <= Len(toMaster) + Len(u)
      BY <1>2, <1>3, <1>4, <1>5, <1>6, <3>1, <3>2
    <3>3. CASE ~(x <= Len(toMaster) + Len(u))
      <4>1. Len(u) \in Nat /\ Len(v) \in Nat /\ Len(v) <= 1
        BY <1>5, <1>6
      <4>2. Len(v) = 1 /\ v # <<>> /\ v[1] = f
        BY <1>3, <1>4, <1>6, <3>1, <3>3, <4>1
      <4>3. x = Len(toMaster') /\ x - (Len(toMaster) + Len(u)) = 1
        BY <1>3, <1>4, <3>1, <3>3, <4>1, <4>2
      <4>4. toMaster'[x] = v[1]
        BY <1>3, <1>4, <3>1, <3>3, <4>1, <4>3
      <4>5. QED
        BY <3>1, <4>2, <4>3, <4>4
    <3>4. QED
      BY <3>2, <3>3
  <2>3. v # <<>> => Len(toMaster') \in DOMAIN toMaster' /\ toMaster'[Len(toMaster')] = f
    BY <1>3, <1>4, <1>5, <1>6
  <2>4. QED
    BY <1>3, <2>1, <2>2, <2>3

\* So does collecting a subprocess.
LEMMA CollectKeeps == ASSUME WorkerInv, NEW job \in Job, Collect(job) PROVE WorkerInv'
<1> DEFINE i == job.id
           e == [kind |-> "e", id |-> i, n |-> job.n]
           v == IF IsLastJob(i) THEN <<Done(i)>> ELSE <<>>
<1>1. /\ worker = "up" /\ job \in fds /\ fds' = fds \ {job}
      /\ inflight' = [inflight EXCEPT ![i] = @ - 1]
      /\ UNCHANGED <<respFd, reqFd, opening, requestMap, worker, toWorker, asked, served, shown,
                     starts>>
  BY DEF Collect
<1>2. PICK u \in {<<>>, <<e>>} : toMaster' = toMaster \o u \o v
  BY DEF Collect
<1>3. i \in Id /\ job.n \in Num
  BY DEF Job
<1>4. e \in Response /\ Done(i) \in Response /\ e.kind = "e" /\ e.id = i /\ e.n = job.n
      /\ Done(i).kind = "d" /\ Done(i).id = i
  BY <1>3, Kinds
<1>5. Alive /\ reqFd
  BY <1>1 DEF WorkerInv, Phases, Alive
<1>6. OnePlace(i) /\ job \in At(i)
  BY <1>1, <1>3, <1>5 DEF WorkerInv, At
<1>7. Requests(i) = {} /\ Dones(i) = {} /\ job.n = served[i]
  BY <1>1, <1>6 DEF OnePlace, WorkerInv, Jobs
<1>8. At(i)' = At(i) \ {job} /\ \A j \in Id : j # i => At(j)' = At(j)
  BY <1>1 DEF At
<1>9. IsFiniteSet(fds) /\ IsFiniteSet(At(i)) /\ IsFiniteSet(fds')
  BY <1>1, FS_Subset, FS_RemoveElement DEF WorkerInv, Jobs, At
<1>10. inflight[i] = Cardinality(At(i)) /\ inflight[i] \in 0..MaxJobs /\ inflight \in [Id -> 0..MaxJobs]
  BY <1>3 DEF WorkerInv, Jobs, WorkerTypeOK
<1>11. Cardinality(At(i)') = inflight[i] - 1 /\ inflight[i] - 1 \in Nat
  <2>1. Cardinality(At(i)') = Cardinality(At(i)) - 1
    BY <1>6, <1>8, <1>9, FS_RemoveElement
  <2>2. IsFiniteSet(At(i)')
    BY <1>8, <1>9, FS_RemoveElement
  <2>3. QED
    BY <1>10, <2>1, <2>2, FS_CardinalityType
<1>12. IsLastJob(i) <=> At(i)' = {}
  <2>1. IsFiniteSet(At(i)')
    BY <1>8, <1>9, FS_RemoveElement
  <2>2. Cardinality(At(i)') = 0 <=> At(i)' = {}
    BY <2>1, FS_EmptySet
  <2>3. QED
    BY <1>10, <1>11, <2>2, Marks DEF IsLastJob
<1> HIDE DEF e
<1>13. /\ toMaster' \in Seq(Response)
       /\ \A x \in DOMAIN toMaster : /\ x \in Nat /\ x <= Len(toMaster)
                                     /\ x \in DOMAIN toMaster' /\ toMaster'[x] = toMaster[x]
       /\ \A x \in DOMAIN toMaster' :
            \/ x \in DOMAIN toMaster
            \/ x > Len(toMaster) /\ toMaster'[x] = e /\ (v # <<>> => x < Len(toMaster'))
            \/ x > Len(toMaster) /\ v # <<>> /\ x = Len(toMaster') /\ toMaster'[x] = Done(i)
       /\ v # <<>> => Len(toMaster') \in DOMAIN toMaster' /\ toMaster'[Len(toMaster')] = Done(i)
  <2>1. toMaster \in Seq(Response)
    BY DEF WorkerInv, WorkerTypeOK
  <2> DEFINE d == Done(i)
  <2>2. v \in {<<>>, <<d>>} /\ d \in Response
    BY <1>4
  <2> HIDE DEF v, d, i
  <2>3. e \in Response /\ toMaster' = toMaster \o u \o v
    BY <1>2, <1>4
  <2>4. /\ toMaster' \in Seq(Response)
        /\ \A x \in DOMAIN toMaster : /\ x \in Nat /\ x <= Len(toMaster)
                                      /\ x \in DOMAIN toMaster' /\ toMaster'[x] = toMaster[x]
        /\ \A x \in DOMAIN toMaster' :
             \/ x \in DOMAIN toMaster
             \/ x > Len(toMaster) /\ toMaster'[x] = e /\ (v # <<>> => x < Len(toMaster'))
             \/ x > Len(toMaster) /\ v # <<>> /\ x = Len(toMaster') /\ toMaster'[x] = d
        /\ v # <<>> => Len(toMaster') \in DOMAIN toMaster' /\ toMaster'[Len(toMaster')] = d
    BY <2>1, <2>2, <2>3, PutBoth
  <2>5. QED
    BY <2>4 DEF d, i
<1>14. v # <<>> <=> IsLastJob(i)
  OBVIOUS
<1> HIDE DEF v
<1>15. ASSUME NEW j \in Id, j # i PROVE Dones(j)' = Dones(j) /\ Replies(j)' = Replies(j)
  BY <1>4, <1>13, <1>15 DEF Dones, Replies
<1>16. Dones(i)' = IF IsLastJob(i) THEN {Len(toMaster')} ELSE {}
  <2>1. \A x \in DOMAIN toMaster : ~(toMaster[x].kind = "d" /\ toMaster[x].id = i)
    BY <1>7 DEF Dones
  <2>2. QED
    BY <1>4, <1>13, <1>14, <2>1 DEF Dones
<1>17. \A x \in Replies(i)' : toMaster'[x].n = served[i] /\ (IsLastJob(i) => x < Len(toMaster'))
  <2> SUFFICES ASSUME NEW x \in Replies(i)'
               PROVE  toMaster'[x].n = served[i] /\ (IsLastJob(i) => x < Len(toMaster'))
    OBVIOUS
  <2>1. x \in DOMAIN toMaster' /\ toMaster'[x].kind = "e" /\ toMaster'[x].id = i
    BY DEF Replies
  <2>2. CASE x \in DOMAIN toMaster
    <3>1. x \in Replies(i) /\ toMaster'[x] = toMaster[x]
      BY <1>13, <2>1, <2>2 DEF Replies
    <3>2. toMaster[x].n = served[i]
      BY <1>3, <3>1 DEF WorkerInv, RepliesBeforeDone
    <3>3. IsLastJob(i) => x # Len(toMaster')
      BY <1>4, <1>13, <1>14, <2>1
    <3>4. x \in 1..Len(toMaster')
      BY <1>13, <2>1, LenProperties
    <3>5. QED
      BY <3>1, <3>2, <3>3, <3>4, <1>13, LenProperties
  <2>3. CASE x \notin DOMAIN toMaster
    BY <1>4, <1>7, <1>13, <1>14, <2>1, <2>3
  <2>4. QED
    BY <2>2, <2>3
<1>18. WorkerTypeOK'
  <2>1. inflight' \in [Id -> 0..MaxJobs]
    BY <1>1, <1>3, <1>10, <1>11, Marks
  <2>2. QED
    BY <1>1, <1>13, <2>1 DEF WorkerInv, WorkerTypeOK
<1>19. Phases'
  <2>1. \A x \in DOMAIN toMaster' : toMaster'[x].kind # "s"
    BY <1>4, <1>5, <1>13 DEF WorkerInv, Phases
  <2>2. QED
    BY <1>1, <1>5, <2>1 DEF WorkerInv, Phases
<1>20. Jobs'
  <2>1. \A j \in Id : inflight'[j] = Cardinality(At(j)')
    BY <1>1, <1>8, <1>10, <1>11 DEF WorkerInv, Jobs
  <2>2. QED
    BY <1>1, <1>9, <2>1 DEF WorkerInv, Jobs
<1>21. RepliesBeforeDone'
  <2>1. ASSUME NEW j \in Id, NEW x \in Replies(j)'
        PROVE  toMaster'[x].n = served'[j] /\ \A y \in Dones(j)' : x < y
    <3>1. CASE j = i
      BY <1>1, <1>16, <1>17, <2>1, <3>1
    <3>2. CASE j # i
      <4>1. x \in Replies(j) /\ toMaster[x].n = served[j] /\ \A y \in Dones(j) : x < y
        BY <1>15, <2>1, <3>2 DEF WorkerInv, RepliesBeforeDone
      <4>2. toMaster'[x] = toMaster[x]
        BY <1>13, <4>1 DEF Replies
      <4>3. QED
        BY <1>1, <1>15, <3>2, <4>1, <4>2
    <3>3. QED
      BY <3>1, <3>2
  <2>2. QED
    BY <2>1 DEF RepliesBeforeDone
<1>22. \A j \in Id : DoneOnce(j)'
  BY <1>15, <1>16 DEF WorkerInv, DoneOnce
<1>23. ASSUME NEW j \in Id PROVE OnePlace(j)' /\ Numbers(j)'
  <2>1. OnePlace(j) /\ Numbers(j) /\ (Out(j)' <=> Out(j)) /\ Requests(j)' = Requests(j)
    BY <1>1, <1>5 DEF WorkerInv, Out, Requests
  <2>2. Numbers(j)'
    BY <1>1, <2>1 DEF Numbers
  <2>3. OnePlace(j)'
    <3>1. CASE j = i
      BY <1>6, <1>7, <1>12, <1>16, <2>1, <3>1 DEF OnePlace
    <3>2. CASE j # i
      BY <1>8, <1>15, <2>1, <3>2 DEF OnePlace
    <3>3. QED
      BY <3>1, <3>2
  <2>4. QED
    BY <2>2, <2>3
<1>24. QED
  BY <1>18, <1>19, <1>20, <1>21, <1>22, <1>23 DEF WorkerInv

\* And sending all that has waited for the fifo.
LEMMA OpenFifoKeeps == ASSUME WorkerInv, OpenFifo PROVE WorkerInv'
<1> DEFINE P == {i \in Id : requestMap[i] \in Num}
<1>1. /\ opening /\ worker = "announced" /\ opening' = FALSE /\ reqFd' = TRUE /\ worker' = "up"
      /\ requestMap' = [i \in Id |-> IF requestMap[i] = Absent THEN Absent ELSE InFlight]
      /\ UNCHANGED <<respFd, toMaster, fds, inflight, asked, served, shown, starts>>
  BY DEF OpenFifo, AllInFlight
<1>2. PICK order \in [1..Cardinality(P) -> P] :
        /\ \A a, b \in DOMAIN order : a # b => order[a] # order[b]
        /\ toWorker' = toWorker \o [x \in DOMAIN order |->
                                      [id |-> order[x], n |-> requestMap[order[x]]]]
  BY DEF OpenFifo
<1>3. toWorker = <<>> /\ fds = {} /\ toMaster = <<>> /\ ~reqFd /\ respFd /\ Alive
      /\ \A i \in Id : requestMap[i] # InFlight
  BY <1>1 DEF WorkerInv, Phases, Alive
<1>4. IsFiniteSet(P) /\ Cardinality(P) \in Nat
  <2>1. P \in SUBSET Id /\ IsFiniteSet(Id)
    BY Marks
  <2>2. IsFiniteSet(P)
    BY <2>1, FS_Subset
  <2>3. QED
    BY <2>2, FS_CardinalityType
<1> DEFINE m == Cardinality(P)
           sent == [x \in 1..m |-> [id |-> order[x], n |-> requestMap[order[x]]]]
<1> HIDE DEF m
<1>5. m \in Nat /\ order \in [1..m -> P] /\ DOMAIN order = 1..m
      /\ \A a, b \in 1..m : order[a] = order[b] => a = b
  BY <1>2, <1>4 DEF m
<1>6. order \in Injection(1..m, P)
  BY <1>5 DEF Injection, IsInjective
<1>7. \A i \in P : \E x \in 1..m : order[x] = i
  <2>1. Cardinality(1..m) = m
    BY <1>5, FS_Interval
  <2>2. order \in Surjection(1..m, P)
    BY <1>4, <1>6, <2>1, FS_Injection DEF m
  <2>3. QED
    BY <2>2 DEF Surjection
<1>8. \A x \in 1..m : order[x] \in P /\ sent[x] \in Request
  BY <1>5 DEF Request
<1>9. sent \in Seq(Request) /\ Len(sent) = m
  <2> HIDE DEF sent
  <2>1. sent \in [1..m -> Request]
    BY <1>8 DEF sent
  <2>2. QED
    BY <1>5, <2>1, LenProperties
<1>10. toWorker' = sent
  <2>1. toWorker' = <<>> \o sent
    BY <1>2, <1>3, <1>5
  <2> HIDE DEF sent
  <2>2. QED
    BY <1>9, <2>1, ConcatEmptySeq
<1>11. toWorker' \in Seq(Request) /\ DOMAIN toWorker' = 1..m
       /\ \A x \in 1..m : toWorker'[x].id = order[x] /\ toWorker'[x].n = requestMap[order[x]]
  BY <1>9, <1>10
<1> HIDE DEF sent, P
<1>12. requestMap \in [Id -> {Absent, InFlight} \cup Num]
  BY DEF WorkerInv, WorkerTypeOK
<1>13. requestMap' \in [Id -> {Absent, InFlight} \cup Num] /\ \A i \in Id : requestMap'[i] \notin Num
  BY <1>1, Marks
<1>14. WorkerTypeOK'
  BY <1>1, <1>11, <1>13 DEF WorkerInv, WorkerTypeOK
<1>15. Phases'
  BY <1>1, <1>3 DEF WorkerInv, Phases
<1>16. Jobs' /\ RepliesBeforeDone' /\ \A j \in Id : DoneOnce(j)'
  BY <1>1 DEF WorkerInv, Jobs, At, RepliesBeforeDone, Replies, Dones, DoneOnce
<1>17. ASSUME NEW i \in Id PROVE OnePlace(i)' /\ Numbers(i)'
  <2>1. Numbers(i)
    BY <1>3 DEF WorkerInv
  <2>2. Dones(i)' = {} /\ Replies(i)' = {} /\ At(i)' = {}
    BY <1>1, <1>3 DEF Dones, Replies, At
  <2>3. CASE i \in P
    <3>1. PICK x \in 1..m : order[x] = i
      BY <1>7, <2>3
    <3>2. Requests(i)' = {x}
      BY <1>5, <1>11, <3>1 DEF Requests
    <3>3. requestMap[i] \in Num /\ requestMap'[i] = InFlight
      BY <1>1, <2>3, Marks DEF P
    <3>4. OnePlace(i)'
      BY <1>1, <2>2, <3>2, <3>3, Marks DEF OnePlace, Out
    <3>5. toWorker'[x].n = asked[i] /\ served[i] < asked[i] /\ asked[i] \in Nat
      BY <1>11, <2>1, <3>1, <3>3, Marks DEF Numbers, WorkerInv, WorkerTypeOK
    <3>6. Numbers(i)'
      BY <1>1, <3>2, <3>3, <3>5, Marks DEF Numbers
    <3>7. QED
      BY <3>4, <3>6
  <2>4. CASE i \notin P
    <3>1. requestMap[i] = Absent /\ requestMap'[i] = Absent
      BY <1>1, <1>3, <1>12, <2>4 DEF P
    <3>2. Requests(i)' = {}
      <4>1. \A x \in 1..m : order[x] # i
        BY <1>8, <2>4
      <4>2. QED
        BY <1>11, <4>1 DEF Requests
    <3>3. OnePlace(i)'
      BY <2>2, <3>1, <3>2 DEF OnePlace, Out
    <3>4. Numbers(i)'
      BY <1>1, <1>13, <2>1, <3>1, <3>2, Marks DEF Numbers
    <3>5. QED
      BY <3>3, <3>4
  <2>5. QED
    BY <2>3, <2>4
<1>18. QED
  BY <1>14, <1>15, <1>16, <1>17 DEF WorkerInv
-----------------------------------------------------------------------------
(* The theorems.                                                           *)

\* Every step keeps it.
LEMMA WorkerNextKeeps == WorkerInv /\ [WorkerNext]_workerVars => WorkerInv'
<1> SUFFICES ASSUME WorkerInv, [WorkerNext]_workerVars PROVE WorkerInv'
  OBVIOUS
<1>1. CASE Start
  BY <1>1, StartKeeps
<1>2. CASE Stop
  BY <1>2, StopKeeps DEF Stop
<1>3. CASE \E i \in Id : Invoke(i)
  BY <1>3, InvokeKeeps
<1>4. CASE ReceiveDone
  BY <1>4, ReceiveDoneKeeps
<1>5. CASE ReceiveReply
  BY <1>5, ReceiveReplyKeeps
<1>6. CASE ReceiveStarted
  BY <1>6, ReceiveStartedKeeps
<1>7. CASE OpenFifo
  BY <1>7, OpenFifoKeeps
<1>8. CASE ReceiveEof
  BY <1>8, StopKeeps DEF ReceiveEof
<1>9. CASE Announce
  BY <1>9, AnnounceKeeps
<1>10. CASE Serve
  BY <1>10, ServeKeeps
<1>11. CASE \E job \in Job : Collect(job)
  BY <1>11, CollectKeeps
<1>12. CASE Die
  BY <1>12, DieKeeps
<1>13. CASE UNCHANGED workerVars
  <2> USE <1>13 DEF workerVars
  <2>1. WorkerTypeOK' /\ Phases'
    BY DEF WorkerInv, WorkerTypeOK, Phases
  <2>2. Jobs'
    BY DEF WorkerInv, Jobs, At
  <2>3. RepliesBeforeDone' /\ \A i \in Id : DoneOnce(i)'
    BY DEF WorkerInv, RepliesBeforeDone, Replies, Dones, DoneOnce
  <2>4. Alive' => \A i \in Id : OnePlace(i)' /\ Numbers(i)'
    BY DEF WorkerInv, Alive, OnePlace, Out, Numbers, Requests, Dones, Replies, At
  <2>5. QED
    BY <2>1, <2>2, <2>3, <2>4 DEF WorkerInv
<1>14. QED
  BY <1>1, <1>2, <1>3, <1>4, <1>5, <1>6, <1>7, <1>8, <1>9, <1>10, <1>11, <1>12, <1>13
     DEF WorkerNext, Receive

(* The invariant holds in every state of the worker and of its master.     *)
THEOREM WorkerInvariance == WorkerSpec => []WorkerInv
<1>1. QED
  BY InitIsIn, WorkerNextKeeps, PTL DEF WorkerSpec

(* A set with one element at most has as many as there are.                *)
LEMMA AtMostOne ==
  ASSUME NEW S, \A x, y \in S : x = y
  PROVE  Cardinality(S) = IF S = {} THEN 0 ELSE 1
<1>1. CASE S = {}
  BY <1>1, FS_EmptySet
<1>2. CASE S # {}
  <2>1. PICK x : S = {x}
    BY <1>2
  <2>2. QED
    BY <1>2, <2>1, FS_Singleton
<1>3. QED
  BY <1>1, <1>2

(* At most one request of an id is on its way, at work or on its way back, *)
(* and request_map knows whether there is one: _p9k_worker_invoke sends no *)
(* second one, and what it keeps back is sent when the first is done.      *)
THEOREM AtMostOneInFlight == WorkerSpec => []OneInFlight
<1>1. WorkerInv => OneInFlight
  <2> SUFFICES ASSUME WorkerInv, worker # "dead", NEW i \in Id
               PROVE  Cardinality(Requests(i)) + Cardinality(Dones(i))
                      + (IF At(i) = {} THEN 0 ELSE 1)
                        = IF reqFd /\ requestMap[i] # Absent THEN 1 ELSE 0
    BY DEF OneInFlight, WorkerInv
  <2>1. CASE ~respFd
    <3>1. toWorker = <<>> /\ toMaster = <<>> /\ fds = {} /\ requestMap[i] = Absent
      BY <2>1 DEF WorkerInv, Phases
    <3>2. Requests(i) = {} /\ Dones(i) = {} /\ At(i) = {}
      BY <3>1 DEF Requests, Dones, At
    <3>3. QED
      BY <3>1, <3>2, FS_EmptySet
  <2>2. CASE respFd
    <3>1. OnePlace(i) /\ DoneOnce(i)
      BY <2>2 DEF WorkerInv, Alive
    <3>2. /\ Cardinality(Requests(i)) = IF Requests(i) = {} THEN 0 ELSE 1
          /\ Cardinality(Dones(i)) = IF Dones(i) = {} THEN 0 ELSE 1
      BY <3>1, AtMostOne DEF OnePlace, DoneOnce
    <3>3. QED
      BY <3>1, <3>2 DEF OnePlace, Out
  <2>3. QED
    BY <2>1, <2>2
<1>2. QED
  BY <1>1, WorkerInvariance, PTL

(* No request is forgotten: the last one asked waits in request_map, is on *)
(* its way, or has been evaluated.                                         *)
THEOREM NoneIsForgotten == WorkerSpec => []NothingForgotten
<1>1. WorkerInv => NothingForgotten
  <2> SUFFICES ASSUME WorkerInv, respFd, worker # "dead", NEW i \in Id
               PROVE  /\ requestMap[i] \in Num => requestMap[i] = asked[i]
                      /\ requestMap[i] = Absent => served[i] = asked[i]
                      /\ requestMap[i] \notin Num /\ requestMap[i] # Absent =>
                           served[i] = asked[i] \/ \E x \in Requests(i) : toWorker[x].n = asked[i]
    BY Marks DEF NothingForgotten
  <2>1. Numbers(i) /\ requestMap[i] \in {Absent, InFlight} \cup Num
    BY DEF WorkerInv, Alive, WorkerTypeOK
  <2>2. QED
    BY <2>1 DEF Numbers
<1>2. QED
  BY <1>1, WorkerInvariance, PTL

(* Every reply comes before its request is done, whether or not the worker *)
(* has been killed meanwhile: a result is never shown in place of a later  *)
(* one.                                                                    *)
THEOREM RepliesComeFirst == WorkerSpec => []RepliesBeforeDone
<1>1. WorkerInv => RepliesBeforeDone
  BY DEF WorkerInv
<1>2. QED
  BY <1>1, WorkerInvariance, PTL

(* A shutdown ends the promise.                                            *)
LEMMA StopImplements ==
  ASSUME WorkerInv, respFd, ~opening, StopEffect
  PROVE  Promise!Next
BY DEF StopEffect, Promise!Next, Promise!SwitchOff, Hanging

(* Whatever the pipes, the processes and the bookkeeping on both sides do, *)
(* each step is one that LatestRequest allows, or changes nothing of what  *)
(* it speaks about: requests of an id are evaluated in order and no result *)
(* is shown after a later request with its id has been evaluated.          *)
THEOREM KeepsThePromise == WorkerSpec => Promise!Init /\ [][Promise!Next]_(Promise!vars)
<1>1. WorkerInit => Promise!Init
  BY DEF WorkerInit, Promise!Init, Zeros, Promise!Zeros, Hanging
<1>2. WorkerInv /\ [WorkerNext]_workerVars => [Promise!Next]_(Promise!vars)
  <2> SUFFICES ASSUME WorkerInv, [WorkerNext]_workerVars
               PROVE  Promise!Next \/ UNCHANGED Promise!vars
    OBVIOUS
  <2> USE DEF Hanging, Promise!vars
  <2>1. CASE Start
    <3>1. ~opening
      BY <2>1 DEF Start, WorkerInv, Phases
    <3>2. QED
      BY <2>1, <3>1 DEF Start, Promise!Next, Promise!SwitchOn, Zeros, Promise!Zeros
  <2>2. CASE Stop
    BY <2>2, StopImplements DEF Stop
  <2>3. CASE \E i \in Id : Invoke(i)
    <3>1. PICK i \in Id : Invoke(i)
      BY <2>3
    <3>2. Promise!Ask(i)
      BY <3>1 DEF Invoke, Promise!Ask
    <3>3. QED
      BY <3>2 DEF Promise!Next
  <2>4. CASE ReceiveDone
    <3>1. CASE StopEffect
      BY <2>4, <3>1, StopImplements DEF ReceiveDone, Responds
    <3>2. CASE ~StopEffect
      BY <2>4, <3>2 DEF ReceiveDone
    <3>3. QED
      BY <3>1, <3>2
  <2>5. CASE ReceiveReply
    <3>1. respFd /\ ~opening /\ toMaster # <<>> /\ Head(toMaster).kind = "e" /\ toMaster \in Seq(Response)
      BY <2>5 DEF ReceiveReply, Responds, WorkerInv, WorkerTypeOK
    <3>2. Head(toMaster) \in Response /\ Head(toMaster) = toMaster[1] /\ 1 \in DOMAIN toMaster
      BY <3>1, Shift
    <3>3. PICK i \in Id : Head(toMaster).id = i
      BY <3>1, <3>2, Kinds
    <3>4. Head(toMaster).n = served[i]
      BY <3>1, <3>2, <3>3 DEF WorkerInv, RepliesBeforeDone, Replies
    <3>5. /\ shown' = [shown EXCEPT ![i] = served[i]]
          /\ UNCHANGED <<respFd, opening, worker, served>>
      BY <2>5, <3>3, <3>4 DEF ReceiveReply
    <3>6. \/ asked' = asked
          \/ \E j \in Id : asked[j] < MaxReq /\ asked' = [asked EXCEPT ![j] = @ + 1]
      <4>1. Chained[i] \in Id \cup {None}
        BY WorkerAssumption
      <4>2. QED
        BY <2>5, <3>3, <4>1 DEF ReceiveReply
    <3>7. Promise!Show(i)
      BY <3>1, <3>5, <3>6 DEF Promise!Show
    <3>8. QED
      BY <3>7 DEF Promise!Next
  <2>6. CASE ReceiveStarted
    <3>1. CASE StopEffect
      BY <2>6, <3>1, StopImplements DEF ReceiveStarted, Responds
    <3>2. CASE ~StopEffect
      BY <2>6, <3>2 DEF ReceiveStarted, Responds, Promise!Next, Promise!SwitchOff
    <3>3. QED
      BY <3>1, <3>2
  <2>7. CASE OpenFifo
    BY <2>7 DEF OpenFifo
  <2>8. CASE ReceiveEof
    BY <2>8, StopImplements DEF ReceiveEof
  <2>9. CASE Announce
    BY <2>9 DEF Announce
  <2>10. CASE Serve
    <3>1. worker = "up" /\ toWorker # <<>> /\ toWorker \in Seq(Request)
      BY <2>10 DEF Serve, WorkerInv, WorkerTypeOK
    <3>2. Head(toWorker) \in Request /\ Head(toWorker) = toWorker[1] /\ 1 \in DOMAIN toWorker
      BY <3>1, Shift
    <3>3. PICK i \in Id, n \in Num : Head(toWorker).id = i /\ Head(toWorker).n = n
      BY <3>2 DEF Request
    <3>4. /\ served' = [served EXCEPT ![i] = n]
          /\ UNCHANGED <<respFd, opening, worker, asked, shown>>
      BY <2>10, <3>3 DEF Serve
    <3>5. respFd /\ Alive
      BY <3>1 DEF WorkerInv, Phases, Alive
    <3>6. served[i] < n /\ n <= asked[i]
      BY <3>2, <3>3, <3>5 DEF WorkerInv, Numbers, Requests
    <3>7. n \in (served[i] + 1)..asked[i]
      BY <3>6, Marks DEF WorkerInv, WorkerTypeOK
    <3>8. Promise!Serve(i)
      BY <3>1, <3>4, <3>5, <3>7 DEF Promise!Serve
    <3>9. QED
      BY <3>8 DEF Promise!Next
  <2>11. CASE \E job \in Job : Collect(job)
    BY <2>11 DEF Collect
  <2>12. CASE Die
    <3>1. worker \in {"starting", "announced", "up"} /\ worker' = "dead"
          /\ UNCHANGED <<respFd, opening, asked, served, shown>>
      BY <2>12, WorkerAssumption DEF Die
    <3>2. respFd
      BY <3>1 DEF WorkerInv, Phases
    <3>3. QED
      BY <3>1, <3>2 DEF Promise!Next, Promise!SwitchOff
  <2>13. CASE UNCHANGED workerVars
    BY <2>13 DEF workerVars
  <2>14. QED
    BY <2>1, <2>2, <2>3, <2>4, <2>5, <2>6, <2>7, <2>8, <2>9, <2>10, <2>11, <2>12, <2>13
       DEF WorkerNext, Receive
<1>3. QED
  BY <1>1, <1>2, WorkerInvariance, PTL DEF WorkerSpec
-----------------------------------------------------------------------------
(* PromptCycle: the inductive invariant.                                   *)

(* The screen shows what PROMPT expands to. *)
Current(s) == s.screen = Full(s)

(* Between two steps no redraw is under way and none is owed, save one     *)
(* that p10k display could not do.                                         *)
Rested(s) == s.finished # "now" /\ s.resetState \in {-1, 0}

(* What was computed from the line, and what PROMPT was compiled from.     *)
UpToDate(s) == s.lastCommands = Matches(s.lastBuffer) /\ s.prompt.built = s.built

(* Only a line of an enabled p10k is finished, and only after precmd.      *)
NotFinished(s) == s.phase = "built" \/ ~s.enabled => s.finished = "unset"
BuiltByPrecmd(s) == s.phase = "built" => s.enabled

(* While a line is edited the screen is current, or the prompt is trimmed  *)
(* and about to come back.                                                 *)
Screened(s) ==
  s.phase = "zle" /\ s.enabled =>
    /\ s.finished = "unset" => Current(s)
    /\ s.finished = "done" => s.restoreFd /\ s.mustRestore

(* The hook has seen the line, unless there are keys to be read or a menu. *)
Followed(s) ==
  s.phase = "zle" /\ s.enabled /\ ~s.menu /\ ~s.pending =>
    s.lastBuffer = s.buffer /\ s.onCommand = AsShown(s.lastCommands)

Steady(s) ==
  Rested(s) /\ UpToDate(s) /\ NotFinished(s) /\ BuiltByPrecmd(s) /\ Screened(s)

IInv == TypeOK /\ Steady(sh) /\ Followed(sh)

-----------------------------------------------------------------------------
(* What the operators keep.                                                *)

(* The rest of the shell may change. *)
Kept(s, t) ==
  /\ t \in Shell
  /\ t.phase = s.phase /\ t.enabled = s.enabled /\ t.built = s.built
  /\ t.buffer = s.buffer /\ t.pending = s.pending /\ t.menu = s.menu
  /\ t.lastBuffer = s.lastBuffer /\ t.lastCommands = s.lastCommands

(* Drawing changes the screen, what is displayed and the state of redraws. *)
Drawn(s, t) ==
  /\ Kept(s, t)
  /\ t.prompt = s.prompt /\ t.finished = s.finished
  /\ t.mustRestore = s.mustRestore /\ t.restoreFd = s.restoreFd

(* The segment with SHOW_ON_COMMAND stays, or follows the line.            *)
Follows(s, t) == t.onCommand \in {s.onCommand, AsShown(s.lastCommands)}

(* What is drawn on what was drawn. *)
LEMMA DrawnTwice ==
  \A s, t, u : Drawn(s, t) /\ Drawn(t, u) => Drawn(s, u)
BY DEF Drawn, Kept

(* Drawing nothing. *)
LEMMA NotDrawn == \A s \in Shell : Drawn(s, s) /\ Follows(s, s)
BY DEF Drawn, Kept, Follows

(* What the screen can show. *)
LEMMA ScreenTypes ==
  ASSUME NEW s \in Shell
  PROVE  Full(s) \in Screen /\ Trimmed(s) \in Screen /\ Plain(s) \in Screen
<1>1. s.screen \in Screen
  BY DEF Shell
<1>2. Full(s) \in Screen
  BY DEF Shell, Full, Screen, Shown
<1>3. Trimmed(s) \in Screen
  BY <1>1 DEF Trimmed, Screen
<1>4. Plain(s) \in Screen
  BY <1>1 DEF Plain, Screen
<1>5. QED
  BY <1>2, <1>3, <1>4

(* What AsShown makes of a condition. *)
LEMMA AsShownType == \A b : AsShown(b) \in Shown
BY DEF AsShown, Shown

(* The segment with SHOW_ON_COMMAND: nothing changes, or a redraw is owed. *)
LEMMA DisplaySegmentIs ==
  ASSUME NEW s \in Shell, NEW part \in Shown, NEW t, t = DisplaySegment(s, part)
  PROVE  /\ Drawn(s, t) /\ t.expanded = s.expanded /\ t.screen = s.screen
         /\ t.onCommand = part
         /\ t = s \/ t.resetState = 2
<1>1. CASE s.onCommand = part
  BY <1>1, NotDrawn DEF DisplaySegment
<1>2. CASE s.onCommand # part
  <2>1. t = [s EXCEPT !.onCommand = part, !.resetState = 2]
    BY <1>2 DEF DisplaySegment
  <2>2. /\ t.onCommand = part /\ t.resetState = 2
        /\ t.onCommand \in Shown /\ t.resetState \in -1..2
    BY <2>1 DEF Shell
  <2>3. t \in Shell
    BY <2>1, <2>2 DEF Shell
  <2>4. Drawn(s, t) /\ t.expanded = s.expanded /\ t.screen = s.screen
    BY <2>1, <2>3 DEF Drawn, Kept, Shell
  <2>5. QED
    BY <2>2, <2>4
<1>3. QED
  BY <1>1, <1>2

(* A part of the user's choice: nothing changes, or a redraw is owed, by   *)
(* the caller if it is drawing.                                            *)
LEMMA MarkPartIs ==
  ASSUME NEW s \in Shell, NEW hook \in UserHook, NEW t, t = MarkPart(s, hook)
  PROVE  /\ Drawn(s, t) /\ t.expanded = s.expanded /\ t.screen = s.screen
         /\ t.onCommand = s.onCommand
         /\ t = s \/ t.resetState = Owed(s)
<1>1. CASE hook = "keep" \/ s.part = hook
  BY <1>1, NotDrawn DEF MarkPart
<1>2. CASE ~(hook = "keep" \/ s.part = hook)
  <2>1. t = [s EXCEPT !.part = hook, !.resetState = Owed(s)]
    BY <1>2 DEF MarkPart
  <2>2. t.part = hook /\ t.resetState = Owed(s) /\ hook \in Shown /\ Owed(s) \in -1..2
    BY <1>2, <2>1 DEF Shell, UserHook, Shown, Owed
  <2>3. t \in Shell
    BY <2>1, <2>2 DEF Shell
  <2>4. /\ Drawn(s, t) /\ t.expanded = s.expanded /\ t.screen = s.screen
        /\ t.onCommand = s.onCommand
    BY <2>1, <2>3 DEF Drawn, Kept, Shell
  <2>5. QED
    BY <2>2, <2>4
<1>3. QED
  BY <1>1, <1>2

(* The first expansion of a prompt in the line editor. *)
LEMMA OnExpandInZleIs ==
  ASSUME NEW s \in Shell, config \in AnyConfig, NEW t, t = OnExpandInZle(s)
  PROVE  /\ Drawn(s, t) /\ t.expanded = s.expanded /\ t.screen = s.screen
         /\ t.onCommand = IF s.phase = "zle" THEN AsShown(s.lastCommands) ELSE s.onCommand
<1>1. CASE s.phase # "zle"
  BY <1>1, NotDrawn DEF OnExpandInZle
<1>2. CASE s.phase = "zle"
  <2>1. PICK u : u = DisplaySegment(s, AsShown(s.lastCommands))
    OBVIOUS
  <2>2. /\ Drawn(s, u) /\ u.expanded = s.expanded /\ u.screen = s.screen
        /\ u.onCommand = AsShown(s.lastCommands)
    BY <2>1, AsShownType, DisplaySegmentIs
  <2>3. u \in Shell /\ config.onPostWidget \in UserHook /\ t = MarkPart(u, config.onPostWidget)
    BY <1>2, <2>1, <2>2 DEF OnExpandInZle, Drawn, Kept, AnyConfig
  <2>4. /\ Drawn(u, t) /\ t.expanded = u.expanded /\ t.screen = u.screen
        /\ t.onCommand = u.onCommand
    BY <2>3, MarkPartIs
  <2>5. QED
    BY <1>2, <2>2, <2>4, DrawnTwice
<1>3. QED
  BY <1>1, <1>2

(* _p9k_on_expand, once for each prompt. *)
LEMMA OnExpandIs ==
  ASSUME NEW s \in Shell, config \in AnyConfig, NEW t, t = OnExpand(s)
  PROVE  /\ Drawn(s, t) /\ t.screen = s.screen
         /\ t = s \/ t.resetState = 0
         /\ s.phase = "zle" => Follows(s, t)
<1>1. CASE s.expanded
  BY <1>1, NotDrawn DEF OnExpand
<1>2. CASE ~s.expanded
  <2>1. PICK a : a = [s EXCEPT !.resetState = 1, !.expanded = TRUE]
    OBVIOUS
  <2>2. a.resetState \in -1..2 /\ a.expanded \in BOOLEAN /\ a.expanded
    BY <2>1 DEF Shell
  <2>3. a \in Shell
    BY <2>1, <2>2 DEF Shell
  <2>4. Drawn(s, a) /\ a.screen = s.screen
    BY <2>1, <2>3 DEF Drawn, Kept, Shell
  <2>5. PICK b : b = DisplaySegment(a, "hide")
    OBVIOUS
  <2>6. "hide" \in Shown
    BY DEF Shown
  <2>7. Drawn(a, b) /\ b.screen = a.screen
    BY <2>3, <2>5, <2>6, DisplaySegmentIs
  <2>8. PICK c : c = MarkPart(b, config.onPrePrompt)
    OBVIOUS
  <2>9. b \in Shell /\ config.onPrePrompt \in UserHook
    BY <2>7 DEF Drawn, Kept, AnyConfig
  <2>10. Drawn(b, c) /\ c.screen = b.screen
    BY <2>8, <2>9, MarkPartIs
  <2>11. PICK d : d = OnExpandInZle(c)
    OBVIOUS
  <2>12. c \in Shell
    BY <2>10 DEF Drawn, Kept
  <2>13. /\ Drawn(c, d) /\ d.screen = c.screen
         /\ d.onCommand = IF c.phase = "zle" THEN AsShown(c.lastCommands) ELSE c.onCommand
    BY <2>11, <2>12, OnExpandInZleIs
  <2>14. t = [d EXCEPT !.resetState = 0]
    BY <1>2, <2>1, <2>5, <2>8, <2>11 DEF OnExpand
  <2>15. d \in Shell
    BY <2>13 DEF Drawn, Kept
  <2>16. t.resetState = 0
    BY <2>14, <2>15 DEF Shell
  <2>17. t \in Shell
    BY <2>14, <2>15, <2>16 DEF Shell
  <2>18. Drawn(d, t) /\ t.screen = d.screen /\ t.onCommand = d.onCommand
    BY <2>14, <2>15, <2>17 DEF Drawn, Kept, Shell
  <2>19. Drawn(s, c)
    BY <2>4, <2>7, <2>10, DrawnTwice
  <2>20. Drawn(s, t)
    BY <2>19, <2>13, <2>18, DrawnTwice
  <2>21. t.screen = s.screen
    BY <2>4, <2>7, <2>10, <2>13, <2>18
  <2>22. s.phase = "zle" => Follows(s, t)
    BY <2>13, <2>18, <2>19 DEF Follows, Drawn, Kept
  <2>23. QED
    BY <2>16, <2>20, <2>21, <2>22
<1>3. QED
  BY <1>1, <1>2

(* A new screen. *)
LEMMA NewScreen ==
  ASSUME NEW s \in Shell, NEW x \in Screen, NEW t, t = [s EXCEPT !.screen = x]
  PROVE  /\ Drawn(s, t) /\ t.screen = x /\ t.resetState = s.resetState
         /\ t.onCommand = s.onCommand /\ Full(t) = Full(s)
<1>1. t.screen = x
  BY DEF Shell
<1>2. t \in Shell
  BY <1>1 DEF Shell
<1>3. /\ Drawn(s, t) /\ t.resetState = s.resetState /\ t.onCommand = s.onCommand
      /\ t.live = s.live /\ t.part = s.part
  BY <1>2 DEF Drawn, Kept, Shell
<1>4. QED
  BY <1>1, <1>3 DEF Full, Drawn

(* zle expands PROMPT. *)
LEMMA DrawIs ==
  ASSUME NEW s \in Shell, config \in AnyConfig, NEW t, t = Draw(s)
  PROVE  /\ Drawn(s, t)
         /\ t.resetState \in {s.resetState, 0}
         /\ s.enabled => Current(t)
         /\ s.phase = "zle" => Follows(s, t)
<1>1. CASE s.enabled
  <2>1. PICK u : u = OnExpand(s)
    OBVIOUS
  <2>2. /\ Drawn(s, u) /\ (u = s \/ u.resetState = 0)
        /\ s.phase = "zle" => Follows(s, u)
    BY <2>1, OnExpandIs
  <2>3. u \in Shell /\ t = [u EXCEPT !.screen = Full(u)]
    BY <1>1, <2>1, <2>2 DEF Draw, DrawFull, Drawn, Kept
  <2>4. PICK x : x = Full(u)
    OBVIOUS
  <2>5. x \in Screen
    BY <2>3, <2>4, ScreenTypes
  <2>6. /\ Drawn(u, t) /\ t.screen = x /\ t.resetState = u.resetState
        /\ t.onCommand = u.onCommand /\ Full(t) = Full(u)
    BY <2>3, <2>4, <2>5, NewScreen
  <2>7. Drawn(s, t)
    BY <2>2, <2>6, DrawnTwice
  <2>8. s.phase = "zle" => Follows(s, t)
    BY <2>2, <2>6 DEF Follows
  <2>9. t.resetState \in {s.resetState, 0}
    BY <2>2, <2>6
  <2>10. QED
    BY <2>4, <2>6, <2>7, <2>8, <2>9 DEF Current
<1>2. CASE ~s.enabled
  <2>1. PICK x : x = Plain(s)
    OBVIOUS
  <2>2. x \in Screen /\ t = [s EXCEPT !.screen = x]
    BY <1>2, <2>1, ScreenTypes DEF Draw
  <2>3. Drawn(s, t) /\ t.resetState = s.resetState /\ t.onCommand = s.onCommand
    BY <2>2, NewScreen
  <2>4. QED
    BY <1>2, <2>3 DEF Follows
<1>3. QED
  BY <1>1, <1>2

(* zle .reset-prompt, where it is allowed. *)
LEMMA ResetPromptIs ==
  ASSUME NEW s \in Shell, config \in AnyConfig, NEW t, t = ResetPrompt(s)
  PROVE  /\ Drawn(s, t) /\ Follows(s, t)
         /\ ~MayReset(s) => t = s
         /\ MayReset(s) => t.resetState = 0 /\ (s.enabled => Current(t))
<1>1. CASE ~MayReset(s)
  BY <1>1, NotDrawn DEF ResetPrompt
<1>2. CASE MayReset(s)
  <2>1. PICK u : u = [s EXCEPT !.resetState = 0]
    OBVIOUS
  <2>2. u.resetState = 0
    BY <2>1 DEF Shell
  <2>3. u \in Shell
    BY <2>1, <2>2 DEF Shell
  <2>4. Drawn(s, u) /\ u.onCommand = s.onCommand
    BY <2>1, <2>3 DEF Drawn, Kept, Shell
  <2>5. t = Draw(u)
    BY <1>2, <2>1 DEF ResetPrompt
  <2>6. /\ Drawn(u, t)
        /\ t.resetState \in {u.resetState, 0}
        /\ u.enabled => Current(t)
        /\ u.phase = "zle" => Follows(u, t)
    BY <2>3, <2>5, DrawIs
  <2>7. Follows(s, t)
    BY <1>2, <2>4, <2>6 DEF Follows, MayReset, Drawn, Kept
  <2>8. u.enabled = s.enabled
    BY <2>4 DEF Drawn, Kept
  <2>9. QED
    BY <1>2, <2>2, <2>4, <2>6, <2>7, <2>8, DrawnTwice
<1>3. QED
  BY <1>1, <1>2

(* A redraw that is owed is done if it may be. *)
LEMMA ResetIfIs ==
  ASSUME NEW s \in Shell, config \in AnyConfig, NEW owed, NEW t, t = ResetIf(s, owed)
  PROVE  /\ Drawn(s, t) /\ Follows(s, t)
         /\ s.resetState # owed \/ ~MayReset(s) => t = s
         /\ s.resetState = owed /\ MayReset(s) => t.resetState = 0 /\ (s.enabled => Current(t))
<1>1. CASE s.resetState = owed
  BY <1>1, ResetPromptIs DEF ResetIf
<1>2. CASE s.resetState # owed
  BY <1>2, NotDrawn DEF ResetIf
<1>3. QED
  BY <1>1, <1>2

(* p10k display draws at once, or leaves a redraw to whoever is drawing; a *)
(* finished line is left alone.                                            *)
LEMMA DisplayIs ==
  ASSUME NEW s \in Shell, config \in AnyConfig, NEW hook \in UserHook,
         NEW t, t = Display(s, hook)
  PROVE  /\ Drawn(s, t) /\ Follows(s, t)
         /\ s.resetState \in {-1, 0} => t.resetState \in {-1, 0}
         /\ s.resetState = 2 => t.resetState = 2
         /\ s.finished = "done" \/ s.phase # "zle" => t.screen = s.screen
         /\ s.resetState \in {-1, 0} /\ s.phase = "zle" /\ s.enabled /\ s.finished # "done"
              /\ Current(s) => Current(t)
<1>1. CASE hook = "keep"
  BY <1>1, NotDrawn DEF Display
<1>2. CASE hook # "keep"
  <2>1. PICK u : u = MarkPart(s, hook)
    OBVIOUS
  <2>2. /\ Drawn(s, u) /\ u.screen = s.screen
        /\ u.onCommand = s.onCommand
        /\ u = s \/ u.resetState = Owed(s)
    BY <2>1, MarkPartIs
  <2>3. u \in Shell /\ t = ResetIf(u, -1)
    BY <1>2, <2>1, <2>2 DEF Display, Drawn, Kept
  <2>4. /\ Drawn(u, t) /\ Follows(u, t)
        /\ u.resetState # -1 \/ ~MayReset(u) => t = u
        /\ u.resetState = -1 /\ MayReset(u) => t.resetState = 0 /\ (u.enabled => Current(t))
    BY <2>3, ResetIfIs
  <2>5. Drawn(s, t)
    BY <2>2, <2>4, DrawnTwice
  <2>6. Follows(s, t)
    BY <2>2, <2>4 DEF Follows, Drawn, Kept
  <2>7. u.phase = s.phase /\ u.finished = s.finished /\ u.enabled = s.enabled
    BY <2>2 DEF Drawn, Kept
  <2>8. \/ u.resetState \in {-1, 0} /\ s.resetState \in {-1, 0}
        \/ u.resetState = 2 /\ s.resetState = 2
        \/ s.resetState = 1
    BY <2>2 DEF Owed, Shell
  <2>9. s.resetState \in {-1, 0} => t.resetState \in {-1, 0}
    BY <2>4, <2>8
  <2>10. s.resetState = 2 => t.resetState = 2
    BY <2>4, <2>8
  <2>11. s.finished = "done" \/ s.phase # "zle" => t.screen = s.screen
    BY <2>2, <2>4, <2>7 DEF MayReset
  <2>12. ASSUME s.resetState \in {-1, 0}, s.phase = "zle", s.enabled, s.finished # "done",
                Current(s)
         PROVE  Current(t)
    <3>1. CASE u = s /\ s.resetState = 0
      BY <2>4, <2>12, <3>1
    <3>2. CASE u.resetState = -1
      BY <2>4, <2>7, <2>12, <3>2 DEF MayReset
    <3>3. QED
      BY <2>2, <2>12, <3>1, <3>2 DEF Owed
  <2>13. QED
    BY <2>5, <2>6, <2>9, <2>10, <2>11, <2>12
<1>3. QED
  BY <1>1, <1>2

-----------------------------------------------------------------------------
(* Building, trimming, and putting back.                                   *)

(* PROMPT is compiled again. *)
LEMMA SetPromptIs ==
  ASSUME NEW s \in Shell, NEW t, t = SetPrompt(s)
  PROVE  /\ Kept(s, t) /\ t.prompt.built = s.built
         /\ t.finished = s.finished /\ t.mustRestore = s.mustRestore
         /\ t.restoreFd = s.restoreFd /\ t.expanded = s.expanded
         /\ t.onCommand = s.onCommand /\ t.resetState = s.resetState /\ t.screen = s.screen
<1>1. ErrorOf(s) \in BOOLEAN /\ LastShown(s) \in BOOLEAN
  BY Zenon DEF ErrorOf, LastShown, Shell
<1>2. PICK e, l : e = ErrorOf(s) /\ l = LastShown(s)
  OBVIOUS
<1>3. t = [s EXCEPT !.prompt = [built |-> s.built, error |-> e], !.lastShown = l]
  BY <1>2 DEF SetPrompt
<1>4. /\ t.prompt = [built |-> s.built, error |-> e] /\ t.lastShown \in BOOLEAN
      /\ t.prompt \in [built : Value, error : BOOLEAN]
  BY <1>1, <1>2, <1>3 DEF Shell
<1>5. t \in Shell
  BY <1>3, <1>4 DEF Shell
<1>6. QED
  BY <1>3, <1>4, <1>5 DEF Kept, Shell

(* The trimmed prompt, where it may be drawn. *)
LEMMA ResetTransientIs ==
  ASSUME NEW s \in Shell, NEW t, t = ResetTransient(s)
  PROVE  /\ Drawn(s, t) /\ t.onCommand = s.onCommand
         /\ ~MayReset(s) => t = s
         /\ MayReset(s) => t.resetState = 0
<1>1. CASE ~MayReset(s)
  BY <1>1, NotDrawn DEF ResetTransient
<1>2. CASE MayReset(s)
  <2>1. PICK x : x = Trimmed(s)
    OBVIOUS
  <2>2. t = [s EXCEPT !.resetState = 0, !.screen = x] /\ x \in Screen
    BY <1>2, <2>1, ScreenTypes DEF ResetTransient
  <2>3. t.resetState = 0 /\ t.screen \in Screen /\ t.resetState \in -1..2
    BY <2>2 DEF Shell
  <2>4. t \in Shell
    BY <2>2, <2>3 DEF Shell
  <2>5. Drawn(s, t) /\ t.onCommand = s.onCommand
    BY <2>2, <2>4 DEF Drawn, Kept, Shell
  <2>6. QED
    BY <1>2, <2>3, <2>5
<1>3. QED
  BY <1>1, <1>2

(* The end of a line, or of the work of a widget: its way back is kept.    *)
Trims(s, t, how) ==
  /\ Kept(s, t) /\ Follows(s, t)
  /\ t.prompt = s.prompt /\ t.finished = s.finished
  /\ how = "int" => t.mustRestore /\ t.restoreFd

(* What keeps the way back. *)
LEMMA KeepsWayBackIs ==
  ASSUME NEW s \in Shell, NEW how, NEW t, t = KeepsWayBack(s, how)
  PROVE  Trims(s, t, how) /\ t.resetState = s.resetState
<1>1. CASE how # "int"
  BY <1>1 DEF KeepsWayBack, Trims, Kept, Follows
<1>2. CASE how = "int"
  <2>1. t = [s EXCEPT !.mustRestore = TRUE, !.restoreFd = TRUE]
    BY <1>2 DEF KeepsWayBack
  <2>2. t.mustRestore /\ t.restoreFd /\ t.mustRestore \in BOOLEAN /\ t.restoreFd \in BOOLEAN
    BY <2>1 DEF Shell
  <2>3. t \in Shell
    BY <2>1, <2>2 DEF Shell
  <2>4. QED
    BY <2>1, <2>2, <2>3 DEF Trims, Kept, Follows, Shell
<1>3. QED
  BY <1>1, <1>2

(* _p9k__last_prompt_pwd. *)
LEMMA RecordPwdIs ==
  ASSUME NEW s \in Shell, NEW t, t = RecordPwd(s)
  PROVE  Trims(s, t, "") /\ t.resetState = s.resetState
<1>1. CASE config.transient = "off"
  BY <1>1 DEF RecordPwd, Trims, Kept, Follows
<1>2. CASE config.transient # "off"
  <2>1. t = [s EXCEPT !.lastPwd = s.cwd]
    BY <1>2 DEF RecordPwd
  <2>2. t.lastPwd \in Dir \cup {NoDir}
    BY <2>1 DEF Shell
  <2>3. t \in Shell
    BY <2>1, <2>2 DEF Shell
  <2>4. QED
    BY <2>1, <2>3 DEF Trims, Kept, Follows, Shell
<1>3. QED
  BY <1>1, <1>2

(* A step of the end of a line, and a step that draws. *)
LEMMA TrimsThenDrawn ==
  \A s, t, u, how : /\ Trims(s, t, how) /\ Drawn(t, u) /\ Follows(t, u) => Trims(s, u, how)
                    /\ Trims(s, t, "") /\ Trims(t, u, how) => Trims(s, u, how)
                    /\ Drawn(s, t) /\ Follows(s, t) /\ Trims(t, u, how) => Trims(s, u, how)
BY DEF Trims, Drawn, Kept, Follows

(* A line that ends has its prompt trimmed, or drawn once more if need be. *)
LEMMA TrimPromptIs ==
  ASSUME NEW s \in Shell, config \in AnyConfig, NEW how, NEW t, t = TrimPrompt(s, how)
  PROVE  /\ Trims(s, t, how)
         /\ s.phase = "zle" /\ s.finished # "done" /\ s.resetState # 1 =>
              t.resetState \in {-1, 0}
<1>1. CASE Optimized(s)
  <2>1. PICK a : a = KeepsWayBack(s, how)
    OBVIOUS
  <2>2. Trims(s, a, how)
    BY <2>1, KeepsWayBackIs
  <2>3. a \in Shell
    BY <2>2 DEF Trims, Kept
  <2>4. PICK b : b = [a EXCEPT !.resetState = 2]
    OBVIOUS
  <2>5. b.resetState = 2 /\ b.resetState \in -1..2
    BY <2>3, <2>4 DEF Shell
  <2>6. b \in Shell
    BY <2>3, <2>4, <2>5 DEF Shell
  <2>7. Drawn(a, b) /\ Follows(a, b)
    BY <2>3, <2>4, <2>6 DEF Drawn, Kept, Follows, Shell
  <2>8. t = ResetTransient(b)
    BY <1>1, <2>1, <2>4 DEF TrimPrompt
  <2>9. /\ Drawn(b, t) /\ t.onCommand = b.onCommand
        /\ MayReset(b) => t.resetState = 0
    BY <2>6, <2>8, ResetTransientIs
  <2>10. Trims(s, b, how)
    BY <2>2, <2>7, TrimsThenDrawn
  <2>11. Trims(s, t, how)
    BY <2>9, <2>10, TrimsThenDrawn DEF Follows
  <2>12. QED
    BY <2>5, <2>9, <2>10, <2>11 DEF MayReset, Trims, Kept
<1>2. CASE ~Optimized(s)
  <2>1. PICK a : a = RecordPwd(s)
    OBVIOUS
  <2>2. Trims(s, a, "") /\ a.resetState = s.resetState
    BY <2>1, RecordPwdIs
  <2>3. a \in Shell
    BY <2>2 DEF Trims, Kept
  <2>4. PICK b : b = KeepsWayBack(a, how)
    OBVIOUS
  <2>5. Trims(a, b, how) /\ b.resetState = a.resetState
    BY <2>3, <2>4, KeepsWayBackIs
  <2>6. b \in Shell /\ t = ResetIf(b, 2)
    BY <1>2, <2>1, <2>4, <2>5 DEF TrimPrompt, Trims, Kept
  <2>7. /\ Drawn(b, t) /\ Follows(b, t)
        /\ b.resetState # 2 \/ ~MayReset(b) => t = b
        /\ b.resetState = 2 /\ MayReset(b) => t.resetState = 0
    BY <2>6, ResetIfIs
  <2>8. Trims(s, b, how)
    BY <2>2, <2>5, TrimsThenDrawn
  <2>9. Trims(s, t, how)
    BY <2>7, <2>8, TrimsThenDrawn
  <2>10. ASSUME s.phase = "zle", s.finished # "done", s.resetState # 1
         PROVE  t.resetState \in {-1, 0}
    <3>1. b.phase = "zle" /\ b.finished # "done" /\ b.resetState = s.resetState
      BY <2>2, <2>5, <2>8, <2>10 DEF Trims, Kept
    <3>2. s.resetState \in {-1, 0, 2}
      BY <2>10 DEF Shell
    <3>3. QED
      BY <2>7, <2>10, <3>1, <3>2 DEF MayReset
  <2>11. QED
    BY <2>9, <2>10
<1>3. QED
  BY <1>1, <1>2

(* _p9k_on_widget_zle-line-finish: once for each line. *)
LEMMA LineFinishIs ==
  ASSUME NEW s \in Shell, config \in AnyConfig, NEW how, NEW t, t = LineFinish(s, how)
  PROVE  /\ s.finished # "unset" => t = s
         /\ s.finished = "unset" =>
              /\ Kept(s, t) /\ Follows(s, t) /\ t.prompt = s.prompt
              /\ t.finished = "done"
              /\ how = "int" => t.mustRestore /\ t.restoreFd
              /\ s.phase = "zle" /\ s.resetState # 1 => t.resetState \in {-1, 0}
<1>1. CASE s.finished # "unset"
  BY <1>1 DEF LineFinish
<1>2. CASE s.finished = "unset"
  <2>1. PICK a : a = [s EXCEPT !.finished = "now",
                               !.resetState = IF config.timeOnFinish THEN 2 ELSE @]
    OBVIOUS
  <2>2. /\ a.finished = "now" /\ a.resetState \in {s.resetState, 2} /\ a.resetState \in -1..2
        /\ a.finished \in {"unset", "now", "done"}
    BY <2>1 DEF Shell
  <2>3. a \in Shell
    BY <2>1, <2>2 DEF Shell
  <2>4. Kept(s, a) /\ Follows(s, a) /\ a.prompt = s.prompt
    BY <2>1, <2>3 DEF Kept, Follows, Shell
  <2>5. PICK b : b = Display(a, config.onPostPrompt)
    OBVIOUS
  <2>6. config.onPostPrompt \in UserHook
    BY DEF AnyConfig
  <2>7. /\ Drawn(a, b) /\ Follows(a, b)
        /\ a.resetState \in {-1, 0} => b.resetState \in {-1, 0}
        /\ a.resetState = 2 => b.resetState = 2
    BY <2>3, <2>5, <2>6, DisplayIs
  <2>8. PICK c : c = TrimPrompt(b, how)
    OBVIOUS
  <2>9. b \in Shell
    BY <2>7 DEF Drawn, Kept
  <2>10. /\ Trims(b, c, how)
         /\ b.phase = "zle" /\ b.finished # "done" /\ b.resetState # 1 =>
              c.resetState \in {-1, 0}
    BY <2>8, <2>9, TrimPromptIs
  <2>11. Trims(a, c, how)
    BY <2>7, <2>10, TrimsThenDrawn
  <2>12. c \in Shell /\ t = [c EXCEPT !.finished = "done"]
    BY <1>2, <2>1, <2>5, <2>8, <2>11 DEF LineFinish, Trims, Kept
  <2>13. t.finished = "done"
    BY <2>12 DEF Shell
  <2>14. t \in Shell
    BY <2>12, <2>13 DEF Shell
  <2>15. /\ Kept(c, t) /\ t.prompt = c.prompt /\ t.onCommand = c.onCommand
         /\ t.resetState = c.resetState
         /\ t.mustRestore = c.mustRestore /\ t.restoreFd = c.restoreFd
    BY <2>12, <2>14 DEF Kept, Shell
  <2>16. Kept(s, t)
    BY <2>4, <2>11, <2>15 DEF Kept, Trims
  <2>17. Follows(s, t) /\ t.prompt = s.prompt
    BY <2>4, <2>11, <2>15 DEF Follows, Kept, Trims
  <2>18. how = "int" => t.mustRestore /\ t.restoreFd
    BY <2>11, <2>15 DEF Trims
  <2>19. ASSUME s.phase = "zle", s.resetState # 1
         PROVE  t.resetState \in {-1, 0}
    <3>1. b.phase = "zle" /\ b.finished # "done"
      BY <2>2, <2>4, <2>7, <2>19 DEF Kept, Drawn
    <3>2. a.resetState \in {-1, 0, 2}
      BY <2>2, <2>19 DEF Shell
    <3>3. b.resetState # 1
      BY <2>7, <3>2
    <3>4. QED
      BY <2>10, <2>15, <3>1, <3>3
  <2>20. QED
    BY <1>2, <2>13, <2>16, <2>17, <2>18, <2>19
<1>3. QED
  BY <1>1, <1>2

(* A trimmed prompt is put back: it is compiled and drawn. *)
LEMMA PutBackIs ==
  ASSUME NEW s \in Shell, config \in AnyConfig, s.phase = "zle", s.resetState \in {-1, 0},
         NEW t, t = PutBack(s)
  PROVE  /\ Kept(s, t) /\ Follows(s, t) /\ t.prompt.built = s.built
         /\ t.finished = "unset" /\ t.resetState = 0
         /\ s.enabled => Current(t)
<1>1. PICK a : a = [s EXCEPT !.mustRestore = FALSE, !.finished = "unset"]
  OBVIOUS
<1>2. /\ a.mustRestore \in BOOLEAN /\ a.finished = "unset"
      /\ a.finished \in {"unset", "now", "done"}
  BY <1>1 DEF Shell
<1>3. a \in Shell
  BY <1>1, <1>2 DEF Shell
<1>4. Kept(s, a) /\ a.onCommand = s.onCommand /\ a.resetState = s.resetState
  BY <1>1, <1>3 DEF Kept, Shell
<1>5. PICK b : b = SetPrompt(a)
  OBVIOUS
<1>6. /\ Kept(a, b) /\ b.prompt.built = a.built
      /\ b.finished = a.finished /\ b.onCommand = a.onCommand /\ b.resetState = a.resetState
  BY <1>3, <1>5, SetPromptIs
<1>7. PICK c : c = [b EXCEPT !.expanded = FALSE]
  OBVIOUS
<1>8. b \in Shell
  BY <1>6 DEF Kept
<1>9. c.expanded \in BOOLEAN
  BY <1>7, <1>8 DEF Shell
<1>10. c \in Shell
  BY <1>7, <1>8, <1>9 DEF Shell
<1>11. Drawn(b, c) /\ c.onCommand = b.onCommand /\ c.resetState = b.resetState
  BY <1>7, <1>8, <1>10 DEF Drawn, Kept, Shell
<1>12. t = ResetPrompt(c)
  BY <1>1, <1>5, <1>7 DEF PutBack
<1>13. MayReset(c)
  BY <1>2, <1>4, <1>6, <1>11 DEF MayReset, Drawn, Kept
<1>14. /\ Drawn(c, t) /\ Follows(c, t)
       /\ t.resetState = 0 /\ (c.enabled => Current(t))
  BY <1>10, <1>12, <1>13, ResetPromptIs
<1>15. Kept(s, t)
  BY <1>4, <1>6, <1>11, <1>14 DEF Drawn, Kept
<1>16. Follows(s, t)
  BY <1>4, <1>6, <1>11, <1>14 DEF Drawn, Kept, Follows
<1>17. t.prompt.built = s.built /\ t.finished = "unset" /\ (s.enabled => c.enabled)
  BY <1>2, <1>4, <1>6, <1>11, <1>14 DEF Drawn, Kept
<1>18. QED
  BY <1>14, <1>15, <1>16, <1>17

(* What a step leaves that does not read the line. *)
Calm(s, t) == Kept(s, t) /\ Follows(s, t) /\ Steady(t)

(* zle sees the descriptor that puts the prompt back. *)
LEMMA RestorePromptIs ==
  ASSUME NEW s \in Shell, config \in AnyConfig, s.phase = "zle", Steady(s),
         NEW t, t = RestorePrompt(s)
  PROVE  Calm(s, t) /\ t.finished = "unset"
<1>1. PICK a : a = [s EXCEPT !.restoreFd = FALSE]
  OBVIOUS
<1>2. a.restoreFd \in BOOLEAN
  BY <1>1 DEF Shell
<1>3. a \in Shell
  BY <1>1, <1>2 DEF Shell
<1>4. /\ Kept(s, a) /\ a.onCommand = s.onCommand /\ a.resetState = s.resetState
      /\ a.finished = s.finished /\ a.prompt = s.prompt
      /\ a.screen = s.screen /\ Full(a) = Full(s)
  BY <1>1, <1>3 DEF Kept, Full, Shell
<1>5. CASE s.mustRestore
  <2>1. t = PutBack(a) /\ a.phase = "zle" /\ a.resetState \in {-1, 0}
    BY <1>1, <1>4, <1>5 DEF RestorePrompt, Steady, Rested, Kept
  <2>2. /\ Kept(a, t) /\ Follows(a, t) /\ t.prompt.built = a.built
        /\ t.finished = "unset" /\ t.resetState = 0
        /\ a.enabled => Current(t)
    BY <1>3, <2>1, PutBackIs
  <2>3. Kept(s, t) /\ Follows(s, t)
    BY <1>4, <2>2 DEF Kept, Follows
  <2>4. t.prompt.built = t.built /\ t.lastCommands = Matches(t.lastBuffer)
    BY <1>4, <2>2, <2>3 DEF Kept, Steady, UpToDate
  <2>5. t.enabled => Current(t)
    BY <1>4, <2>2, <2>3 DEF Kept
  <2>6. Steady(t)
    BY <2>2, <2>3, <2>4, <2>5
       DEF Steady, Rested, UpToDate, NotFinished, BuiltByPrecmd, Screened, Kept
  <2>7. QED
    BY <2>2, <2>3, <2>6 DEF Calm
<1>6. CASE ~s.mustRestore
  <2>1. t = a
    BY <1>1, <1>6 DEF RestorePrompt
  <2>2. s.finished = "unset"
    BY <1>6 DEF Steady, Rested, NotFinished, Screened, Shell
  <2>3. Steady(a)
    BY <1>4, <2>2
       DEF Steady, Rested, UpToDate, NotFinished, BuiltByPrecmd, Screened, Kept, Current
  <2>4. QED
    BY <1>4, <2>1, <2>2, <2>3 DEF Calm, Follows
<1>7. QED
  BY <1>5, <1>6

-----------------------------------------------------------------------------
(* The hook.                                                               *)

(* The line is parsed if it is not the one parsed last. *)
LEMMA ParseBufferIs ==
  ASSUME NEW s \in Shell, Steady(s), NEW t, t = ParseBuffer(s)
  PROVE  /\ t \in Shell /\ t.phase = s.phase /\ t.enabled = s.enabled
         /\ t.buffer = s.buffer /\ t.pending = s.pending /\ t.menu = s.menu
         /\ t.lastBuffer = s.buffer
         /\ Steady(t)
<1>1. CASE s.lastBuffer = s.buffer
  BY <1>1 DEF ParseBuffer
<1>2. CASE s.lastBuffer # s.buffer
  <2>1. PICK m : m = Matches(s.buffer)
    OBVIOUS
  <2>2. m \in BOOLEAN
    BY <2>1 DEF Matches
  <2>3. t = [s EXCEPT !.lastBuffer = s.buffer, !.lastCommands = m]
    BY <1>2, <2>1 DEF ParseBuffer
  <2>4. /\ t.lastBuffer = s.buffer /\ t.lastCommands = m
        /\ t.lastBuffer \in Buffer /\ t.lastCommands \in BOOLEAN
    BY <2>2, <2>3 DEF Shell
  <2>5. t \in Shell
    BY <2>3, <2>4 DEF Shell
  <2>6. /\ t.phase = s.phase /\ t.enabled = s.enabled /\ t.buffer = s.buffer
        /\ t.pending = s.pending /\ t.menu = s.menu
        /\ t.finished = s.finished /\ t.resetState = s.resetState
        /\ t.restoreFd = s.restoreFd /\ t.mustRestore = s.mustRestore
        /\ t.prompt = s.prompt /\ t.built = s.built
        /\ t.screen = s.screen /\ Full(t) = Full(s)
    BY <2>3 DEF Full, Shell
  <2>7. UpToDate(t)
    BY <2>1, <2>4, <2>6 DEF UpToDate, Steady
  <2>8. Steady(t)
    BY <2>6, <2>7 DEF Steady, Rested, NotFinished, BuiltByPrecmd, Screened, Current
  <2>9. QED
    BY <2>4, <2>5, <2>6, <2>8
<1>3. QED
  BY <1>1, <1>2

(* What is drawn by the hook before its widget ends the line. *)
LEMMA ClearScreenIs ==
  ASSUME NEW s \in Shell, config \in AnyConfig, s.phase = "zle", s.enabled,
         Steady(s), s.finished = "unset", NEW widget, NEW t, t = ClearScreen(s, widget)
  PROVE  Calm(s, t) /\ t.finished = "unset"
<1>1. CASE widget # "clear-screen"
  BY <1>1, NotDrawn DEF ClearScreen, Calm, Drawn
<1>2. CASE widget = "clear-screen"
  <2>1. PICK a : a = [s EXCEPT !.expanded = FALSE]
    OBVIOUS
  <2>2. a.expanded \in BOOLEAN
    BY <2>1 DEF Shell
  <2>3. a \in Shell
    BY <2>1, <2>2 DEF Shell
  <2>4. Drawn(s, a) /\ a.onCommand = s.onCommand /\ a.resetState = s.resetState
    BY <2>1, <2>3 DEF Drawn, Kept, Shell
  <2>5. MayReset(a) /\ a.enabled
    BY <2>4 DEF MayReset, Drawn, Kept, Steady, Rested
  <2>6. t = ResetPrompt(a)
    BY <1>2, <2>1 DEF ClearScreen
  <2>7. Drawn(a, t) /\ Follows(a, t) /\ t.resetState = 0 /\ Current(t)
    BY <2>3, <2>5, <2>6, ResetPromptIs
  <2>8. Drawn(s, t) /\ Follows(s, t)
    BY <2>4, <2>7, DrawnTwice DEF Follows, Drawn, Kept
  <2>9. Steady(t)
    BY <2>7, <2>8
       DEF Steady, Rested, UpToDate, NotFinished, BuiltByPrecmd, Screened, Drawn, Kept
  <2>10. QED
    BY <2>8, <2>9 DEF Calm, Drawn
<1>3. QED
  BY <1>1, <1>2

(* The hook displays what fits the line: the screen is current, or a       *)
(* redraw is owed.                                                         *)
LEMMA ShowForLineIs ==
  ASSUME NEW s \in Shell, config \in AnyConfig, Current(s), NEW t, t = ShowForLine(s)
  PROVE  /\ Drawn(s, t) /\ t.onCommand = AsShown(s.lastCommands)
         /\ t.resetState \in {1, 2} /\ (t.resetState = 1 => Current(t))
<1>1. PICK a : a = [s EXCEPT !.resetState = 1]
  OBVIOUS
<1>2. a.resetState = 1
  BY <1>1 DEF Shell
<1>3. a \in Shell
  BY <1>1, <1>2 DEF Shell
<1>4. Drawn(s, a) /\ a.screen = s.screen /\ Full(a) = Full(s)
  BY <1>1, <1>3 DEF Drawn, Kept, Full, Shell
<1>5. PICK b : b = DisplaySegment(a, AsShown(s.lastCommands))
  OBVIOUS
<1>6. /\ Drawn(a, b) /\ b.onCommand = AsShown(s.lastCommands)
      /\ b = a \/ b.resetState = 2
  BY <1>3, <1>5, AsShownType, DisplaySegmentIs
<1>7. a.lastCommands = s.lastCommands
  BY <1>4 DEF Drawn, Kept
<1>8. b \in Shell /\ config.onPostWidget \in UserHook /\ t = MarkPart(b, config.onPostWidget)
  BY <1>1, <1>5, <1>6, <1>7 DEF ShowForLine, Drawn, Kept, AnyConfig
<1>9. /\ Drawn(b, t) /\ t.onCommand = b.onCommand
      /\ t = b \/ t.resetState = Owed(b)
  BY <1>8, MarkPartIs
<1>10. t.resetState = 2 \/ t = a
  BY <1>2, <1>6, <1>9 DEF Owed
<1>11. QED
  BY <1>2, <1>4, <1>6, <1>9, <1>10, DrawnTwice DEF Current

(* The widgets that have a hook. *)
Widget == {"zle-line-finish", "send-break", "zle-keymap-select", "clear-screen",
           "zle-line-init", "zle-line-pre-redraw", ""}
Ending == {"zle-line-finish", "send-break"}

(* What a step leaves that has read the line. *)
Seen(s, t) ==
  /\ t \in Shell /\ t.phase = s.phase /\ t.enabled = s.enabled
  /\ t.buffer = s.buffer /\ t.pending = s.pending /\ t.menu = s.menu
  /\ t.lastBuffer = t.buffer /\ t.onCommand = AsShown(t.lastCommands)

(* The part of the hook that is the widget's own. *)
LEMMA OnWidgetIs ==
  ASSUME NEW s \in Shell, config \in AnyConfig, NEW widget \in Widget,
         s.phase = "zle", s.enabled, s.finished = "unset",
         s.resetState \in {1, 2}, s.resetState = 1 => Current(s),
         NEW t, t = OnWidget(s, widget)
  PROVE  /\ Kept(s, t) /\ Follows(s, t) /\ t.prompt = s.prompt
         /\ widget \in Ending => t.finished = "done"
         /\ widget = "send-break" => t.mustRestore /\ t.restoreFd
         /\ widget \notin Ending =>
              /\ t.finished = "unset"
              /\ t.resetState \in {1, 2} /\ (t.resetState = 1 => Current(t))
<1>1. CASE widget = "zle-line-finish"
  <2>1. t = LineFinish(s, "")
    BY <1>1 DEF OnWidget
  <2>2. PICK how : t = LineFinish(s, how)
    BY <2>1, Zenon
  <2>3. Kept(s, t) /\ Follows(s, t) /\ t.prompt = s.prompt /\ t.finished = "done"
    BY <2>2, LineFinishIs
  <2>4. QED
    BY <1>1, <2>3 DEF Ending
<1>2. CASE widget = "send-break"
  <2>1. t = LineFinish(s, "int")
    BY <1>2 DEF OnWidget
  <2>2. QED
    BY <1>2, <2>1, LineFinishIs DEF Ending
<1>3. CASE widget = "zle-keymap-select"
  <2>1. t = [s EXCEPT !.resetState = 2]
    BY <1>3 DEF OnWidget
  <2>2. t.resetState = 2
    BY <2>1 DEF Shell
  <2>3. t \in Shell
    BY <2>1, <2>2 DEF Shell
  <2>4. Kept(s, t) /\ Follows(s, t) /\ t.prompt = s.prompt /\ t.finished = "unset"
    BY <2>1, <2>3 DEF Kept, Follows, Shell
  <2>5. QED
    BY <1>3, <2>2, <2>4 DEF Ending
<1>4. CASE widget \notin Ending \cup {"zle-keymap-select"}
  <2>1. t = s
    BY <1>4 DEF OnWidget, Ending
  <2>2. QED
    BY <1>4, <2>1 DEF Kept, Follows, Ending
<1>5. QED
  BY <1>1, <1>2, <1>3, <1>4 DEF Widget, Ending

(* The whole hook, of an enabled p10k and without a menu. *)
LEMMA RunHookIs ==
  ASSUME NEW s \in Shell, config \in AnyConfig, NEW widget \in Widget,
         s.phase = "zle", s.enabled, Steady(s), NEW t, t = RunHook(s, widget)
  PROVE  /\ Seen(s, t) /\ Rested(t) /\ UpToDate(t)
         /\ widget # "zle-line-finish" => Screened(t)
         /\ widget \notin Ending => t.finished = "unset"
<1>1. PICK a : a = ParseBuffer(s)
  OBVIOUS
<1>2. /\ a \in Shell /\ a.phase = "zle" /\ a.enabled
      /\ a.buffer = s.buffer /\ a.pending = s.pending /\ a.menu = s.menu
      /\ a.lastBuffer = s.buffer
      /\ Steady(a)
  BY <1>1, ParseBufferIs
<1>3. PICK b : b = RestoreIfOwed(a)
  OBVIOUS
<1>4. Calm(a, b) /\ b.finished = "unset"
  <2>1. CASE a.restoreFd
    BY <1>2, <1>3, <2>1, RestorePromptIs DEF RestoreIfOwed
  <2>2. CASE ~a.restoreFd
    <3>1. b = a
      BY <1>3, <2>2 DEF RestoreIfOwed
    <3>2. a.finished = "unset"
      BY <1>2, <2>2 DEF Steady, Rested, Screened, Shell
    <3>3. QED
      BY <1>2, <3>1, <3>2 DEF Calm, Kept, Follows
  <2>3. QED
    BY <2>1, <2>2
<1>5. PICK c : c = ClearScreen(b, widget)
  OBVIOUS
<1>6. b \in Shell /\ b.phase = "zle" /\ b.enabled /\ Steady(b)
  BY <1>2, <1>4 DEF Calm, Kept
<1>7. Calm(b, c) /\ c.finished = "unset"
  BY <1>4, <1>5, <1>6, ClearScreenIs
<1>8. c \in Shell /\ c.phase = "zle" /\ c.enabled /\ UpToDate(c) /\ Current(c)
  BY <1>6, <1>7 DEF Calm, Kept, Steady, Screened
<1>9. PICK d : d = ShowForLine(c)
  OBVIOUS
<1>10. /\ Drawn(c, d) /\ d.onCommand = AsShown(c.lastCommands)
       /\ d.resetState \in {1, 2} /\ (d.resetState = 1 => Current(d))
  BY <1>8, <1>9, ShowForLineIs
<1>11. /\ d \in Shell /\ d.phase = "zle" /\ d.enabled /\ d.finished = "unset"
  BY <1>7, <1>8, <1>10 DEF Drawn, Kept
<1>12. PICK e : e = OnWidget(d, widget)
  OBVIOUS
<1>13. /\ Kept(d, e) /\ Follows(d, e) /\ e.prompt = d.prompt
       /\ widget \in Ending => e.finished = "done"
       /\ widget = "send-break" => e.mustRestore /\ e.restoreFd
       /\ widget \notin Ending =>
            /\ e.finished = "unset"
            /\ e.resetState \in {1, 2} /\ (e.resetState = 1 => Current(e))
  BY <1>10, <1>11, <1>12, OnWidgetIs
<1>14. PICK f : f = ResetIf(e, 2)
  OBVIOUS
<1>15. e \in Shell
  BY <1>13 DEF Kept
<1>16. /\ Drawn(e, f) /\ Follows(e, f)
       /\ e.resetState # 2 \/ ~MayReset(e) => f = e
       /\ e.resetState = 2 /\ MayReset(e) => (e.enabled => Current(f))
  BY <1>14, <1>15, ResetIfIs
<1>17. f \in Shell /\ t = [f EXCEPT !.resetState = 0]
  BY <1>1, <1>3, <1>5, <1>9, <1>12, <1>14, <1>16 DEF RunHook, Drawn, Kept
<1>18. t.resetState = 0
  BY <1>17 DEF Shell
<1>19. t \in Shell
  BY <1>17, <1>18 DEF Shell
<1>20. Drawn(f, t) /\ t.onCommand = f.onCommand /\ (Current(f) => Current(t))
  BY <1>17, <1>19 DEF Drawn, Kept, Current, Full, Shell
<1>21. Kept(a, d)
  BY <1>4, <1>7, <1>10 DEF Calm, Drawn, Kept
<1>22. Kept(d, t)
  BY <1>13, <1>16, <1>20 DEF Drawn, Kept
<1>23. d.onCommand = AsShown(d.lastCommands)
  BY <1>10 DEF Drawn, Kept
<1>24. t.onCommand = AsShown(t.lastCommands)
  BY <1>13, <1>16, <1>20, <1>22, <1>23 DEF Drawn, Kept, Follows
<1>25. Seen(s, t)
  BY <1>2, <1>21, <1>22, <1>24 DEF Seen, Kept
<1>26. t.finished = e.finished /\ t.mustRestore = e.mustRestore /\ t.restoreFd = e.restoreFd
  BY <1>16, <1>20 DEF Drawn
<1>27. Rested(t)
  BY <1>13, <1>18, <1>26 DEF Rested
<1>28. UpToDate(t)
  BY <1>8, <1>10, <1>13, <1>16, <1>20, <1>22 DEF UpToDate, Drawn, Kept
<1>29. widget \notin Ending => Current(t)
  <2>1. SUFFICES ASSUME widget \notin Ending PROVE Current(f)
    BY <1>20
  <2>2. CASE e.resetState = 1
    BY <1>13, <1>16, <2>1, <2>2
  <2>3. CASE e.resetState = 2
    <3>1. MayReset(e) /\ e.enabled
      BY <1>11, <1>13, <2>1, <2>3 DEF MayReset, Kept
    <3>2. QED
      BY <1>16, <2>3, <3>1
  <2>4. QED
    BY <1>13, <2>1, <2>2, <2>3
<1>30. widget # "zle-line-finish" => Screened(t)
  BY <1>13, <1>26, <1>29 DEF Screened, Ending
<1>31. widget \notin Ending => t.finished = "unset"
  BY <1>13, <1>26
<1>32. QED
  BY <1>25, <1>27, <1>28, <1>30, <1>31

(* The descriptor of a redraw that was put off is closed. *)
LEMMA DescheduledIs ==
  ASSUME NEW s \in Shell, NEW t, t = Descheduled(s)
  PROVE  /\ Drawn(s, t) /\ t.onCommand = s.onCommand /\ t.screen = s.screen
         /\ t.resetState = s.resetState
         /\ Steady(s) => Steady(t)
<1>1. t = [s EXCEPT !.redrawFd = FALSE]
  BY DEF Descheduled
<1>2. t.redrawFd \in BOOLEAN
  BY <1>1 DEF Shell
<1>3. t \in Shell
  BY <1>1, <1>2 DEF Shell
<1>4. /\ Drawn(s, t) /\ t.onCommand = s.onCommand /\ t.screen = s.screen
      /\ t.resetState = s.resetState /\ Full(t) = Full(s)
  BY <1>1, <1>3 DEF Drawn, Kept, Full, Shell
<1>5. Steady(s) => Steady(t)
  BY <1>4 DEF Steady, Rested, UpToDate, NotFinished, BuiltByPrecmd, Screened, Current, Drawn,
              Kept
<1>6. QED
  BY <1>4, <1>5

(* _p9k_widget_hook, while the line goes on. *)
LEMMA WidgetHookIs ==
  ASSUME NEW s \in Shell, config \in AnyConfig, NEW widget \in Widget \ {"zle-line-finish"},
         s.phase = "zle", Steady(s), NEW t, t = WidgetHook(s, widget)
  PROVE  /\ t \in Shell /\ Steady(t) /\ Followed(t)
         /\ t.finished = "unset" \/ t.screen = s.screen \/ widget = "send-break"
<1>1. CASE ~s.enabled
  BY <1>1 DEF WidgetHook, Followed
<1>2. CASE s.enabled
  <2>1. PICK u : u = Descheduled(s)
    OBVIOUS
  <2>2. Drawn(s, u) /\ Steady(u) /\ u.screen = s.screen
    BY <2>1, DescheduledIs
  <2>3. CASE s.menu
    <3>1. t = u
      BY <1>2, <2>1, <2>3 DEF WidgetHook
    <3>2. QED
      BY <2>2, <2>3, <3>1 DEF Followed, Drawn, Kept
  <2>4. CASE ~s.menu
    <3>1. t = RunHook(u, widget)
      BY <1>2, <2>1, <2>4 DEF WidgetHook
    <3>2. u \in Shell /\ u.phase = "zle" /\ u.enabled /\ widget \in Widget
      BY <1>2, <2>2 DEF Drawn, Kept
    <3>3. /\ Seen(u, t) /\ Rested(t) /\ UpToDate(t)
          /\ widget # "zle-line-finish" => Screened(t)
          /\ widget \notin Ending => t.finished = "unset"
      BY <2>2, <3>1, <3>2, RunHookIs
    <3>4. t \in Shell /\ t.phase = "zle" /\ t.enabled
      BY <3>2, <3>3 DEF Seen
    <3>5. Steady(t)
      BY <3>3, <3>4 DEF Steady, NotFinished, BuiltByPrecmd
    <3>6. Followed(t)
      BY <3>3 DEF Followed, Seen
    <3>7. QED
      BY <3>3, <3>4, <3>5, <3>6 DEF Ending
  <2>5. QED
    BY <2>3, <2>4
<1>3. QED
  BY <1>1, <1>2

(* zle-line-pre-redraw, after every widget. *)
LEMMA PreRedrawIs ==
  ASSUME NEW s \in Shell, config \in AnyConfig, s.phase = "zle", Steady(s),
         NEW t, t = PreRedraw(s)
  PROVE  /\ t \in Shell /\ Steady(t) /\ Followed(t)
         /\ t.finished = "unset" \/ t.screen = s.screen
<1>1. CASE ~s.enabled \/ s.menu
  BY <1>1 DEF PreRedraw, Followed
<1>2. CASE ~(~s.enabled \/ s.menu) /\ s.pending
  <2>1. t = [s EXCEPT !.redrawFd = TRUE]
    BY <1>2 DEF PreRedraw
  <2>2. t.redrawFd \in BOOLEAN
    BY <2>1 DEF Shell
  <2>3. t \in Shell
    BY <2>1, <2>2 DEF Shell
  <2>4. Drawn(s, t) /\ t.screen = s.screen /\ t.resetState = s.resetState /\ Full(t) = Full(s)
    BY <2>1, <2>3 DEF Drawn, Kept, Full, Shell
  <2>5. Steady(t)
    BY <2>4 DEF Steady, Rested, UpToDate, NotFinished, BuiltByPrecmd, Screened, Current, Drawn,
                Kept
  <2>6. Followed(t)
    BY <1>2, <2>4 DEF Followed, Drawn, Kept
  <2>7. QED
    BY <2>3, <2>4, <2>5, <2>6
<1>3. CASE ~(~s.enabled \/ s.menu) /\ ~s.pending
  <2>1. t = WidgetHook(s, "zle-line-pre-redraw")
    BY <1>3 DEF PreRedraw
  <2>2. "zle-line-pre-redraw" \in Widget \ {"zle-line-finish"}
    BY DEF Widget
  <2>3. QED
    BY <2>1, <2>2, WidgetHookIs
<1>4. QED
  BY <1>1, <1>2, <1>3

(* The part of precmd that is the same before a line and within one: what  *)
(* is compiled is not drawn yet.                                           *)
LEMMA BuildPromptIs ==
  ASSUME NEW s \in Shell, config \in AnyConfig, NEW replied \in BOOLEAN,
         NEW t, t = BuildPrompt(s, replied)
  PROVE  /\ Kept(s, t) /\ t.prompt.built = s.built /\ t.resetState = 0
         /\ t.finished = s.finished /\ t.mustRestore = s.mustRestore
         /\ t.restoreFd = s.restoreFd
<1>1. PICK a : a = [s EXCEPT !.resetState = 1, !.expanded = FALSE]
  OBVIOUS
<1>2. a.resetState = 1 /\ a.resetState \in -1..2 /\ a.expanded \in BOOLEAN
  BY <1>1 DEF Shell
<1>3. a \in Shell
  BY <1>1, <1>2 DEF Shell
<1>4. Drawn(s, a)
  BY <1>1, <1>3 DEF Drawn, Kept, Shell
<1>5. PICK b : b = SetPrompt(a)
  OBVIOUS
<1>6. /\ Kept(a, b) /\ b.prompt.built = a.built
      /\ b.finished = a.finished /\ b.mustRestore = a.mustRestore
      /\ b.restoreFd = a.restoreFd /\ b.resetState = a.resetState
  BY <1>3, <1>5, SetPromptIs
<1>7. PICK c : c = IF replied THEN ReceiveBuilt(b) ELSE b
  OBVIOUS
<1>8. /\ Kept(b, c) /\ c.prompt.built = b.built
      /\ c.finished = b.finished /\ c.mustRestore = b.mustRestore
      /\ c.restoreFd = b.restoreFd
  <2>1. b \in Shell /\ b.prompt.built = b.built
    BY <1>6 DEF Kept
  <2>2. CASE ~replied
    BY <1>7, <2>1, <2>2 DEF Kept
  <2>3. CASE replied
    <3>1. PICK d : d = SetPrompt(b)
      OBVIOUS
    <3>2. /\ Kept(b, d) /\ d.prompt.built = b.built
          /\ d.finished = b.finished /\ d.mustRestore = b.mustRestore
          /\ d.restoreFd = b.restoreFd /\ d.resetState = b.resetState
      BY <2>1, <3>1, SetPromptIs
    <3>3. c = ResetPrompt(d) /\ ~MayReset(d)
      BY <1>2, <1>6, <1>7, <2>3, <3>1, <3>2 DEF ReceiveBuilt, MayReset
    <3>4. c = d
      BY <3>3 DEF ResetPrompt
    <3>5. QED
      BY <3>2, <3>4
  <2>4. QED
    BY <2>2, <2>3
<1>9. c \in Shell /\ t = [c EXCEPT !.resetState = 0]
  BY <1>1, <1>5, <1>7, <1>8 DEF BuildPrompt, Kept
<1>10. t.resetState = 0
  BY <1>9 DEF Shell
<1>11. t \in Shell
  BY <1>9, <1>10 DEF Shell
<1>12. Drawn(c, t)
  BY <1>9, <1>11 DEF Drawn, Kept, Shell
<1>13. QED
  BY <1>4, <1>6, <1>8, <1>10, <1>12 DEF Drawn, Kept

-----------------------------------------------------------------------------
(* The invariant holds before the first prompt. *)
LEMMA InitKeeps == Init => IInv
<1> SUFFICES ASSUME Init PROVE IInv
  OBVIOUS
<1>1. config \in Config
  BY DEF Init
<1>2. PICK d \in Dir, v \in Value :
        sh = [phase |-> "command", enabled |-> TRUE, cwd |-> d, status |-> FALSE,
              built |-> v, live |-> v, prompt |-> [built |-> v, error |-> FALSE],
              lastShown |-> FALSE, expanded |-> FALSE, resetState |-> 0, finished |-> "unset",
              mustRestore |-> FALSE, restoreFd |-> FALSE, redrawFd |-> FALSE,
              part |-> "show", onCommand |-> "show", lastPwd |-> NoDir,
              buffer |-> EmptyLine, pending |-> FALSE, menu |-> FALSE,
              lastBuffer |-> EmptyLine, lastCommands |-> FALSE,
              screen |-> [kind |-> "plain", built |-> v, live |-> v, error |-> FALSE,
                          part |-> "show", onCommand |-> "show"]]
  BY DEF Init
<1>3. EmptyLine \in Buffer /\ EmptyLine \notin OnCommand
  BY PromptAssumption
<1>4. sh \in Shell
  BY <1>2, <1>3 DEF Shell, Screen, Shown
<1>5. /\ sh.phase = "command" /\ sh.enabled /\ sh.finished = "unset" /\ sh.resetState = 0
      /\ sh.prompt.built = sh.built /\ sh.lastBuffer = EmptyLine /\ sh.lastCommands = FALSE
  BY <1>2
<1>6. Matches(EmptyLine) = FALSE
  BY <1>3 DEF Matches
<1>7. Steady(sh) /\ Followed(sh)
  BY <1>5, <1>6
     DEF Steady, Rested, UpToDate, NotFinished, BuiltByPrecmd, Screened, Followed
<1>8. QED
  BY <1>1, <1>4, <1>7 DEF IInv, TypeOK

(* _p9k_deinit. *)
LEMMA DeinitIs ==
  ASSUME NEW s \in Shell, NEW t, t = Deinit(s)
  PROVE  /\ t \in Shell /\ t.phase = s.phase /\ t.enabled = s.enabled
         /\ t.finished = "unset" /\ t.resetState = s.resetState
         /\ t.built = s.built /\ t.prompt = s.prompt
         /\ t.lastBuffer = EmptyLine /\ t.lastCommands = FALSE
<1>1. EmptyLine \in Buffer
  BY PromptAssumption
<1>2. t = [s EXCEPT !.restoreFd = FALSE, !.redrawFd = FALSE, !.mustRestore = FALSE,
                    !.finished = "unset", !.expanded = FALSE, !.lastShown = FALSE,
                    !.lastPwd = NoDir, !.lastBuffer = EmptyLine, !.lastCommands = FALSE,
                    !.part = "show", !.onCommand = "show"]
  BY DEF Deinit
<1>3. /\ t.restoreFd = FALSE /\ t.redrawFd = FALSE /\ t.mustRestore = FALSE
      /\ t.finished = "unset" /\ t.expanded = FALSE /\ t.lastShown = FALSE
      /\ t.lastPwd \in Dir \cup {NoDir} /\ t.lastBuffer = EmptyLine /\ t.lastCommands = FALSE
      /\ t.part \in Shown /\ t.onCommand \in Shown
  BY <1>2 DEF Shell, Shown
<1>4. t \in Shell
  BY <1>1, <1>2, <1>3 DEF Shell
<1>5. QED
  BY <1>2, <1>3, <1>4 DEF Shell

(* A finished line stays as it is: the step that FinishedStays asks for.   *)
Stays ==
  sh.finished = "done" /\ sh'.finished = "done"
    /\ ~(sh.mustRestore /\ (SendBreak \/ AcceptLine)) /\ ~ChangeDir
  => sh'.screen = sh.screen

(* The invariant of a step that changes the shell only. *)
LEMMA StepKeeps ==
  ASSUME TypeOK, NEW t, sh' = t, t \in Shell, Steady(t), Followed(t), config' = config
  PROVE  IInv'
BY DEF TypeOK, IInv, Steady, Rested, UpToDate, NotFinished, BuiltByPrecmd, Screened, Current,
       Full, Followed

(* Out of the line editor little has to hold. *)
LEMMA OutOfZle ==
  ASSUME NEW t \in Shell, t.phase # "zle", t.resetState \in {-1, 0}, t.finished # "now",
         UpToDate(t), NotFinished(t), BuiltByPrecmd(t)
  PROVE  Steady(t) /\ Followed(t)
BY DEF Steady, Rested, Screened, Followed

(* precmd. *)
LEMMA PrecmdKeeps == IInv /\ Precmd => IInv' /\ Stays
<1> SUFFICES ASSUME IInv, Precmd PROVE IInv' /\ Stays
  OBVIOUS
<1>1. TypeOK /\ config \in AnyConfig /\ sh \in Shell
  BY PromptAssumption DEF IInv, TypeOK
<1>2. /\ sh.phase = "command" /\ sh.enabled /\ config' = config /\ UpToDate(sh)
  BY DEF Precmd, IInv, Steady
<1>3. PICK d \in Dir, failed, hot, replied \in BOOLEAN, b, l \in Value :
        sh' = BuildPrompt([NewLine(IF hot THEN Deinit(sh) ELSE sh)
                             EXCEPT !.cwd = d, !.status = failed, !.built = b, !.live = l],
                          replied)
  BY Zenon DEF Precmd
<1>4. PICK x : x = IF hot THEN Deinit(sh) ELSE sh
  OBVIOUS
<1>5. x \in Shell /\ x.enabled /\ x.lastCommands = Matches(x.lastBuffer)
  <2>1. CASE hot
    <3>1. PICK s : s = sh
      OBVIOUS
    <3>2. s \in Shell /\ x = Deinit(s)
      BY <1>1, <1>4, <2>1, <3>1
    <3>3. x \in Shell /\ x.enabled = s.enabled /\ x.lastBuffer = EmptyLine /\ x.lastCommands = FALSE
      BY <3>2, DeinitIs
    <3>4. Matches(EmptyLine) = FALSE
      BY PromptAssumption DEF Matches
    <3>5. QED
      BY <1>2, <3>1, <3>3, <3>4
  <2>2. CASE ~hot
    BY <1>1, <1>2, <1>4, <2>2 DEF UpToDate
  <2>3. QED
    BY <2>1, <2>2
<1>6. PICK y : y = [NewLine(x) EXCEPT !.cwd = d, !.status = failed, !.built = b, !.live = l]
  OBVIOUS
<1>7. PICK n : n = [x EXCEPT !.mustRestore = FALSE, !.finished = "unset", !.phase = "built"]
  OBVIOUS
<1>8. n.mustRestore = FALSE /\ n.finished = "unset" /\ n.phase = "built"
  BY <1>5, <1>7 DEF Shell
<1>9. n \in Shell
  BY <1>5, <1>7, <1>8 DEF Shell
<1>10. y = [n EXCEPT !.cwd = d, !.status = failed, !.built = b, !.live = l]
  BY <1>6, <1>7 DEF NewLine
<1>11. y.cwd = d /\ y.status = failed /\ y.built = b /\ y.live = l
  BY <1>9, <1>10 DEF Shell
<1>12. y \in Shell
  BY <1>9, <1>10, <1>11 DEF Shell
<1>13. /\ y.phase = "built" /\ y.enabled /\ y.finished = "unset"
       /\ y.lastCommands = Matches(y.lastBuffer)
  BY <1>5, <1>7, <1>8, <1>9, <1>10 DEF Shell
<1>14. PICK t : t = BuildPrompt(y, replied)
  OBVIOUS
<1>15. sh' = t
  BY <1>3, <1>4, <1>6, <1>14
<1>16. /\ Kept(y, t) /\ t.prompt.built = y.built /\ t.resetState = 0
       /\ t.finished = y.finished
  BY <1>1, <1>12, <1>14, BuildPromptIs
<1>17. UpToDate(t) /\ NotFinished(t) /\ BuiltByPrecmd(t)
  BY <1>13, <1>16 DEF UpToDate, NotFinished, BuiltByPrecmd, Kept
<1>18. t \in Shell /\ t.phase # "zle" /\ t.finished = "unset"
  BY <1>13, <1>16 DEF Kept
<1>19. Steady(t) /\ Followed(t)
  BY <1>16, <1>17, <1>18, OutOfZle
<1>20. QED
  BY <1>1, <1>2, <1>15, <1>18, <1>19, StepKeeps DEF Stays

(* What Steady depends on. *)
Alike(s, t) ==
  /\ t \in Shell /\ t.phase = s.phase /\ t.enabled = s.enabled
  /\ t.finished = s.finished /\ t.resetState = s.resetState
  /\ t.restoreFd = s.restoreFd /\ t.mustRestore = s.mustRestore
  /\ t.prompt = s.prompt /\ t.built = s.built
  /\ t.lastBuffer = s.lastBuffer /\ t.lastCommands = s.lastCommands
  /\ t.screen = s.screen /\ Full(t) = Full(s)

(* A change of the line, of the keys to be read or of the menu. *)
LEMMA AlikeSteady ==
  \A s, t : Alike(s, t) /\ Steady(s) =>
              Steady(t) /\ t.phase = s.phase /\ t.enabled = s.enabled /\ t.screen = s.screen
BY DEF Alike, Steady, Rested, UpToDate, NotFinished, BuiltByPrecmd, Screened, Current

(* zle draws a prompt that precmd has built, or a plain one. *)
LEMMA ShowPromptKeeps == IInv /\ ShowPrompt => IInv' /\ Stays
<1> SUFFICES ASSUME IInv, ShowPrompt PROVE IInv' /\ Stays
  OBVIOUS
<1>1. TypeOK /\ config \in AnyConfig /\ sh \in Shell /\ Steady(sh)
  BY PromptAssumption DEF IInv, TypeOK
<1>2. config' = config /\ sh.phase # "zle"
  BY DEF ShowPrompt
<1>3. sh.finished = "unset" /\ (sh.enabled => sh.phase = "built")
  BY <1>1 DEF ShowPrompt, Steady, NotFinished, BuiltByPrecmd
<1>4. PICK b \in Buffer :
        sh' = WidgetHook([Draw(sh) EXCEPT !.phase = "zle", !.buffer = b, !.pending = FALSE],
                         "zle-line-init")
  BY DEF ShowPrompt
<1>5. PICK s : s = sh
  OBVIOUS
<1>6. PICK d : d = Draw(s)
  OBVIOUS
<1>7. /\ Drawn(s, d)
      /\ d.resetState \in {s.resetState, 0}
      /\ s.enabled => Current(d)
  BY <1>1, <1>5, <1>6, DrawIs
<1>8. PICK e : e = [d EXCEPT !.phase = "zle", !.buffer = b, !.pending = FALSE]
  OBVIOUS
<1>9. d \in Shell
  BY <1>7 DEF Drawn, Kept
<1>10. e.phase = "zle" /\ e.buffer = b /\ e.pending = FALSE
  BY <1>8, <1>9 DEF Shell
<1>11. e \in Shell
  BY <1>8, <1>9, <1>10 DEF Shell
<1>12. /\ e.enabled = d.enabled /\ e.finished = d.finished /\ e.resetState = d.resetState
       /\ e.prompt = d.prompt /\ e.built = d.built
       /\ e.lastBuffer = d.lastBuffer /\ e.lastCommands = d.lastCommands
       /\ e.screen = d.screen /\ Full(e) = Full(d)
  BY <1>8, <1>9 DEF Full, Shell
<1>13. Steady(e)
  <2>1. e.finished = "unset" /\ e.enabled = s.enabled
    BY <1>3, <1>5, <1>7, <1>12 DEF Drawn, Kept
  <2>2. Rested(e)
    BY <1>1, <1>5, <1>7, <1>12, <2>1 DEF Rested, Steady
  <2>3. UpToDate(e)
    BY <1>1, <1>5, <1>7, <1>12 DEF UpToDate, Steady, Drawn, Kept
  <2>4. e.enabled => Current(e)
    BY <1>7, <1>12, <2>1 DEF Current
  <2>5. QED
    BY <1>10, <2>1, <2>2, <2>3, <2>4 DEF Steady, NotFinished, BuiltByPrecmd, Screened
<1>14. PICK t : t = WidgetHook(e, "zle-line-init")
  OBVIOUS
<1>15. "zle-line-init" \in Widget \ {"zle-line-finish"}
  BY DEF Widget
<1>16. t \in Shell /\ Steady(t) /\ Followed(t)
  BY <1>1, <1>10, <1>11, <1>13, <1>14, <1>15, WidgetHookIs
<1>17. sh' = t
  BY <1>4, <1>5, <1>6, <1>8, <1>14
<1>18. IInv'
  BY <1>1, <1>2, <1>16, <1>17, StepKeeps
<1>19. QED
  BY <1>3, <1>18 DEF Stays

(* p10k display between two lines: the redraw is left to the next prompt. *)
LEMMA DisplayInCommandKeeps == IInv /\ DisplayInCommand => IInv' /\ Stays
<1> SUFFICES ASSUME IInv, DisplayInCommand PROVE IInv' /\ Stays
  OBVIOUS
<1>1. TypeOK /\ config \in AnyConfig /\ sh \in Shell /\ Steady(sh)
  BY PromptAssumption DEF IInv, TypeOK
<1>2. config' = config /\ sh.phase = "command" /\ sh.enabled
  BY DEF DisplayInCommand
<1>3. PICK h \in Shown : sh' = Display(sh, h)
  BY DEF DisplayInCommand
<1>4. PICK s : s = sh
  OBVIOUS
<1>5. PICK t : t = Display(s, h)
  OBVIOUS
<1>6. h \in UserHook
  BY DEF Shown, UserHook
<1>7. /\ Drawn(s, t)
      /\ s.resetState \in {-1, 0} => t.resetState \in {-1, 0}
      /\ s.phase # "zle" => t.screen = s.screen
  BY <1>1, <1>4, <1>5, <1>6, DisplayIs
<1>8. /\ t \in Shell /\ t.phase # "zle" /\ t.resetState \in {-1, 0} /\ t.finished # "now"
      /\ UpToDate(t) /\ NotFinished(t) /\ BuiltByPrecmd(t)
  BY <1>1, <1>2, <1>4, <1>7
     DEF Drawn, Kept, Steady, Rested, UpToDate, NotFinished, BuiltByPrecmd
<1>9. Steady(t) /\ Followed(t)
  BY <1>8, OutOfZle
<1>10. sh' = t
  BY <1>3, <1>4, <1>5
<1>11. IInv'
  BY <1>1, <1>2, <1>8, <1>9, <1>10, StepKeeps
<1>12. QED
  BY <1>2, <1>4, <1>7, <1>10, <1>11 DEF Stays

(* Another theme. *)
LEMMA TeardownKeeps == IInv /\ Teardown => IInv' /\ Stays
<1> SUFFICES ASSUME IInv, Teardown PROVE IInv' /\ Stays
  OBVIOUS
<1>1. TypeOK /\ sh \in Shell /\ Steady(sh)
  BY DEF IInv, TypeOK
<1>2. config' = config /\ sh.phase = "command" /\ sh' = [Deinit(sh) EXCEPT !.enabled = FALSE]
  BY DEF Teardown
<1>3. PICK s : s = sh
  OBVIOUS
<1>4. PICK d : d = Deinit(s)
  OBVIOUS
<1>5. /\ d \in Shell /\ d.phase = s.phase
      /\ d.finished = "unset" /\ d.resetState = s.resetState
      /\ d.built = s.built /\ d.prompt = s.prompt
      /\ d.lastBuffer = EmptyLine /\ d.lastCommands = FALSE
  BY <1>1, <1>3, <1>4, DeinitIs
<1>6. PICK t : t = [d EXCEPT !.enabled = FALSE]
  OBVIOUS
<1>7. t.enabled = FALSE
  BY <1>5, <1>6 DEF Shell
<1>8. t \in Shell
  BY <1>5, <1>6, <1>7 DEF Shell
<1>9. /\ t.phase = "command" /\ t.finished = "unset" /\ t.resetState = s.resetState
      /\ t.built = s.built /\ t.prompt = s.prompt
      /\ t.lastBuffer = EmptyLine /\ t.lastCommands = FALSE
  BY <1>2, <1>3, <1>5, <1>6 DEF Shell
<1>10. Matches(EmptyLine) = FALSE
  BY PromptAssumption DEF Matches
<1>11. /\ t.phase # "zle" /\ t.resetState \in {-1, 0} /\ t.finished # "now"
       /\ UpToDate(t) /\ NotFinished(t) /\ BuiltByPrecmd(t)
  BY <1>1, <1>3, <1>9, <1>10 DEF Steady, Rested, UpToDate, NotFinished, BuiltByPrecmd
<1>12. Steady(t) /\ Followed(t)
  BY <1>8, <1>11, OutOfZle
<1>13. sh' = t
  BY <1>2, <1>3, <1>4, <1>6
<1>14. IInv'
  BY <1>1, <1>2, <1>8, <1>12, <1>13, StepKeeps
<1>15. QED
  BY <1>9, <1>13, <1>14 DEF Stays

(* And back. *)
LEMMA SetupKeeps == IInv /\ Setup => IInv' /\ Stays
<1> SUFFICES ASSUME IInv, Setup PROVE IInv' /\ Stays
  OBVIOUS
<1>1. TypeOK /\ sh \in Shell /\ Steady(sh)
  BY DEF IInv, TypeOK
<1>2. config' = config /\ sh.phase = "command" /\ sh' = [sh EXCEPT !.enabled = TRUE]
  BY DEF Setup
<1>3. PICK s : s = sh
  OBVIOUS
<1>4. PICK t : t = [s EXCEPT !.enabled = TRUE]
  OBVIOUS
<1>5. t.enabled = TRUE
  BY <1>1, <1>3, <1>4 DEF Shell
<1>6. t \in Shell
  BY <1>1, <1>3, <1>4, <1>5 DEF Shell
<1>7. /\ t.phase = "command" /\ t.finished = s.finished /\ t.resetState = s.resetState
      /\ t.built = s.built /\ t.prompt = s.prompt /\ t.screen = s.screen
      /\ t.lastBuffer = s.lastBuffer /\ t.lastCommands = s.lastCommands
  BY <1>1, <1>2, <1>3, <1>4 DEF Shell
<1>8. /\ t.phase # "zle" /\ t.resetState \in {-1, 0} /\ t.finished # "now"
      /\ UpToDate(t) /\ NotFinished(t) /\ BuiltByPrecmd(t)
  BY <1>1, <1>3, <1>5, <1>7 DEF Steady, Rested, UpToDate, NotFinished, BuiltByPrecmd
<1>9. Steady(t) /\ Followed(t)
  BY <1>6, <1>8, OutOfZle
<1>10. sh' = t
  BY <1>2, <1>3, <1>4
<1>11. IInv'
  BY <1>1, <1>2, <1>6, <1>9, <1>10, StepKeeps
<1>12. QED
  BY <1>3, <1>7, <1>10, <1>11 DEF Stays

-----------------------------------------------------------------------------
(* While a line is edited. *)

(* A widget that leaves the shell steady is followed by the hook. *)
LEMMA HookKeeps ==
  ASSUME IInv, config' = config, NEW s \in Shell, s.phase = "zle", Steady(s),
         s.screen = sh.screen \/ sh.finished = "unset" \/ ChangeDir, sh' = PreRedraw(s)
  PROVE  IInv' /\ Stays
<1>1. TypeOK /\ config \in AnyConfig
  BY PromptAssumption DEF IInv, TypeOK
<1>2. PICK t : t = PreRedraw(s)
  OBVIOUS
<1>3. /\ t \in Shell /\ Steady(t) /\ Followed(t)
      /\ t.finished = "unset" \/ t.screen = s.screen
  BY <1>1, <1>2, PreRedrawIs
<1>4. IInv'
  BY <1>1, <1>2, <1>3, StepKeeps
<1>5. QED
  BY <1>2, <1>3, <1>4 DEF Stays

(* A key. *)
LEMMA KeyKeeps == IInv /\ Key => IInv' /\ Stays
<1> SUFFICES ASSUME IInv, Key PROVE IInv' /\ Stays
  OBVIOUS
<1>1. sh \in Shell /\ Steady(sh) /\ config' = config /\ sh.phase = "zle"
  BY DEF IInv, TypeOK, Key, InZle
<1>2. PICK b \in Buffer, more \in BOOLEAN :
        sh' = PreRedraw([sh EXCEPT !.buffer = b, !.pending = more])
  BY DEF Key
<1>3. PICK s, a : s = sh /\ a = [s EXCEPT !.buffer = b, !.pending = more]
  OBVIOUS
<1>4. a.buffer = b /\ a.pending = more
  BY <1>1, <1>3 DEF Shell
<1>5. a \in Shell
  BY <1>1, <1>3, <1>4 DEF Shell
<1>6. Alike(s, a)
  BY <1>1, <1>3, <1>5 DEF Alike, Full, Shell
<1>7. Steady(a) /\ a.phase = "zle" /\ a.screen = s.screen
  BY <1>1, <1>3, <1>6, AlikeSteady
<1>8. QED
  BY <1>1, <1>2, <1>3, <1>5, <1>7, HookKeeps

(* The menu of a completion. *)
LEMMA EnterMenuKeeps == IInv /\ EnterMenu => IInv' /\ Stays
<1> SUFFICES ASSUME IInv, EnterMenu PROVE IInv' /\ Stays
  OBVIOUS
<1>1. TypeOK /\ sh \in Shell /\ Steady(sh) /\ config' = config
  BY DEF IInv, TypeOK, EnterMenu, InZle
<1>2. PICK s, t : s = sh /\ t = [s EXCEPT !.menu = TRUE]
  OBVIOUS
<1>3. t.menu = TRUE
  BY <1>1, <1>2 DEF Shell
<1>4. t \in Shell
  BY <1>1, <1>2, <1>3 DEF Shell
<1>5. Alike(s, t)
  BY <1>1, <1>2, <1>4 DEF Alike, Full, Shell
<1>6. Steady(t) /\ t.screen = s.screen
  BY <1>1, <1>2, <1>5, AlikeSteady
<1>7. sh' = t
  BY <1>2 DEF EnterMenu
<1>8. IInv'
  BY <1>1, <1>3, <1>4, <1>6, <1>7, StepKeeps DEF Followed
<1>9. QED
  BY <1>2, <1>6, <1>7, <1>8 DEF Stays

(* A key that is not for the menu. *)
LEMMA LeaveMenuKeeps == IInv /\ LeaveMenu => IInv' /\ Stays
<1> SUFFICES ASSUME IInv, LeaveMenu PROVE IInv' /\ Stays
  OBVIOUS
<1>1. sh \in Shell /\ Steady(sh) /\ config' = config /\ sh.phase = "zle"
  BY DEF IInv, TypeOK, LeaveMenu, InZle
<1>2. PICK b \in Buffer : sh' = PreRedraw([sh EXCEPT !.menu = FALSE, !.buffer = b])
  BY DEF LeaveMenu
<1>3. PICK s, a : s = sh /\ a = [s EXCEPT !.menu = FALSE, !.buffer = b]
  OBVIOUS
<1>4. a.buffer = b /\ a.menu = FALSE
  BY <1>1, <1>3 DEF Shell
<1>5. a \in Shell
  BY <1>1, <1>3, <1>4 DEF Shell
<1>6. Alike(s, a)
  BY <1>1, <1>3, <1>5 DEF Alike, Full, Shell
<1>7. Steady(a) /\ a.phase = "zle" /\ a.screen = s.screen
  BY <1>1, <1>3, <1>6, AlikeSteady
<1>8. QED
  BY <1>1, <1>2, <1>3, <1>5, <1>7, HookKeeps

(* The descriptor of a redraw that was put off. *)
LEMMA RedrawKeeps == IInv /\ Redraw => IInv' /\ Stays
<1> SUFFICES ASSUME IInv, Redraw PROVE IInv' /\ Stays
  OBVIOUS
<1>1. /\ TypeOK /\ config \in AnyConfig /\ sh \in Shell /\ Steady(sh)
      /\ config' = config /\ sh.phase = "zle"
  BY PromptAssumption DEF IInv, TypeOK, Redraw, InZle
<1>2. "" \in Widget \ {"zle-line-finish"} /\ "" # "send-break"
  BY DEF Widget
<1>3. PICK s, w, t : s = sh /\ w = "" /\ t = WidgetHook(s, w)
  OBVIOUS
<1>4. s \in Shell /\ s.phase = "zle" /\ Steady(s)
  BY <1>1, <1>3
<1>5. w \in Widget \ {"zle-line-finish"} /\ w # "send-break"
  BY <1>2, <1>3
<1>6. /\ t \in Shell /\ Steady(t) /\ Followed(t)
      /\ t.finished = "unset" \/ t.screen = s.screen
  BY <1>1, <1>3, <1>4, <1>5, WidgetHookIs
<1>7. sh' = t
  BY <1>3 DEF Redraw
<1>8. IInv'
  BY <1>1, <1>6, <1>7, StepKeeps
<1>9. QED
  BY <1>3, <1>6, <1>7, <1>8 DEF Stays

(* A widget with a hook of its own, or an interrupt of one that is bound   *)
(* to a key: the second ends the line, and has put the prompt back first.  *)
LEMMA WidgetKeeps ==
  ASSUME IInv, config' = config, sh.phase = "zle", NEW w \in Widget \ {"zle-line-finish"},
         w = "send-break" => SendBreak, sh' = WidgetHook(sh, w)
  PROVE  IInv' /\ Stays
<1>1. /\ TypeOK /\ config \in AnyConfig /\ sh \in Shell /\ Steady(sh)
  BY PromptAssumption DEF IInv, TypeOK
<1>2. PICK s, t : s = sh /\ t = WidgetHook(s, w)
  OBVIOUS
<1>3. /\ t \in Shell /\ Steady(t) /\ Followed(t)
      /\ t.finished = "unset" \/ t.screen = s.screen \/ w = "send-break"
  BY <1>1, <1>2, WidgetHookIs
<1>4. IInv'
  BY <1>1, <1>2, <1>3, StepKeeps
<1>5. w = "send-break" /\ sh.finished = "done" => sh.mustRestore /\ SendBreak
  BY <1>1 DEF Steady, NotFinished, Screened
<1>6. QED
  BY <1>2, <1>3, <1>4, <1>5 DEF Stays

(* clear-screen, or a change of the keymap. *)
LEMMA HookedWidgetKeeps == IInv /\ HookedWidget => IInv' /\ Stays
<1> SUFFICES ASSUME IInv, HookedWidget PROVE IInv' /\ Stays
  OBVIOUS
<1>1. PICK w \in {"clear-screen", "zle-keymap-select"} : sh' = WidgetHook(sh, w)
  BY DEF HookedWidget
<1>2. w \in Widget \ {"zle-line-finish"} /\ w # "send-break"
  BY DEF Widget
<1>3. config' = config /\ sh.phase = "zle"
  BY DEF HookedWidget, InZle
<1>4. QED
  BY <1>1, <1>2, <1>3, WidgetKeeps

(* send-break. *)
LEMMA SendBreakKeeps == IInv /\ SendBreak => IInv' /\ Stays
<1> SUFFICES ASSUME IInv, SendBreak PROVE IInv' /\ Stays
  OBVIOUS
<1>1. "send-break" \in Widget \ {"zle-line-finish"}
  BY DEF Widget
<1>2. config' = config /\ sh.phase = "zle" /\ sh' = WidgetHook(sh, "send-break")
  BY DEF SendBreak, InZle
<1>3. QED
  BY <1>1, <1>2, WidgetKeeps

(* p10k display in a widget of the user's. *)
LEMMA DisplayInWidgetKeeps == IInv /\ DisplayInWidget => IInv' /\ Stays
<1> SUFFICES ASSUME IInv, DisplayInWidget PROVE IInv' /\ Stays
  OBVIOUS
<1>1. /\ TypeOK /\ config \in AnyConfig /\ sh \in Shell /\ Steady(sh)
      /\ config' = config /\ sh.phase = "zle" /\ sh.enabled
  BY PromptAssumption DEF IInv, TypeOK, DisplayInWidget, InZle
<1>2. PICK h \in Shown : sh' = PreRedraw(Display(sh, h))
  BY DEF DisplayInWidget
<1>3. PICK s, a : s = sh /\ a = Display(s, h)
  OBVIOUS
<1>4. h \in UserHook
  BY DEF Shown, UserHook
<1>5. s \in Shell /\ Steady(s) /\ s.phase = "zle" /\ s.enabled
  BY <1>1, <1>3
<1>6. /\ Drawn(s, a)
      /\ s.resetState \in {-1, 0} => a.resetState \in {-1, 0}
      /\ s.finished = "done" => a.screen = s.screen
      /\ s.resetState \in {-1, 0} /\ s.phase = "zle" /\ s.enabled /\ s.finished # "done"
           /\ Current(s) => Current(a)
  BY <1>1, <1>3, <1>4, <1>5, DisplayIs
<1>7. /\ Rested(a) /\ UpToDate(a) /\ NotFinished(a) /\ BuiltByPrecmd(a)
  BY <1>5, <1>6
     DEF Drawn, Kept, Steady, Rested, UpToDate, NotFinished, BuiltByPrecmd
<1>8. s.finished = "unset" => Current(a)
  BY <1>5, <1>6 DEF Steady, Rested, Screened
<1>9. Screened(a)
  BY <1>5, <1>6, <1>8 DEF Steady, Screened, Drawn, Kept
<1>10. a \in Shell /\ Steady(a) /\ a.phase = "zle"
  BY <1>5, <1>6, <1>7, <1>9 DEF Steady, Drawn, Kept
<1>11. a.screen = sh.screen \/ sh.finished = "unset"
  BY <1>3, <1>5, <1>6 DEF Steady, Rested, Shell
<1>12. QED
  BY <1>1, <1>2, <1>3, <1>10, <1>11, HookKeeps

(* A widget that changes the directory and has the prompt drawn. *)
LEMMA ChangeDirKeeps == IInv /\ ChangeDir => IInv' /\ Stays
<1> SUFFICES ASSUME IInv, ChangeDir PROVE IInv' /\ Stays
  OBVIOUS
<1>1. /\ TypeOK /\ config \in AnyConfig /\ sh \in Shell /\ Steady(sh)
      /\ config' = config /\ sh.phase = "zle" /\ sh.enabled
  BY PromptAssumption DEF IInv, TypeOK, ChangeDir, InZle
<1>2. PICK d \in Dir, replied \in BOOLEAN :
        sh' = PreRedraw(Draw(BuildPrompt([sh EXCEPT !.cwd = d], replied)))
  BY DEF ChangeDir
<1>3. PICK s, a : s = sh /\ a = [s EXCEPT !.cwd = d]
  OBVIOUS
<1>4. a.cwd = d
  BY <1>1, <1>3 DEF Shell
<1>5. a \in Shell
  BY <1>1, <1>3, <1>4 DEF Shell
<1>6. Alike(s, a)
  BY <1>1, <1>3, <1>5 DEF Alike, Full, Shell
<1>7. Steady(a) /\ a.phase = "zle" /\ a.enabled
  BY <1>1, <1>3, <1>6, AlikeSteady
<1>8. PICK b, c : b = BuildPrompt(a, replied) /\ c = Draw(b)
  OBVIOUS
<1>9. /\ Kept(a, b) /\ b.prompt.built = a.built /\ b.resetState = 0
      /\ b.finished = a.finished /\ b.mustRestore = a.mustRestore
      /\ b.restoreFd = a.restoreFd
  BY <1>1, <1>5, <1>8, BuildPromptIs
<1>10. b \in Shell /\ b.enabled /\ b.phase = "zle"
  BY <1>7, <1>9 DEF Kept
<1>11. Drawn(b, c) /\ c.resetState \in {b.resetState, 0} /\ Current(c)
  BY <1>1, <1>8, <1>10, DrawIs
<1>12. c \in Shell /\ c.phase = "zle" /\ c.enabled
  BY <1>10, <1>11 DEF Drawn, Kept
<1>13. Rested(c) /\ Screened(c)
  BY <1>7, <1>9, <1>11 DEF Steady, Rested, Screened, Drawn
<1>14. UpToDate(c)
  BY <1>7, <1>9, <1>11 DEF Steady, UpToDate, Drawn, Kept
<1>15. Steady(c)
  BY <1>12, <1>13, <1>14 DEF Steady, NotFinished, BuiltByPrecmd
<1>16. QED
  BY <1>1, <1>2, <1>3, <1>8, <1>12, <1>15, HookKeeps

(* What is drawn again because of an answer or a signal. *)
LEMMA ResetKeeps ==
  ASSUME IInv, config' = config, sh.phase = "zle",
         NEW a \in Shell, a.phase = "zle", a.enabled = sh.enabled,
         a.buffer = sh.buffer, a.pending = sh.pending, a.menu = sh.menu,
         a.lastBuffer = sh.lastBuffer, a.lastCommands = sh.lastCommands,
         a.finished = sh.finished, a.mustRestore = sh.mustRestore,
         a.restoreFd = sh.restoreFd, a.onCommand = sh.onCommand,
         a.resetState = sh.resetState, a.screen = sh.screen,
         a.prompt.built = a.built, sh' = ResetPrompt(a)
  PROVE  IInv' /\ Stays
<1>1. /\ TypeOK /\ config \in AnyConfig /\ sh \in Shell /\ Steady(sh) /\ Followed(sh)
  BY PromptAssumption DEF IInv, TypeOK
<1>2. PICK s, t : s = sh /\ t = ResetPrompt(a)
  OBVIOUS
<1>3. /\ Drawn(a, t) /\ Follows(a, t)
      /\ ~MayReset(a) => t = a
      /\ MayReset(a) => t.resetState = 0 /\ (a.enabled => Current(t))
  BY <1>1, <1>2, ResetPromptIs
<1>4. t \in Shell /\ t.finished = sh.finished
  BY <1>3 DEF Drawn, Kept
<1>5. MayReset(a) <=> sh.finished # "done"
  BY <1>1 DEF MayReset, Steady, Rested
<1>6. Rested(t) /\ NotFinished(t) /\ BuiltByPrecmd(t)
  BY <1>1, <1>3 DEF Steady, Rested, NotFinished, BuiltByPrecmd, Drawn, Kept
<1>7. UpToDate(t)
  BY <1>1, <1>3 DEF Steady, UpToDate, Drawn, Kept
<1>8. Screened(t)
  <2>1. CASE sh.finished = "done"
    BY <1>1, <1>3, <1>5, <2>1 DEF Steady, Screened
  <2>2. CASE sh.finished # "done"
    BY <1>3, <1>4, <1>5, <2>2 DEF Screened, Drawn, Kept
  <2>3. QED
    BY <2>1, <2>2
<1>9. Followed(t)
  BY <1>1, <1>3 DEF Followed, Follows, Drawn, Kept
<1>10. Steady(t)
  BY <1>6, <1>7, <1>8 DEF Steady
<1>11. IInv'
  BY <1>1, <1>2, <1>4, <1>9, <1>10, StepKeeps
<1>12. QED
  BY <1>2, <1>3, <1>5, <1>11 DEF Stays

(* An answer that is read when PROMPT is expanded. *)
LEMMA LiveReplyKeeps == IInv /\ LiveReply => IInv' /\ Stays
<1> SUFFICES ASSUME IInv, LiveReply PROVE IInv' /\ Stays
  OBVIOUS
<1>1. /\ sh \in Shell /\ UpToDate(sh) /\ config' = config /\ sh.phase = "zle"
  BY DEF IInv, TypeOK, Steady, LiveReply, InZle
<1>2. PICK v \in Value : sh' = ResetPrompt([sh EXCEPT !.live = v])
  BY DEF LiveReply
<1>3. PICK s, a : s = sh /\ a = [s EXCEPT !.live = v]
  OBVIOUS
<1>4. a.live = v
  BY <1>1, <1>3 DEF Shell
<1>5. a \in Shell
  BY <1>1, <1>3, <1>4 DEF Shell
<1>6. /\ a.phase = s.phase /\ a.enabled = s.enabled
      /\ a.buffer = s.buffer /\ a.pending = s.pending /\ a.menu = s.menu
      /\ a.lastBuffer = s.lastBuffer /\ a.lastCommands = s.lastCommands
      /\ a.finished = s.finished /\ a.mustRestore = s.mustRestore
      /\ a.restoreFd = s.restoreFd /\ a.onCommand = s.onCommand
      /\ a.resetState = s.resetState /\ a.screen = s.screen
      /\ a.prompt = s.prompt /\ a.built = s.built
  BY <1>1, <1>3 DEF Shell
<1>7. a.prompt.built = a.built
  BY <1>1, <1>3, <1>6 DEF UpToDate
<1>8. QED
  BY <1>1, <1>2, <1>3, <1>5, <1>6, <1>7, ResetKeeps

(* An answer that is compiled into PROMPT. *)
LEMMA BuiltReplyKeeps == IInv /\ BuiltReply => IInv' /\ Stays
<1> SUFFICES ASSUME IInv, BuiltReply PROVE IInv' /\ Stays
  OBVIOUS
<1>1. /\ sh \in Shell /\ config' = config /\ sh.phase = "zle"
  BY DEF IInv, TypeOK, BuiltReply, InZle
<1>2. PICK v \in Value : sh' = ReceiveBuilt([sh EXCEPT !.built = v])
  BY DEF BuiltReply
<1>3. PICK s, a, b : s = sh /\ a = [s EXCEPT !.built = v] /\ b = SetPrompt(a)
  OBVIOUS
<1>4. a.built = v
  BY <1>1, <1>3 DEF Shell
<1>5. a \in Shell
  BY <1>1, <1>3, <1>4 DEF Shell
<1>6. /\ a.phase = s.phase /\ a.enabled = s.enabled
      /\ a.buffer = s.buffer /\ a.pending = s.pending /\ a.menu = s.menu
      /\ a.lastBuffer = s.lastBuffer /\ a.lastCommands = s.lastCommands
      /\ a.finished = s.finished /\ a.mustRestore = s.mustRestore
      /\ a.restoreFd = s.restoreFd /\ a.onCommand = s.onCommand
      /\ a.resetState = s.resetState /\ a.screen = s.screen
  BY <1>1, <1>3 DEF Shell
<1>7. /\ Kept(a, b) /\ b.prompt.built = a.built
      /\ b.finished = a.finished /\ b.mustRestore = a.mustRestore
      /\ b.restoreFd = a.restoreFd
      /\ b.onCommand = a.onCommand /\ b.resetState = a.resetState /\ b.screen = a.screen
  BY <1>3, <1>5, SetPromptIs
<1>8. /\ b \in Shell /\ b.phase = s.phase /\ b.enabled = s.enabled
      /\ b.buffer = s.buffer /\ b.pending = s.pending /\ b.menu = s.menu
      /\ b.lastBuffer = s.lastBuffer /\ b.lastCommands = s.lastCommands
      /\ b.finished = s.finished /\ b.mustRestore = s.mustRestore
      /\ b.restoreFd = s.restoreFd /\ b.onCommand = s.onCommand
      /\ b.resetState = s.resetState /\ b.screen = s.screen
      /\ b.prompt.built = b.built
  BY <1>6, <1>7 DEF Kept
<1>9. sh' = ResetPrompt(b)
  BY <1>2, <1>3 DEF ReceiveBuilt
<1>10. QED
  BY <1>1, <1>3, <1>8, <1>9, ResetKeeps

(* SIGWINCH *)
LEMMA ResizeKeeps == IInv /\ Resize => IInv' /\ Stays
<1> SUFFICES ASSUME IInv, Resize PROVE IInv' /\ Stays
  OBVIOUS
<1>1. /\ sh \in Shell /\ UpToDate(sh) /\ config' = config /\ sh.phase = "zle"
  BY DEF IInv, TypeOK, Steady, Resize, InZle
<1>2. PICK s, a : s = sh /\ a = [s EXCEPT !.expanded = FALSE]
  OBVIOUS
<1>3. a.expanded = FALSE
  BY <1>1, <1>2 DEF Shell
<1>4. a \in Shell
  BY <1>1, <1>2, <1>3 DEF Shell
<1>5. /\ a.phase = s.phase /\ a.enabled = s.enabled
      /\ a.buffer = s.buffer /\ a.pending = s.pending /\ a.menu = s.menu
      /\ a.lastBuffer = s.lastBuffer /\ a.lastCommands = s.lastCommands
      /\ a.finished = s.finished /\ a.mustRestore = s.mustRestore
      /\ a.restoreFd = s.restoreFd /\ a.onCommand = s.onCommand
      /\ a.resetState = s.resetState /\ a.screen = s.screen
      /\ a.prompt = s.prompt /\ a.built = s.built
  BY <1>1, <1>2 DEF Shell
<1>6. a.prompt.built = a.built
  BY <1>1, <1>2, <1>5 DEF UpToDate
<1>7. sh' = ResetPrompt(a)
  BY <1>2 DEF Resize
<1>8. QED
  BY <1>1, <1>2, <1>4, <1>5, <1>6, <1>7, ResetKeeps

-----------------------------------------------------------------------------
(* The end of a line. *)

(* The trap of an interrupt: the line is over, or only a widget is. *)
LEMMA InterruptKeeps == IInv /\ Interrupt => IInv' /\ Stays
<1> SUFFICES ASSUME IInv, Interrupt PROVE IInv' /\ Stays
  OBVIOUS
<1>1. /\ TypeOK /\ config \in AnyConfig /\ sh \in Shell /\ Steady(sh) /\ Followed(sh)
      /\ config' = config /\ sh.phase = "zle" /\ sh.enabled
  BY PromptAssumption DEF IInv, TypeOK, Interrupt, InZle
<1>2. PICK s, d, t : s = sh /\ d = Descheduled(s) /\ t = LineFinish(d, "int")
  OBVIOUS
<1>3. s \in Shell
  BY <1>1, <1>2
<1>4. /\ Drawn(s, d) /\ d.onCommand = s.onCommand /\ d.screen = s.screen
      /\ d.resetState = s.resetState
      /\ Steady(s) => Steady(d)
  BY <1>2, <1>3, DescheduledIs
<1>5. d \in Shell /\ Steady(d) /\ d.finished = s.finished
  BY <1>1, <1>2, <1>4 DEF Drawn, Kept
<1>6. sh' = t
  BY <1>2 DEF Interrupt
<1>7. Followed(d)
  BY <1>1, <1>2, <1>4 DEF Followed, Drawn, Kept
<1>8. CASE sh.finished # "unset"
  <2>1. t = d
    BY <1>2, <1>5, <1>8, LineFinishIs DEF LineFinish
  <2>2. IInv'
    BY <1>1, <1>5, <1>6, <1>7, <2>1, StepKeeps
  <2>3. QED
    BY <1>2, <1>4, <1>6, <2>1, <2>2 DEF Stays
<1>9. CASE sh.finished = "unset"
  <2>1. d.finished = "unset"
    BY <1>2, <1>5, <1>9
  <2>2. /\ Kept(d, t) /\ Follows(d, t) /\ t.prompt = d.prompt
        /\ t.finished = "done" /\ t.mustRestore /\ t.restoreFd
        /\ d.phase = "zle" /\ d.resetState # 1 => t.resetState \in {-1, 0}
    BY <1>1, <1>2, <1>5, <2>1, LineFinishIs
  <2>3. d.phase = "zle" /\ d.enabled /\ d.resetState # 1
    BY <1>1, <1>2, <1>4, <1>5 DEF Drawn, Kept, Steady, Rested
  <2>4. t \in Shell /\ t.phase = "zle" /\ t.enabled
    BY <2>2, <2>3 DEF Kept
  <2>5. Rested(t) /\ NotFinished(t) /\ BuiltByPrecmd(t) /\ Screened(t)
    BY <2>2, <2>3, <2>4 DEF Rested, NotFinished, BuiltByPrecmd, Screened
  <2>6. UpToDate(t)
    BY <1>5, <2>2 DEF Steady, UpToDate, Kept
  <2>7. Followed(t)
    BY <1>7, <2>2 DEF Followed, Follows, Kept
  <2>8. Steady(t)
    BY <2>5, <2>6 DEF Steady
  <2>9. IInv'
    BY <1>1, <1>6, <2>4, <2>7, <2>8, StepKeeps
  <2>10. QED
    BY <1>9, <2>9 DEF Stays
<1>10. QED
  BY <1>8, <1>9

(* The prompt is put back by the descriptor. *)
LEMMA RestoreKeeps == IInv /\ Restore => IInv' /\ Stays
<1> SUFFICES ASSUME IInv, Restore PROVE IInv' /\ Stays
  OBVIOUS
<1>1. /\ TypeOK /\ config \in AnyConfig /\ sh \in Shell /\ Steady(sh) /\ Followed(sh)
      /\ config' = config /\ sh.phase = "zle"
  BY PromptAssumption DEF IInv, TypeOK, Restore, InZle
<1>2. PICK s, t : s = sh /\ t = RestorePrompt(s)
  OBVIOUS
<1>3. s \in Shell /\ s.phase = "zle" /\ Steady(s)
  BY <1>1, <1>2
<1>4. Calm(s, t) /\ t.finished = "unset"
  BY <1>1, <1>2, <1>3, RestorePromptIs
<1>5. sh' = t
  BY <1>2 DEF Restore
<1>6. t \in Shell /\ Steady(t) /\ Followed(t)
  BY <1>1, <1>2, <1>4 DEF Calm, Kept, Follows, Followed
<1>7. IInv'
  BY <1>1, <1>5, <1>6, StepKeeps
<1>8. QED
  BY <1>4, <1>5, <1>7 DEF Stays

(* What is left when a line is over. *)
LEMMA OverIs ==
  ASSUME NEW s \in Shell, Rested(s), UpToDate(s), s.enabled \/ s.finished = "unset",
         NEW t, t = Over(s)
  PROVE  t \in Shell /\ Steady(t) /\ Followed(t) /\ t.screen = s.screen
<1>1. EmptyLine \in Buffer
  BY PromptAssumption
<1>2. t = [s EXCEPT !.phase = "command", !.buffer = EmptyLine, !.pending = FALSE, !.menu = FALSE]
  BY DEF Over
<1>3. t.phase = "command" /\ t.buffer = EmptyLine /\ t.pending = FALSE /\ t.menu = FALSE
  BY <1>2 DEF Shell
<1>4. t \in Shell
  BY <1>1, <1>2, <1>3 DEF Shell
<1>5. /\ t.enabled = s.enabled /\ t.finished = s.finished /\ t.resetState = s.resetState
      /\ t.prompt = s.prompt /\ t.built = s.built /\ t.screen = s.screen
      /\ t.lastBuffer = s.lastBuffer /\ t.lastCommands = s.lastCommands
  BY <1>2 DEF Shell
<1>6. /\ t.phase # "zle" /\ t.resetState \in {-1, 0} /\ t.finished # "now"
      /\ UpToDate(t) /\ NotFinished(t) /\ BuiltByPrecmd(t)
  BY <1>3, <1>5 DEF Rested, UpToDate, NotFinished, BuiltByPrecmd
<1>7. QED
  BY <1>4, <1>5, <1>6, OutOfZle

(* A line that the interrupt has ended. *)
LEMMA LineAbortedKeeps == IInv /\ LineAborted => IInv' /\ Stays
<1> SUFFICES ASSUME IInv, LineAborted PROVE IInv' /\ Stays
  OBVIOUS
<1>1. /\ TypeOK /\ sh \in Shell /\ Rested(sh) /\ UpToDate(sh) /\ NotFinished(sh)
      /\ config' = config
  BY DEF IInv, TypeOK, Steady, LineAborted, InZle
<1>2. PICK s, t : s = sh /\ t = Over(s)
  OBVIOUS
<1>3. s \in Shell /\ Rested(s) /\ UpToDate(s) /\ (s.enabled \/ s.finished = "unset")
  BY <1>1, <1>2 DEF NotFinished
<1>4. t \in Shell /\ Steady(t) /\ Followed(t) /\ t.screen = s.screen
  BY <1>2, <1>3, OverIs
<1>5. sh' = t
  BY <1>2 DEF LineAborted
<1>6. IInv'
  BY <1>1, <1>4, <1>5, StepKeeps
<1>7. QED
  BY <1>2, <1>4, <1>5, <1>6 DEF Stays

(* A line that is accepted. *)
LEMMA AcceptLineKeeps == IInv /\ AcceptLine => IInv' /\ Stays
<1> SUFFICES ASSUME IInv, AcceptLine PROVE IInv' /\ Stays
  OBVIOUS
<1>1. /\ TypeOK /\ config \in AnyConfig /\ sh \in Shell /\ Steady(sh)
      /\ config' = config /\ sh.phase = "zle"
  BY PromptAssumption DEF IInv, TypeOK, AcceptLine, InZle
<1>2. PICK s, a : s = sh /\ a = [s EXCEPT !.menu = FALSE]
  OBVIOUS
<1>3. a.menu = FALSE
  BY <1>1, <1>2 DEF Shell
<1>4. a \in Shell
  BY <1>1, <1>2, <1>3 DEF Shell
<1>5. Alike(s, a)
  BY <1>1, <1>2, <1>4 DEF Alike, Full, Shell
<1>6. Steady(a) /\ a.phase = "zle"
  BY <1>1, <1>2, <1>5, AlikeSteady
<1>7. PICK w : w = WidgetHook(a, "zle-line-finish")
  OBVIOUS
<1>8. w \in Shell /\ Rested(w) /\ UpToDate(w) /\ (w.enabled \/ w.finished = "unset")
  <2>1. CASE ~a.enabled
    <3>1. w = a
      BY <1>7, <2>1 DEF WidgetHook
    <3>2. QED
      BY <1>4, <1>6, <2>1, <3>1 DEF Steady, NotFinished
  <2>2. CASE a.enabled
    <3>1. PICK u : u = Descheduled(a)
      OBVIOUS
    <3>2. Drawn(a, u) /\ Steady(u)
      BY <1>4, <1>6, <3>1, DescheduledIs
    <3>3. u \in Shell /\ u.phase = "zle" /\ u.enabled
      BY <1>6, <2>2, <3>2 DEF Drawn, Kept
    <3>4. w = RunHook(u, "zle-line-finish")
      BY <1>3, <1>7, <2>2, <3>1 DEF WidgetHook
    <3>5. "zle-line-finish" \in Widget
      BY DEF Widget
    <3>6. Seen(u, w) /\ Rested(w) /\ UpToDate(w)
      BY <1>1, <3>2, <3>3, <3>4, <3>5, RunHookIs
    <3>7. QED
      BY <3>3, <3>6 DEF Seen
  <2>3. QED
    BY <2>1, <2>2
<1>9. PICK t : t = Over(w)
  OBVIOUS
<1>10. t \in Shell /\ Steady(t) /\ Followed(t)
  BY <1>8, <1>9, OverIs
<1>11. sh' = t
  BY <1>2, <1>7, <1>9 DEF AcceptLine
<1>12. IInv'
  BY <1>1, <1>10, <1>11, StepKeeps
<1>13. sh.finished = "done" => sh.mustRestore
  BY <1>1 DEF Steady, NotFinished, Screened
<1>14. QED
  BY <1>12, <1>13 DEF Stays

-----------------------------------------------------------------------------
(* The theorems.                                                           *)

(* Every step keeps the invariant, and leaves a finished line alone. *)
LEMMA NextKeeps == IInv /\ [Next]_vars => IInv' /\ (Stays \/ vars' = vars)
<1> SUFFICES ASSUME IInv, [Next]_vars PROVE IInv' /\ (Stays \/ vars' = vars)
  OBVIOUS
<1>1. CASE Precmd \/ ShowPrompt \/ DisplayInCommand \/ Teardown \/ Setup
  BY <1>1, PrecmdKeeps, ShowPromptKeeps, DisplayInCommandKeeps, TeardownKeeps, SetupKeeps, Zenon
<1>2. CASE Key \/ EnterMenu \/ LeaveMenu \/ Redraw \/ HookedWidget \/ DisplayInWidget
  BY <1>2, KeyKeeps, EnterMenuKeeps, LeaveMenuKeeps, RedrawKeeps, HookedWidgetKeeps,
     DisplayInWidgetKeeps, Zenon
<1>3. CASE ChangeDir \/ LiveReply \/ BuiltReply \/ Resize
  BY <1>3, ChangeDirKeeps, LiveReplyKeeps, BuiltReplyKeeps, ResizeKeeps, Zenon
<1>4. CASE Interrupt \/ SendBreak \/ Restore \/ LineAborted \/ AcceptLine
  BY <1>4, InterruptKeeps, SendBreakKeeps, RestoreKeeps, LineAbortedKeeps, AcceptLineKeeps, Zenon
<1>5. CASE UNCHANGED vars
  BY <1>5 DEF vars, IInv, TypeOK, Steady, Rested, UpToDate, NotFinished, BuiltByPrecmd, Screened,
              Current, Full, Followed
<1>6. QED
  BY <1>1, <1>2, <1>3, <1>4, <1>5, Zenon DEF Next

(* The inductive invariant: between two widgets, callbacks or traps the    *)
(* shell is as the comments of Steady and Followed say.                    *)
THEOREM Invariance == Spec => []IInv
<1>1. IInv /\ [Next]_vars => IInv'
  BY NextKeeps, Zenon
<1>2. QED
  BY InitKeeps, <1>1, PTL DEF Spec

(* No redraw is lost: when zle is at rest the screen shows what PROMPT     *)
(* expands to (_p9k_reset_prompt, _p9k_widget_hook, __p9k_reset_state).    *)
THEOREM RedrawsAreNotLost == Spec => []ScreenIsCurrent
<1>1. IInv => ScreenIsCurrent
  <2> SUFFICES ASSUME IInv, AtRest PROVE sh.screen = Full(sh) /\ sh.prompt.built = sh.built
    BY DEF ScreenIsCurrent
  <2>1. sh.finished \in {"unset", "now", "done"}
    BY DEF IInv, TypeOK, Shell
  <2>2. sh.finished = "unset"
    BY <2>1 DEF IInv, AtRest, Steady, Rested, Screened
  <2>3. QED
    BY <2>2 DEF IInv, AtRest, Steady, Screened, UpToDate, Current
<1>2. QED
  BY Invariance, <1>1, PTL

(* The segment with SHOW_ON_COMMAND follows the line (_p9k_widget_hook,    *)
(* _p9k_on_expand), whatever was put off meanwhile.                        *)
THEOREM OnCommandCorrect == Spec => []OnCommandFollowsLine
<1>1. IInv => OnCommandFollowsLine
  BY DEF IInv, OnCommandFollowsLine, AtRest, Followed, Steady, UpToDate
<1>2. QED
  BY Invariance, <1>1, PTL

(* The prompt that an interrupt trimmed is about to come back              *)
(* (_p9k__must_restore_prompt and the descriptor that wakes zle up).       *)
THEOREM PromptIsRestored == Spec => []PromptComesBack
<1>1. IInv => PromptComesBack
  <2> SUFFICES ASSUME IInv, sh.phase = "zle", sh.finished = "done"
               PROVE  sh.restoreFd /\ sh.mustRestore
    BY DEF PromptComesBack, IInv
  <2>1. QED
    BY DEF IInv, Steady, NotFinished, Screened
<1>2. QED
  BY Invariance, <1>1, PTL

(* p10k does not draw on a line that is over (_p9k__line_finished).        *)
THEOREM FinishedIsLeftAlone == Spec => FinishedStays
<1>1. IInv /\ [Next]_vars =>
        [sh.finished = "done" /\ sh'.finished = "done"
           /\ ~(sh.mustRestore /\ (SendBreak \/ AcceptLine)) /\ ~ChangeDir
         => sh'.screen = sh.screen]_vars
  BY NextKeeps, Zenon DEF Stays
<1>2. QED
  BY Invariance, <1>1, PTL DEF Spec, FinishedStays
=============================================================================
