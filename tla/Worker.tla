-------------------------------- MODULE Worker --------------------------------
(***************************************************************************)
(* The background worker of the prompt: src/internal/worker.zsh.           *)
(*                                                                         *)
(* The interactive shell (the master) starts a worker process and talks to *)
(* it through a fifo (requests) and a pipe (responses).  The worker        *)
(* evaluates a request, which may start subprocesses; a callback turns the *)
(* output of each into a reply ("e"), and when the last of them has ended  *)
(* the request is done ("d").  The master keeps at most one request per id *)
(* at the worker; what is asked meanwhile replaces what was waiting in     *)
(* request_map.  Reads on both sides reassemble whole messages, so the     *)
(* pipes carry messages here.                                              *)
(***************************************************************************)
EXTENDS Naturals, Sequences, FiniteSets

CONSTANTS
  Id,        \* request ids
  Chained,   \* [Id -> Id \cup {None}]: what evaluating a reply asks for next
  None,      \* not an id
  Absent,    \* no entry in request_map
  InFlight,  \* an empty entry in request_map: the request is at the worker
  MaxJobs,   \* bound: subprocesses of one request
  MaxReq,    \* bound: requests with one id while a worker lives
  MaxStarts, \* bound: workers started
  MayDie     \* where the worker's processes may be killed from outside

Num == 1..MaxReq
Job == [id : Id, n : Num, k : 1..MaxJobs]
Request == [id : Id, n : Num]
Response == [kind : {"s"}] \cup [kind : {"d"}, id : Id] \cup [kind : {"e"}, id : Id, n : Num]

ASSUME WorkerAssumption ==
  /\ None \notin Id /\ Chained \in [Id -> Id \cup {None}]
  /\ Absent # InFlight /\ {Absent, InFlight} \cap Num = {}
  /\ IsFiniteSet(Id) /\ MaxJobs \in Nat /\ MaxReq \in Nat /\ MaxStarts \in Nat
  /\ MayDie \subseteq {"starting", "announced", "up"}

VARIABLES
  respFd,     \* _p9k__worker_resp_fd is open
  reqFd,      \* _p9k__worker_req_fd is open
  opening,    \* the master is inside sysopen of the fifo
  requestMap, \* _p9k__worker_request_map; a number is a request not yet sent
  worker,     \* "off", "starting", "announced", "up" or "dead"
  toWorker,   \* content of the fifo
  toMaster,   \* content of the response pipe
  fds,        \* _p9k_worker_fds: subprocesses whose output is awaited
  inflight,   \* _p9k_worker_inflight; 0: no entry
  asked,      \* number of the last request with an id
  served,     \* number of the last request with an id the worker evaluated
  shown,      \* number of the request whose reply the master evaluated last
  starts      \* workers started

workerVars == <<respFd, reqFd, opening, requestMap, worker, toWorker, toMaster, fds, inflight,
          asked, served, shown, starts>>

Zeros == [i \in Id |-> 0]

WorkerTypeOK ==
  /\ respFd \in BOOLEAN /\ reqFd \in BOOLEAN /\ opening \in BOOLEAN
  /\ requestMap \in [Id -> {Absent, InFlight} \cup Num]
  /\ worker \in {"off", "starting", "announced", "up", "dead"}
  /\ toWorker \in Seq(Request) /\ toMaster \in Seq(Response)
  /\ fds \in SUBSET Job /\ inflight \in [Id -> 0..MaxJobs]
  /\ asked \in [Id -> 0..MaxReq] /\ served \in [Id -> 0..MaxReq]
  /\ shown \in [Id -> 0..MaxReq] /\ starts \in 0..MaxStarts

WorkerInit ==
  /\ respFd = FALSE /\ reqFd = FALSE /\ opening = FALSE
  /\ requestMap = [i \in Id |-> Absent]
  /\ worker = "off" /\ toWorker = <<>> /\ toMaster = <<>>
  /\ fds = {} /\ inflight = Zeros
  /\ asked = Zeros /\ served = Zeros /\ shown = Zeros /\ starts = 0

-----------------------------------------------------------------------------
(* The master.  It is one thread: an action runs to its end, except that   *)
(* opening the fifo waits for the worker to open the other end.            *)

\* _p9k_worker_stop, with what closing the pipes and killing the process group
\* of the worker does to the worker.
StopEffect ==
  /\ respFd' = FALSE /\ reqFd' = FALSE /\ opening' = FALSE
  /\ requestMap' = [i \in Id |-> Absent]
  /\ worker' = "off" /\ toWorker' = <<>> /\ toMaster' = <<>>
  /\ fds' = {} /\ inflight' = Zeros
  /\ UNCHANGED <<asked, served, shown, starts>>

Start ==
  /\ ~respFd /\ starts < MaxStarts
  /\ respFd' = TRUE /\ worker' = "starting" /\ starts' = starts + 1
  /\ asked' = Zeros /\ served' = Zeros /\ shown' = Zeros
  /\ UNCHANGED <<reqFd, opening, requestMap, toWorker, toMaster, fds, inflight>>

Stop == respFd /\ ~opening /\ StopEffect

\* What is written to the fifo of a dead worker is lost.
Sent(reqs) == IF worker = "dead" THEN toWorker ELSE toWorker \o reqs

\* _p9k_worker_invoke, for request n.
SendsAlways(i, n) ==
  IF reqFd
  THEN /\ requestMap' = [requestMap EXCEPT ![i] = InFlight]
       /\ toWorker' = Sent(<<[id |-> i, n |-> n]>>)
  ELSE /\ requestMap' = [requestMap EXCEPT ![i] = n]
       /\ toWorker' = toWorker
KeepsTheFirst(i, n) ==
  IF reqFd /\ requestMap[i] = Absent
  THEN /\ requestMap' = [requestMap EXCEPT ![i] = InFlight]
       /\ toWorker' = Sent(<<[id |-> i, n |-> n]>>)
  ELSE /\ requestMap' = [requestMap EXCEPT ![i] = IF @ \in {Absent, InFlight} THEN n ELSE @]
       /\ toWorker' = toWorker
Enqueue(i, n) ==
  IF reqFd /\ requestMap[i] = Absent
  THEN /\ requestMap' = [requestMap EXCEPT ![i] = InFlight]
       /\ toWorker' = Sent(<<[id |-> i, n |-> n]>>)
  ELSE /\ requestMap' = [requestMap EXCEPT ![i] = n]
       /\ toWorker' = toWorker

Invoke(i) ==
  /\ respFd /\ ~opening /\ asked[i] < MaxReq
  /\ asked' = [asked EXCEPT ![i] = @ + 1]
  /\ Enqueue(i, asked[i] + 1)
  /\ UNCHANGED <<respFd, reqFd, opening, worker, toMaster, fds, inflight, served, shown, starts>>

\* _p9k_worker_receive, one response at a time.
Responds(kind) == respFd /\ ~opening /\ toMaster # <<>> /\ Head(toMaster).kind = kind

\* "d": the request is done; send the one that has come up meanwhile, if any.
ForgetsPending(i) ==
  /\ requestMap' = [requestMap EXCEPT ![i] = Absent]
  /\ toWorker' = toWorker
SendPending(i) ==
  IF requestMap[i] \in Num
  THEN /\ requestMap' = [requestMap EXCEPT ![i] = InFlight]
       /\ toWorker' = Sent(<<[id |-> i, n |-> requestMap[i]]>>)
  ELSE /\ requestMap' = [requestMap EXCEPT ![i] = Absent]
       /\ toWorker' = toWorker

ReceiveDone ==
  /\ Responds("d")
  /\ LET i == Head(toMaster).id IN
     \/ /\ ~(worker = "dead" /\ requestMap[i] \in Num)
        /\ SendPending(i)
        /\ toMaster' = Tail(toMaster)
        /\ UNCHANGED <<respFd, reqFd, opening, worker, fds, inflight, asked, served, shown,
                       starts>>
     \/ worker = "dead" /\ requestMap[i] \in Num /\ StopEffect  \* print fails

\* "e": evaluate the reply, which may invoke another request.
ReceiveReply ==
  /\ Responds("e")
  /\ LET r == Head(toMaster)
         j == Chained[r.id]
     IN  /\ shown' = [shown EXCEPT ![r.id] = r.n]
         /\ IF j # None /\ asked[j] < MaxReq
            THEN asked' = [asked EXCEPT ![j] = @ + 1] /\ Enqueue(j, asked[j] + 1)
            ELSE UNCHANGED <<asked, requestMap, toWorker>>
  /\ toMaster' = Tail(toMaster)
  /\ UNCHANGED <<respFd, reqFd, opening, worker, fds, inflight, served, starts>>

\* "s": the worker is about to open its end of the fifo.
ReceiveStarted ==
  /\ Responds("s")
  /\ IF reqFd
     THEN StopEffect
     ELSE /\ opening' = TRUE /\ toMaster' = Tail(toMaster)
          /\ UNCHANGED <<respFd, reqFd, requestMap, worker, toWorker, fds, inflight, asked,
                         served, shown, starts>>

\* Both ends of the fifo are open: the master sends what has been asked so far.
AllInFlight(m) == [i \in Id |-> IF m[i] = Absent THEN Absent ELSE InFlight]

OpenFifo ==
  /\ opening /\ worker = "announced"
  /\ opening' = FALSE /\ reqFd' = TRUE /\ worker' = "up"
  /\ \E order \in [1..Cardinality({i \in Id : requestMap[i] \in Num}) ->
                     {i \in Id : requestMap[i] \in Num}] :
       /\ \A a, b \in DOMAIN order : a # b => order[a] # order[b]
       /\ toWorker' = toWorker \o [x \in DOMAIN order |->
                                     [id |-> order[x], n |-> requestMap[order[x]]]]
  /\ requestMap' = AllInFlight(requestMap)
  /\ UNCHANGED <<respFd, toMaster, fds, inflight, asked, served, shown, starts>>

\* End of file, or an error reported by zle -F.
ReceiveEof == respFd /\ ~opening /\ worker = "dead" /\ StopEffect

-----------------------------------------------------------------------------
(* The worker: _p9k_worker_main.                                           *)
Announce ==
  /\ worker = "starting"
  /\ worker' = "announced" /\ toMaster' = Append(toMaster, [kind |-> "s"])
  /\ UNCHANGED <<respFd, reqFd, opening, requestMap, toWorker, fds, inflight, asked, served,
                 shown, starts>>

Done(i) == [kind |-> "d", id |-> i]

\* Evaluate a request: _p9k_worker_async starts subprocesses.  A request that
\* has started none is done.
Serve ==
  /\ worker = "up" /\ toWorker # <<>>
  /\ LET i == Head(toWorker).id
         n == Head(toWorker).n
     IN  \E started \in 0..MaxJobs :
           /\ fds' = fds \cup {[id |-> i, n |-> n, k |-> k] : k \in 1..started}
           /\ inflight' = [inflight EXCEPT ![i] = @ + started]
           /\ served' = [served EXCEPT ![i] = n]
           /\ toMaster' = IF inflight'[i] > 0 THEN toMaster ELSE Append(toMaster, Done(i))
  /\ toWorker' = Tail(toWorker)
  /\ UNCHANGED <<respFd, reqFd, opening, requestMap, worker, asked, shown, starts>>

\* A subprocess has ended.  Its callback replies if it succeeded; when it was the
\* last one, its request is done.
DoneEachTime(i) == TRUE
IsLastJob(i) == inflight[i] = 1

Collect(job) ==
  /\ worker = "up" /\ job \in fds
  /\ fds' = fds \ {job}
  /\ inflight' = [inflight EXCEPT ![job.id] = @ - 1]
  /\ \E reply \in {<<>>, <<[kind |-> "e", id |-> job.id, n |-> job.n]>>} :
       toMaster' = toMaster \o reply
                   \o (IF IsLastJob(job.id) THEN <<Done(job.id)>> ELSE <<>>)
  /\ UNCHANGED <<respFd, reqFd, opening, requestMap, worker, toWorker, asked, served, shown,
                 starts>>

\* The process group of the worker is killed by somebody else.
Die ==
  /\ worker \in MayDie
  /\ worker' = "dead" /\ toWorker' = <<>> /\ fds' = {} /\ inflight' = Zeros
  /\ UNCHANGED <<respFd, reqFd, opening, requestMap, toMaster, asked, served, shown, starts>>

Receive == ReceiveDone \/ ReceiveReply \/ ReceiveStarted \/ OpenFifo \/ ReceiveEof

WorkerNext ==
  \/ Start \/ Stop \/ \E i \in Id : Invoke(i)
  \/ Receive
  \/ Announce \/ Serve \/ \E job \in Job : Collect(job)
  \/ Die

WorkerSpec == WorkerInit /\ [][WorkerNext]_workerVars

(* The line editor calls the master back when the response pipe is         *)
(* readable, the worker loops on zselect, and subprocesses end.            *)
FairWorkerSpec ==
  /\ WorkerSpec
  /\ WF_workerVars(Receive) /\ WF_workerVars(Announce) /\ WF_workerVars(Serve)
  /\ \A job \in Job : WF_workerVars(Collect(job))
-----------------------------------------------------------------------------
Requests(i) == {x \in DOMAIN toWorker : toWorker[x].id = i}
Dones(i) == {x \in DOMAIN toMaster : toMaster[x].kind = "d" /\ toMaster[x].id = i}
Replies(i) == {x \in DOMAIN toMaster : toMaster[x].kind = "e" /\ toMaster[x].id = i}
At(i) == {job \in fds : job.id = i}

(* At most one request per id is on its way to the worker, at work there,  *)
(* or done and on its way back; request_map has an entry exactly as long   *)
(* as there is one, and nothing is sent before the fifo is open.           *)
OneInFlight ==
  /\ WorkerTypeOK
  /\ worker # "dead" =>
       \A i \in Id :
         Cardinality(Requests(i)) + Cardinality(Dones(i)) + (IF At(i) = {} THEN 0 ELSE 1)
           = IF reqFd /\ requestMap[i] # Absent THEN 1 ELSE 0

(* A request still waiting in request_map is the last one asked, and when  *)
(* none is waiting the last one asked is at the worker or served.          *)
NothingForgotten ==
  respFd /\ worker # "dead" =>
    \A i \in Id :
      CASE requestMap[i] \in Num -> requestMap[i] = asked[i]
        [] requestMap[i] = Absent -> served[i] = asked[i]
        [] OTHER -> served[i] = asked[i] \/ \E x \in Requests(i) : toWorker[x].n = asked[i]

(* Replies to one request arrive before it is done, so none is evaluated   *)
(* after the next request with its id has been sent.                       *)
RepliesBeforeDone ==
  \A i \in Id : \A x \in Replies(i) :
    /\ toMaster[x].n = served[i]
    /\ \A y \in Dones(i) : x < y

(* The worker keeps the promise made in LatestRequest: requests with an id *)
(* are served in order, no result is shown late, and the last request with *)
(* an id is served unless the worker is shut down.  A worker killed before *)
(* it has opened its end of the fifo leaves the shell hanging in sysopen:  *)
(* there the promise ends too.                                             *)
Hanging == opening /\ worker = "dead"
Promise == INSTANCE LatestRequest WITH on <- respFd /\ ~Hanging
LatestIsServed == Promise!Spec
=============================================================================
