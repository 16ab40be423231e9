-------------------------- MODULE GitstatusSession --------------------------
(***************************************************************************)
(* The life of a gitstatusd seen from the shell that starts it: src/       *)
(* gitstatus/gitstatus.plugin.zsh, gitstatus_start, gitstatus_stop,        *)
(* _gitstatus_daemon and the reading half of _gitstatus_process_response.  *)
(*                                                                         *)
(* One shell (the client) starts sessions 1 .. MaxStarts one after the     *)
(* other.  A session has two background processes, which share a process   *)
(* group: the wrapper, which makes the request fifo, tells its process     *)
(* group id, installs and runs gitstatusd; and the watchdog, which sleeps  *)
(* on the lock file and kills the group if the shell has died half way     *)
(* through the handshake.  Shell and wrapper share two files (lock, fifo)  *)
(* and two channels: the response pipe and the request fifo.               *)
(***************************************************************************)
EXTENDS Naturals, SequencesExt

CONSTANT MaxStarts      \* bound on the sessions of one shell
ASSUME StartsAssumption == MaxStarts \in Nat \ {0}

VARIABLES
    platform,   \* lock: not WSL 1, a lock file is used; procsub: zsh has sysparams[procsubstpid]
    cur,        \* number of the last session (the counter in _GITSTATUS_FILE_PREFIX)
    state,      \* _GITSTATUS_STATE: 0 stopped, 1 spawned, 2 ready
    pid,        \* GITSTATUS_DAEMON_PID: the session whose group it names, 0 if not known
    inflight,   \* _GITSTATUS_NUM_INFLIGHT
    pc,         \* where the shell is: "idle" is the line editor, "gone" a dead shell
    sess        \* what exists of each session outside the shell

vars == <<platform, cur, state, pid, inflight, pc, sess>>
client == <<cur, state, pid, inflight, pc>>

Sessions == 1 .. MaxStarts
\* Where gitstatus_start reads and writes, and where a query or a callback reads.
Starting == {"pgid", "fifo", "opening", "hello", "reply", "unlink", "unlock"}
Waiting == {"await", "partial"}
Wrapper == {"none", "boot", "printed", "blocked", "opened", "install", "fetch", "serve",
            "serveNew", "dead"}
Dog == {"none", "start", "waiting", "asleep", "gone"}
Session == [wrapper : Wrapper, dog : Dog, lockFile : BOOLEAN, fifo : BOOLEAN,
            pipe : Seq({"pgid", "dl", "err", "hello", "reply"}), reqs : Seq({"hello", "query"})]

NoSession == [wrapper |-> "none", dog |-> "none", lockFile |-> FALSE, fifo |-> FALSE,
              pipe |-> <<>>, reqs |-> <<>>]
Spawned == [NoSession EXCEPT !.wrapper = "boot", !.dog = IF platform.lock THEN "start" ELSE "none",
                             !.lockFile = platform.lock]

TypeOK ==
    /\ platform \in [lock : BOOLEAN, procsub : BOOLEAN]
    /\ cur \in 0 .. MaxStarts
    /\ state \in 0 .. 2
    /\ pid \in 0 .. cur
    /\ inflight \in 0 .. 1
    /\ pc \in {"idle", "gone"} \cup Starting \cup Waiting
    /\ sess \in [Sessions -> Session]

Init ==
    /\ platform \in [lock : BOOLEAN, procsub : BOOLEAN]
    /\ cur = 0 /\ state = 0 /\ pid = 0 /\ inflight = 0 /\ pc = "idle"
    /\ sess = [k \in Sessions |-> NoSession]

----------------------------------------------------------------------------
\* Who holds what.  The shell's end of everything goes with the shell.

Mine(k) == k = cur /\ state # 0 /\ pc # "gone"
PipeOpen(k) == Mine(k)
ReqOpen(k) == Mine(k) /\ (state = 2 \/ pc \in {"hello", "reply", "unlink", "unlock"})
HeldTooShort(k) == Mine(k) /\ platform.lock /\ state = 1 /\ pc # "unlink"
Held(k) == Mine(k) /\ platform.lock /\ state = 1

\* The watchdog inherits the write end of the response pipe.
AtEof(k) == sess[k].pipe = <<>> /\ sess[k].wrapper = "dead" /\ sess[k].dog \in {"none", "gone"}

Killed(s) == [s EXCEPT !.wrapper = "dead", !.dog = IF @ = "none" THEN "none" ELSE "gone"]
Unlinked(s) == [s EXCEPT !.lockFile = FALSE, !.fifo = FALSE]
\* The `always` block of the wrapper, and the watchdog's bite.
CleanedUp(s) == Killed(Unlinked(s))

\* What a background process writes: nothing arrives once the shell has closed its end.
Written(k, m) == IF PipeOpen(k) THEN [sess[k] EXCEPT !.pipe = Append(@, m)] ELSE sess[k]

----------------------------------------------------------------------------
\* The shell: gitstatus_stop, and gitstatus_start step by step.

\* The next line of the function that the shell is in.
To(place) == pc' = place /\ UNCHANGED <<platform, cur, state, pid, inflight>>

\* Everything gitstatus_stop does to a session: also the end of every failed start.
RemovesNothing ==
    /\ sess' = [sess EXCEPT ![cur] = [(IF pid # 0 THEN Killed(@) ELSE @) EXCEPT !.pipe = <<>>]]
    /\ state' = 0 /\ pid' = 0 /\ inflight' = 0
    /\ pc' = "idle"
    /\ UNCHANGED <<platform, cur>>
StopEffect ==
    /\ sess' = [sess EXCEPT ![cur] =
                   [Unlinked(IF pid # 0 THEN Killed(@) ELSE @) EXCEPT !.pipe = <<>>]]
    /\ state' = 0 /\ pid' = 0 /\ inflight' = 0
    /\ pc' = "idle"
    /\ UNCHANGED <<platform, cur>>

Stop == pc = "idle" /\ state # 0 /\ StopEffect

Spawn(next) ==
    /\ state = 0 /\ cur < MaxStarts
    /\ cur' = cur + 1
    /\ sess' = [sess EXCEPT ![cur'] = Spawned]
    /\ state' = 1
    /\ pid' = IF platform.procsub THEN cur' ELSE 0
    /\ pc' = next
    /\ UNCHANGED <<platform, inflight>>

\* gitstatus_start -a: spawn and return; nothing to do for a session that exists.
StartAsync == pc = "idle" /\ Spawn("idle")

\* gitstatus_start: spawn unless an asynchronous start has, then shake hands.
StartSync ==
    /\ pc = "idle"
    /\ \/ Spawn("pgid")
       \/ state = 1 /\ To("pgid") /\ UNCHANGED sess

ReadPgid ==
    /\ pc = "pgid" /\ sess[cur].pipe # <<>>
    /\ sess' = [sess EXCEPT ![cur].pipe = Tail(@)]
    /\ pid' = cur /\ pc' = "fifo"
    /\ UNCHANGED <<platform, cur, state, inflight>>

OpenFifo ==
    /\ pc = "fifo"
    /\ \/ sess[cur].fifo /\ To("opening") /\ UNCHANGED sess
       \/ ~sess[cur].fifo /\ StopEffect

\* open(2) of a fifo returns on both sides at once, and on neither without the other.
Rendezvous ==
    /\ pc = "opening" /\ sess[cur].wrapper = "blocked"
    /\ sess' = [sess EXCEPT ![cur].wrapper = "opened"]
    /\ To("hello")

SayHello ==
    /\ pc = "hello"
    /\ \/ /\ sess[cur].wrapper # "dead"
          /\ sess' = [sess EXCEPT ![cur].reqs = Append(@, "hello")]
          /\ To("reply")
       \/ sess[cur].wrapper = "dead" /\ StopEffect

\* The reply, or the progress of a download, which is skipped; anything else ends the start.
ReadAnything ==
    /\ pc = "reply" /\ sess[cur].pipe # <<>>
    /\ \/ /\ Head(sess[cur].pipe) \in {"dl", "hello"}
          /\ sess' = [sess EXCEPT ![cur].pipe = Tail(@)]
          /\ To("unlink")
       \/ Head(sess[cur].pipe) \notin {"dl", "hello"} /\ StopEffect
ReadReply ==
    /\ pc = "reply" /\ sess[cur].pipe # <<>>
    /\ \/ /\ Head(sess[cur].pipe) \in {"dl", "hello"}
          /\ sess' = [sess EXCEPT ![cur].pipe = Tail(@)]
          /\ To(IF Head(sess[cur].pipe) = "hello" THEN "unlink" ELSE "reply")
       \/ Head(sess[cur].pipe) \notin {"dl", "hello"} /\ StopEffect

\* zf_rm of the lock file fails if the wrapper has cleaned up meanwhile.
RemoveLock ==
    /\ pc = "unlink"
    /\ \/ /\ sess[cur].lockFile = platform.lock
          /\ sess' = [sess EXCEPT ![cur].lockFile = FALSE]
          /\ To("unlock")
       \/ sess[cur].lockFile # platform.lock /\ StopEffect

Ready ==
    /\ pc = "unlock"
    /\ state' = 2 /\ pc' = "idle"
    /\ UNCHANGED <<platform, cur, pid, inflight, sess>>

\* A read of the handshake that finds nothing for -t seconds, or the end of the pipe.
StartReadsForEver == pc \in {"pgid", "reply"} /\ AtEof(cur) /\ StopEffect
StartReadFails ==
    /\ pc \in {"pgid", "reply"} /\ sess[cur].pipe = <<>>
    /\ StopEffect

ClientStarts ==
    \/ ReadPgid \/ OpenFifo \/ Rendezvous \/ SayHello \/ ReadReply \/ RemoveLock \/ Ready
    \/ StartReadFails

----------------------------------------------------------------------------
\* The shell: queries and responses.

\* gitstatus_query, in the way its comment allows: not while another is in flight.
\* With -t 0 it returns at once; the response is for the line editor's handler.
Query ==
    /\ pc = "idle" /\ state = 2 /\ inflight = 0
    /\ sess[cur].wrapper # "dead"
    /\ sess' = [sess EXCEPT ![cur].reqs = Append(@, "query")]
    /\ inflight' = 1
    /\ pc' \in {"idle", "await"}
    /\ UNCHANGED <<platform, cur, state, pid>>

Reading == state = 2 /\ pc \in {"idle", "await", "partial"}

\* _gitstatus_process_response, called by the query or by the line editor: bytes that do
\* not end a response make it read on, and from then on without a timeout.
ReadResponse ==
    /\ Reading /\ sess[cur].pipe # <<>>
    /\ sess' = [sess EXCEPT ![cur].pipe = Tail(@)]
    /\ IF Head(sess[cur].pipe) = "reply" THEN inflight' = 0 /\ pc' = "idle"
                                         ELSE inflight' = inflight /\ pc' = "partial"
    /\ UNCHANGED <<platform, cur, state, pid>>

QueryTimesOut ==
    /\ pc = "await" /\ sess[cur].pipe = <<>>
    /\ To("idle") /\ UNCHANGED sess

ReadsEof == Reading /\ AtEof(cur) /\ StopEffect

ClientReads == ReadResponse \/ QueryTimesOut \/ ReadsEof

\* The shell dies: locks and descriptors are released, no file is removed, nobody is killed.
Crash ==
    /\ pc # "gone" /\ To("gone")
    /\ sess' = [k \in Sessions |-> [sess[k] EXCEPT !.pipe = <<>>]]

----------------------------------------------------------------------------
\* The wrapper: the background half of _gitstatus_daemon.

Becomes(k, s) == sess' = [sess EXCEPT ![k] = s] /\ UNCHANGED <<platform, client>>
Goes(k, where) == Becomes(k, [sess[k] EXCEPT !.wrapper = where])
GivesUp(k) == Becomes(k, CleanedUp(sess[k]))

\* mkfifo, and the process group id into the pipe.
Boots(k) ==
    /\ sess[k].wrapper = "boot"
    /\ \/ PipeOpen(k) /\ Becomes(k, [Written(k, "pgid") EXCEPT !.wrapper = "printed", !.fifo = TRUE])
       \/ ~PipeOpen(k) /\ GivesUp(k)

\* exec <fifo: blocks until a writer comes; fails if the file is gone.
OpensFifo(k) ==
    /\ sess[k].wrapper = "printed"
    /\ IF sess[k].fifo THEN Goes(k, "blocked") ELSE GivesUp(k)

RemovesFifo(k) ==
    /\ sess[k].wrapper = "opened"
    /\ \/ sess[k].fifo /\ Becomes(k, [sess[k] EXCEPT !.wrapper = "install", !.fifo = FALSE])
       \/ ~sess[k].fifo /\ GivesUp(k)

\* Some gitstatusd is there, or one must be downloaded, which may be disabled.
Installs(k) ==
    /\ sess[k].wrapper = "install"
    /\ Goes(k, "serve") \/ Goes(k, "fetch") \/ GivesUp(k)

\* One byte a second while the download runs.  At most one is in the pipe here.
Progresses(k) ==
    /\ sess[k].wrapper = "fetch"
    /\ \/ PipeOpen(k) /\ ~Contains(sess[k].pipe, "dl") /\ Becomes(k, Written(k, "dl"))
       \/ ~PipeOpen(k) /\ GivesUp(k)

\* A failed download says why on the pipe.
FetchEnds(k) ==
    /\ sess[k].wrapper = "fetch"
    /\ Goes(k, "serveNew") \/ Becomes(k, CleanedUp(Written(k, "err")))

\* gitstatusd answers the requests in the fifo one by one.
Serves(k) ==
    /\ sess[k].wrapper \in {"serve", "serveNew"} /\ sess[k].reqs # <<>>
    /\ LET answer == IF Head(sess[k].reqs) = "hello" THEN "hello" ELSE "reply" IN
       Becomes(k, [Written(k, answer) EXCEPT !.reqs = Tail(@)])

\* gitstatusd ends with a status not in the list of 445 (a version mismatch, a failed CHECK):
\* before it reads, or with a request in its hands.  One that was not just downloaded is
\* replaced if it is in the cache directory and downloads are enabled.
Fails(k) ==
    /\ sess[k].wrapper \in {"serve", "serveNew"}
    /\ \E read \in {0, 1} :
          LET left == [sess[k] EXCEPT !.reqs = SubSeq(@, read + 1, Len(@))] IN
          \/ Becomes(k, CleanedUp(left))
          \/ sess[k].wrapper = "serve" /\ Becomes(k, [left EXCEPT !.wrapper = "fetch"])

\* The end of the requests: gitstatusd exits with status 0.
SeesEof(k) ==
    /\ sess[k].wrapper \in {"serve", "serveNew"} /\ sess[k].reqs = <<>> /\ ~ReqOpen(k)
    /\ GivesUp(k)

\* Somebody kills the wrapper before it has a reader: it does not clean up.
WrapperKilled(k) == sess[k].wrapper \in {"boot", "printed", "blocked"} /\ Goes(k, "dead")

WrapperWorks(k) ==
    \/ Boots(k) \/ OpensFifo(k) \/ RemovesFifo(k) \/ Installs(k) \/ FetchEnds(k) \/ Serves(k)
    \/ SeesEof(k)

----------------------------------------------------------------------------
\* The watchdog: the other background half of _gitstatus_daemon.

\* Opening the lock file to lock it fails once the file is gone.
DogStarts(k) ==
    /\ sess[k].dog = "start"
    /\ Becomes(k, [sess[k] EXCEPT !.dog = IF sess[k].lockFile THEN "waiting" ELSE "gone"])

DogLocks(k) ==
    /\ sess[k].dog = "waiting" /\ ~Held(k)
    /\ Becomes(k, [sess[k] EXCEPT !.dog = "asleep"])

DogWakes(k) ==
    /\ sess[k].dog = "asleep"
    /\ \/ sess[k].lockFile /\ GivesUp(k)
       \/ ~sess[k].lockFile /\ Becomes(k, [sess[k] EXCEPT !.dog = "gone"])

DogWorks(k) == DogStarts(k) \/ DogLocks(k) \/ DogWakes(k)

----------------------------------------------------------------------------
Next ==
    \/ StartAsync \/ StartSync \/ ClientStarts \/ Query \/ ClientReads \/ Stop \/ Crash
    \/ \E k \in Sessions :
          WrapperWorks(k) \/ Progresses(k) \/ Fails(k) \/ WrapperKilled(k) \/ DogWorks(k)

\* What has begun goes on; that anything is started, asked, stopped or breaks is not assumed.
Fairness ==
    /\ WF_vars(ClientStarts)
    /\ WF_vars(ClientReads)
    /\ \A k \in Sessions : WF_vars(WrapperWorks(k)) /\ WF_vars(DogWorks(k))

Spec == Init /\ [][Next]_vars /\ Fairness

----------------------------------------------------------------------------
\* Once gitstatus_start has succeeded, nothing of the handshake is left: no file that a later
\* failure or a watchdog could act on, no byte that a query would take for its response; and
\* the process group that gitstatus_stop will kill is the one that was started.
HandshakeDone ==
    /\ TypeOK
    /\ state = 2 /\ pc # "gone" =>
         /\ pid = cur
         /\ ~sess[cur].lockFile /\ ~sess[cur].fifo
         /\ ToSet(sess[cur].pipe) \cap {"pgid", "hello"} = {}
         /\ ~Contains(sess[cur].reqs, "hello")

\* A session that the shell has stopped, replaced or died on.
Unwanted(k) == k <= cur /\ ~Mine(k)

\* A watchdog that has the lock and would find the lock file is that of an unwanted session:
\* it never kills the gitstatusd of a live shell, however slow the handshake is.
DogBitesOnlyOrphans ==
    \A k \in Sessions : sess[k].dog = "asleep" /\ sess[k].lockFile => Unwanted(k)

\* Nothing outlives a session: with a lock file, and a zsh that names the process it spawns,
\* the wrapper and the watchdog of an unwanted session end and its files are removed.
NothingLeft ==
    platform.lock /\ platform.procsub =>
        \A k \in Sessions :
            Unwanted(k) ~> /\ sess[k].wrapper = "dead" /\ sess[k].dog = "gone"
                           /\ ~sess[k].lockFile /\ ~sess[k].fifo

\* The shell in open(2) of the fifo of a wrapper that was killed: nothing times this out.
Stuck == pc = "opening" /\ sess[cur].wrapper = "dead"

\* gitstatus_start returns, unless it is stuck.
StartEnds == pc \in Starting ~> (pc \notin Starting \/ Stuck)

\* What the comment on -t of gitstatus_query says: it blocks for at most this long.
QueryEnds == pc = "await" ~> pc \notin Waiting
=============================================================================
