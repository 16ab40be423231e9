------------------------ MODULE GitstatusSessionProofs ------------------------
(***************************************************************************)
(* Proofs about GitstatusSession: what a finished handshake leaves, and    *)
(* whom the watchdog kills.                                                *)
(*                                                                         *)
(* The invariant says, for every session, what its pipe, its fifos and its *)
(* files hold at each place of the wrapper, and, for the session that the  *)
(* shell has, at each place of gitstatus_start.                            *)
(***************************************************************************)
EXTENDS GitstatusSession, SequenceTheorems, TLAPS

Lacks(q, m) == \A i \in 1..Len(q) : q[i] # m

\* The wrapper before it makes the fifo, and after it has removed it.
Early == {"none", "boot"}
Late == {"install", "fetch", "serve", "serveNew", "dead"}
Past(s) == s.wrapper \in Late /\ ~s.fifo

(* Nothing is in a pipe that the shell does not read.  The process group   *)
(* comes first, hello at most once, and anything but the process group     *)
(* comes from a wrapper that is done with the fifo.                        *)
PipeFits(k, s) ==
  /\ Mine(k) \/ s.pipe = <<>>
  /\ s.wrapper \in Early => s.pipe = <<>>
  /\ \A i \in 1..Len(s.pipe) : s.pipe[i] = "pgid" => i = 1
  /\ \A i, j \in 1..Len(s.pipe) : s.pipe[i] = "hello" /\ s.pipe[j] = "hello" => i = j
  /\ \A i \in 1..Len(s.pipe) : s.pipe[i] # "pgid" => Past(s)

(* The fifo exists only while the wrapper waits at it, or died there; the  *)
(* watchdog has the lock of a session in use only if its file is gone.     *)
FilesFit(k, s) ==
  /\ s.wrapper \in Early \cup (Late \ {"dead"}) => ~s.fifo
  /\ s.lockFile => platform.lock
  /\ k > cur => s.dog = "none"
  /\ Mine(k) /\ s.lockFile => s.dog # "asleep"

(* The handshake, seen from the shell.                                     *)
HandshakeFits(s) ==
  /\ state = 2 \/ pc \in Starting \ {"pgid"} => Lacks(s.pipe, "pgid") /\ s.wrapper \notin Early
  /\ state = 1 /\ pc \in {"idle", "pgid", "fifo", "opening", "hello"} =>
       s.reqs = <<>> /\ Lacks(s.pipe, "hello")
  /\ pc = "reply" => Len(s.reqs) <= 1 /\ (s.reqs # <<>> => Lacks(s.pipe, "hello"))
  /\ state = 2 \/ pc \in {"unlink", "unlock"} =>
       Past(s) /\ Lacks(s.pipe, "hello") /\ Lacks(s.reqs, "hello")
  /\ state = 2 \/ pc = "unlock" => ~s.lockFile

Fits(k, s) == PipeFits(k, s) /\ FilesFit(k, s) /\ (Mine(k) => HandshakeFits(s))

(* The parameters of the shell fit the place that it is at.                *)
ClientFits ==
  /\ state # 0 => cur \in Sessions
  /\ pc \in Starting => state = 1
  /\ pc \in Waiting => state = 2
  /\ pc \in Starting \ {"pgid"} \/ state = 2 => pid = cur

IInv == TypeOK /\ ClientFits /\ \A k \in Sessions : Fits(k, sess[k])

-----------------------------------------------------------------------------
(* Sequences of messages.                                                  *)

Message == {"pgid", "dl", "err", "hello", "reply"}
Request == {"hello", "query"}

\* A message more in a pipe.
LEMMA Added ==
  ASSUME NEW T, NEW q \in Seq(T), NEW m \in T
  PROVE  /\ Append(q, m) \in Seq(T)
         /\ \A i \in 1..Len(Append(q, m)) :
              \/ i \in 1..Len(q) /\ Append(q, m)[i] = q[i]
              \/ i = Len(q) + 1 /\ Append(q, m)[i] = m
         /\ Len(q) \in Nat /\ Len(Append(q, m)) = Len(q) + 1
<1>1. Append(q, m) \in Seq(T)
  BY AppendProperties
<1>2. /\ Len(Append(q, m)) = Len(q) + 1 /\ Len(q) \in Nat
      /\ \A x \in 1..Len(q) : Append(q, m)[x] = q[x]
      /\ Append(q, m)[Len(q) + 1] = m
  BY AppendProperties, LenProperties
<1>3. QED
  BY <1>1, <1>2

\* A message less.
LEMMA Removed ==
  ASSUME NEW T, NEW q \in Seq(T), q # <<>>
  PROVE  /\ Tail(q) \in Seq(T)
         /\ \A i \in 1..Len(Tail(q)) : i + 1 \in 1..Len(q) /\ Tail(q)[i] = q[i + 1]
         /\ 1 \in 1..Len(q) /\ Head(q) = q[1] /\ Len(q) \in Nat /\ Len(Tail(q)) = Len(q) - 1
<1>1. Tail(q) \in Seq(T)
  BY HeadTailProperties
<1>2. /\ Len(Tail(q)) = Len(q) - 1 /\ Len(q) \in Nat /\ Len(q) >= 1
      /\ Head(q) = q[1]
      /\ \A x \in 1..(Len(q) - 1) : Tail(q)[x] = q[x + 1]
  BY HeadTailProperties, LenProperties, EmptySeq
<1>3. QED
  BY <1>1, <1>2

\* Requests that a gitstatusd leaves in the fifo when it ends, one in its hands or none.
LEMMA Remain ==
  ASSUME NEW T, NEW q \in Seq(T), NEW r \in {0, 1}
  PROVE  /\ SubSeq(q, r + 1, Len(q)) \in Seq(T)
         /\ Len(SubSeq(q, r + 1, Len(q))) <= Len(q)
         /\ Len(SubSeq(q, r + 1, Len(q))) \in Nat
         /\ q = <<>> => SubSeq(q, r + 1, Len(q)) = <<>>
         /\ \A i \in 1..Len(SubSeq(q, r + 1, Len(q))) :
              i + r \in 1..Len(q) /\ SubSeq(q, r + 1, Len(q))[i] = q[i + r]
<1>0. Len(q) \in Nat /\ r \in Int
  BY LenProperties
<1>1. \A i \in (r + 1)..Len(q) : i \in 1..Len(q) /\ q[i] \in T
  BY <1>0, ElementOfSeq
<1>2. SubSeq(q, r + 1, Len(q)) \in Seq(T)
  BY <1>0, <1>1, SubSeqProperties
<1>3. Len(SubSeq(q, r + 1, Len(q))) = IF r + 1 <= Len(q) THEN Len(q) - r ELSE 0
  BY <1>0, SubSeqProperties
<1>4. \A i \in 1..(Len(q) - r) : SubSeq(q, r + 1, Len(q))[i] = q[i + r]
  BY <1>0, SubSeqProperties
<1>5. q = <<>> => SubSeq(q, r + 1, Len(q)) = <<>>
  BY <1>0, <1>2, <1>3, EmptySeq
<1>6. QED
  BY <1>0, <1>2, <1>3, <1>4, <1>5
-----------------------------------------------------------------------------
(* What a step of one process has to show.                                 *)

ClientTyped ==
  /\ platform \in [lock : BOOLEAN, procsub : BOOLEAN]
  /\ cur \in 0 .. MaxStarts /\ state \in 0 .. 2 /\ pid \in 0 .. cur /\ inflight \in 0 .. 1
  /\ pc \in {"idle", "gone"} \cup Starting \cup Waiting

\* A background step: one session changes, and the shell sees it later.
LEMMA BackgroundStep ==
  ASSUME IInv, NEW k \in Sessions, NEW s \in Session, Becomes(k, s), Fits(k, s)
  PROVE  IInv'
<1>1. /\ sess \in [Sessions -> Session] /\ sess' = [sess EXCEPT ![k] = s]
      /\ UNCHANGED <<platform, cur, state, pid, inflight, pc>>
  BY DEF IInv, TypeOK, Becomes, client
<1>2. sess' \in [Sessions -> Session] /\ sess'[k] = s /\ \A q \in Sessions \ {k} : sess'[q] = sess[q]
  BY <1>1
<1>3. TypeOK' /\ ClientFits'
  BY <1>1, <1>2 DEF IInv, TypeOK, ClientFits
<1>4. ASSUME NEW q \in Sessions PROVE Fits(q, sess[q])'
  <2>1. PICK old : old = sess'[q]
    OBVIOUS
  <2>2. Fits(q, old)
    BY <1>2, <2>1 DEF IInv
  <2>3. Fits(q, old)'
    BY <1>1, <2>2 DEF Fits, PipeFits, FilesFit, HandshakeFits, Mine
  <2>4. QED
    BY <2>1, <2>3
<1>5. QED
  BY <1>3, <1>4 DEF IInv

\* A step of the shell: the session that it has changes, and its own parameters.
LEMMA ClientStep ==
  ASSUME IInv, cur \in Sessions, NEW s \in Session, sess' = [sess EXCEPT ![cur] = s],
         UNCHANGED <<platform, cur>>, ClientTyped', ClientFits', Fits(cur, s)'
  PROVE  IInv'
<1>1. sess \in [Sessions -> Session]
  BY DEF IInv, TypeOK
<1>2. /\ sess' \in [Sessions -> Session] /\ sess'[cur] = s
      /\ \A q \in Sessions \ {cur} : sess'[q] = sess[q]
  BY <1>1
<1>3. TypeOK'
  BY <1>2 DEF TypeOK, ClientTyped
<1>4. ASSUME NEW q \in Sessions PROVE Fits(q, sess[q])'
  <2>1. CASE q = cur
    BY <1>2, <2>1
  <2>2. CASE q # cur
    <3>1. PICK old : old = sess[q] /\ old = sess'[q]
      BY <1>2, <2>2
    <3>2. Fits(q, old)
      BY <3>1 DEF IInv
    <3>3. ~Mine(q) /\ ~Mine(q)'
      BY <2>2 DEF Mine
    <3>4. Fits(q, old)'
      BY <3>2, <3>3 DEF Fits, PipeFits, FilesFit
    <3>5. QED
      BY <3>1, <3>4
  <2>3. QED
    BY <2>1, <2>2
<1>5. QED
  BY <1>3, <1>4 DEF IInv

\* The place of a shell that has a session.
LEMMA Places ==
  ASSUME IInv, NEW k \in Sessions, Mine(k)
  PROVE  /\ k = cur /\ HandshakeFits(sess[k])
         /\ state = 2 => pc \in {"idle"} \cup Waiting
         /\ state # 2 => state = 1 /\ pc \in {"idle"} \cup Starting
  BY DEF IInv, Fits, TypeOK, ClientFits, Mine, Starting, Waiting

-----------------------------------------------------------------------------
(* The wrapper and the watchdog.                                           *)

\* The end of a wrapper, which cleans up.
LEMMA CleanedUpFits ==
  ASSUME NEW k \in Sessions, NEW s \in Session, Fits(k, s)
  PROVE  CleanedUp(s) \in Session /\ Fits(k, CleanedUp(s))
<1>1. PICK new : new = CleanedUp(s)
  OBVIOUS
<1>2. new \in Session
  BY <1>1 DEF CleanedUp, Killed, Unlinked, Session, Wrapper, Dog
<1>3. /\ new.wrapper = "dead" /\ new.dog = (IF s.dog = "none" THEN "none" ELSE "gone")
      /\ ~new.lockFile /\ ~new.fifo /\ new.pipe = s.pipe /\ new.reqs = s.reqs
  BY <1>1 DEF CleanedUp, Killed, Unlinked, Session
<1>4. PipeFits(k, new)
  BY <1>3 DEF Fits, PipeFits, Past, Early, Late
<1>5. FilesFit(k, new)
  BY <1>3 DEF Fits, FilesFit, Early, Late
<1>6. Mine(k) => HandshakeFits(new)
  BY <1>3 DEF Fits, HandshakeFits, Past, Early, Late
<1>7. QED
  BY <1>1, <1>2, <1>4, <1>5, <1>6 DEF Fits

\* It is kept when a wrapper gives up.
LEMMA GivesUpKeeps ==
  ASSUME IInv, NEW k \in Sessions, GivesUp(k)
  PROVE  IInv'
<1>1. PICK s : s = CleanedUp(sess[k])
  OBVIOUS
<1>2. s \in Session /\ Fits(k, s)
  BY <1>1, CleanedUpFits DEF IInv, TypeOK
<1>3. QED
  BY <1>1, <1>2, BackgroundStep DEF GivesUp

\* What is written by a wrapper that is done with the fifo; a request less may be left.
LEMMA WrittenFits ==
  ASSUME IInv, NEW k \in Sessions, NEW s \in Session, Past(sess[k]), NEW m \in Message \ {"pgid"},
         s.wrapper = sess[k].wrapper, s.dog = sess[k].dog, s.lockFile = sess[k].lockFile,
         s.fifo = sess[k].fifo,
         s.pipe = (IF Mine(k) THEN Append(sess[k].pipe, m) ELSE sess[k].pipe),
         Len(s.reqs) <= Len(sess[k].reqs), sess[k].reqs = <<>> => s.reqs = <<>>,
         Lacks(sess[k].reqs, "hello") => Lacks(s.reqs, "hello"),
         m = "hello" => ~Lacks(sess[k].reqs, "hello") /\ (pc = "reply" => s.reqs = <<>>)
  PROVE  Fits(k, s)
<1>1. sess[k] \in Session /\ Fits(k, sess[k])
  BY DEF IInv, TypeOK
<1>2. FilesFit(k, s)
  BY <1>1 DEF Fits, FilesFit
<1>3. Past(s)
  BY DEF Past
<1>4. CASE ~Mine(k)
  BY <1>1, <1>2, <1>4 DEF Fits, PipeFits, Past
<1>5. CASE Mine(k)
  <2>1. HandshakeFits(sess[k]) /\ (state = 2 => pc \in {"idle"} \cup Waiting)
        /\ (state # 2 => state = 1 /\ pc \in {"idle"} \cup Starting)
    BY <1>5, Places
  <2>2. PICK p, q : p = sess[k].pipe /\ q = s.pipe /\ q = Append(p, m)
    BY <1>5
  <2>3. p \in Seq(Message)
    BY <1>1, <2>2 DEF Session, Message
  <2>4. /\ \A i \in 1..Len(q) : \/ i \in 1..Len(p) /\ q[i] = p[i]
                                \/ i = Len(p) + 1 /\ q[i] = m
        /\ Len(p) \in Nat
    BY <2>2, <2>3, Added
  <2>5. m = "hello" => state = 1 /\ pc = "reply" /\ Lacks(p, "hello") /\ s.reqs = <<>>
    <3>1. SUFFICES ASSUME m = "hello" PROVE state = 1 /\ pc = "reply" /\ Lacks(p, "hello") /\ s.reqs = <<>>
      OBVIOUS
    <3>2. sess[k].reqs # <<>> /\ ~Lacks(sess[k].reqs, "hello")
      BY <3>1, EmptySeq DEF Lacks
    <3>3. state # 2 /\ pc \notin {"unlink", "unlock"}
      BY <2>1, <3>2 DEF HandshakeFits
    <3>4. state = 1 /\ pc \notin {"idle", "pgid", "fifo", "opening", "hello"}
      BY <2>1, <3>2, <3>3 DEF HandshakeFits
    <3>5. pc = "reply"
      BY <2>1, <3>3, <3>4 DEF Starting
    <3>6. QED
      BY <2>1, <2>2, <3>1, <3>2, <3>4, <3>5 DEF HandshakeFits
  <2>6. PipeFits(k, s)
    <3>1. \A i \in 1..Len(q) : q[i] = "pgid" => i = 1
      BY <1>1, <2>2, <2>4 DEF Fits, PipeFits
    <3>2. \A i, j \in 1..Len(q) : q[i] = "hello" /\ q[j] = "hello" => i = j
      BY <1>1, <2>2, <2>4, <2>5 DEF Fits, PipeFits, Lacks
    <3>3. QED
      BY <1>3, <1>5, <2>2, <3>1, <3>2 DEF PipeFits, Past, Early, Late
  <2>7. HandshakeFits(s)
    <3>1. s.wrapper \notin Early
      BY <1>3 DEF Past, Early, Late
    <3>2. Lacks(p, "pgid") => Lacks(q, "pgid")
      BY <2>4 DEF Lacks
    <3>3. Lacks(p, "hello") /\ m # "hello" => Lacks(q, "hello")
      BY <2>4 DEF Lacks
    <3>4. Len(sess[k].reqs) <= 1 => Len(s.reqs) <= 1
      <4>1. Len(s.reqs) \in Nat /\ Len(sess[k].reqs) \in Nat
        BY <1>1, LenProperties DEF Session
      <4>2. QED
        BY <4>1
    <3>5. CASE m = "hello"
      BY <1>3, <2>1, <2>2, <2>5, <3>1, <3>2, <3>4, <3>5 DEF HandshakeFits
    <3>6. CASE m # "hello"
      BY <1>3, <2>1, <2>2, <3>1, <3>2, <3>3, <3>4, <3>6 DEF HandshakeFits
    <3>7. QED
      BY <3>5, <3>6
  <2>8. QED
    BY <1>2, <2>6, <2>7 DEF Fits
<1>6. QED
  BY <1>4, <1>5

\* A move of the wrapper that writes nothing.
LEMMA GoesKeeps ==
  ASSUME IInv, NEW k \in Sessions, NEW where \in Wrapper, Goes(k, where),
         \/ sess[k].wrapper = "printed" /\ where = "blocked"
         \/ sess[k].wrapper = "blocked" /\ where = "opened"
         \/ sess[k].wrapper \in {"install", "fetch"} /\ where \in {"serve", "serveNew", "fetch"}
         \/ sess[k].wrapper \in {"boot", "printed", "blocked"} /\ where = "dead"
  PROVE  IInv'
<1>1. PICK old, s : old = sess[k] /\ s = [old EXCEPT !.wrapper = where]
  OBVIOUS
<1>2. old \in Session /\ Fits(k, old)
  BY <1>1 DEF IInv, TypeOK
<1>3. s \in Session
  BY <1>1, <1>2 DEF Session
<1>4. /\ s.wrapper = where /\ s.dog = old.dog /\ s.lockFile = old.lockFile /\ s.fifo = old.fifo
      /\ s.pipe = old.pipe /\ s.reqs = old.reqs
  BY <1>1, <1>2 DEF Session
<1>5. \A i \in 1..Len(old.pipe) : old.wrapper \notin Late => old.pipe[i] = "pgid"
  BY <1>2 DEF Fits, PipeFits, Past
<1>6. PipeFits(k, s)
  BY <1>1, <1>2, <1>4, <1>5 DEF Fits, PipeFits, Past, Early, Late
<1>7. FilesFit(k, s)
  BY <1>1, <1>2, <1>4 DEF Fits, FilesFit, Early, Late
<1>8. Mine(k) => HandshakeFits(s)
  BY <1>1, <1>2, <1>4 DEF Fits, HandshakeFits, Past, Early, Late
<1>9. QED
  BY <1>1, <1>3, <1>6, <1>7, <1>8, BackgroundStep DEF Goes, Fits

\* It is kept when a wrapper makes its fifo and tells its process id.
LEMMA BootsKeeps ==
  ASSUME IInv, NEW k \in Sessions, Boots(k)
  PROVE  IInv'
<1>1. sess[k].wrapper = "boot" /\ sess[k] \in Session /\ Fits(k, sess[k])
  BY DEF Boots, IInv, TypeOK
<1>2. CASE GivesUp(k)
  BY <1>2, GivesUpKeeps
<1>3. CASE PipeOpen(k) /\ Becomes(k, [Written(k, "pgid") EXCEPT !.wrapper = "printed", !.fifo = TRUE])
  <2>1. PICK old, p, s : /\ old = sess[k] /\ p = Append(old.pipe, "pgid")
                         /\ s = [old EXCEPT !.pipe = p, !.wrapper = "printed", !.fifo = TRUE]
    OBVIOUS
  <2>2. Becomes(k, s)
    BY <1>1, <1>3, <2>1 DEF Written, Session
  <2>3. old.pipe = <<>> /\ Mine(k)
    BY <1>1, <1>3, <2>1 DEF Fits, PipeFits, Early, PipeOpen
  <2>4. old.pipe \in Seq(Message) /\ Len(old.pipe) = 0
    BY <1>1, <2>1, <2>3, EmptySeq DEF Session, Message
  <2>5. p \in Seq(Message) /\ Len(p) = 1 /\ p[1] = "pgid"
    <3>1. "pgid" \in Message
      BY DEF Message
    <3>2. QED
      BY <2>1, <2>4, <3>1, AppendProperties, LenProperties
  <2>51. \A i \in 1..Len(p) : i = 1 /\ p[i] = "pgid" /\ p[i] # "hello"
    BY <2>5
  <2>6. s \in Session
    BY <1>1, <2>1, <2>5 DEF Session, Message, Wrapper
  <2>7. /\ s.wrapper = "printed" /\ s.dog = old.dog /\ s.lockFile = old.lockFile /\ s.fifo
        /\ s.pipe = p /\ s.reqs = old.reqs
    BY <1>1, <2>1 DEF Session
  <2>8. HandshakeFits(old)
    BY <1>1, <2>1, <2>3 DEF Fits
  <2>9. state # 2 /\ pc \notin Starting \ {"pgid"}
    BY <1>1, <2>1, <2>8 DEF HandshakeFits, Early
  <2>10. PipeFits(k, s)
    BY <2>3, <2>7, <2>51 DEF PipeFits, Early
  <2>11. FilesFit(k, s)
    BY <1>1, <2>1, <2>7 DEF Fits, FilesFit, Early, Late
  <2>12. HandshakeFits(s)
    <3>1. Lacks(s.pipe, "hello")
      BY <2>7, <2>51 DEF Lacks
    <3>2. pc \notin {"reply", "unlink", "unlock"}
      BY <2>9 DEF Starting
    <3>3. QED
      BY <1>1, <2>1, <2>7, <2>8, <2>9, <3>1, <3>2 DEF HandshakeFits
  <2>13. QED
    BY <2>2, <2>6, <2>10, <2>11, <2>12, BackgroundStep DEF Fits
<1>4. QED
  BY <1>2, <1>3 DEF Boots

\* It is kept when a wrapper has opened the fifo and removes it.
LEMMA RemovesFifoKeeps ==
  ASSUME IInv, NEW k \in Sessions, RemovesFifo(k)
  PROVE  IInv'
<1>1. sess[k].wrapper = "opened" /\ sess[k] \in Session /\ Fits(k, sess[k])
  BY DEF RemovesFifo, IInv, TypeOK
<1>2. CASE GivesUp(k)
  BY <1>2, GivesUpKeeps
<1>3. CASE Becomes(k, [sess[k] EXCEPT !.wrapper = "install", !.fifo = FALSE])
  <2>1. PICK old, s : old = sess[k] /\ s = [old EXCEPT !.wrapper = "install", !.fifo = FALSE]
    OBVIOUS
  <2>2. s \in Session
    BY <1>1, <2>1 DEF Session, Wrapper
  <2>3. /\ s.wrapper = "install" /\ s.dog = old.dog /\ s.lockFile = old.lockFile /\ ~s.fifo
        /\ s.pipe = old.pipe /\ s.reqs = old.reqs
    BY <1>1, <2>1 DEF Session
  <2>4. PipeFits(k, s)
    BY <1>1, <2>1, <2>3 DEF Fits, PipeFits, Past, Early, Late
  <2>5. FilesFit(k, s)
    BY <1>1, <2>1, <2>3 DEF Fits, FilesFit
  <2>6. Mine(k) => HandshakeFits(s)
    BY <1>1, <2>1, <2>3 DEF Fits, HandshakeFits, Past, Early, Late
  <2>7. QED
    BY <1>3, <2>1, <2>2, <2>4, <2>5, <2>6, BackgroundStep DEF Fits
<1>4. QED
  BY <1>2, <1>3 DEF RemovesFifo

\* It is kept when the progress of a download is shown.
LEMMA ProgressesKeeps ==
  ASSUME IInv, NEW k \in Sessions, Progresses(k)
  PROVE  IInv'
<1>1. sess[k].wrapper = "fetch" /\ sess[k] \in Session /\ Fits(k, sess[k])
  BY DEF Progresses, IInv, TypeOK
<1>2. CASE GivesUp(k)
  BY <1>2, GivesUpKeeps
<1>3. CASE PipeOpen(k) /\ Becomes(k, Written(k, "dl"))
  <2>1. PICK s : s = Written(k, "dl") /\ Becomes(k, s)
    BY <1>3
  <2>2. "dl" \in Message \ {"pgid"} /\ "dl" # "hello" /\ Past(sess[k])
    BY <1>1 DEF Message, Past, Fits, FilesFit, Early, Late
  <2>3. s = [sess[k] EXCEPT !.pipe = Append(@, "dl")] /\ Mine(k)
    BY <1>3, <2>1 DEF Written, PipeOpen
  <2>4. Append(sess[k].pipe, "dl") \in Seq(Message)
    BY <1>1, <2>2, AppendProperties DEF Session, Message
  <2>5. s \in Session
    BY <1>1, <2>3, <2>4 DEF Session, Message
  <2>6. /\ s.wrapper = sess[k].wrapper /\ s.dog = sess[k].dog /\ s.lockFile = sess[k].lockFile
        /\ s.fifo = sess[k].fifo /\ s.pipe = Append(sess[k].pipe, "dl") /\ s.reqs = sess[k].reqs
    BY <1>1, <2>3 DEF Session
  <2>7. Len(s.reqs) <= Len(sess[k].reqs)
    BY <1>1, <2>6, LenProperties DEF Session
  <2>8. Fits(k, s)
    <3>1. s.pipe = IF Mine(k) THEN Append(sess[k].pipe, "dl") ELSE sess[k].pipe
      BY <2>3, <2>6
    <3>2. QED
      BY <2>2, <2>5, <2>6, <2>7, <3>1, WrittenFits
  <2>9. QED
    BY <2>1, <2>5, <2>8, BackgroundStep
<1>4. QED
  BY <1>2, <1>3 DEF Progresses

\* It is kept when a download ends, well or not.
LEMMA FetchEndsKeeps ==
  ASSUME IInv, NEW k \in Sessions, FetchEnds(k)
  PROVE  IInv'
<1>1. sess[k].wrapper = "fetch" /\ sess[k] \in Session /\ Fits(k, sess[k])
  BY DEF FetchEnds, IInv, TypeOK
<1>2. CASE Goes(k, "serveNew")
  <2>1. "serveNew" \in Wrapper
    BY DEF Wrapper
  <2>2. QED
    BY <1>1, <1>2, <2>1, GoesKeeps
<1>3. CASE Becomes(k, CleanedUp(Written(k, "err")))
  <2>1. PICK s : s = Written(k, "err")
    OBVIOUS
  <2>2. "err" \in Message /\ Past(sess[k])
    BY <1>1 DEF Message, Past, Fits, FilesFit, Early, Late
  <2>3. Append(sess[k].pipe, "err") \in Seq(Message)
    BY <1>1, <2>2, AppendProperties DEF Session, Message
  <2>4. s \in Session
    BY <1>1, <2>1, <2>3 DEF Session, Message, Written
  <2>5. /\ s.wrapper = sess[k].wrapper /\ s.dog = sess[k].dog /\ s.lockFile = sess[k].lockFile
        /\ s.fifo = sess[k].fifo /\ s.reqs = sess[k].reqs
        /\ s.pipe = IF Mine(k) THEN Append(sess[k].pipe, "err") ELSE sess[k].pipe
    BY <1>1, <2>1 DEF Session, Written, PipeOpen
  <2>6. Len(s.reqs) <= Len(sess[k].reqs)
    BY <1>1, <2>5, LenProperties DEF Session
  <2>7. Fits(k, s)
    BY <2>2, <2>4, <2>5, <2>6, WrittenFits
  <2>8. PICK new : new = CleanedUp(s)
    OBVIOUS
  <2>9. new \in Session /\ Fits(k, new)
    BY <2>4, <2>7, <2>8, CleanedUpFits
  <2>10. QED
    BY <1>3, <2>1, <2>8, <2>9, BackgroundStep
<1>4. QED
  BY <1>2, <1>3 DEF FetchEnds

\* It is kept when a gitstatusd reads a request and answers it.
LEMMA ServesKeeps ==
  ASSUME IInv, NEW k \in Sessions, Serves(k)
  PROVE  IInv'
<1>1. /\ sess[k].wrapper \in {"serve", "serveNew"} /\ sess[k].reqs # <<>>
      /\ sess[k] \in Session /\ Fits(k, sess[k])
  BY DEF Serves, IInv, TypeOK
<1>2. PICK q, m : q = sess[k].reqs /\ m = IF Head(q) = "hello" THEN "hello" ELSE "reply"
  OBVIOUS
<1>3. PICK w, s : w = Written(k, m) /\ s = [w EXCEPT !.reqs = Tail(q)]
  OBVIOUS
<1>4. m \in Message \ {"pgid"} /\ Past(sess[k])
  BY <1>1, <1>2 DEF Message, Past, Fits, FilesFit, Early, Late
<1>5. q \in Seq(Request) /\ q # <<>>
  BY <1>1, <1>2 DEF Session, Request
<1>6. /\ Tail(q) \in Seq(Request)
      /\ \A i \in 1..Len(Tail(q)) : i + 1 \in 1..Len(q) /\ Tail(q)[i] = q[i + 1]
      /\ 1 \in 1..Len(q) /\ Head(q) = q[1] /\ Len(q) \in Nat /\ Len(Tail(q)) = Len(q) - 1
  BY <1>5, Removed
<1>7. Append(sess[k].pipe, m) \in Seq(Message)
  BY <1>1, <1>4, AppendProperties DEF Session, Message
<1>8. w \in Session
  BY <1>1, <1>3, <1>7 DEF Session, Message, Written
<1>9. w = (IF Mine(k) THEN [sess[k] EXCEPT !.pipe = Append(@, m)] ELSE sess[k])
  BY <1>3 DEF Written, PipeOpen
<1>10. /\ w.wrapper = sess[k].wrapper /\ w.dog = sess[k].dog /\ w.lockFile = sess[k].lockFile
       /\ w.fifo = sess[k].fifo
       /\ w.pipe = IF Mine(k) THEN Append(sess[k].pipe, m) ELSE sess[k].pipe
  BY <1>1, <1>9 DEF Session
<1>11. s \in Session /\ s.reqs = Tail(q)
  BY <1>3, <1>6, <1>8 DEF Session, Request
<1>12. /\ s.wrapper = w.wrapper /\ s.dog = w.dog /\ s.lockFile = w.lockFile /\ s.fifo = w.fifo
       /\ s.pipe = w.pipe
  BY <1>3, <1>8 DEF Session
<1>13. Len(s.reqs) <= Len(q) /\ (Lacks(q, "hello") => Lacks(s.reqs, "hello"))
  BY <1>6, <1>11 DEF Lacks
<1>14. m = "hello" => ~Lacks(q, "hello")
  BY <1>2, <1>6 DEF Lacks
<1>15. Mine(k) /\ pc = "reply" => s.reqs = <<>>
  <2>1. SUFFICES ASSUME Mine(k), pc = "reply" PROVE s.reqs = <<>>
    OBVIOUS
  <2>2. Len(q) <= 1
    BY <1>1, <1>2, <2>1 DEF Fits, HandshakeFits
  <2>3. Len(s.reqs) = 0
    BY <1>6, <1>11, <2>2
  <2>4. QED
    BY <1>6, <1>11, <2>3, EmptySeq
<1>16. Fits(k, s)
  <2>1. CASE Mine(k)
    <3>1. s.pipe = IF Mine(k) THEN Append(sess[k].pipe, m) ELSE sess[k].pipe
      BY <1>10, <1>12, Zenon
    <3>2. m = "hello" => ~Lacks(sess[k].reqs, "hello") /\ (pc = "reply" => s.reqs = <<>>)
      BY <1>2, <1>14, <1>15, <2>1
    <3>3. /\ s.wrapper = sess[k].wrapper /\ s.dog = sess[k].dog /\ s.lockFile = sess[k].lockFile
          /\ s.fifo = sess[k].fifo
      BY <1>10, <1>12
    <3>4. /\ Len(s.reqs) <= Len(sess[k].reqs) /\ (Lacks(sess[k].reqs, "hello") => Lacks(s.reqs, "hello"))
          /\ sess[k].reqs # <<>> /\ s \in Session
      BY <1>1, <1>2, <1>11, <1>13
    <3>5. QED
      BY <1>4, <3>1, <3>2, <3>3, <3>4, WrittenFits
  <2>2. CASE ~Mine(k)
    BY <1>1, <1>10, <1>12, <2>2 DEF Fits, PipeFits, FilesFit, Past
  <2>3. QED
    BY <2>1, <2>2
<1>17. Becomes(k, s)
  <2>1. Becomes(k, [Written(k, m) EXCEPT !.reqs = Tail(@)])
    BY <1>2 DEF Serves
  <2>2. w.reqs = q
    BY <1>1, <1>2, <1>9 DEF Session
  <2>3. QED
    BY <1>3, <2>1, <2>2
<1>18. QED
  BY <1>11, <1>16, <1>17, BackgroundStep

\* It is kept when a gitstatusd fails, to be replaced or not.
LEMMA FailsKeeps ==
  ASSUME IInv, NEW k \in Sessions, Fails(k)
  PROVE  IInv'
<1>1. sess[k].wrapper \in {"serve", "serveNew"} /\ sess[k] \in Session /\ Fits(k, sess[k])
  BY DEF Fails, IInv, TypeOK
<1>2. PICK read \in {0, 1} :
        LET left == [sess[k] EXCEPT !.reqs = SubSeq(@, read + 1, Len(@))] IN
        \/ Becomes(k, CleanedUp(left))
        \/ sess[k].wrapper = "serve" /\ Becomes(k, [left EXCEPT !.wrapper = "fetch"])
  BY DEF Fails
<1>3. PICK q, u : q = sess[k].reqs /\ u = SubSeq(q, read + 1, Len(q))
  OBVIOUS
<1>4. PICK left : left = [sess[k] EXCEPT !.reqs = u]
  OBVIOUS
<1>5. q \in Seq(Request)
  BY <1>1, <1>3 DEF Session, Request
<1>6. /\ u \in Seq(Request) /\ Len(u) <= Len(q) /\ Len(u) \in Nat /\ (q = <<>> => u = <<>>)
      /\ \A i \in 1..Len(u) : i + read \in 1..Len(q) /\ u[i] = q[i + read]
  BY <1>3, <1>5, Remain
<1>7. left \in Session
  BY <1>1, <1>4, <1>6 DEF Session, Request
<1>8. /\ left.wrapper = sess[k].wrapper /\ left.dog = sess[k].dog
      /\ left.lockFile = sess[k].lockFile /\ left.fifo = sess[k].fifo
      /\ left.pipe = sess[k].pipe /\ left.reqs = u
  BY <1>1, <1>4 DEF Session
<1>9. Lacks(q, "hello") => Lacks(u, "hello")
  BY <1>6 DEF Lacks
<1>10. Len(q) <= 1 => Len(u) <= 1
  <2>1. Len(q) \in Nat
    BY <1>5, LenProperties
  <2>2. QED
    BY <1>6, <2>1
<1>11. Fits(k, left)
  <2>1. PipeFits(k, left) /\ FilesFit(k, left)
    BY <1>1, <1>8 DEF Fits, PipeFits, FilesFit, Past
  <2>2. Mine(k) => HandshakeFits(left)
    BY <1>1, <1>3, <1>6, <1>8, <1>9, <1>10 DEF Fits, HandshakeFits, Past
  <2>3. QED
    BY <2>1, <2>2 DEF Fits
<1>12. CASE Becomes(k, CleanedUp(left))
  <2>1. PICK s : s = CleanedUp(left)
    OBVIOUS
  <2>2. s \in Session /\ Fits(k, s)
    BY <1>7, <1>11, <2>1, CleanedUpFits
  <2>3. QED
    BY <1>12, <2>1, <2>2, BackgroundStep
<1>13. CASE Becomes(k, [left EXCEPT !.wrapper = "fetch"])
  <2>1. PICK s : s = [left EXCEPT !.wrapper = "fetch"]
    OBVIOUS
  <2>2. s \in Session
    BY <1>7, <2>1 DEF Session, Wrapper
  <2>3. /\ s.wrapper = "fetch" /\ s.dog = left.dog /\ s.lockFile = left.lockFile
        /\ s.fifo = left.fifo /\ s.pipe = left.pipe /\ s.reqs = left.reqs
    BY <1>7, <2>1 DEF Session
  <2>4. left.wrapper \in {"serve", "serveNew"}
    BY <1>1, <1>8
  <2>5. PipeFits(k, s) /\ FilesFit(k, s)
    BY <1>11, <2>3, <2>4 DEF Fits, PipeFits, FilesFit, Past, Early, Late
  <2>6. Mine(k) => HandshakeFits(s)
    BY <1>11, <2>3, <2>4 DEF Fits, HandshakeFits, Past, Early, Late
  <2>7. QED
    BY <1>13, <2>1, <2>2, <2>5, <2>6, BackgroundStep DEF Fits
<1>14. QED
  BY <1>2, <1>3, <1>4, <1>12, <1>13

\* The watchdog looks for the lock file, waits for the lock, and looks again.
LEMMA DogKeeps ==
  ASSUME IInv, NEW k \in Sessions, DogWorks(k)
  PROVE  IInv'
<1>1. sess[k] \in Session /\ Fits(k, sess[k])
  BY DEF IInv, TypeOK
<1>2. CASE GivesUp(k)
  BY <1>2, GivesUpKeeps
<1>3. ASSUME NEW where \in Dog, Becomes(k, [sess[k] EXCEPT !.dog = where]), sess[k].dog # "none",
             where = "asleep" => ~Held(k)
      PROVE  IInv'
  <2>1. PICK s : s = [sess[k] EXCEPT !.dog = where]
    OBVIOUS
  <2>2. s \in Session
    BY <1>1, <2>1 DEF Session
  <2>3. /\ s.wrapper = sess[k].wrapper /\ s.dog = where /\ s.lockFile = sess[k].lockFile
        /\ s.fifo = sess[k].fifo /\ s.pipe = sess[k].pipe /\ s.reqs = sess[k].reqs
    BY <1>1, <2>1 DEF Session
  <2>4. PipeFits(k, s) /\ (Mine(k) => HandshakeFits(s))
    BY <1>1, <2>3 DEF Fits, PipeFits, HandshakeFits, Past
  <2>5. Mine(k) /\ s.lockFile => where # "asleep"
    <3>1. SUFFICES ASSUME Mine(k), s.lockFile, where = "asleep" PROVE FALSE
      OBVIOUS
    <3>2. platform.lock /\ state # 2
      BY <1>1, <2>3, <3>1 DEF Fits, FilesFit, HandshakeFits
    <3>3. state = 1
      BY <3>1, <3>2, Places
    <3>4. QED
      BY <1>3, <3>1, <3>2, <3>3 DEF Held
  <2>6. FilesFit(k, s)
    BY <1>1, <1>3, <2>3, <2>5 DEF Fits, FilesFit
  <2>7. QED
    BY <1>3, <2>1, <2>2, <2>4, <2>6, BackgroundStep DEF Fits
<1>4. {"waiting", "gone", "asleep"} \subseteq Dog
  BY DEF Dog
<1>5. CASE DogStarts(k)
  <2>1. PICK where \in {"waiting", "gone"} : Becomes(k, [sess[k] EXCEPT !.dog = where])
    BY <1>5 DEF DogStarts
  <2>2. sess[k].dog # "none" /\ where \in Dog /\ where # "asleep"
    BY <1>4, <1>5, <2>1 DEF DogStarts
  <2>3. QED
    BY <1>3, <2>1, <2>2
<1>6. CASE DogLocks(k)
  BY <1>3, <1>4, <1>6 DEF DogLocks
<1>7. CASE DogWakes(k)
  <2>1. CASE Becomes(k, [sess[k] EXCEPT !.dog = "gone"])
    <3>1. sess[k].dog # "none" /\ "gone" # "asleep"
      BY <1>7 DEF DogWakes
    <3>2. QED
      BY <1>3, <1>4, <2>1, <3>1
  <2>2. QED
    BY <1>2, <1>7, <2>1 DEF DogWakes
<1>8. QED
  BY <1>5, <1>6, <1>7 DEF DogWorks

\* Everything that happens in the background.
LEMMA BackgroundKeeps ==
  ASSUME IInv, NEW k \in Sessions,
         WrapperWorks(k) \/ Progresses(k) \/ Fails(k) \/ WrapperKilled(k) \/ DogWorks(k)
  PROVE  IInv'
<1>1. {"blocked", "serve", "fetch", "dead"} \subseteq Wrapper
  BY DEF Wrapper
<1>2. CASE OpensFifo(k)
  BY <1>1, <1>2, GoesKeeps, GivesUpKeeps DEF OpensFifo
<1>3. CASE Installs(k)
  BY <1>1, <1>3, GoesKeeps, GivesUpKeeps DEF Installs
<1>4. CASE WrapperKilled(k)
  BY <1>1, <1>4, GoesKeeps DEF WrapperKilled
<1>5. CASE SeesEof(k)
  BY <1>5, GivesUpKeeps DEF SeesEof
<1>6. QED
  BY <1>2, <1>3, <1>4, <1>5, BootsKeeps, RemovesFifoKeeps, FetchEndsKeeps, ServesKeeps,
     ProgressesKeeps, FailsKeeps, DogKeeps DEF WrapperWorks

-----------------------------------------------------------------------------
(* The shell.                                                              *)

\* What is known of the session of a shell that is in a function, or ready.
LEMMA Here ==
  ASSUME IInv, state # 0, pc # "gone"
  PROVE  /\ cur \in Sessions /\ Mine(cur) /\ sess[cur] \in Session /\ Fits(cur, sess[cur])
         /\ HandshakeFits(sess[cur]) /\ ClientTyped
         /\ state = 2 => pc \in {"idle"} \cup Waiting
         /\ state # 2 => state = 1 /\ pc \in {"idle"} \cup Starting
<1>1. cur \in Sessions /\ Mine(cur)
  BY DEF IInv, ClientFits, Mine
<1>2. sess[cur] \in Session /\ Fits(cur, sess[cur])
  BY <1>1 DEF IInv, TypeOK
<1>3. ClientTyped
  BY DEF IInv, TypeOK, ClientTyped
<1>4. /\ HandshakeFits(sess[cur])
      /\ state = 2 => pc \in {"idle"} \cup Waiting
      /\ state # 2 => state = 1 /\ pc \in {"idle"} \cup Starting
  BY <1>1, Places
<1>5. QED
  BY <1>1, <1>2, <1>3, <1>4

\* gitstatus_stop, or a start that fails.
LEMMA StopKeeps ==
  ASSUME IInv, state # 0, pc # "gone", StopEffect
  PROVE  IInv'
<1>1. cur \in Sessions /\ sess[cur] \in Session /\ Fits(cur, sess[cur]) /\ ClientTyped
  BY Here
<1>2. PICK a : a = IF pid # 0 THEN Killed(sess[cur]) ELSE sess[cur]
  OBVIOUS
<1>3. /\ a \in Session /\ a.wrapper \in {sess[cur].wrapper, "dead"} /\ a.lockFile = sess[cur].lockFile
  BY <1>1, <1>2 DEF Killed, Session, Wrapper, Dog
<1>4. PICK s : s = [Unlinked(a) EXCEPT !.pipe = <<>>]
  OBVIOUS
<1>5. s \in Session
  <2>1. <<>> \in Seq({"pgid", "dl", "err", "hello", "reply"})
    BY EmptySeq
  <2>2. s = [a EXCEPT !.lockFile = FALSE, !.fifo = FALSE, !.pipe = <<>>]
    BY <1>3, <1>4 DEF Unlinked, Session
  <2>3. QED
    BY <1>3, <2>1, <2>2 DEF Session
<1>6. ~s.fifo /\ ~s.lockFile /\ s.pipe = <<>>
  BY <1>3, <1>4 DEF Unlinked, Session
<1>7. /\ sess' = [sess EXCEPT ![cur] = s] /\ UNCHANGED <<platform, cur>>
      /\ state' = 0 /\ pid' = 0 /\ inflight' = 0 /\ pc' = "idle"
  BY <1>2, <1>4 DEF StopEffect
<1>8. ClientTyped' /\ ClientFits'
  BY <1>1, <1>7 DEF ClientTyped, ClientFits, Starting, Waiting
<1>9. ~Mine(cur)'
  BY <1>7 DEF Mine
<1>10. Fits(cur, s)'
  <2>1. Len(s.pipe) = 0
    BY <1>6, EmptySeq
  <2>2. PipeFits(cur, s)'
    BY <1>6, <2>1 DEF PipeFits
  <2>3. ~(cur' > cur')
    BY <1>1, <1>7 DEF Sessions
  <2>4. FilesFit(cur, s)'
    BY <1>6, <1>9, <2>3 DEF FilesFit
  <2>5. QED
    BY <1>9, <2>2, <2>4 DEF Fits
<1>11. QED
  BY <1>1, <1>5, <1>7, <1>8, <1>10, ClientStep

\* A session is spawned; the one before it is left to itself.
LEMMA SpawnKeeps ==
  ASSUME IInv, NEW next \in {"idle", "pgid"}, Spawn(next)
  PROVE  IInv'
<1>1. /\ state = 0 /\ cur < MaxStarts /\ cur' = cur + 1 /\ sess' = [sess EXCEPT ![cur'] = Spawned]
      /\ state' = 1 /\ pid' \in {0, cur'} /\ pc' = next /\ platform' = platform
      /\ inflight' = inflight
  BY DEF Spawn
<1>2. /\ MaxStarts \in Nat /\ cur \in 0..MaxStarts /\ sess \in [Sessions -> Session]
      /\ platform \in [lock : BOOLEAN, procsub : BOOLEAN] /\ inflight \in 0..1
  BY StartsAssumption DEF IInv, TypeOK
<1>3. cur' \in Sessions /\ cur' \in 0..MaxStarts
  BY <1>1, <1>2 DEF Sessions
<1>4. PICK s : s = Spawned
  OBVIOUS
<1>5. s \in Session
  <2>1. NoSession \in Session
    BY DEF NoSession, Session, Wrapper, Dog
  <2>2. QED
    BY <1>2, <1>4, <2>1 DEF Spawned, Session, Wrapper, Dog
<1>6. /\ s.wrapper = "boot" /\ s.dog \in {"start", "none"} /\ s.lockFile = platform.lock
      /\ ~s.fifo /\ s.pipe = <<>> /\ s.reqs = <<>>
  BY <1>4 DEF Spawned, NoSession
<1>7. /\ sess' \in [Sessions -> Session] /\ sess'[cur'] = s
      /\ \A q \in Sessions \ {cur'} : sess'[q] = sess[q]
  BY <1>1, <1>2, <1>3, <1>4, <1>5
<1>8. TypeOK'
  <2>1. pid' \in 0..cur' /\ state' \in 0..2 /\ pc' \in {"idle", "gone"} \cup Starting \cup Waiting
    BY <1>1, <1>2 DEF Starting
  <2>2. QED
    BY <1>1, <1>2, <1>3, <1>7, <2>1 DEF TypeOK
<1>9. ClientFits'
  BY <1>1, <1>3 DEF ClientFits, Starting, Waiting
<1>10. ASSUME NEW q \in Sessions PROVE Fits(q, sess[q])'
  <2>1. CASE q = cur'
    <3>1. Len(s.pipe) = 0
      BY <1>6, EmptySeq
    <3>2. PipeFits(q, s)'
      BY <1>6, <3>1 DEF PipeFits
    <3>3. ~(q > cur')
      BY <1>3, <2>1 DEF Sessions
    <3>4. FilesFit(q, s)'
      BY <1>1, <1>6, <3>3 DEF FilesFit
    <3>5. HandshakeFits(s)'
      <4>1. state' = 1 /\ pc' \in {"idle", "pgid"}
        BY <1>1
      <4>2. Lacks(s.pipe, "hello")
        BY <3>1 DEF Lacks
      <4>3. QED
        BY <1>6, <4>1, <4>2 DEF HandshakeFits, Starting
    <3>6. QED
      BY <1>7, <2>1, <3>2, <3>4, <3>5 DEF Fits
  <2>2. CASE q # cur'
    <3>1. PICK old : old = sess[q] /\ old = sess'[q]
      BY <1>7, <2>2
    <3>2. Fits(q, old)
      BY <3>1 DEF IInv
    <3>3. ~Mine(q) /\ ~Mine(q)'
      BY <1>1, <2>2 DEF Mine
    <3>4. q > cur' => q > cur
      BY <1>1, <1>2 DEF Sessions
    <3>5. Fits(q, old)'
      BY <1>1, <3>2, <3>3, <3>4 DEF Fits, PipeFits, FilesFit
    <3>6. QED
      BY <3>1, <3>5
  <2>3. QED
    BY <2>1, <2>2
<1>11. QED
  BY <1>8, <1>9, <1>10 DEF IInv

\* The shell goes on to its next line, and the session stays as it is.
LEMMA ToKeeps ==
  ASSUME IInv, state # 0, pc # "gone", NEW s \in Session, NEW place, To(place),
         sess' = [sess EXCEPT ![cur] = s],
         place \in {"idle", "gone"} \cup Starting \cup Waiting,
         place \in Starting => state = 1, place \in Waiting => state = 2,
         place \in Starting \ {"pgid"} => pid = cur,
         PipeFits(cur, s), FilesFit(cur, s), place # "gone", HandshakeFits(s)'
  PROVE  IInv'
<1>1. /\ cur \in Sessions /\ Mine(cur) /\ ClientTyped /\ pc' = place
      /\ UNCHANGED <<platform, cur, state, pid, inflight>>
  BY Here DEF To
<1>2. ClientTyped' /\ ClientFits'
  BY <1>1 DEF ClientTyped, ClientFits, IInv
<1>3. Fits(cur, s)'
  <2>1. PipeFits(cur, s)' /\ FilesFit(cur, s)'
    BY <1>1 DEF PipeFits, FilesFit, Mine
  <2>2. QED
    BY <2>1 DEF Fits
<1>4. QED
  BY <1>1, <1>2, <1>3, ClientStep

\* A step of gitstatus_start that leaves the session as it is.
LEMMA StaysKeeps ==
  ASSUME IInv, state # 0, pc # "gone", NEW place, To(place), sess' = sess,
         place \in {"idle"} \cup Starting \cup Waiting,
         place \in Starting => state = 1, place \in Waiting => state = 2,
         place \in Starting \ {"pgid"} => pid = cur, HandshakeFits(sess[cur])'
  PROVE  IInv'
<1>1. cur \in Sessions /\ sess[cur] \in Session /\ Fits(cur, sess[cur])
  BY Here
<1>2. PICK s : s = sess[cur] /\ s = sess'[cur'] /\ cur' = cur
  BY DEF To
<1>3. sess' = [sess EXCEPT ![cur] = s]
  BY <1>1, <1>2 DEF IInv, TypeOK
<1>4. HandshakeFits(s)'
  BY <1>2
<1>5. place # "gone"
  BY DEF Starting, Waiting
<1>6. s \in Session /\ PipeFits(cur, s) /\ FilesFit(cur, s)
  BY <1>1, <1>2 DEF Fits
<1>7. QED
  BY <1>2, <1>3, <1>4, <1>5, <1>6, ToKeeps

\* It is kept when a start that blocks takes over one that does not.
LEMMA StartSyncKeeps ==
  ASSUME IInv, StartSync
  PROVE  IInv'
<1>1. CASE Spawn("pgid")
  BY <1>1, SpawnKeeps
<1>2. CASE pc = "idle" /\ state = 1 /\ To("pgid") /\ sess' = sess
  <2>1. HandshakeFits(sess[cur])
    BY <1>2, Here
  <2>2. PICK s : s = sess[cur] /\ s = sess'[cur'] /\ state' = 1 /\ pc' = "pgid"
    BY <1>2 DEF To
  <2>3. HandshakeFits(s)'
    BY <1>2, <2>1, <2>2 DEF HandshakeFits, Starting
  <2>4. HandshakeFits(sess[cur])'
    BY <2>2, <2>3
  <2>5. "pgid" \in Starting /\ "pgid" \notin Waiting
    BY DEF Starting, Waiting
  <2>6. QED
    BY <1>2, <2>4, <2>5, StaysKeeps
<1>3. QED
  BY <1>1, <1>2 DEF StartSync

\* A read from the pipe takes the first of what is in it.
LEMMA ReadFits ==
  ASSUME IInv, state # 0, pc # "gone", sess[cur].pipe # <<>>,
         NEW s, s = [sess[cur] EXCEPT !.pipe = Tail(@)]
  PROVE  /\ s \in Session /\ PipeFits(cur, s) /\ FilesFit(cur, s)
         /\ s.reqs = sess[cur].reqs /\ s.lockFile = sess[cur].lockFile
         /\ s.wrapper \notin Early /\ Lacks(s.pipe, "pgid")
         /\ Lacks(sess[cur].pipe, "hello") => Lacks(s.pipe, "hello")
         /\ Head(sess[cur].pipe) = "hello" => Lacks(s.pipe, "hello")
         /\ Head(sess[cur].pipe) # "pgid" => Past(s)
         /\ Past(sess[cur]) => Past(s)
<1>1. /\ cur \in Sessions /\ Mine(cur) /\ sess[cur] \in Session /\ Fits(cur, sess[cur])
      /\ HandshakeFits(sess[cur])
  BY Here
<1>2. PICK old, p : old = sess[cur] /\ p = Tail(old.pipe)
  OBVIOUS
<1>3. old.pipe \in Seq(Message) /\ old.pipe # <<>>
  BY <1>1, <1>2 DEF Session, Message
<1>4. /\ p \in Seq(Message) /\ 1 \in 1..Len(old.pipe) /\ Len(old.pipe) \in Nat
      /\ Len(p) = Len(old.pipe) - 1 /\ Head(old.pipe) = old.pipe[1]
      /\ \A i \in 1..Len(p) : i + 1 \in 1..Len(old.pipe) /\ p[i] = old.pipe[i + 1]
  BY <1>2, <1>3, Removed
<1>5. s \in Session
  BY <1>1, <1>2, <1>4 DEF Session, Message
<1>6. /\ s.wrapper = old.wrapper /\ s.dog = old.dog /\ s.lockFile = old.lockFile
      /\ s.fifo = old.fifo /\ s.pipe = p /\ s.reqs = old.reqs
  BY <1>1, <1>2 DEF Session
<1>7. \A i \in 1..Len(p) : i + 1 # 1 /\ p[i] # "pgid"
  BY <1>1, <1>2, <1>4 DEF Fits, PipeFits
<1>8. old.wrapper \notin Early
  BY <1>1, <1>2, <1>3 DEF Fits, PipeFits
<1>9. PipeFits(cur, s)
  <2>1. \A i, j \in 1..Len(p) : p[i] = "hello" /\ p[j] = "hello" => i = j
    <3>1. SUFFICES ASSUME NEW i \in 1..Len(p), NEW j \in 1..Len(p), p[i] = "hello", p[j] = "hello"
                   PROVE  i = j
      OBVIOUS
    <3>2. i + 1 = j + 1
      BY <1>1, <1>2, <1>4, <3>1 DEF Fits, PipeFits
    <3>3. QED
      BY <1>4, <3>2
  <2>2. \A i \in 1..Len(p) : Past(old)
    BY <1>1, <1>2, <1>4, <1>7 DEF Fits, PipeFits
  <2>3. QED
    BY <1>1, <1>6, <1>7, <1>8, <2>1, <2>2 DEF PipeFits, Past
<1>10. FilesFit(cur, s)
  BY <1>1, <1>2, <1>6 DEF Fits, FilesFit
<1>11. Lacks(s.pipe, "pgid") /\ (Lacks(old.pipe, "hello") => Lacks(s.pipe, "hello"))
  BY <1>4, <1>6, <1>7 DEF Lacks
<1>12. Head(old.pipe) = "hello" => Lacks(s.pipe, "hello")
  <2>1. SUFFICES ASSUME old.pipe[1] = "hello", NEW i \in 1..Len(p), p[i] = "hello" PROVE FALSE
    BY <1>4, <1>6 DEF Lacks
  <2>2. i + 1 = 1
    BY <1>1, <1>2, <1>4, <2>1 DEF Fits, PipeFits
  <2>3. QED
    BY <1>7, <2>2
<1>13. Head(old.pipe) # "pgid" => Past(s)
  BY <1>1, <1>2, <1>4, <1>6 DEF Fits, PipeFits, Past
<1>14. QED
  BY <1>2, <1>5, <1>6, <1>8, <1>9, <1>10, <1>11, <1>12, <1>13 DEF Past

\* It is kept when the process id is read.
LEMMA ReadPgidKeeps ==
  ASSUME IInv, ReadPgid
  PROVE  IInv'
<1>1. /\ pc = "pgid" /\ sess[cur].pipe # <<>> /\ sess' = [sess EXCEPT ![cur].pipe = Tail(@)]
      /\ pid' = cur /\ pc' = "fifo" /\ UNCHANGED <<platform, cur, state, inflight>>
  BY DEF ReadPgid
<1>2. state = 1
  BY <1>1 DEF IInv, ClientFits, Starting
<1>3. /\ cur \in Sessions /\ Mine(cur) /\ HandshakeFits(sess[cur]) /\ ClientTyped
  BY <1>1, <1>2, Here
<1>4. PICK s : s = [sess[cur] EXCEPT !.pipe = Tail(@)]
  OBVIOUS
<1>5. /\ s \in Session /\ PipeFits(cur, s) /\ FilesFit(cur, s)
      /\ s.reqs = sess[cur].reqs /\ s.wrapper \notin Early /\ Lacks(s.pipe, "pgid")
      /\ Lacks(sess[cur].pipe, "hello") => Lacks(s.pipe, "hello")
  <2>1. state # 0 /\ pc # "gone" /\ sess[cur].pipe # <<>>
    BY <1>1, <1>2
  <2>2. QED
    BY <1>4, <2>1, ReadFits, Zenon
<1>6. sess' = [sess EXCEPT ![cur] = s]
  BY <1>1, <1>4
<1>7. ClientTyped' /\ ClientFits'
  <2>1. pid' \in 0..cur' /\ pc' \in Starting
    BY <1>1, <1>3 DEF Starting, Sessions
  <2>2. ClientTyped'
    BY <1>1, <1>3, <2>1 DEF ClientTyped
  <2>3. ClientFits'
    BY <1>1, <1>2, <1>3 DEF ClientFits, Starting, Waiting
  <2>4. QED
    BY <2>2, <2>3
<1>8. HandshakeFits(s)'
  BY <1>1, <1>2, <1>3, <1>5 DEF HandshakeFits
<1>9. Fits(cur, s)'
  BY <1>1, <1>5, <1>8 DEF Fits, PipeFits, FilesFit, Mine
<1>10. QED
  BY <1>1, <1>3, <1>5, <1>6, <1>7, <1>9, ClientStep

\* It is kept when the shell begins to open the fifo.
LEMMA OpenFifoKeeps ==
  ASSUME IInv, OpenFifo
  PROVE  IInv'
<1>1. pc = "fifo" /\ state = 1 /\ pid = cur
  BY DEF OpenFifo, IInv, ClientFits, Starting
<1>2. CASE StopEffect
  BY <1>1, <1>2, StopKeeps
<1>3. CASE To("opening") /\ sess' = sess
  <2>1. HandshakeFits(sess[cur])
    BY <1>1, Here
  <2>2. PICK s : s = sess[cur] /\ s = sess'[cur'] /\ state' = 1 /\ pc' = "opening"
    BY <1>1, <1>3 DEF To
  <2>3. HandshakeFits(s)'
    BY <1>1, <2>1, <2>2 DEF HandshakeFits, Starting
  <2>4. HandshakeFits(sess[cur])'
    BY <2>2, <2>3
  <2>5. "opening" \in Starting /\ "opening" \notin Waiting
    BY DEF Starting, Waiting
  <2>6. QED
    BY <1>1, <1>3, <2>4, <2>5, StaysKeeps
<1>4. QED
  BY <1>2, <1>3 DEF OpenFifo

\* It is kept when both ends of the fifo are open.
LEMMA RendezvousKeeps ==
  ASSUME IInv, Rendezvous
  PROVE  IInv'
<1>1. /\ pc = "opening" /\ state = 1 /\ pid = cur /\ sess[cur].wrapper = "blocked"
      /\ sess' = [sess EXCEPT ![cur].wrapper = "opened"] /\ To("hello")
  BY DEF Rendezvous, IInv, ClientFits, Starting
<1>2. /\ cur \in Sessions /\ sess[cur] \in Session /\ Fits(cur, sess[cur])
      /\ HandshakeFits(sess[cur])
  BY <1>1, Here
<1>3. PICK old, s : old = sess[cur] /\ s = [old EXCEPT !.wrapper = "opened"]
  OBVIOUS
<1>4. s \in Session
  BY <1>2, <1>3 DEF Session, Wrapper
<1>5. /\ s.wrapper = "opened" /\ s.dog = old.dog /\ s.lockFile = old.lockFile
      /\ s.fifo = old.fifo /\ s.pipe = old.pipe /\ s.reqs = old.reqs
  BY <1>2, <1>3 DEF Session
<1>6. sess' = [sess EXCEPT ![cur] = s]
  BY <1>1, <1>3
<1>7. PipeFits(cur, s)
  BY <1>1, <1>2, <1>3, <1>5 DEF Fits, PipeFits, Past, Early, Late
<1>8. FilesFit(cur, s)
  BY <1>1, <1>2, <1>3, <1>5 DEF Fits, FilesFit, Early, Late
<1>9. HandshakeFits(s)'
  <2>1. pc' = "hello" /\ state' = 1
    BY <1>1 DEF To
  <2>2. QED
    BY <1>1, <1>2, <1>3, <1>5, <2>1 DEF HandshakeFits, Early, Starting
<1>10. /\ "hello" \in {"idle", "gone"} \cup Starting \cup Waiting
       /\ "hello" \notin Waiting /\ "hello" # "gone" /\ state # 0 /\ pc # "gone"
  BY <1>1 DEF Starting, Waiting
<1>11. QED
  BY <1>1, <1>4, <1>6, <1>7, <1>8, <1>9, <1>10, ToKeeps

\* It is kept when the hello is sent.
LEMMA SayHelloKeeps ==
  ASSUME IInv, SayHello
  PROVE  IInv'
<1>1. pc = "hello" /\ state = 1 /\ pid = cur
  BY DEF SayHello, IInv, ClientFits, Starting
<1>2. CASE StopEffect
  BY <1>1, <1>2, StopKeeps
<1>3. CASE sess' = [sess EXCEPT ![cur].reqs = Append(@, "hello")] /\ To("reply")
  <2>1. /\ cur \in Sessions /\ sess[cur] \in Session /\ Fits(cur, sess[cur])
        /\ HandshakeFits(sess[cur])
    BY <1>1, Here
  <2>2. PICK old, q, s : /\ old = sess[cur] /\ q = Append(old.reqs, "hello")
                         /\ s = [old EXCEPT !.reqs = q]
    OBVIOUS
  <2>3. old.reqs = <<>> /\ Lacks(old.pipe, "hello") /\ old.reqs \in Seq(Request)
    BY <1>1, <2>1, <2>2 DEF HandshakeFits, Session, Request
  <2>4. q \in Seq(Request) /\ Len(q) = 1
    <3>1. "hello" \in Request /\ Len(old.reqs) = 0
      BY <2>3, EmptySeq DEF Request
    <3>2. QED
      BY <2>2, <2>3, <3>1, AppendProperties, LenProperties
  <2>5. s \in Session
    BY <2>1, <2>2, <2>4 DEF Session, Request
  <2>6. /\ s.wrapper = old.wrapper /\ s.dog = old.dog /\ s.lockFile = old.lockFile
        /\ s.fifo = old.fifo /\ s.pipe = old.pipe /\ s.reqs = q
    BY <2>1, <2>2 DEF Session
  <2>7. sess' = [sess EXCEPT ![cur] = s]
    BY <1>3, <2>2
  <2>8. PipeFits(cur, s) /\ FilesFit(cur, s)
    BY <2>1, <2>2, <2>6 DEF Fits, PipeFits, FilesFit, Past
  <2>9. HandshakeFits(s)'
    <3>1. pc' = "reply" /\ state' = 1
      BY <1>1, <1>3 DEF To
    <3>2. Len(s.reqs) <= 1
      <4>1. Len(s.reqs) = 1
        BY <2>4, <2>6, Zenon
      <4>2. QED
        BY <4>1
    <3>3. QED
      BY <1>1, <2>1, <2>2, <2>3, <2>6, <3>1, <3>2 DEF HandshakeFits, Starting
  <2>10. /\ "reply" \in {"idle", "gone"} \cup Starting \cup Waiting
         /\ "reply" \notin Waiting /\ "reply" # "gone" /\ state # 0 /\ pc # "gone"
    BY <1>1 DEF Starting, Waiting
  <2>11. QED
    BY <1>1, <1>3, <2>5, <2>7, <2>8, <2>9, <2>10, ToKeeps
<1>4. QED
  BY <1>2, <1>3 DEF SayHello

\* It is kept when the reply to the hello is read, or something else is.
LEMMA ReadReplyKeeps ==
  ASSUME IInv, ReadReply
  PROVE  IInv'
<1>1. pc = "reply" /\ state = 1 /\ pid = cur /\ sess[cur].pipe # <<>>
  BY DEF ReadReply, IInv, ClientFits, Starting
<1>2. CASE StopEffect
  BY <1>1, <1>2, StopKeeps
<1>3. CASE /\ Head(sess[cur].pipe) \in {"dl", "hello"}
           /\ sess' = [sess EXCEPT ![cur].pipe = Tail(@)]
           /\ To(IF Head(sess[cur].pipe) = "hello" THEN "unlink" ELSE "reply")
  <2>1. PICK s, place : /\ s = [sess[cur] EXCEPT !.pipe = Tail(@)]
                        /\ place = IF Head(sess[cur].pipe) = "hello" THEN "unlink" ELSE "reply"
    OBVIOUS
  <2>2. HandshakeFits(sess[cur]) /\ sess[cur] \in Session
    BY <1>1, Here
  <2>3. /\ s \in Session /\ PipeFits(cur, s) /\ FilesFit(cur, s)
        /\ s.reqs = sess[cur].reqs /\ s.wrapper \notin Early /\ Lacks(s.pipe, "pgid")
        /\ Lacks(sess[cur].pipe, "hello") => Lacks(s.pipe, "hello")
        /\ Head(sess[cur].pipe) = "hello" => Lacks(s.pipe, "hello")
        /\ Head(sess[cur].pipe) # "pgid" => Past(s)
    <3>1. state # 0 /\ pc # "gone" /\ sess[cur].pipe # <<>>
      BY <1>1
    <3>2. QED
      BY <2>1, <3>1, ReadFits, Zenon
  <2>4. sess' = [sess EXCEPT ![cur] = s] /\ To(place)
    BY <1>3, <2>1
  <2>5. pc' = place /\ state' = 1
    BY <1>1, <2>4 DEF To
  <2>6. Len(s.reqs) <= 1 /\ (s.reqs # <<>> => Lacks(sess[cur].pipe, "hello"))
    BY <1>1, <2>2, <2>3 DEF HandshakeFits
  <2>7. CASE Head(sess[cur].pipe) = "hello"
    <3>1. place = "unlink" /\ Past(s) /\ Lacks(s.pipe, "hello")
      BY <2>1, <2>3, <2>7
    <3>2. Lacks(s.reqs, "hello")
      <4>1. ~Lacks(sess[cur].pipe, "hello")
        <5>1. sess[cur].pipe \in Seq(Message)
          BY <2>2 DEF Session, Message
        <5>2. 1 \in 1..Len(sess[cur].pipe) /\ sess[cur].pipe[1] = "hello"
          BY <1>1, <2>7, <5>1, Removed
        <5>3. QED
          BY <5>2 DEF Lacks
      <4>2. Len(s.reqs) = 0
        BY <2>6, <4>1, EmptySeq
      <4>3. QED
        BY <4>2 DEF Lacks
    <3>3. HandshakeFits(s)'
      BY <2>3, <2>5, <3>1, <3>2 DEF HandshakeFits
    <3>4. place \in {"idle", "gone"} \cup Starting \cup Waiting /\ place \notin Waiting /\ place # "gone"
      BY <3>1 DEF Starting, Waiting
    <3>5. state # 0 /\ pc # "gone" /\ state = 1 /\ pid = cur
      BY <1>1
    <3>6. QED
      BY <2>3, <2>4, <3>3, <3>4, <3>5, ToKeeps
  <2>8. CASE Head(sess[cur].pipe) # "hello"
    <3>1. place = "reply"
      BY <2>1, <2>8
    <3>2. HandshakeFits(s)'
      BY <2>3, <2>5, <2>6, <3>1 DEF HandshakeFits
    <3>3. place \in {"idle", "gone"} \cup Starting \cup Waiting /\ place \notin Waiting /\ place # "gone"
      BY <3>1 DEF Starting, Waiting
    <3>4. state # 0 /\ pc # "gone" /\ state = 1 /\ pid = cur
      BY <1>1
    <3>5. QED
      BY <2>3, <2>4, <3>2, <3>3, <3>4, ToKeeps
  <2>9. QED
    BY <2>7, <2>8
<1>4. QED
  BY <1>2, <1>3 DEF ReadReply

\* It is kept when the lock file is removed.
LEMMA RemoveLockKeeps ==
  ASSUME IInv, RemoveLock
  PROVE  IInv'
<1>1. pc = "unlink" /\ state = 1 /\ pid = cur
  BY DEF RemoveLock, IInv, ClientFits, Starting
<1>2. CASE StopEffect
  BY <1>1, <1>2, StopKeeps
<1>3. CASE sess' = [sess EXCEPT ![cur].lockFile = FALSE] /\ To("unlock")
  <2>1. /\ cur \in Sessions /\ sess[cur] \in Session /\ Fits(cur, sess[cur])
        /\ HandshakeFits(sess[cur])
    BY <1>1, Here
  <2>2. PICK old, s : old = sess[cur] /\ s = [old EXCEPT !.lockFile = FALSE]
    OBVIOUS
  <2>3. s \in Session
    BY <2>1, <2>2 DEF Session
  <2>4. /\ s.wrapper = old.wrapper /\ s.dog = old.dog /\ ~s.lockFile
        /\ s.fifo = old.fifo /\ s.pipe = old.pipe /\ s.reqs = old.reqs
    BY <2>1, <2>2 DEF Session
  <2>5. sess' = [sess EXCEPT ![cur] = s]
    BY <1>3, <2>2
  <2>6. PipeFits(cur, s) /\ FilesFit(cur, s)
    BY <2>1, <2>2, <2>4 DEF Fits, PipeFits, FilesFit, Past
  <2>7. HandshakeFits(s)'
    <3>1. pc' = "unlock" /\ state' = 1
      BY <1>1, <1>3 DEF To
    <3>2. QED
      BY <1>1, <2>1, <2>2, <2>4, <3>1 DEF HandshakeFits, Starting, Past
  <2>8. /\ "unlock" \in {"idle", "gone"} \cup Starting \cup Waiting
        /\ "unlock" \notin Waiting /\ "unlock" # "gone" /\ state # 0 /\ pc # "gone"
    BY <1>1 DEF Starting, Waiting
  <2>9. QED
    BY <1>1, <1>3, <2>3, <2>5, <2>6, <2>7, <2>8, ToKeeps
<1>4. QED
  BY <1>2, <1>3 DEF RemoveLock

\* It is kept when the lock goes and the session is ready.
LEMMA ReadyKeeps ==
  ASSUME IInv, Ready
  PROVE  IInv'
<1>1. /\ pc = "unlock" /\ state = 1 /\ pid = cur /\ state' = 2 /\ pc' = "idle"
      /\ UNCHANGED <<platform, cur, pid, inflight, sess>>
  BY DEF Ready, IInv, ClientFits, Starting
<1>2. /\ cur \in Sessions /\ sess[cur] \in Session /\ Fits(cur, sess[cur])
      /\ HandshakeFits(sess[cur]) /\ ClientTyped /\ Mine(cur)
  BY <1>1, Here
<1>3. PICK s : s = sess[cur]
  OBVIOUS
<1>4. sess' = [sess EXCEPT ![cur] = s]
  BY <1>1, <1>2, <1>3 DEF IInv, TypeOK
<1>5. ClientTyped' /\ ClientFits'
  BY <1>1, <1>2 DEF ClientTyped, ClientFits, Starting, Waiting
<1>6. HandshakeFits(s)'
  BY <1>1, <1>2, <1>3 DEF HandshakeFits, Starting
<1>7. Fits(cur, s)'
  BY <1>1, <1>2, <1>3, <1>6 DEF Fits, PipeFits, FilesFit, Mine
<1>8. QED
  BY <1>1, <1>2, <1>3, <1>4, <1>5, <1>7, ClientStep

\* Steps of a shell that is ready: the session stays ready while pc and inflight_ change.
LEMMA ReadyStep ==
  ASSUME IInv, state = 2, pc # "gone", NEW s \in Session, sess' = [sess EXCEPT ![cur] = s],
         UNCHANGED <<platform, cur, state, pid>>, inflight' \in 0..1,
         pc' \in {"idle"} \cup Waiting, PipeFits(cur, s), FilesFit(cur, s),
         Lacks(s.pipe, "pgid"), Lacks(s.pipe, "hello"), Lacks(s.reqs, "hello"), Past(s),
         ~s.lockFile
  PROVE  IInv'
<1>1. cur \in Sessions /\ Mine(cur) /\ ClientTyped
  BY Here
<1>2. ClientTyped' /\ ClientFits'
  <2>1. pc' \notin Starting
    BY DEF Starting, Waiting
  <2>2. QED
    BY <1>1, <2>1 DEF IInv, ClientTyped, ClientFits
<1>3. HandshakeFits(s)'
  BY DEF HandshakeFits, Waiting, Starting, Past, Early, Late
<1>4. Fits(cur, s)'
  <2>1. PipeFits(cur, s)' /\ FilesFit(cur, s)'
    <3>1. pc' # "gone"
      BY DEF Waiting
    <3>2. QED
      BY <1>1, <3>1 DEF PipeFits, FilesFit, Mine
  <2>2. QED
    BY <1>3, <2>1 DEF Fits
<1>5. QED
  BY <1>1, <1>2, <1>4, ClientStep

\* It is kept when a query is sent.
LEMMA QueryKeeps ==
  ASSUME IInv, Query
  PROVE  IInv'
<1>1. /\ pc = "idle" /\ state = 2 /\ sess' = [sess EXCEPT ![cur].reqs = Append(@, "query")]
      /\ inflight' \in 0..1 /\ pc' \in {"idle"} \cup Waiting
      /\ UNCHANGED <<platform, cur, state, pid>>
  BY DEF Query, Waiting
<1>2. /\ cur \in Sessions /\ sess[cur] \in Session /\ Fits(cur, sess[cur])
      /\ HandshakeFits(sess[cur])
  BY <1>1, Here
<1>3. PICK old, q, s : /\ old = sess[cur] /\ q = Append(old.reqs, "query")
                       /\ s = [old EXCEPT !.reqs = q]
  OBVIOUS
<1>4. old.reqs \in Seq(Request) /\ "query" \in Request /\ "query" # "hello"
  BY <1>2, <1>3 DEF Session, Request
<1>5. /\ q \in Seq(Request)
      /\ \A i \in 1..Len(q) : \/ i \in 1..Len(old.reqs) /\ q[i] = old.reqs[i]
                             \/ q[i] = "query"
  BY <1>3, <1>4, Added
<1>6. s \in Session
  BY <1>2, <1>3, <1>5 DEF Session, Request
<1>7. /\ s.wrapper = old.wrapper /\ s.dog = old.dog /\ s.lockFile = old.lockFile
      /\ s.fifo = old.fifo /\ s.pipe = old.pipe /\ s.reqs = q
  BY <1>2, <1>3 DEF Session
<1>8. sess' = [sess EXCEPT ![cur] = s]
  BY <1>1, <1>3
<1>9. /\ Lacks(old.pipe, "pgid") /\ Lacks(old.pipe, "hello") /\ Lacks(old.reqs, "hello")
      /\ Past(old) /\ ~old.lockFile
  BY <1>1, <1>2, <1>3 DEF HandshakeFits
<1>10. Lacks(q, "hello")
  BY <1>4, <1>5, <1>9 DEF Lacks
<1>11. PipeFits(cur, s) /\ FilesFit(cur, s)
  BY <1>2, <1>3, <1>7 DEF Fits, PipeFits, FilesFit, Past
<1>12. /\ Lacks(s.pipe, "pgid") /\ Lacks(s.pipe, "hello") /\ Lacks(s.reqs, "hello")
       /\ Past(s) /\ ~s.lockFile /\ pc # "gone"
  BY <1>1, <1>7, <1>9, <1>10 DEF Past
<1>13. QED
  BY <1>1, <1>6, <1>8, <1>11, <1>12, ReadyStep

\* It is kept when a response is read.
LEMMA ReadResponseKeeps ==
  ASSUME IInv, ReadResponse
  PROVE  IInv'
<1>1. /\ pc \in {"idle", "await", "partial"} /\ state = 2 /\ sess[cur].pipe # <<>>
      /\ sess' = [sess EXCEPT ![cur].pipe = Tail(@)]
      /\ UNCHANGED <<platform, cur, state, pid>>
  BY DEF ReadResponse, Reading
<1>2. inflight' \in 0..1 /\ pc' \in {"idle"} \cup Waiting
  BY DEF ReadResponse, Waiting, IInv, TypeOK
<1>3. state # 0 /\ pc # "gone" /\ sess[cur].pipe # <<>>
  BY <1>1
<1>4. HandshakeFits(sess[cur])
  BY <1>3, Here
<1>5. PICK s : s = [sess[cur] EXCEPT !.pipe = Tail(@)]
  OBVIOUS
<1>6. /\ s \in Session /\ PipeFits(cur, s) /\ FilesFit(cur, s)
      /\ s.reqs = sess[cur].reqs /\ s.lockFile = sess[cur].lockFile
      /\ Lacks(s.pipe, "pgid") /\ (Lacks(sess[cur].pipe, "hello") => Lacks(s.pipe, "hello"))
      /\ Past(sess[cur]) => Past(s)
  BY <1>3, <1>5, ReadFits, Zenon
<1>7. sess' = [sess EXCEPT ![cur] = s]
  BY <1>1, <1>5
<1>8. /\ Lacks(sess[cur].pipe, "hello") /\ Lacks(sess[cur].reqs, "hello")
      /\ Past(sess[cur]) /\ ~sess[cur].lockFile
  BY <1>1, <1>4 DEF HandshakeFits
<1>9. Lacks(s.pipe, "hello") /\ Lacks(s.reqs, "hello") /\ Past(s) /\ ~s.lockFile
  BY <1>6, <1>8, Zenon
<1>10. QED
  BY <1>1, <1>2, <1>3, <1>6, <1>7, <1>9, ReadyStep

\* It is kept when a query times out.
LEMMA QueryTimesOutKeeps ==
  ASSUME IInv, QueryTimesOut
  PROVE  IInv'
<1>1. pc = "await" /\ state = 2 /\ To("idle") /\ sess' = sess
  BY DEF QueryTimesOut, IInv, ClientFits, Waiting
<1>2. HandshakeFits(sess[cur])
  BY <1>1, Here
<1>3. PICK s : s = sess[cur] /\ s = sess'[cur'] /\ state' = 2 /\ pc' = "idle"
  BY <1>1 DEF To
<1>4. HandshakeFits(s)'
  BY <1>1, <1>2, <1>3 DEF HandshakeFits, Starting
<1>5. HandshakeFits(sess[cur])'
  BY <1>3, <1>4
<1>6. "idle" \notin Starting /\ "idle" \notin Waiting
  BY DEF Starting, Waiting
<1>7. QED
  BY <1>1, <1>5, <1>6, StaysKeeps

\* The shell dies: its end of every pipe goes, and no session is its own any more.
LEMMA CrashKeeps ==
  ASSUME IInv, Crash
  PROVE  IInv'
<1>1. /\ pc' = "gone" /\ UNCHANGED <<platform, cur, state, pid, inflight>>
      /\ sess' = [k \in Sessions |-> [sess[k] EXCEPT !.pipe = <<>>]]
  BY DEF Crash, To
<1>2. ClientFits'
  BY <1>1 DEF ClientFits, IInv, Starting, Waiting
<1>3. ASSUME NEW q \in Sessions PROVE sess'[q] \in Session /\ Fits(q, sess[q])'
  <2>1. PICK old, s : old = sess[q] /\ s = [old EXCEPT !.pipe = <<>>]
    OBVIOUS
  <2>2. old \in Session /\ Fits(q, old) /\ sess'[q] = s
    BY <1>1, <2>1 DEF IInv, TypeOK
  <2>3. <<>> \in Seq({"pgid", "dl", "err", "hello", "reply"})
    BY EmptySeq
  <2>4. s \in Session
    BY <2>1, <2>2, <2>3 DEF Session
  <2>5. /\ s.wrapper = old.wrapper /\ s.dog = old.dog /\ s.lockFile = old.lockFile
        /\ s.fifo = old.fifo /\ s.pipe = <<>>
    BY <2>1, <2>2 DEF Session
  <2>6. ~Mine(q)' /\ Len(s.pipe) = 0
    BY <1>1, <2>5, EmptySeq DEF Mine
  <2>7. PipeFits(q, s)' /\ FilesFit(q, s)'
    BY <1>1, <2>2, <2>5, <2>6 DEF Fits, PipeFits, FilesFit
  <2>8. Fits(q, s)'
    BY <2>6, <2>7 DEF Fits
  <2>9. QED
    BY <2>2, <2>4, <2>8
<1>4. TypeOK'
  <2>1. sess' \in [Sessions -> Session]
    BY <1>1, <1>3
  <2>2. QED
    BY <1>1, <2>1 DEF IInv, TypeOK
<1>5. QED
  BY <1>2, <1>3, <1>4 DEF IInv

-----------------------------------------------------------------------------
(* The invariant, and the theorems.                                        *)

\* It holds before the first start.
LEMMA InitKeeps == Init => IInv
<1> SUFFICES ASSUME Init PROVE IInv
  OBVIOUS
<1>1. NoSession \in Session
  <2>1. <<>> \in Seq({"pgid", "dl", "err", "hello", "reply"}) /\ <<>> \in Seq({"hello", "query"})
    BY EmptySeq
  <2>2. QED
    BY <2>1 DEF NoSession, Session, Wrapper, Dog
<1>2. cur = 0 /\ state = 0 /\ pid = 0 /\ inflight = 0 /\ pc = "idle"
  BY DEF Init
<1>3. TypeOK
  BY <1>1, <1>2, StartsAssumption DEF Init, TypeOK
<1>4. ClientFits
  BY <1>2 DEF ClientFits, Starting, Waiting
<1>5. ASSUME NEW k \in Sessions PROVE Fits(k, sess[k])
  <2>1. sess[k] = NoSession
    BY DEF Init
  <2>2. /\ NoSession.wrapper = "none" /\ NoSession.dog = "none" /\ ~NoSession.lockFile
        /\ ~NoSession.fifo /\ NoSession.pipe = <<>> /\ Len(NoSession.pipe) = 0
    BY EmptySeq DEF NoSession
  <2>3. ~Mine(k)
    BY <1>2 DEF Mine
  <2>4. QED
    BY <2>1, <2>2, <2>3 DEF Fits, PipeFits, FilesFit
<1>6. QED
  BY <1>3, <1>4, <1>5 DEF IInv

\* Every step keeps it.
LEMMA NextKeeps == IInv /\ [Next]_vars => IInv'
<1> SUFFICES ASSUME IInv, [Next]_vars PROVE IInv'
  OBVIOUS
<1>1. CASE UNCHANGED vars
  <2>1. UNCHANGED <<platform, cur, state, pid, inflight, pc, sess>>
    BY <1>1 DEF vars
  <2>2. QED
    BY <2>1 DEF IInv, TypeOK, ClientFits, Fits, PipeFits, FilesFit, HandshakeFits, Mine
<1>2. CASE StartAsync
  BY <1>2, SpawnKeeps DEF StartAsync
<1>3. CASE StartReadFails
  <2>1. state # 0 /\ pc # "gone"
    BY <1>3 DEF StartReadFails, IInv, ClientFits, Starting
  <2>2. QED
    BY <1>3, <2>1, StopKeeps DEF StartReadFails
<1>4. CASE ReadsEof
  <2>1. state # 0 /\ pc # "gone"
    BY <1>4 DEF ReadsEof, Reading
  <2>2. QED
    BY <1>4, <2>1, StopKeeps DEF ReadsEof
<1>5. CASE Stop
  <2>1. state # 0 /\ pc # "gone"
    BY <1>5 DEF Stop
  <2>2. QED
    BY <1>5, <2>1, StopKeeps DEF Stop
<1>6. CASE ClientStarts
  BY <1>3, <1>6, ReadPgidKeeps, OpenFifoKeeps, RendezvousKeeps, SayHelloKeeps, ReadReplyKeeps,
     RemoveLockKeeps, ReadyKeeps DEF ClientStarts
<1>7. CASE ClientReads
  BY <1>4, <1>7, ReadResponseKeeps, QueryTimesOutKeeps DEF ClientReads
<1>8. CASE \E k \in Sessions :
             WrapperWorks(k) \/ Progresses(k) \/ Fails(k) \/ WrapperKilled(k) \/ DogWorks(k)
  BY <1>8, BackgroundKeeps
<1>9. QED
  BY <1>1, <1>2, <1>5, <1>6, <1>7, <1>8, StartSyncKeeps, QueryKeeps, CrashKeeps DEF Next

\* At each place of gitstatus_start, of the wrapper and of the watchdog, what the pipe, the
\* fifo and the lock file of a session hold is what the others count on.
THEOREM Invariance == Spec => []IInv
BY InitKeeps, NextKeeps, PTL DEF Spec

\* What the shell knows of a ready session is what HandshakeDone asks for.
LEMMA IInvHandshakeDone == IInv => HandshakeDone
<1> SUFFICES ASSUME IInv PROVE HandshakeDone
  OBVIOUS
<1>1. TypeOK
  BY DEF IInv
<1>2. ASSUME state = 2, pc # "gone"
      PROVE  /\ pid = cur
             /\ ~sess[cur].lockFile /\ ~sess[cur].fifo
             /\ ToSet(sess[cur].pipe) \cap {"pgid", "hello"} = {}
             /\ ~Contains(sess[cur].reqs, "hello")
  <2>1. pid = cur
    BY <1>2 DEF IInv, ClientFits
  <2>2. HandshakeFits(sess[cur]) /\ sess[cur] \in Session
    BY <1>2, Here
  <2>3. /\ Lacks(sess[cur].pipe, "pgid") /\ Lacks(sess[cur].pipe, "hello")
        /\ Lacks(sess[cur].reqs, "hello") /\ ~sess[cur].fifo /\ ~sess[cur].lockFile
    BY <1>2, <2>2 DEF HandshakeFits, Past
  <2>4. DOMAIN sess[cur].pipe = 1..Len(sess[cur].pipe)
    BY <2>2, LenProperties DEF Session
  <2>5. ToSet(sess[cur].pipe) \cap {"pgid", "hello"} = {}
    BY <2>3, <2>4 DEF ToSet, Lacks
  <2>6. ~Contains(sess[cur].reqs, "hello")
    BY <2>3 DEF Contains, Lacks
  <2>7. QED
    BY <2>1, <2>3, <2>5, <2>6
<1>3. QED
  BY <1>1, <1>2 DEF HandshakeDone

\* When gitstatus_start has succeeded, no lock file, fifo or byte of the handshake is left
\* for a query, a watchdog or a later failure to find, and gitstatus_stop kills the right group.
THEOREM HandshakeIsDone == Spec => []HandshakeDone
<1>1. IInv => HandshakeDone
  BY IInvHandshakeDone
<1>2. QED
  BY <1>1, Invariance, PTL

\* A watchdog with the lock in its hand and the lock file in sight, which is about to kill the
\* process group and remove the files, is never that of a session that a live shell has.
THEOREM OnlyOrphansAreBitten == Spec => []DogBitesOnlyOrphans
<1>1. IInv => DogBitesOnlyOrphans
  <2>1. SUFFICES ASSUME IInv, NEW k \in Sessions, sess[k].dog = "asleep", sess[k].lockFile
                 PROVE  Unwanted(k)
    BY DEF DogBitesOnlyOrphans
  <2>2. FilesFit(k, sess[k])
    BY <2>1 DEF IInv, Fits
  <2>3. ~(k > cur) /\ ~Mine(k)
    BY <2>1, <2>2 DEF FilesFit
  <2>4. k \in Nat /\ cur \in Nat
    BY <2>1, StartsAssumption DEF Sessions, IInv, TypeOK
  <2>5. QED
    BY <2>3, <2>4 DEF Unwanted
<1>2. QED
  BY <1>1, Invariance, PTL
=============================================================================
