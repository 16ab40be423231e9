---------------------------- MODULE GitDirProofs ----------------------------
(***************************************************************************)
(* What gitstatusd finds in a git directory besides the index.             *)
(*                                                                         *)
(* The check of directory mtimes: for any number of daemons and of         *)
(* directories left behind, at any speed and with any of them killed at    *)
(* any moment, the verdict on the untracked cache is true, and nothing is  *)
(* left behind.  The tags: whatever git does to them and whenever the pool *)
(* runs what it has, the tag that is answered was of the commit, and       *)
(* nobody disturbs the sort in the background.                             *)
(***************************************************************************)
EXTENDS DirMtime, TagDb, SequenceTheorems, FiniteSetTheorems, FunctionTheorems,
        WellFoundedInduction, TLAPS

-----------------------------------------------------------------------------
(* The inductive invariant of the check of directory mtimes.               *)

at(d) == daemon[d].at
Made(d) == Range(daemon[d].made)
Checks(d) == daemon[d].at \in {"make", "sleep", "check"}
AllShow == fs.dirs /\ fs.files /\ fs.writable

Beginnings == {SubSeq(Parts, 1, k) : k \in 0..5}
Place == {"new", "stat", "remove", "make", "sleep", "check", "exit", "done", "crashed"}
Call == [at : Place,
         now : 0..MaxClock, list : Seq(Probes), step : 0..5, st : [{"a", "b"} -> 0..MaxClock],
         made : Beginnings, result : BOOLEAN, saw : SUBSET Mine]

(* Types, the call of every daemon included. *)
TypeInv ==
  /\ fs \in [dirs : BOOLEAN, files : BOOLEAN, writable : BOOLEAN]
  /\ clock \in 1..MaxClock /\ late \subseteq Daemons
  /\ exists \in [Probes -> SUBSET Part] /\ mtime \in [Probes -> [Part -> 1..MaxClock]]
  /\ daemon \in [Daemons -> Call]

(* Whatever exists is in a directory that exists. *)
Closed == \A p \in Probes : \A x \in exists[p] : x # "tmp" => In[x] \in exists[p]

(* How much a check has made at each place of the function. *)
Stage(d) ==
  /\ at(d) \in {"new", "stat", "remove", "done", "crashed"} => daemon[d].made = <<>>
  /\ at(d) = "make" => Len(daemon[d].made) < 5
  /\ at(d) = "sleep" => Len(daemon[d].made) = 3
  /\ at(d) = "check" => Len(daemon[d].made) \in {4, 5}
  /\ daemon[d].now <= clock

(* A check owns what exists of its directory, and while nobody could take   *)
(* the directory for one left behind, all it has made still exists.         *)
Owned(d) ==
  /\ at(d) # "crashed" => exists[d] \subseteq Made(d)
  /\ Checks(d) /\ d \notin late => exists[d] = Made(d)

(* A directory in use that looks stale is known to be late. *)
Aging(d) == ~Ended(d) /\ exists[d] # {} /\ IsStale(d, clock) => d \in late

(* The mtime of a directory differs from what was read when it was made     *)
(* only if new names show in mtimes, and then it does differ: the sleep put *)
(* a second between the two.                                                *)
Observes(x) == IF x = "a" THEN fs.dirs ELSE fs.files

Stamp(d, x) ==
  /\ daemon[d].st[x] <= clock
  /\ at(d) = "sleep" => daemon[d].st[x] <= daemon[d].now
  /\ at(d) # "sleep" /\ "b" \in Made(d) => daemon[d].st[x] < clock
  /\ x \in exists[d] /\ ~Observes(x) => mtime[d][x] = daemon[d].st[x]

ChangeShows(d) ==
  LET x == In[Last(daemon[d].made)] IN Observes(x) => mtime[d][x] # daemon[d].st[x]

Stamped(d) ==
  /\ Checks(d) => \A x \in {"a", "b"} : x \in Made(d) => Stamp(d, x)
  /\ at(d) = "check" /\ d \notin late => ChangeShows(d)

(* What has been found out about the file system so far. *)
Verdict(d) ==
  /\ Checks(d) /\ daemon[d].made # <<>> => fs.writable
  /\ Checks(d) /\ "a1" \in Made(d) => fs.dirs \/ (at(d) = "check" /\ Len(daemon[d].made) = 4)
  /\ daemon[d].result => at(d) \in {"exit", "done"} /\ AllShow
  /\ at(d) \in {"exit", "done"} /\ AllShow /\ d \notin late => daemon[d].result

Right(d) == Stage(d) /\ Owned(d) /\ Aging(d) /\ Stamped(d) /\ Verdict(d)

(* A daemon removes only what nobody uses, or what is late; and of a        *)
(* directory left behind, the parts in its order.                           *)
Removing(d) ==
  at(d) = "remove" =>
    /\ daemon[d].list # <<>> /\ daemon[d].step \in 1..5
    /\ Entry(d) \in Daemons => Ended(Entry(d)) \/ Entry(d) \in late
    /\ Entry(d) \in Mine => \A i \in 1..(daemon[d].step - 1) : Order[i] \notin exists[Entry(d)]

(* What a daemon saw stale is gone, or some daemon is removing it or was    *)
(* killed, or it is still ahead in the daemon's own list, and stale.        *)
Handled(p) ==
  \/ exists[p] = {}
  \/ \E e \in Daemons : at(e) = "crashed" \/ (at(e) = "remove" /\ Entry(e) = p)

Ahead(d, p) ==
  at(d) \in {"stat", "remove"} /\ p \in Range(daemon[d].list) /\ IsStale(p, daemon[d].now)

Seen(d) == \A p \in daemon[d].saw : Handled(p) \/ Ahead(d, p)

IInv ==
  /\ TypeInv /\ Closed
  /\ \A d \in Daemons : Right(d)
  /\ \A d \in Daemons : Removing(d)
  /\ \A d \in Daemons : Seen(d)
-----------------------------------------------------------------------------
(* The parts of a probe's directory and the order in which they are made.  *)

\* There are five parts, each made after the one that contains it.
LEMMA PartList ==
  /\ Len(Parts) = 5 /\ Parts \in Seq({"tmp", "a", "b", "a1", "b1"})
  /\ Parts[1] = "tmp" /\ Parts[2] = "a" /\ Parts[3] = "b" /\ Parts[4] = "a1" /\ Parts[5] = "b1"
  /\ Part = {"tmp", "a", "b", "a1", "b1"}
  BY DEF Parts, Part, Range

\* What contains what.
LEMMA InList ==
  /\ DOMAIN In = {"a", "b", "a1", "b1"}
  /\ In["a"] = "tmp" /\ In["b"] = "tmp" /\ In["a1"] = "a" /\ In["b1"] = "b"
  BY DEF In

\* What a part contains.
LEMMA InsideList ==
  /\ Inside("tmp") = {"a", "b"} /\ Inside("a") = {"a1"} /\ Inside("b") = {"b1"}
  /\ Inside("a1") = {} /\ Inside("b1") = {}
  BY InList DEF Inside

\* RemoveStaleDirs goes from the inside out.
LEMMA OrderList ==
  /\ Order[1] = "b1" /\ Order[2] = "a1" /\ Order[3] = "a" /\ Order[4] = "b" /\ Order[5] = "tmp"
  BY DEF Order

\* What CheckDirMtime has made is a beginning of Parts.
LEMMA PrefixIs ==
  ASSUME NEW m \in Beginnings
  PROVE  /\ Len(m) \in 0..5 /\ m \in Seq(Part)
         /\ \A i \in 1..Len(m) : m[i] = Parts[i]
         /\ m = SubSeq(Parts, 1, Len(m)) /\ DOMAIN m = 1..Len(m)
<1>1. PICK k \in 0..5 : m = SubSeq(Parts, 1, k)
  BY DEF Beginnings
<1>2. Parts \in Seq(Part) /\ Len(Parts) = 5
  BY PartList
<1>3. CASE k = 0
  BY <1>1, <1>2, <1>3, SubSeqProperties
<1>4. CASE k > 0
  BY <1>1, <1>2, <1>4, SubSeqProperties
<1>5. QED
  BY <1>3, <1>4

Firsts(k) == {Parts[i] : i \in 1..k}

\* The beginnings of Parts, as sets.
LEMMA FirstsList ==
  /\ Firsts(0) = {} /\ Firsts(1) = {"tmp"} /\ Firsts(2) = {"tmp", "a"}
  /\ Firsts(3) = {"tmp", "a", "b"} /\ Firsts(4) = {"tmp", "a", "b", "a1"}
  /\ Firsts(5) = {"tmp", "a", "b", "a1", "b1"}
  BY PartList DEF Firsts

\* As a set, what has been made is given by how much of it there is.
LEMMA PrefixFirsts ==
  ASSUME NEW m \in Beginnings
  PROVE  Range(m) = Firsts(Len(m)) /\ (m = <<>> <=> Len(m) = 0)
<1>1. /\ Len(m) \in 0..5 /\ m \in Seq(Part) /\ DOMAIN m = 1..Len(m)
      /\ \A i \in 1..Len(m) : m[i] = Parts[i]
  BY PrefixIs
<1>2. Range(m) = {Parts[i] : i \in 1..Len(m)}
  BY <1>1 DEF Range
<1>3. QED
  BY <1>1, <1>2, EmptySeq DEF Firsts

\* The same, case by case.
LEMMA PrefixRange ==
  ASSUME NEW m \in Beginnings
  PROVE  /\ Len(m) = 0 => Range(m) = {} /\ m = <<>>
         /\ Len(m) = 1 => Range(m) = {"tmp"}
         /\ Len(m) = 2 => Range(m) = {"tmp", "a"}
         /\ Len(m) = 3 => Range(m) = {"tmp", "a", "b"}
         /\ Len(m) = 4 => Range(m) = {"tmp", "a", "b", "a1"}
         /\ Len(m) = 5 => Range(m) = {"tmp", "a", "b", "a1", "b1"}
         /\ m = <<>> => Len(m) = 0
         /\ Len(m) > 0 => Last(m) = Parts[Len(m)]
<1>1. /\ Len(m) \in 0..5 /\ m \in Seq(Part) /\ DOMAIN m = 1..Len(m)
      /\ \A i \in 1..Len(m) : m[i] = Parts[i]
  BY PrefixIs
<1>2. Range(m) = {Parts[i] : i \in 1..Len(m)}
  BY <1>1 DEF Range
<1>3. QED
  BY <1>1, <1>2, PartList, EmptySeq DEF Last

\* Making the next part gives a longer beginning.
LEMMA PrefixGrows ==
  ASSUME NEW m \in Beginnings, Len(m) < 5
  PROVE  /\ Append(m, Parts[Len(m) + 1]) \in Beginnings
         /\ Len(Append(m, Parts[Len(m) + 1])) = Len(m) + 1
<1> DEFINE k == Len(m) + 1
           n == Append(m, Parts[k])
<1>1. /\ Len(m) \in 0..5 /\ m \in Seq(Part) /\ k \in 1..5
      /\ \A i \in 1..Len(m) : m[i] = Parts[i]
  BY PrefixIs
<1>2. Parts \in Seq(Part) /\ Len(Parts) = 5 /\ Parts[k] \in Part
  BY <1>1, PartList
<1>3. /\ n \in Seq(Part) /\ Len(n) = k
      /\ \A i \in 1..Len(m) : n[i] = m[i]
      /\ n[k] = Parts[k]
  BY <1>1, <1>2, AppendProperties
<1>4. /\ SubSeq(Parts, 1, k) \in Seq(Part) /\ Len(SubSeq(Parts, 1, k)) = k
      /\ \A i \in 1..k : SubSeq(Parts, 1, k)[i] = Parts[i]
  BY <1>1, <1>2, SubSeqProperties
<1>5. n = SubSeq(Parts, 1, k)
  <2>1. \A i \in 1..k : n[i] = SubSeq(Parts, 1, k)[i]
    BY <1>1, <1>3, <1>4
  <2>2. QED
    BY <2>1, <1>3, <1>4, SeqEqual
<1>6. QED
  BY <1>1, <1>3, <1>5 DEF Beginnings

\* Removing the last part made gives a shorter one.
LEMMA PrefixShrinks ==
  ASSUME NEW m \in Beginnings, m # <<>>
  PROVE  Front(m) \in Beginnings /\ Len(m) \in 1..5 /\ Len(Front(m)) = Len(m) - 1
<1> DEFINE k == Len(m) - 1
<1>1. /\ Len(m) \in 1..5 /\ m \in Seq(Part) /\ k \in 0..4
      /\ \A i \in 1..k : m[i] = Parts[i]
  BY PrefixIs, PrefixRange
<1>2. Parts \in Seq(Part) /\ Len(Parts) = 5
  BY PartList
<1>3. /\ Front(m) \in Seq(Part) /\ Len(Front(m)) = k
      /\ \A i \in 1..k : Front(m)[i] = m[i]
  <2>1. \A i \in 1..k : m[i] \in Part
    BY <1>1, <1>2, PartList
  <2>2. /\ SubSeq(m, 1, k) \in Seq(Part)
        /\ Len(SubSeq(m, 1, k)) = IF 1 <= k THEN k - 1 + 1 ELSE 0
        /\ \A i \in 1..(k - 1 + 1) : SubSeq(m, 1, k)[i] = m[1 + i - 1]
    BY <1>1, <2>1, SubSeqProperties
  <2>3. Front(m) = SubSeq(m, 1, k)
    BY DEF Front
  <2> HIDE DEF k
  <2>4. Len(SubSeq(m, 1, k)) = k /\ \A i \in 1..k : SubSeq(m, 1, k)[i] = m[i]
    BY <1>1, <2>2
  <2>5. QED
    BY <2>2, <2>3, <2>4
<1>4. /\ SubSeq(Parts, 1, k) \in Seq(Part) /\ Len(SubSeq(Parts, 1, k)) = k
      /\ \A i \in 1..k : SubSeq(Parts, 1, k)[i] = Parts[i]
  <2> HIDE DEF k
  <2>1. \A i \in 1..k : Parts[i] \in Part
    BY <1>1, PartList
  <2>2. /\ SubSeq(Parts, 1, k) \in Seq(Part)
        /\ Len(SubSeq(Parts, 1, k)) = IF 1 <= k THEN k - 1 + 1 ELSE 0
        /\ \A i \in 1..(k - 1 + 1) : SubSeq(Parts, 1, k)[i] = Parts[1 + i - 1]
    BY <1>1, <2>1, SubSeqProperties
  <2>3. QED
    BY <1>1, <2>2
<1>5. Front(m) = SubSeq(Parts, 1, k)
  <2> HIDE DEF k
  <2>1. \A i \in 1..k : Front(m)[i] = SubSeq(Parts, 1, k)[i]
    BY <1>1, <1>3, <1>4
  <2>2. QED
    BY <2>1, <1>3, <1>4, SeqEqual
<1>6. QED
  BY <1>1, <1>3, <1>5 DEF Beginnings

(* Listing a finite directory names each of its entries. *)
LEMMA ListingIsComplete ==
  ASSUME NEW S, IsFiniteSet(S)
  PROVE  SetToSeq(S) \in Seq(S) /\ Range(SetToSeq(S)) = S
<1> DEFINE n == Cardinality(S)
           F == {f \in [1..n -> S] : IsInjective(f)}
<1>1. n \in Nat /\ IsFiniteSet(1..n) /\ Cardinality(1..n) = n
  BY FS_CardinalityType, FS_Interval
<1>2. F # {}
  <2>1. PICK m \in Nat : ExistsBijection(1..m, S)
    BY FS_NatBijection
  <2>2. m = n
    BY <2>1, FS_CountingElements
  <2>3. PICK f : f \in Bijection(1..n, S)
    BY <2>1, <2>2 DEF ExistsBijection
  <2>4. QED
    BY <2>3 DEF Bijection, Injection, IsInjective
<1>3. SetToSeq(S) \in F
  BY <1>2 DEF SetToSeq
<1>4. SetToSeq(S) \in Injection(1..n, S)
  BY <1>3 DEF Injection, IsInjective
<1>5. SetToSeq(S) \in Surjection(1..n, S)
  BY <1>1, <1>4, FS_Injection
<1>6. QED
  BY <1>1, <1>5 DEF Surjection, Range

-----------------------------------------------------------------------------
(* What making and removing a part does to the files.                      *)

\* A change of a part sets at most the mtime of what contains it.
LEMMA ChangedTypes ==
  ASSUME TypeInv, NEW p \in Probes, NEW x \in Part, Changed(p, x)
  PROVE  /\ mtime' \in [Probes -> [Part -> 1..MaxClock]]
         /\ \A q \in Probes \ {p} : mtime'[q] = mtime[q]
         /\ mtime'[p][x] = IF x \in exists[p] THEN 1 ELSE clock
         /\ \A y \in Part \ {x} : mtime'[p][y] = IF x # "tmp" /\ y = In[x] /\ Shows(x)
                                                THEN clock ELSE mtime[p][y]
<1> DEFINE m == [y \in Part |-> IF y = x THEN IF x \in exists[p] THEN 1 ELSE clock
                                ELSE IF x # "tmp" /\ y = In[x] /\ Shows(x) THEN clock
                                ELSE mtime[p][y]]
<1>1. mtime' = [mtime EXCEPT ![p] = m]
  BY DEF Changed
<1>2. mtime \in [Probes -> [Part -> 1..MaxClock]] /\ clock \in 1..MaxClock /\ 1 \in 1..MaxClock
  BY DirMtimeAssumption DEF TypeInv
<1>3. m \in [Part -> 1..MaxClock]
  BY <1>2
<1>4. mtime'[p] = m /\ \A q \in Probes \ {p} : mtime'[q] = mtime[q]
  BY <1>1, <1>2
<1>5. mtime' \in [Probes -> [Part -> 1..MaxClock]]
  BY <1>1, <1>2, <1>3
<1>6. /\ m[x] = IF x \in exists[p] THEN 1 ELSE clock
      /\ \A y \in Part \ {x} : m[y] = IF x # "tmp" /\ y = In[x] /\ Shows(x)
                                      THEN clock ELSE mtime[p][y]
  OBVIOUS
<1>7. QED
  BY <1>4, <1>5, <1>6

(* The effect of either on a probe p as the invariant sees it. *)
FilesTyped ==
  /\ exists' \in [Probes -> SUBSET Part] /\ mtime' \in [Probes -> [Part -> 1..MaxClock]]
  /\ Closed'

OnlyIn(p) == \A q \in Probes \ {p} : exists'[q] = exists[q] /\ mtime'[q] = mtime[q]

\* rmdir or unlink of a part: at most that part goes, and at most its parent's mtime
\* changes.
LEMMA RemoveEffect ==
  ASSUME TypeInv, Closed, NEW p \in Probes, NEW x \in Part, RemoveDir(p, x)
  PROVE  /\ FilesTyped /\ OnlyIn(p)
         /\ exists'[p] = IF CanRemove(p, x) THEN exists[p] \ {x} ELSE exists[p]
         /\ \A y \in {"a", "b"} : y \in exists'[p] /\ ~Observes(y) => mtime'[p][y] = mtime[p][y]
         /\ exists'[p] = {} \/ mtime'[p]["tmp"] \in {mtime[p]["tmp"], clock}
<1>0. exists \in [Probes -> SUBSET Part] /\ mtime \in [Probes -> [Part -> 1..MaxClock]]
  BY DEF TypeInv
<1>1. CASE ~CanRemove(p, x)
  BY <1>0, <1>1 DEF RemoveDir, FilesTyped, OnlyIn, Closed
<1>2. CASE CanRemove(p, x)
  <2>1. exists' = [exists EXCEPT ![p] = @ \ {x}] /\ Changed(p, x)
    BY <1>2 DEF RemoveDir
  <2>2. /\ exists' \in [Probes -> SUBSET Part]
        /\ exists'[p] = exists[p] \ {x}
        /\ \A q \in Probes \ {p} : exists'[q] = exists[q]
    BY <1>0, <2>1
  <2>3. x \in exists[p] /\ Inside(x) \cap exists[p] = {}
    BY <1>2 DEF CanRemove
  <2>4. /\ mtime' \in [Probes -> [Part -> 1..MaxClock]]
        /\ \A q \in Probes \ {p} : mtime'[q] = mtime[q]
        /\ \A y \in Part \ {x} : mtime'[p][y] = IF x # "tmp" /\ y = In[x] /\ Shows(x)
                                               THEN clock ELSE mtime[p][y]
    BY <2>1, ChangedTypes
  <2>5. Closed'
    <3> SUFFICES ASSUME NEW q \in Probes, NEW y \in exists'[q], y # "tmp"
                 PROVE  In[y] \in exists'[q]
      BY DEF Closed
    <3>1. y \in exists[q] /\ In[y] \in exists[q] /\ y \in Part
      BY <1>0, <2>2 DEF Closed
    <3>2. CASE q = p
      BY <2>2, <2>3, <3>1, <3>2, InList, PartList DEF Inside
    <3>3. QED
      BY <2>2, <3>1, <3>2
  <2>6. ASSUME NEW y \in {"a", "b"}, y \in exists'[p], ~Observes(y)
        PROVE  mtime'[p][y] = mtime[p][y]
    <3>1. y # x /\ y \in Part
      BY <2>2, <2>6, PartList
    <3>2. x # "tmp" /\ y = In[x] => ~Shows(x)
      BY <2>6, InList, PartList DEF Shows, Observes
    <3>3. QED
      BY <2>4, <3>1, <3>2
  <2>7. exists'[p] = {} \/ mtime'[p]["tmp"] \in {mtime[p]["tmp"], clock}
    <3>1. CASE x = "tmp"
      <4>1. \A y \in exists[p] : y = "tmp"
        BY <1>0, <2>3, <3>1, InsideList, InList, PartList DEF Closed
      <4>2. QED
        BY <2>2, <3>1, <4>1
    <3>2. CASE x # "tmp"
      BY <2>4, <3>2, PartList
    <3>3. QED
      BY <3>1, <3>2
  <2>8. QED
    BY <1>2, <2>2, <2>4, <2>5, <2>6, <2>7 DEF FilesTyped, OnlyIn
<1>3. QED
  BY <1>1, <1>2

\* mkdir or creat of a part: it has the time of day, and so has its parent if the file
\* system shows it.
LEMMA MakeEffect ==
  ASSUME TypeInv, Closed, NEW p \in Probes, NEW x \in Part, CanMake(p, x), Make(p, x)
  PROVE  /\ FilesTyped /\ OnlyIn(p)
         /\ exists'[p] = exists[p] \cup {x} /\ mtime'[p][x] = clock
         /\ x # "tmp" => IF Shows(x) THEN mtime'[p][In[x]] = clock
                                     ELSE mtime'[p][In[x]] = mtime[p][In[x]]
         /\ \A y \in Part \ {x} : x = "tmp" \/ y # In[x] => mtime'[p][y] = mtime[p][y]
<1>0. exists \in [Probes -> SUBSET Part] /\ mtime \in [Probes -> [Part -> 1..MaxClock]]
  BY DEF TypeInv
<1>1. /\ exists' = [exists EXCEPT ![p] = @ \cup {x}] /\ Changed(p, x)
      /\ x \notin exists[p] /\ (x # "tmp" => In[x] \in exists[p])
  BY DEF Make, CanMake
<1>2. /\ exists' \in [Probes -> SUBSET Part]
      /\ exists'[p] = exists[p] \cup {x}
      /\ \A q \in Probes \ {p} : exists'[q] = exists[q]
  BY <1>0, <1>1
<1>3. /\ mtime' \in [Probes -> [Part -> 1..MaxClock]]
      /\ \A q \in Probes \ {p} : mtime'[q] = mtime[q]
      /\ mtime'[p][x] = IF x \in exists[p] THEN 1 ELSE clock
      /\ \A y \in Part \ {x} : mtime'[p][y] = IF x # "tmp" /\ y = In[x] /\ Shows(x)
                                             THEN clock ELSE mtime[p][y]
  BY <1>1, ChangedTypes
<1>4. Closed'
  BY <1>1, <1>2 DEF Closed
<1>5. x # "tmp" => In[x] \in Part \ {x}
  BY InList, PartList
<1>6. QED
  BY <1>1, <1>2, <1>3, <1>4, <1>5 DEF FilesTyped, OnlyIn

-----------------------------------------------------------------------------
(* What a step of one daemon leaves as it was for the others.              *)

\* A step of a daemon changes the record of that daemon only.
LEMMA Moved ==
  ASSUME TypeInv, NEW d \in Daemons, NEW c \in Call, Becomes(d, c)
  PROVE  /\ daemon' \in [Daemons -> Call] /\ daemon'[d] = c
         /\ \A e \in Daemons \ {d} : daemon'[e] = daemon[e]
         /\ fs' = fs /\ clock' = clock /\ late' = late
  BY DEF TypeInv, Becomes

\* What a daemon knows of its own directory stays true while nobody touches the directory.
LEMMA OtherRight ==
  ASSUME NEW e \in Daemons, Right(e), daemon'[e] = daemon[e],
         fs' = fs, clock' = clock, late' = late,
         exists'[e] = exists[e], mtime'[e] = mtime[e]
  PROVE  Right(e)'
<1>1. Stage(e)' /\ Owned(e)'
  BY DEF Right, Stage, Owned, at, Made, Checks
<1>2. Aging(e)'
  BY DEF Right, Aging, Ended, IsStale
<1>3. Stamped(e)'
  BY DEF Right, Stamped, Stamp, ChangeShows, Observes, at, Made, Checks
<1>4. Verdict(e)'
  BY DEF Right, Verdict, at, Made, Checks, AllShow
<1>5. QED
  BY <1>1, <1>2, <1>3, <1>4 DEF Right

\* A removal in progress is not undone by others: parts only go.
LEMMA OtherRemoving ==
  ASSUME NEW e \in Daemons, Removing(e), daemon'[e] = daemon[e], late \subseteq late',
         \A f \in Daemons : Ended(f) => Ended(f)',
         \A p \in Mine : exists'[p] \subseteq exists[p]
  PROVE  Removing(e)'
  BY DEF Removing, at, Entry

\* What a daemon saw to be stale is dealt with or stays as it was seen.
LEMMA OtherSeen ==
  ASSUME TypeInv, NEW e \in Daemons, Seen(e), daemon'[e] = daemon[e],
         \A p \in Mine : Handled(p) => Handled(p)',
         \A p \in Mine : mtime'[p] = mtime[p] \/ Handled(p)'
  PROVE  Seen(e)'
<1> SUFFICES ASSUME NEW p \in daemon[e].saw PROVE Handled(p)' \/ Ahead(e, p)'
  BY DEF Seen
<1>1. p \in Mine
  BY DEF TypeInv, Call
<1>2. Handled(p) \/ Ahead(e, p)
  BY DEF Seen
<1>3. Ahead(e, p) /\ mtime'[p] = mtime[p] => Ahead(e, p)'
  BY DEF Ahead, at, IsStale
<1>4. QED
  BY <1>1, <1>2, <1>3

\* A stale directory that has been dealt with stays so.
LEMMA HandledKept ==
  ASSUME NEW d \in Daemons, NEW p \in Mine, Handled(p),
         \A e \in Daemons \ {d} : daemon'[e] = daemon[e],
         exists[p] = {} => exists'[p] = {}, at(d) # "crashed",
         at(d) = "remove" /\ Entry(d) = p => Handled(p)'
  PROVE  Handled(p)'
  BY DEF Handled, at, Entry

(* Most steps touch no directory but the daemon's own. *)
LEMMA OwnStep ==
  ASSUME IInv, NEW d \in Daemons, NEW c \in Call, Becomes(d, c), ~Ended(d),
         FilesTyped, OnlyIn(d),
         \A p \in Mine : at(d) = "remove" /\ Entry(d) = p => Handled(p)',
         Right(d)', Removing(d)', Seen(d)'
  PROVE  IInv'
<1>1. /\ daemon' \in [Daemons -> Call] /\ daemon'[d] = c
      /\ \A e \in Daemons \ {d} : daemon'[e] = daemon[e]
      /\ fs' = fs /\ clock' = clock /\ late' = late
  BY Moved DEF IInv
<1>2. TypeInv' /\ Closed'
  BY <1>1 DEF IInv, TypeInv, FilesTyped
<1>3. \A p \in Mine : p \in Probes \ {d}
  BY DirMtimeAssumption DEF Probes
<1>4. \A p \in Mine : exists'[p] = exists[p] /\ mtime'[p] = mtime[p]
  BY <1>3 DEF OnlyIn
<1>5. \A e \in Daemons : Right(e)'
  <2>1. \A e \in Daemons \ {d} : e \in Probes \ {d}
    BY DEF Probes
  <2>2. \A e \in Daemons \ {d} : exists'[e] = exists[e] /\ mtime'[e] = mtime[e]
    BY <2>1 DEF OnlyIn
  <2>3. QED
    BY <1>1, <2>2, OtherRight DEF IInv
<1>6. \A e \in Daemons : Removing(e)'
  <2>1. \A f \in Daemons : Ended(f) => Ended(f)'
    BY <1>1 DEF Ended
  <2>2. \A e \in Daemons \ {d} : Removing(e)'
    BY <1>1, <1>4, <2>1, OtherRemoving DEF IInv
  <2>3. QED
    BY <2>2
<1>7. \A p \in Mine : Handled(p) => Handled(p)'
  <2>1. at(d) # "crashed"
    BY DEF Ended, at
  <2>2. ASSUME NEW p \in Mine, Handled(p) PROVE Handled(p)'
    BY <1>1, <1>4, <2>1, <2>2, HandledKept
  <2>3. QED
    BY <2>2
<1>8. \A e \in Daemons : Seen(e)'
  <2>1. \A e \in Daemons \ {d} : Seen(e)'
    BY <1>1, <1>4, <1>7, OtherSeen DEF IInv
  <2>2. QED
    BY <2>1
<1>9. QED
  BY <1>2, <1>5, <1>6, <1>8 DEF IInv

\* A step that touches no file.
LEMMA NoFiles ==
  ASSUME TypeInv, Closed, exists' = exists, mtime' = mtime, NEW p
  PROVE  FilesTyped /\ OnlyIn(p)
  BY DEF TypeInv, Closed, FilesTyped, OnlyIn

-----------------------------------------------------------------------------
(* RemoveStaleDirs.                                                        *)

\* While it cleans up, a daemon has made nothing yet.
LEMMA CleanRight ==
  ASSUME TypeInv, NEW d \in Daemons, NEW c \in Call, Right(d), Becomes(d, c),
         at(d) \in {"new", "stat", "remove"}, c.at \in {"stat", "remove", "make"},
         c.made = daemon[d].made, c.result = daemon[d].result, c.now <= clock,
         exists'[d] \subseteq exists[d]
  PROVE  Right(d)'
<1>1. daemon'[d] = c /\ fs' = fs /\ clock' = clock /\ late' = late
  BY Moved
<1>2. daemon[d].made = <<>> /\ Made(d) = {} /\ exists[d] = {} /\ daemon[d].result = FALSE
  <2>1. daemon[d].made = <<>> /\ exists[d] \subseteq Made(d)
    BY DEF Right, Stage, Owned, at
  <2>2. daemon[d].result \in BOOLEAN /\ ~daemon[d].result
    BY DEF TypeInv, Call, Right, Verdict, at
  <2>3. QED
    BY <2>1, <2>2 DEF Made, Range
<1>3. Made(d)' = {} /\ Len(<<>>) = 0
  BY <1>1, <1>2 DEF Made, Range
<1>4. Stage(d)'
  BY <1>1, <1>2, <1>3 DEF Stage, at
<1>5. Owned(d)' /\ Aging(d)'
  BY <1>2, <1>3 DEF Owned, Aging
<1>6. Stamped(d)'
  BY <1>1, <1>3 DEF Stamped, at
<1>7. Verdict(d)'
  BY <1>1, <1>2, <1>3 DEF Verdict, at, Checks
<1>8. QED
  BY <1>4, <1>5, <1>6, <1>7 DEF Right

\* The invariant is kept when the stale directories are listed.
LEMMA ListDirKeeps ==
  ASSUME IInv, NEW d \in Daemons, ListDir(d)
  PROVE  IInv'
<1> DEFINE there == {p \in Probes : exists[p] # {}}
<1>0. TypeInv /\ Closed /\ Right(d)
  BY DEF IInv
<1>1. /\ at(d) = "new" /\ ~Ended(d) /\ exists' = exists /\ mtime' = mtime
  BY DEF ListDir, Ended, at
<1>2. PICK c : /\ c = [daemon[d] EXCEPT !.at = "stat", !.now = clock, !.list = SetToSeq(there),
                                        !.saw = {p \in there \cap Mine : IsStale(p, clock)}]
               /\ Becomes(d, c)
  BY DEF ListDir
<1>3. SetToSeq(there) \in Seq(Probes) /\ Range(SetToSeq(there)) = there
  <2>1. IsFiniteSet(Probes)
    BY DirMtimeAssumption, FS_Union DEF Probes
  <2>2. IsFiniteSet(there)
    BY <2>1, FS_Subset
  <2>3. SetToSeq(there) \in Seq(there) /\ Range(SetToSeq(there)) = there
    BY <2>2, ListingIsComplete
  <2>4. \A q \in Seq(there) : q \in Seq(Probes)
    OBVIOUS
  <2>5. QED
    BY <2>3, <2>4
<1> HIDE DEF there
<1>4. /\ daemon[d] \in Call /\ clock \in 0..MaxClock
      /\ {p \in there \cap Mine : IsStale(p, clock)} \subseteq Mine
  BY <1>0 DEF TypeInv
<1>5. c \in Call /\ c.at = "stat" /\ c.made = daemon[d].made /\ c.result = daemon[d].result
      /\ c.now = clock /\ c.list = SetToSeq(there)
      /\ c.saw = {p \in there \cap Mine : IsStale(p, clock)}
  BY <1>2, <1>3, <1>4 DEF Call, Place
<1>6. daemon'[d] = c /\ clock' = clock
  BY <1>0, <1>2, <1>5, Moved
<1>12. Becomes(d, c) /\ clock <= clock
  BY <1>0, <1>2 DEF TypeInv
<1>7. Right(d)'
  BY <1>0, <1>1, <1>5, <1>12, CleanRight
<1>8. Removing(d)'
  BY <1>5, <1>6 DEF Removing, at
<1>9. Seen(d)'
  BY <1>1, <1>3, <1>5, <1>6 DEF Seen, Ahead, IsStale, at
<1>10. QED
  BY <1>0, <1>1, <1>12, <1>5, <1>7, <1>8, <1>9, NoFiles, OwnStep

\* It is kept when they cannot be listed.
LEMMA ListFailsKeeps ==
  ASSUME IInv, NEW d \in Daemons, ListFails(d)
  PROVE  IInv'
<1>0. TypeInv /\ Closed /\ Right(d) /\ Seen(d)
  BY DEF IInv
<1>1. /\ at(d) = "new" /\ ~Ended(d) /\ exists' = exists /\ mtime' = mtime
  BY DEF ListFails, Ended, at
<1>2. PICK c : c = [daemon[d] EXCEPT !.at = "make"] /\ Becomes(d, c)
  BY DEF ListFails
<1>3. c \in Call /\ c.at = "make" /\ c.made = daemon[d].made /\ c.result = daemon[d].result
      /\ c.now = daemon[d].now /\ c.saw = daemon[d].saw
  BY <1>0, <1>2 DEF TypeInv, Call, Place
<1>4. /\ daemon'[d] = c /\ \A e \in Daemons \ {d} : daemon'[e] = daemon[e]
  BY <1>0, <1>2, <1>3, Moved
<1>5. Right(d)'
  BY <1>0, <1>1, <1>2, <1>3, CleanRight DEF Right, Stage
<1>6. Removing(d)'
  BY <1>3, <1>4 DEF Removing, at
<1>7. Seen(d)'
  BY <1>0, <1>1, <1>3, <1>4 DEF Seen, Handled, Ahead, at, Entry
<1>8. QED
  BY <1>0, <1>1, <1>2, <1>3, <1>5, <1>6, <1>7, NoFiles, OwnStep

(* Going on to the next entry. *)
LEMMA ListTail ==
  ASSUME NEW S, NEW q \in Seq(S), q # <<>>
  PROVE  /\ Tail(q) \in Seq(S) /\ Head(q) \in S /\ Head(q) \in Range(q)
         /\ \A p \in Range(q) : p = Head(q) \/ p \in Range(Tail(q))
         /\ Range(Tail(q)) \subseteq Range(q)
<1>1. /\ Len(Tail(q)) = Len(q) - 1 /\ Len(q) \in Nat /\ Len(q) >= 1
      /\ DOMAIN q = 1..Len(q) /\ DOMAIN Tail(q) = 1..(Len(q) - 1)
      /\ Tail(q) \in Seq(S) /\ Head(q) \in S /\ Head(q) = q[1]
      /\ \A x \in 1..(Len(q) - 1) : Tail(q)[x] = q[x + 1]
  BY HeadTailProperties, LenProperties, EmptySeq
<1>2. ASSUME NEW i \in 1..Len(q), i # 1 PROVE q[i] \in Range(Tail(q))
  <2>1. i - 1 \in DOMAIN Tail(q) /\ Tail(q)[i - 1] = q[i]
    BY <1>1, <1>2
  <2>2. QED
    BY <2>1 DEF Range
<1>3. ASSUME NEW i \in DOMAIN Tail(q) PROVE Tail(q)[i] \in Range(q)
  <2>1. i + 1 \in DOMAIN q /\ Tail(q)[i] = q[i + 1]
    BY <1>1
  <2>2. QED
    BY <2>1 DEF Range
<1>4. 1 \in DOMAIN q
  BY <1>1
<1>5. QED
  BY <1>1, <1>2, <1>3, <1>4, Zenon DEF Range

\* The types of a daemon's record after a move to another place.
LEMMA CallAtStep ==
  ASSUME NEW k \in Call, NEW a \in Place, NEW s \in 0..5
  PROVE  [k EXCEPT !.at = a, !.step = s] \in Call
  BY DEF Call

\* The same, with the list of what is left to look at.
LEMMA CallAtList ==
  ASSUME NEW k \in Call, NEW a \in Place, NEW s \in 0..5, NEW q \in Seq(Probes)
  PROVE  [k EXCEPT !.at = a, !.list = q, !.step = s] \in Call
  BY DEF Call

\* Going on to the next entry changes neither what was made nor what was seen.
LEMMA NextEntryIs ==
  ASSUME TypeInv, NEW d \in Daemons, daemon[d].list # <<>>
  PROVE  /\ NextEntry(d) \in Call /\ NextEntry(d).at = "stat"
         /\ NextEntry(d).made = daemon[d].made /\ NextEntry(d).result = daemon[d].result
         /\ NextEntry(d).now = daemon[d].now /\ NextEntry(d).saw = daemon[d].saw
         /\ NextEntry(d).list = Tail(daemon[d].list)
<1>1. daemon[d] \in Call /\ daemon[d].list \in Seq(Probes)
  BY DEF TypeInv, Call
<1>2. Tail(daemon[d].list) \in Seq(Probes)
  BY <1>1, ListTail
<1>3. PICK k \in Call : k = daemon[d]
  BY <1>1
<1>4. PICK q \in Seq(Probes) : q = Tail(daemon[d].list)
  BY <1>2
<1>5. NextEntry(d) = [k EXCEPT !.at = "stat", !.list = q, !.step = 0]
  BY <1>3, <1>4 DEF NextEntry
<1>6. NextEntry(d) \in Call
  <2>1. "stat" \in Place /\ 0 \in 0..5
    BY DEF Place
  <2>2. [k EXCEPT !.at = "stat", !.list = q, !.step = 0] \in Call
    BY <2>1, CallAtList, Zenon
  <2>3. QED
    BY <1>5, <2>2, Zenon
<1>7. /\ NextEntry(d).at = "stat" /\ NextEntry(d).list = q
      /\ NextEntry(d).made = k.made /\ NextEntry(d).result = k.result
      /\ NextEntry(d).now = k.now /\ NextEntry(d).saw = k.saw
  BY <1>3, <1>5 DEF Call
<1>8. QED
  BY <1>3, <1>4, <1>6, <1>7

\* The invariant is kept when the age of an entry is looked at.
LEMMA StatEntryKeeps ==
  ASSUME IInv, NEW d \in Daemons, StatEntry(d)
  PROVE  IInv'
<1>0. TypeInv /\ Closed /\ Right(d) /\ Seen(d)
  BY DEF IInv
<1>1. /\ at(d) = "stat" /\ ~Ended(d) /\ exists' = exists /\ mtime' = mtime
      /\ daemon[d].list # <<>>
  BY DEF StatEntry, Ended, at
<1>2. PICK p : p = Entry(d)
  OBVIOUS
<1>3. /\ p \in Probes /\ Tail(daemon[d].list) \in Seq(Probes)
      /\ \A q \in Range(daemon[d].list) : q = p \/ q \in Range(Tail(daemon[d].list))
  <2>1. daemon[d].list \in Seq(Probes)
    BY <1>0 DEF TypeInv, Call
  <2>2. QED
    BY <1>1, <1>2, <2>1, ListTail DEF Entry
<1>4. PICK c : /\ c = IF exists[p] # {} /\ OldEnough(p, daemon[d].now)
                      THEN [daemon[d] EXCEPT !.at = "remove", !.step = 1] ELSE NextEntry(d)
               /\ Becomes(d, c)
  BY <1>2 DEF StatEntry
<1>5. daemon[d].now \in Nat /\ daemon[d].now <= clock
  BY <1>0 DEF TypeInv, Call, Right, Stage
<1>6. CASE exists[p] # {} /\ OldEnough(p, daemon[d].now)
  <2>1. /\ c \in Call /\ c.at = "remove" /\ c.made = daemon[d].made
        /\ c.result = daemon[d].result /\ c.now = daemon[d].now /\ c.saw = daemon[d].saw
        /\ c.list = daemon[d].list /\ c.step = 1
    <3>1. PICK k \in Call : k = daemon[d]
      BY <1>0 DEF TypeInv
    <3>2. c = [k EXCEPT !.at = "remove", !.step = 1]
      BY <1>4, <1>6, <3>1
    <3>3. c \in Call
      <4>1. "remove" \in Place /\ 1 \in 0..5
        BY DEF Place
      <4>2. [k EXCEPT !.at = "remove", !.step = 1] \in Call
        BY <4>1, CallAtStep, Zenon
      <4>3. QED
        BY <3>2, <4>2, Zenon
    <3>4. /\ c.at = "remove" /\ c.made = k.made /\ c.result = k.result /\ c.now = k.now
          /\ c.saw = k.saw /\ c.list = k.list /\ c.step = 1
      BY <3>1, <3>2 DEF Call
    <3>5. QED
      BY <3>1, <3>3, <3>4
  <2>2. /\ daemon'[d] = c /\ \A e \in Daemons \ {d} : daemon'[e] = daemon[e]
        /\ clock' = clock /\ late' = late
    BY <1>0, <1>4, <2>1, Moved
  <2>3. Right(d)'
    BY <1>0, <1>1, <1>4, <1>5, <2>1, CleanRight
  <2>4. p \in Daemons => Ended(p) \/ p \in late
    <3>1. mtime[p]["tmp"] \in Nat /\ clock \in Nat
      BY <1>0, <1>3, PartList DEF TypeInv
    <3>2. IsStale(p, clock)
      BY <1>5, <1>6, <3>1, DirMtimeAssumption DEF OldEnough, IsStale
    <3>3. QED
      BY <1>6, <3>2 DEF IInv, Right, Aging
  <2>5. Entry(d)' = p
    BY <1>2, <2>1, <2>2 DEF Entry
  <2>6. p \in Daemons => Ended(p)' \/ p \in late'
    <3>1. p \in Daemons \ {d} => (Ended(p) <=> Ended(p)')
      BY <2>2 DEF Ended
    <3>2. QED
      BY <1>1, <2>2, <2>4, <3>1
  <2>7. Removing(d)'
    BY <1>1, <2>1, <2>2, <2>5, <2>6 DEF Removing, at
  <2>8. Seen(d)'
    BY <1>0, <1>1, <2>1, <2>2 DEF Seen, Handled, Ahead, at, Entry, IsStale
  <2>9. QED
    BY <1>0, <1>1, <1>4, <2>1, <2>3, <2>7, <2>8, NoFiles, OwnStep
<1>7. CASE ~(exists[p] # {} /\ OldEnough(p, daemon[d].now))
  <2>1. /\ c \in Call /\ c.at = "stat" /\ c.made = daemon[d].made
        /\ c.result = daemon[d].result /\ c.now = daemon[d].now /\ c.saw = daemon[d].saw
        /\ c.list = Tail(daemon[d].list)
    BY <1>0, <1>1, <1>4, <1>7, NextEntryIs
  <2>2. /\ daemon'[d] = c /\ \A e \in Daemons \ {d} : daemon'[e] = daemon[e]
    BY <1>0, <1>4, <2>1, Moved
  <2>3. Right(d)'
    BY <1>0, <1>1, <1>4, <1>5, <2>1, CleanRight
  <2>4. Removing(d)'
    BY <2>1, <2>2 DEF Removing, at
  <2>5. Seen(d)'
    <3> SUFFICES ASSUME NEW q \in daemon[d].saw PROVE Handled(q)' \/ Ahead(d, q)'
      BY <2>1, <2>2 DEF Seen
    <3>1. CASE Handled(q)
      BY <1>1, <2>2, <3>1 DEF Handled, at, Entry
    <3>2. CASE Ahead(d, q) /\ q = p
      BY <1>1, <1>7, <3>2 DEF Ahead, IsStale, OldEnough, Handled
    <3>3. CASE Ahead(d, q) /\ q # p
      BY <1>1, <1>3, <2>1, <2>2, <3>3 DEF Ahead, at, IsStale
    <3>4. QED
      BY <1>0, <3>1, <3>2, <3>3 DEF Seen
  <2>6. QED
    BY <1>0, <1>1, <1>4, <2>1, <2>3, <2>4, <2>5, NoFiles, OwnStep
<1>8. QED
  BY <1>6, <1>7

\* It is kept when the last entry has been dealt with.
LEMMA CleanedKeeps ==
  ASSUME IInv, NEW d \in Daemons, Cleaned(d)
  PROVE  IInv'
<1>0. TypeInv /\ Closed /\ Right(d) /\ Seen(d)
  BY DEF IInv
<1>1. /\ at(d) = "stat" /\ ~Ended(d) /\ exists' = exists /\ mtime' = mtime
      /\ daemon[d].list = <<>>
  BY DEF Cleaned, Ended, at
<1>2. PICK c : c = [daemon[d] EXCEPT !.at = "make", !.now = 0] /\ Becomes(d, c)
  BY DEF Cleaned
<1>3. c \in Call /\ c.at = "make" /\ c.made = daemon[d].made /\ c.result = daemon[d].result
      /\ c.now = 0 /\ c.saw = daemon[d].saw
  <2>1. PICK k \in Call : k = daemon[d]
    BY <1>0 DEF TypeInv
  <2>2. c = [k EXCEPT !.at = "make", !.now = 0] /\ 0 \in 0..MaxClock
    BY <1>2, <2>1, DirMtimeAssumption
  <2>3. c \in Call
    BY <2>1, <2>2 DEF Call, Place
  <2>4. /\ c.at = "make" /\ c.made = k.made /\ c.result = k.result
        /\ c.now = 0 /\ c.saw = k.saw
    BY <2>1, <2>2 DEF Call
  <2>5. QED
    BY <2>1, <2>3, <2>4
<1>4. /\ daemon'[d] = c /\ \A e \in Daemons \ {d} : daemon'[e] = daemon[e]
  BY <1>0, <1>2, <1>3, Moved
<1>5. Right(d)'
  <2>1. 0 <= clock
    BY <1>0 DEF TypeInv
  <2>2. QED
    BY <1>0, <1>1, <1>2, <1>3, <2>1, CleanRight
<1>6. Removing(d)'
  BY <1>3, <1>4 DEF Removing, at
<1>7. Seen(d)'
  BY <1>0, <1>1, <1>3, <1>4 DEF Seen, Handled, Ahead, at, Entry, Range
<1>8. QED
  BY <1>0, <1>1, <1>2, <1>3, <1>5, <1>6, <1>7, NoFiles, OwnStep

(* A daemon whose directory others remove is late, or has ended. *)
LEMMA TakenRight ==
  ASSUME NEW e \in Daemons, Right(e), Ended(e) \/ e \in late, daemon'[e] = daemon[e],
         fs' = fs, clock' = clock, late' = late, exists'[e] \subseteq exists[e],
         \A y \in {"a", "b"} : y \in exists'[e] /\ ~Observes(y) => mtime'[e][y] = mtime[e][y]
  PROVE  Right(e)'
<1>1. Stage(e)' /\ Owned(e)'
  BY DEF Right, Stage, Owned, at, Made, Checks, Ended
<1>2. Aging(e)'
  BY DEF Aging, Ended
<1>3. Stamped(e)'
  BY DEF Right, Stamped, Stamp, Observes, at, Made, Checks, Ended
<1>4. Verdict(e)'
  BY DEF Right, Verdict, at, Made, Checks, AllShow
<1>5. QED
  BY <1>1, <1>2, <1>3, <1>4 DEF Right

(* The order in which parts are removed works from any state: none of them *)
(* is ever found with something in it.                                     *)
LEMMA OrderWorks ==
  ASSUME TypeInv, NEW p \in Probes, NEW i \in 1..5, \A j \in 1..(i - 1) : Order[j] \notin exists[p]
  PROVE  /\ Order[i] \in exists[p] => CanRemove(p, Order[i])
         /\ Order[i] = "tmp" => i = 5 /\ exists[p] \subseteq {"tmp"}
<1>1. exists[p] \subseteq {"tmp", "a", "b", "a1", "b1"}
  BY PartList DEF TypeInv
<1>2. i = 1 \/ i = 2 \/ i = 3 \/ i = 4 \/ i = 5
  OBVIOUS
<1>3. QED
  BY <1>1, <1>2, OrderList, InsideList DEF CanRemove

\* An entry that is not ours to compare with is passed over.
LEMMA ForeignKept ==
  ASSUME IInv, NEW d \in Daemons, at(d) = "remove", Entry(d) \in Left \ Mine,
         exists' = exists, mtime' = mtime, Becomes(d, NextEntry(d))
  PROVE  IInv'
<1>0. TypeInv /\ Closed /\ Right(d) /\ Seen(d) /\ Removing(d)
  BY DEF IInv
<1>1. ~Ended(d) /\ daemon[d].list # <<>>
  BY <1>0 DEF Ended, at, Removing
<1>2. PICK c \in Call : c = NextEntry(d)
  BY <1>0, <1>1, NextEntryIs
<1>3. /\ c.at = "stat" /\ c.made = daemon[d].made /\ c.result = daemon[d].result
      /\ c.now = daemon[d].now /\ c.saw = daemon[d].saw /\ c.list = Tail(daemon[d].list)
  BY <1>0, <1>1, <1>2, NextEntryIs
<1>4. /\ daemon'[d] = c /\ \A e \in Daemons \ {d} : daemon'[e] = daemon[e]
  BY <1>0, <1>2, Moved
<1>5. Becomes(d, c)
  BY <1>2
<1>6. Right(d)'
  BY <1>0, <1>3, <1>5, CleanRight DEF Right, Stage
<1>7. Removing(d)'
  BY <1>3, <1>4 DEF Removing, at
<1>8. \A q \in Range(daemon[d].list) : q = Entry(d) \/ q \in Range(Tail(daemon[d].list))
  <2>1. daemon[d].list \in Seq(Probes)
    BY <1>0 DEF TypeInv, Call
  <2>2. QED
    BY <1>1, <2>1, ListTail DEF Entry
<1>9. Seen(d)'
  <2> SUFFICES ASSUME NEW q \in daemon[d].saw PROVE Handled(q)' \/ Ahead(d, q)'
    BY <1>3, <1>4 DEF Seen
  <2>1. q \in Mine /\ q # Entry(d)
    BY <1>0 DEF TypeInv, Call
  <2>2. CASE Handled(q)
    BY <1>4, <2>1, <2>2 DEF Handled, at, Entry
  <2>3. CASE Ahead(d, q)
    BY <1>3, <1>4, <1>8, <2>1, <2>3 DEF Ahead, at, IsStale
  <2>4. QED
    BY <1>0, <2>2, <2>3 DEF Seen
<1>10. QED
  <2>1. \A p \in Mine : ~(at(d) = "remove" /\ Entry(d) = p)
    OBVIOUS
  <2>2. QED
    BY <1>0, <1>1, <1>5, <1>6, <1>7, <1>9, <2>1, NoFiles, OwnStep

\* The record of a daemon after one step of a removal.
LEMMA CallStep ==
  ASSUME NEW k \in Call, NEW s \in 0..5
  PROVE  /\ [k EXCEPT !.step = s] \in Call
         /\ [k EXCEPT !.step = s].at = k.at /\ [k EXCEPT !.step = s].made = k.made
         /\ [k EXCEPT !.step = s].result = k.result /\ [k EXCEPT !.step = s].now = k.now
         /\ [k EXCEPT !.step = s].saw = k.saw /\ [k EXCEPT !.step = s].list = k.list
         /\ [k EXCEPT !.step = s].step = s
<1>1. [k EXCEPT !.step = s] \in Call
  BY DEF Call
<1>2. QED
  BY <1>1 DEF Call

\* The invariant is kept when a part of a stale directory is removed, in use by another or
\* not.
LEMMA RemovePartKeeps ==
  ASSUME IInv, NEW d \in Daemons, RemovePart(d)
  PROVE  IInv'
<1>0. TypeInv /\ Closed /\ Right(d) /\ Seen(d) /\ Removing(d)
  BY DEF IInv
<1>1. at(d) = "remove" /\ ~Ended(d) /\ daemon[d].list # <<>> /\ daemon[d].step \in 1..5
  BY <1>0 DEF RemovePart, Ended, at, Removing
<1>2. PICK p : p = Entry(d)
  OBVIOUS
<1>3. PICK i \in 1..5 : i = daemon[d].step
  BY <1>1
<1>4. /\ p \in Probes
      /\ \A q \in Range(daemon[d].list) : q = p \/ q \in Range(Tail(daemon[d].list))
  <2>1. daemon[d].list \in Seq(Probes)
    BY <1>0 DEF TypeInv, Call
  <2>2. QED
    BY <1>1, <1>2, <2>1, ListTail DEF Entry
<1>5. PICK x : x = Order[i]
  OBVIOUS
<1>6. x \in Part
  BY <1>5, OrderList, PartList
<1>7. CASE p \in Left \ Mine
  BY <1>1, <1>2, <1>7, ForeignKept DEF RemovePart
<1>8. CASE p \notin Left \ Mine
  <2>1. p \in Mine \/ p \in Daemons
    BY <1>4, <1>8 DEF Probes
  <2>2. RemoveDir(p, x)
    BY <1>2, <1>3, <1>5, <1>8 DEF RemovePart
  <2>3. /\ FilesTyped /\ OnlyIn(p)
        /\ exists'[p] = IF CanRemove(p, x) THEN exists[p] \ {x} ELSE exists[p]
        /\ \A y \in {"a", "b"} : y \in exists'[p] /\ ~Observes(y) => mtime'[p][y] = mtime[p][y]
    BY <1>0, <1>4, <1>6, <2>2, RemoveEffect
  <2> DEFINE ends == (x \in exists[p] /\ ~CanRemove(p, x)) \/ x = "tmp"
  <2>4. Becomes(d, IF ends THEN NextEntry(d) ELSE [daemon[d] EXCEPT !.step = @ + 1])
    BY <1>2, <1>3, <1>5, <1>8 DEF RemovePart
  <2>5. i = 5 => ends
    BY <1>5, OrderList
  <2>6. PICK c \in Call :
          /\ Becomes(d, c) /\ c.made = daemon[d].made /\ c.result = daemon[d].result
          /\ c.now = daemon[d].now /\ c.saw = daemon[d].saw
          /\ ends => c.at = "stat" /\ c.list = Tail(daemon[d].list)
          /\ ~ends => c.at = "remove" /\ c.list = daemon[d].list /\ c.step = i + 1
    <3>1. CASE ends
      BY <1>0, <1>1, <2>4, <3>1, NextEntryIs
    <3>2. CASE ~ends
      <4>1. PICK k \in Call : k = daemon[d]
        BY <1>0 DEF TypeInv
      <4>2. i + 1 \in 0..5 /\ k.step = i
        BY <1>3, <2>5, <3>2, <4>1
      <4>3. Becomes(d, [k EXCEPT !.step = i + 1])
        BY <2>4, <3>2, <4>1, <4>2
      <4>4. /\ [k EXCEPT !.step = i + 1] \in Call
            /\ [k EXCEPT !.step = i + 1].at = k.at /\ [k EXCEPT !.step = i + 1].made = k.made
            /\ [k EXCEPT !.step = i + 1].result = k.result
            /\ [k EXCEPT !.step = i + 1].now = k.now /\ [k EXCEPT !.step = i + 1].saw = k.saw
            /\ [k EXCEPT !.step = i + 1].list = k.list /\ [k EXCEPT !.step = i + 1].step = i + 1
        BY <4>2, CallStep
      <4>5. PICK c \in Call : c = [k EXCEPT !.step = i + 1]
        BY <4>4, Zenon
      <4>6. /\ c.at = k.at /\ c.made = k.made /\ c.result = k.result /\ c.now = k.now
            /\ c.saw = k.saw /\ c.list = k.list /\ c.step = i + 1
        BY <4>4, <4>5, Zenon
      <4>7. Becomes(d, c)
        BY <4>3, <4>5, Zenon
      <4>8. k.at = "remove"
        BY <1>1, <4>1 DEF at
      <4> HIDE DEF ends
      <4>9. QED
        BY <3>2, <4>1, <4>6, <4>7, <4>8
    <3>3. QED
      BY <3>1, <3>2
  <2>7. /\ daemon' \in [Daemons -> Call] /\ daemon'[d] = c
        /\ \A e \in Daemons \ {d} : daemon'[e] = daemon[e]
        /\ fs' = fs /\ clock' = clock /\ late' = late
    BY <1>0, <2>6, Moved
  <2>8. TypeInv' /\ Closed'
    BY <1>0, <2>3, <2>7 DEF TypeInv, FilesTyped
  <2>9. \A q \in Probes : exists'[q] \subseteq exists[q]
    BY <1>0, <2>3 DEF OnlyIn, TypeInv
  <2>10. \A q \in Mine : q \in Probes
    BY DirMtimeAssumption DEF Probes
  <2>11. \A e \in Daemons : e \in Probes
    BY DEF Probes
  <2>12. p \in Daemons => Ended(p) \/ p \in late
    BY <1>0, <1>1, <1>2 DEF Removing
  <2>13. \A e \in Daemons : Right(e)'
    <3>1. Right(d)'
      BY <1>0, <1>1, <2>6, <2>9, <2>11, CleanRight DEF Right, Stage
    <3>2. ASSUME NEW e \in Daemons, e # d PROVE Right(e)'
      <4>1. CASE e = p
        BY <2>3, <2>7, <2>9, <2>11, <2>12, <3>2, <4>1, TakenRight DEF IInv
      <4>2. CASE e # p
        BY <2>3, <2>7, <2>11, <3>2, <4>2, OtherRight DEF IInv, OnlyIn
      <4>3. QED
        BY <4>1, <4>2
    <3>3. QED
      BY <3>1, <3>2
  <2>14. \A f \in Daemons : Ended(f) => Ended(f)'
    BY <1>1, <2>7 DEF Ended
  <2>15. p \in Mine => \A j \in 1..(i - 1) : Order[j] \notin exists[p]
    BY <1>0, <1>1, <1>2, <1>3 DEF Removing
  <2>16. \A e \in Daemons : Removing(e)'
    <3>1. \A e \in Daemons \ {d} : Removing(e)'
      BY <2>7, <2>9, <2>10, <2>14, OtherRemoving DEF IInv
    <3>2. ASSUME ~ends PROVE Removing(d)'
      <4>1. Entry(d)' = p
        BY <1>2, <2>6, <2>7, <3>2 DEF Entry
      <4>2. p \in Daemons => Ended(p)' \/ p \in late'
        BY <2>7, <2>12, <2>14
      <4>3. ASSUME p \in Mine, NEW j \in 1..i PROVE Order[j] \notin exists'[p]
        BY <1>4, <1>5, <2>3, <2>9, <2>15, <3>2, <4>3
      <4>4. i + 1 \in 1..5 /\ (i + 1) - 1 = i
        BY <2>5, <3>2
      <4>5. daemon'[d].list # <<>> /\ daemon'[d].step = i + 1
        BY <1>1, <2>6, <2>7, <3>2
      <4> HIDE DEF ends
      <4>6. QED
        BY <4>1, <4>2, <4>3, <4>4, <4>5 DEF Removing
    <3>3. ASSUME ends PROVE Removing(d)'
      BY <2>6, <2>7, <3>3 DEF Removing, at
    <3>4. QED
      BY <3>1, <3>2, <3>3
  <2>17. p \in Mine => Handled(p)'
    <3> SUFFICES ASSUME p \in Mine PROVE Handled(p)'
      OBVIOUS
    <3>1. CASE ends
      <4>1. /\ x \in exists[p] => CanRemove(p, x)
            /\ x = "tmp" => exists[p] \subseteq {"tmp"}
        BY <1>0, <1>4, <1>5, <2>15, OrderWorks
      <4>2. exists'[p] = {}
        BY <2>3, <3>1, <4>1 DEF CanRemove
      <4>3. QED
        BY <4>2 DEF Handled
    <3>2. CASE ~ends
      BY <1>2, <2>6, <2>7, <3>2 DEF Handled, at, Entry
    <3>3. QED
      BY <3>1, <3>2
  <2>18. \A q \in Mine : Handled(q) => Handled(q)'
    <3>1. at(d) # "crashed"
      BY <1>1
    <3>2. \A q \in Mine : exists[q] = {} => exists'[q] = {}
      BY <2>9, <2>10
    <3>3. \A q \in Mine : at(d) = "remove" /\ Entry(d) = q => Handled(q)'
      BY <1>2, <2>17
    <3>4. QED
      BY <2>7, <3>1, <3>2, <3>3, HandledKept
  <2>19. \A q \in Mine : q # p => mtime'[q] = mtime[q]
    BY <2>3, <2>10 DEF OnlyIn
  <2>20. \A q \in Mine : mtime'[q] = mtime[q] \/ Handled(q)'
    BY <2>17, <2>19
  <2>21. \A e \in Daemons : Seen(e)'
    <3>1. \A e \in Daemons \ {d} : Seen(e)'
      BY <1>0, <2>7, <2>18, <2>20, OtherSeen DEF IInv
    <3>2. Seen(d)'
      <4> SUFFICES ASSUME NEW q \in daemon[d].saw PROVE Handled(q)' \/ Ahead(d, q)'
        BY <2>6, <2>7 DEF Seen
      <4>1. q \in Mine
        BY <1>0 DEF TypeInv, Call
      <4>2. CASE Handled(q) \/ q = p
        BY <2>17, <2>18, <4>1, <4>2
      <4>3. CASE Ahead(d, q) /\ q # p
        <5>1. q \in Range(daemon'[d].list) /\ daemon'[d].at \in {"stat", "remove"}
          BY <1>4, <2>6, <2>7, <4>3 DEF Ahead
        <5>2. QED
          BY <2>6, <2>7, <2>19, <4>1, <4>3, <5>1 DEF Ahead, at, IsStale
      <4>4. QED
        BY <1>0, <4>2, <4>3 DEF Seen
    <3>3. QED
      BY <3>1, <3>2
  <2>22. QED
    BY <2>8, <2>13, <2>16, <2>21 DEF IInv
<1>9. QED
  BY <1>7, <1>8

\* It is kept when a daemon is killed.
LEMMA CrashKeeps ==
  ASSUME IInv, NEW d \in Daemons, Crash(d)
  PROVE  IInv'
<1>0. TypeInv /\ Closed /\ Right(d)
  BY DEF IInv
<1>1. /\ ~Ended(d) /\ exists' = exists /\ mtime' = mtime
      /\ Becomes(d, [NewCall EXCEPT !.at = "crashed"])
  BY DEF Crash
<1>2. NewCall \in Call
  <2>1. <<>> \in Beginnings
    BY SubSeqEmpty DEF Beginnings
  <2>2. <<>> \in Seq(Probes) /\ 0 \in 0..MaxClock
    BY DirMtimeAssumption
  <2>3. [a |-> 0, b |-> 0] \in [{"a", "b"} -> 0..MaxClock]
    BY <2>2
  <2>4. QED
    BY <2>1, <2>2, <2>3 DEF NewCall, Call, Place
<1>3. PICK c \in Call : c = [NewCall EXCEPT !.at = "crashed"]
  BY <1>2 DEF Call, Place
<1>4. /\ c.at = "crashed" /\ c.made = <<>> /\ c.result = FALSE /\ c.now = 0 /\ c.saw = {}
  BY <1>3 DEF NewCall
<1>5. /\ daemon'[d] = c /\ clock' = clock
  BY <1>0, <1>1, <1>3, Moved
<1>6. Right(d)'
  <2>1. 0 <= clock
    BY <1>0 DEF TypeInv
  <2>2. Stage(d)' /\ Owned(d)'
    BY <1>4, <1>5, <2>1 DEF Stage, Owned, at, Checks
  <2>3. Aging(d)' /\ Stamped(d)' /\ Verdict(d)'
    BY <1>4, <1>5 DEF Aging, Ended, Stamped, Verdict, at, Checks
  <2>4. QED
    BY <2>2, <2>3 DEF Right
<1>7. Removing(d)' /\ Seen(d)'
  BY <1>4, <1>5 DEF Removing, Seen, at
<1>8. \A p \in Mine : Handled(p)'
  BY <1>4, <1>5 DEF Handled, at
<1>9. QED
  BY <1>0, <1>1, <1>3, <1>6, <1>7, <1>8, NoFiles, OwnStep

(* Time passes; the directories that become stale are known to be late. *)
LEMMA TickKeeps ==
  ASSUME IInv, Tick
  PROVE  IInv'
<1>1. /\ clock < MaxClock /\ clock' = clock + 1
      /\ late' = late \cup {d \in Daemons : ~Ended(d) /\ exists[d] # {} /\ IsStale(d, clock')}
      /\ fs' = fs /\ exists' = exists /\ mtime' = mtime /\ daemon' = daemon
  BY DEF Tick
<1>2. TypeInv /\ Closed /\ clock \in Nat
  BY DEF IInv, TypeInv
<1>3. TypeInv' /\ Closed'
  BY <1>1, <1>2, DirMtimeAssumption DEF TypeInv, Closed
<1>4. ASSUME NEW d \in Daemons PROVE Right(d)'
  <2>1. Right(d) /\ daemon[d] \in Call /\ late \subseteq late'
    BY <1>1, <1>2 DEF IInv, TypeInv
  <2>2. Stage(d)'
    BY <1>1, <1>2, <2>1 DEF Right, Stage, at, Call
  <2>3. Owned(d)'
    BY <1>1, <2>1 DEF Right, Owned, at, Made, Checks
  <2>4. Aging(d)'
    BY <1>1 DEF Aging, Ended, IsStale
  <2>5. Stamped(d)'
    <3>1. \A x \in {"a", "b"} : daemon[d].st[x] \in Nat
      BY <2>1 DEF Call
    <3>2. \A x \in {"a", "b"} : Stamp(d, x) => Stamp(d, x)'
      BY <1>1, <1>2, <3>1 DEF Stamp, Observes, at, Made
    <3>3. ChangeShows(d)' <=> ChangeShows(d)
      BY <1>1 DEF ChangeShows, Observes
    <3>4. QED
      BY <1>1, <2>1, <3>2, <3>3 DEF Right, Stamped, at, Made, Checks
  <2>6. Verdict(d)'
    BY <1>1, <2>1 DEF Right, Verdict, at, Made, Checks, AllShow
  <2>7. QED
    BY <2>2, <2>3, <2>4, <2>5, <2>6 DEF Right
<1>5. ASSUME NEW d \in Daemons PROVE Removing(d)' /\ Seen(d)'
  BY <1>1 DEF IInv, Removing, Seen, Handled, Ahead, IsStale, Ended, at, Entry
<1>6. QED
  BY <1>3, <1>4, <1>5 DEF IInv

-----------------------------------------------------------------------------
(* CheckDirMtime, after that.                                              *)

\* After the cleaning a daemon does not come back to what it saw.
LEMMA CheckSeen ==
  ASSUME TypeInv, NEW d \in Daemons, Seen(d), at(d) \in {"make", "sleep", "check", "exit"},
         daemon'[d].saw = daemon[d].saw, daemon'[d].at # "remove",
         \A e \in Daemons \ {d} : daemon'[e] = daemon[e], OnlyIn(d)
  PROVE  Removing(d)' /\ Seen(d)'
<1>1. Removing(d)'
  BY DEF Removing, at
<1>2. ASSUME NEW p \in daemon[d].saw PROVE Handled(p)'
  <2>1. p \in Probes \ {d}
    BY DirMtimeAssumption DEF TypeInv, Call, Probes
  <2>2. Handled(p) /\ exists'[p] = exists[p]
    BY <2>1 DEF Seen, Ahead, OnlyIn
  <2>3. QED
    BY <2>2 DEF Handled, at, Entry
<1>3. QED
  BY <1>1, <1>2 DEF Seen

\* The next part of Parts is new and its parent has been made.
LEMMA NextFits ==
  ASSUME NEW m \in Beginnings, Len(m) < 5, NEW x, x = Parts[Len(m) + 1]
  PROVE  /\ x \in Part \ Range(m) /\ (x = "tmp" <=> m = <<>>)
         /\ x # "tmp" => In[x] \in Range(m)
         /\ Range(Append(m, x)) = Range(m) \cup {x} /\ Last(Append(m, x)) = x
         /\ Append(m, x) \in Beginnings /\ Len(Append(m, x)) = Len(m) + 1
<1>1. Append(m, x) \in Beginnings /\ Len(Append(m, x)) = Len(m) + 1
  BY PrefixGrows
<1>2. PICK k \in 0..4 : k = Len(m) /\ x = Parts[k + 1]
  <2>1. Len(m) \in 0..5
    BY PrefixIs
  <2>2. PICK k : k = Len(m)
    OBVIOUS
  <2>3. k \in 0..4 /\ x = Parts[k + 1]
    BY <2>1, <2>2
  <2>4. QED
    BY <2>2, <2>3
<1>3. Range(m) = Firsts(k) /\ (m = <<>> <=> k = 0)
  BY <1>2, PrefixFirsts
<1>4. Range(Append(m, x)) = Firsts(k + 1)
  BY <1>1, <1>2, PrefixFirsts
<1>5. Last(Append(m, x)) = x
  <2>1. PICK n \in Beginnings : n = Append(m, x)
    BY <1>1
  <2>2. Len(n) = k + 1
    BY <1>1, <1>2, <2>1
  <2>3. Last(n) = Parts[k + 1]
    BY <1>2, <2>2, PrefixRange
  <2>4. QED
    BY <1>2, <2>1, <2>3
<1>6. k = 0 \/ k = 1 \/ k = 2 \/ k = 3 \/ k = 4
  BY <1>2
<1>7. x \in Part \ Firsts(k) /\ (x = "tmp" <=> k = 0) /\ Firsts(k + 1) = Firsts(k) \cup {x}
  BY <1>2, <1>6, FirstsList, PartList
<1>8. x # "tmp" => In[x] \in Firsts(k)
  BY <1>2, <1>6, FirstsList, PartList, InList
<1>9. QED
  BY <1>1, <1>3, <1>4, <1>5, <1>7, <1>8

\* The last part made contains nothing.
LEMMA LastLeaves ==
  ASSUME NEW m \in Beginnings, m # <<>>
  PROVE  /\ Last(m) \in Part /\ Front(m) \in Beginnings
         /\ Inside(Last(m)) \cap Range(m) = {}
         /\ Range(m) \ {Last(m)} \subseteq Range(Front(m))
<1>1. PICK k \in 1..5 : k = Len(m) /\ Len(Front(m)) = k - 1 /\ Front(m) \in Beginnings
  BY PrefixShrinks
<1>2. PICK x : x = Last(m)
  OBVIOUS
<1>3. x = Parts[k]
  BY <1>1, <1>2, PrefixRange
<1>4. Range(m) = Firsts(k)
  BY <1>1, PrefixFirsts
<1>5. Range(Front(m)) = Firsts(k - 1)
  BY <1>1, PrefixFirsts
<1>6. k = 1 \/ k = 2 \/ k = 3 \/ k = 4 \/ k = 5
  BY <1>1
<1>7. x \in Part /\ Firsts(k) \ {x} \subseteq Firsts(k - 1)
  BY <1>3, <1>6, FirstsList, PartList
<1>8. Inside(x) \cap Firsts(k) = {}
  BY <1>3, <1>6, FirstsList, PartList, InsideList
<1>9. QED
  BY <1>1, <1>2, <1>4, <1>5, <1>7, <1>8

\* The invariant is kept when a part cannot be made, or its parent is gone.
LEMMA MakeFailsKeeps ==
  ASSUME IInv, NEW d \in Daemons, MakeFails(d)
  PROVE  IInv'
<1>0. TypeInv /\ Closed /\ Right(d) /\ Seen(d)
  BY DEF IInv
<1>1. /\ at(d) = "make" /\ ~Ended(d) /\ exists' = exists /\ mtime' = mtime
      /\ ~CanMake(d, NextPart(d))
  BY DEF MakeFails, Ended, at
<1>2. PICK c : c = [daemon[d] EXCEPT !.at = "exit", !.result = FALSE] /\ Becomes(d, c)
  BY DEF MakeFails, Returns
<1>3. c \in Call /\ c.at = "exit" /\ c.made = daemon[d].made /\ c.result = FALSE
      /\ c.now = daemon[d].now /\ c.saw = daemon[d].saw
  <2>1. PICK k \in Call : k = daemon[d]
    BY <1>0 DEF TypeInv
  <2>2. c = [k EXCEPT !.at = "exit", !.result = FALSE]
    BY <1>2, <2>1
  <2>3. c \in Call
    BY <2>1, <2>2 DEF Call, Place
  <2>4. /\ c.at = "exit" /\ c.made = k.made /\ c.result = FALSE
        /\ c.now = k.now /\ c.saw = k.saw
    BY <2>1, <2>2 DEF Call
  <2>5. QED
    BY <2>1, <2>3, <2>4
<1>4. /\ daemon'[d] = c /\ \A e \in Daemons \ {d} : daemon'[e] = daemon[e]
      /\ fs' = fs /\ clock' = clock /\ late' = late
  BY <1>0, <1>2, <1>3, Moved
<1>5. ~(AllShow /\ d \notin late)
  <2> SUFFICES ASSUME AllShow, d \notin late PROVE CanMake(d, NextPart(d))
    BY <1>1
  <2>1. exists[d] = Made(d) /\ Len(daemon[d].made) < 5 /\ daemon[d].made \in Beginnings
    BY <1>0, <1>1 DEF Right, Owned, Stage, Checks, at, TypeInv, Call
  <2>2. PICK x : x = NextPart(d)
    OBVIOUS
  <2>3. x \in Part \ Made(d) /\ (x # "tmp" => In[x] \in Made(d))
    BY <2>1, <2>2, NextFits DEF NextPart, Made
  <2>4. QED
    BY <2>1, <2>2, <2>3 DEF CanMake, AllShow
<1>6. Right(d)'
  <2>1. Stage(d)' /\ Owned(d)'
    BY <1>0, <1>1, <1>3, <1>4 DEF Right, Stage, Owned, at, Checks, Made
  <2>2. Aging(d)' /\ Stamped(d)'
    BY <1>0, <1>1, <1>3, <1>4 DEF Right, Aging, Ended, IsStale, Stamped, at, Checks
  <2>3. Verdict(d)'
    BY <1>3, <1>4, <1>5 DEF Verdict, at, Checks, AllShow
  <2>4. QED
    BY <2>1, <2>2, <2>3 DEF Right
<1>7. FilesTyped /\ OnlyIn(d)
  BY <1>0, <1>1, NoFiles
<1>8. Removing(d)' /\ Seen(d)'
  BY <1>0, <1>1, <1>3, <1>4, <1>7, CheckSeen
<1>9. QED
  BY <1>1, <1>2, <1>3, <1>6, <1>7, <1>8, OwnStep

\* It is kept by the pause before the comparison.
LEMMA SleepKeeps ==
  ASSUME IInv, NEW d \in Daemons, Sleep(d)
  PROVE  IInv'
<1>0. TypeInv /\ Closed /\ Right(d) /\ Seen(d)
  BY DEF IInv
<1>1. /\ at(d) = "sleep" /\ ~Ended(d) /\ exists' = exists /\ mtime' = mtime
      /\ clock > daemon[d].now
  BY DEF Sleep, Ended, at
<1>2. PICK c : c = [daemon[d] EXCEPT !.at = "make", !.now = 0] /\ Becomes(d, c)
  BY DEF Sleep
<1>3. c \in Call /\ c.at = "make" /\ c.made = daemon[d].made /\ c.result = daemon[d].result
      /\ c.now = 0 /\ c.saw = daemon[d].saw /\ c.st = daemon[d].st
  <2>1. PICK k \in Call : k = daemon[d]
    BY <1>0 DEF TypeInv
  <2>2. c = [k EXCEPT !.at = "make", !.now = 0] /\ 0 \in 0..MaxClock
    BY <1>2, <2>1, DirMtimeAssumption
  <2>3. c \in Call
    BY <2>1, <2>2 DEF Call, Place
  <2>4. /\ c.at = "make" /\ c.made = k.made /\ c.result = k.result
        /\ c.now = 0 /\ c.saw = k.saw /\ c.st = k.st
    BY <2>1, <2>2 DEF Call
  <2>5. QED
    BY <2>1, <2>3, <2>4
<1>4. /\ daemon'[d] = c /\ \A e \in Daemons \ {d} : daemon'[e] = daemon[e]
      /\ fs' = fs /\ clock' = clock /\ late' = late
  BY <1>0, <1>2, <1>3, Moved
<1>5. /\ Len(daemon[d].made) = 3 /\ Made(d) = {"tmp", "a", "b"} /\ Made(d)' = Made(d)
      /\ daemon[d].made # <<>>
  <2>1. Len(daemon[d].made) = 3 /\ daemon[d].made \in Beginnings
    BY <1>0, <1>1 DEF Right, Stage, at, TypeInv, Call
  <2>2. QED
    BY <1>3, <1>4, <2>1, PrefixRange DEF Made
<1>6. Right(d)'
  <2>1. Stage(d)' /\ Owned(d)'
    <3>1. 0 <= clock
      BY <1>0 DEF TypeInv
    <3>2. Stage(d)'
      <4>1. daemon'[d].at = "make" /\ Len(daemon'[d].made) = 3 /\ daemon'[d].now = 0
        BY <1>3, <1>4, <1>5
      <4>2. QED
        BY <1>4, <3>1, <4>1 DEF Stage, at
    <3>3. Owned(d)'
      BY <1>0, <1>1, <1>3, <1>4, <1>5 DEF Right, Owned, at, Checks
    <3>4. QED
      BY <3>2, <3>3
  <2>2. Aging(d)'
    BY <1>0, <1>1, <1>4 DEF Right, Aging, Ended, IsStale, at
  <2>3. Stamped(d)'
    <3>1. \A x \in {"a", "b"} : Stamp(d, x) /\ daemon[d].st[x] \in Nat
      BY <1>0, <1>1, <1>5 DEF Right, Stamped, at, Checks, TypeInv, Call
    <3>2. clock \in Nat /\ daemon[d].now \in Nat
      BY <1>0 DEF TypeInv, Call
    <3>3. \A x \in {"a", "b"} : Stamp(d, x)'
      BY <1>1, <1>3, <1>4, <3>1, <3>2 DEF Stamp, Observes, at
    <3>4. QED
      BY <1>3, <1>4, <3>3 DEF Stamped, at
  <2>4. Verdict(d)'
    BY <1>0, <1>1, <1>3, <1>4, <1>5 DEF Right, Verdict, at, Checks, AllShow
  <2>5. QED
    BY <2>1, <2>2, <2>3, <2>4 DEF Right
<1>7. FilesTyped /\ OnlyIn(d)
  BY <1>0, <1>1, NoFiles
<1>8. Removing(d)' /\ Seen(d)'
  BY <1>0, <1>1, <1>3, <1>4, <1>7, CheckSeen
<1>9. QED
  BY <1>1, <1>2, <1>3, <1>6, <1>7, <1>8, OwnStep

(* The part made last, and the directory it was made in. *)
LEMMA LastObserved ==
  ASSUME NEW m \in Beginnings, Len(m) \in {4, 5}
  PROVE  /\ Len(m) = 4 => Last(m) = "a1" /\ In[Last(m)] = "a"
         /\ Len(m) = 5 => Last(m) = "b1" /\ In[Last(m)] = "b"
         /\ In[Last(m)] \in Range(m) /\ {"a", "b", "a1"} \subseteq Range(m) /\ m # <<>>
<1>1. Last(m) = Parts[Len(m)]
  BY PrefixRange
<1>2. {"a", "b", "a1"} \subseteq Range(m) /\ m # <<>>
  BY PrefixRange
<1>3. QED
  BY <1>1, <1>2, PartList, InList

\* The record of a daemon that has its verdict.
LEMMA CallResult ==
  ASSUME NEW k \in Call, NEW r \in BOOLEAN
  PROVE  /\ [k EXCEPT !.at = "exit", !.result = r] \in Call
         /\ [k EXCEPT !.at = "exit", !.result = r].at = "exit"
         /\ [k EXCEPT !.at = "exit", !.result = r].result = r
         /\ [k EXCEPT !.at = "exit", !.result = r].made = k.made
         /\ [k EXCEPT !.at = "exit", !.result = r].now = k.now
         /\ [k EXCEPT !.at = "exit", !.result = r].saw = k.saw
<1>1. [k EXCEPT !.at = "exit", !.result = r] \in Call
  BY DEF Call, Place
<1>2. QED
  BY <1>1 DEF Call

(* What StatChanged has seen is so. *)
LEMMA CheckSees ==
  ASSUME TypeInv, NEW d \in Daemons, Right(d), at(d) = "check"
  PROVE  /\ StatChanged(d) => Observes(In[Last(daemon[d].made)])
         /\ ~StatChanged(d) => ~(AllShow /\ d \notin late)
<1>1. PICK m \in Beginnings : m = daemon[d].made /\ Len(m) \in {4, 5}
  BY DEF TypeInv, Call, Right, Stage
<1>2. PICK x : x = In[Last(m)]
  OBVIOUS
<1>3. x \in {"a", "b"} /\ x \in Range(m)
  BY <1>1, <1>2, LastObserved
<1>4. Made(d) = Range(m) /\ Checks(d)
  BY <1>1 DEF Made, Checks, at
<1>5. Stamp(d, x)
  BY <1>3, <1>4 DEF Right, Stamped
<1>6. StatChanged(d) <=> x \in exists[d] /\ mtime[d][x] # daemon[d].st[x]
  BY <1>1, <1>2 DEF StatChanged
<1>7. ASSUME StatChanged(d) PROVE Observes(x)
  BY <1>5, <1>6, <1>7 DEF Stamp
<1>8. ASSUME AllShow, d \notin late PROVE StatChanged(d)
  <2>1. exists[d] = Range(m)
    BY <1>4, <1>8 DEF Right, Owned
  <2>2. Observes(x)
    BY <1>8 DEF AllShow, Observes
  <2>3. mtime[d][x] # daemon[d].st[x]
    BY <1>1, <1>2, <1>8, <2>2 DEF Right, Stamped, ChangeShows
  <2>4. QED
    BY <1>3, <1>6, <2>1, <2>3
<1>9. QED
  BY <1>1, <1>2, <1>7, <1>8

\* The invariant is kept by the comparison of two mtimes.
LEMMA CheckKeeps ==
  ASSUME IInv, NEW d \in Daemons, Check(d)
  PROVE  IInv'
<1>0. TypeInv /\ Closed /\ Right(d) /\ Seen(d)
  BY DEF IInv
<1>1. /\ at(d) = "check" /\ ~Ended(d) /\ exists' = exists /\ mtime' = mtime
  BY DEF Check, Ended, at
<1>2. PICK k \in Call : k = daemon[d]
  BY <1>0 DEF TypeInv
<1>3. k.made \in Beginnings /\ Len(k.made) \in {4, 5}
  BY <1>0, <1>1, <1>2 DEF Right, Stage, Call
<1>4. /\ Len(k.made) = 4 => Last(k.made) = "a1" /\ In[Last(k.made)] = "a"
      /\ Len(k.made) = 5 => Last(k.made) = "b1" /\ In[Last(k.made)] = "b"
      /\ {"a", "b", "a1"} \subseteq Range(k.made) /\ k.made # <<>>
  BY <1>3, LastObserved
<1>5. Made(d) = Range(k.made)
  BY <1>2 DEF Made
<1>6. /\ StatChanged(d) => Observes(In[Last(k.made)])
      /\ ~StatChanged(d) => ~(AllShow /\ d \notin late)
  BY <1>0, <1>1, <1>2, CheckSees
<1>7. FilesTyped /\ OnlyIn(d)
  BY <1>0, <1>1, NoFiles
<1>8. CASE ~StatChanged(d) \/ Last(k.made) = "b1"
  <2>1. PICK r \in BOOLEAN : r = StatChanged(d)
    BY DEF StatChanged
  <2>2. Becomes(d, [k EXCEPT !.at = "exit", !.result = r])
    BY <1>2, <1>8, <2>1 DEF Check, Returns
  <2>3. PICK c \in Call : c = [k EXCEPT !.at = "exit", !.result = r]
    BY CallResult
  <2>4. /\ c.at = "exit" /\ c.result = r /\ c.made = k.made /\ c.now = k.now /\ c.saw = k.saw
    BY <2>3, CallResult
  <2>5. Becomes(d, c)
    BY <2>2, <2>3, Zenon
  <2>6. /\ daemon'[d] = c /\ \A e \in Daemons \ {d} : daemon'[e] = daemon[e]
        /\ fs' = fs /\ clock' = clock /\ late' = late
    BY <1>0, <2>5, Moved
  <2>7. r => AllShow
    <3> SUFFICES ASSUME r PROVE AllShow
      OBVIOUS
    <3>1. Len(k.made) = 5 /\ fs.files
      BY <1>3, <1>4, <1>6, <1>8, <2>1 DEF Observes
    <3>2. fs.writable /\ fs.dirs
      BY <1>0, <1>1, <1>2, <1>4, <1>5, <3>1 DEF Right, Verdict, Checks, at
    <3>3. QED
      BY <3>1, <3>2 DEF AllShow
  <2>8. Stage(d)'
    BY <1>0, <1>2, <2>4, <2>6 DEF Right, Stage, at
  <2>9. Owned(d)'
    BY <1>0, <1>1, <1>2, <2>4, <2>6 DEF Right, Owned, at, Checks, Made
  <2>10. Aging(d)' /\ Stamped(d)'
    BY <1>0, <1>1, <2>4, <2>6 DEF Right, Aging, Ended, IsStale, Stamped, at, Checks
  <2>11. Verdict(d)'
    BY <1>6, <2>1, <2>4, <2>6, <2>7 DEF Verdict, at, Checks, AllShow
  <2>12. Right(d)'
    BY <2>8, <2>9, <2>10, <2>11 DEF Right
  <2>13. Removing(d)' /\ Seen(d)'
    BY <1>0, <1>1, <1>2, <1>7, <2>4, <2>6, CheckSeen
  <2>14. QED
    BY <1>1, <1>7, <2>5, <2>12, <2>13, OwnStep
<1>9. CASE StatChanged(d) /\ Last(k.made) # "b1"
  <2>1. Len(k.made) = 4 /\ fs.dirs
    BY <1>3, <1>4, <1>6, <1>9 DEF Observes
  <2>2. PICK c : c = [k EXCEPT !.at = "make"] /\ Becomes(d, c)
    BY <1>2, <1>9 DEF Check
  <2>3. c \in Call
    BY <2>2 DEF Call, Place
  <2>4. /\ c.at = "make" /\ c.made = k.made /\ c.result = k.result /\ c.now = k.now
        /\ c.saw = k.saw /\ c.st = k.st
    BY <2>2 DEF Call
  <2>5. /\ daemon'[d] = c /\ \A e \in Daemons \ {d} : daemon'[e] = daemon[e]
        /\ fs' = fs /\ clock' = clock /\ late' = late
    BY <1>0, <2>2, <2>3, Moved
  <2>6. Made(d)' = Made(d)
    BY <1>5, <2>4, <2>5 DEF Made
  <2>7. Stage(d)'
    <3>1. daemon'[d].at = "make" /\ Len(daemon'[d].made) = 4 /\ daemon'[d].now <= clock
      BY <1>0, <1>2, <2>1, <2>4, <2>5 DEF Right, Stage
    <3>2. QED
      BY <2>5, <3>1 DEF Stage, at
  <2>8. Owned(d)' /\ Aging(d)'
    BY <1>0, <1>1, <2>4, <2>5, <2>6 DEF Right, Owned, at, Checks, Aging, Ended, IsStale
  <2>9. Stamped(d)'
    BY <1>0, <1>1, <1>2, <2>4, <2>5, <2>6 DEF Right, Stamped, Stamp, at, Checks, Observes
  <2>10. Verdict(d)'
    BY <1>0, <1>1, <1>2, <1>4, <2>1, <2>4, <2>5 DEF Right, Verdict, at, Checks, AllShow
  <2>11. Right(d)'
    BY <2>7, <2>8, <2>9, <2>10 DEF Right
  <2>12. Removing(d)' /\ Seen(d)'
    BY <1>0, <1>1, <1>2, <1>7, <2>4, <2>5, CheckSeen
  <2>13. QED
    BY <1>1, <1>7, <2>2, <2>3, <2>11, <2>12, OwnStep
<1>10. QED
  BY <1>8, <1>9

\* It is kept when a part is made and its parent's mtime read.
LEMMA MakePartKeeps ==
  ASSUME IInv, NEW d \in Daemons, MakePart(d)
  PROVE  IInv'
<1>0. TypeInv /\ Closed /\ Right(d) /\ Seen(d)
  BY DEF IInv
<1>1. at(d) = "make" /\ ~Ended(d) /\ Checks(d)
  BY DEF MakePart, Ended, at, Checks
<1>2. PICK k \in Call : k = daemon[d]
  BY <1>0 DEF TypeInv
<1>3. PICK x : x = NextPart(d)
  OBVIOUS
<1>4. PICK m \in Beginnings : m = k.made /\ Len(m) < 5 /\ x = Parts[Len(m) + 1]
  BY <1>0, <1>1, <1>2, <1>3 DEF Right, Stage, Call, NextPart
<1>5. PICK n \in Beginnings : n = Append(m, x)
  BY <1>4, NextFits
<1>6. /\ x \in Part \ Range(m) /\ (x = "tmp" <=> m = <<>>)
      /\ x # "tmp" => In[x] \in Range(m)
      /\ Range(n) = Range(m) \cup {x} /\ Last(n) = x
      /\ Len(n) = Len(m) + 1
  BY <1>4, <1>5, NextFits
<1>7. d \in Probes
  BY DEF Probes
<1>8. /\ FilesTyped /\ OnlyIn(d)
      /\ exists'[d] = exists[d] \cup {x} /\ mtime'[d][x] = clock
      /\ x # "tmp" => IF Shows(x) THEN mtime'[d][In[x]] = clock
                                  ELSE mtime'[d][In[x]] = mtime[d][In[x]]
      /\ \A y \in Part \ {x} : x = "tmp" \/ y # In[x] => mtime'[d][y] = mtime[d][y]
  <2>1. CanMake(d, x) /\ Make(d, x)
    BY <1>3 DEF MakePart
  <2>2. QED
    BY <1>0, <1>6, <1>7, <2>1, MakeEffect
<1>9. CanMake(d, x)
  BY <1>3 DEF MakePart
<1>10. k.st \in [{"a", "b"} -> 0..MaxClock] /\ clock \in Nat /\ clock \in 0..MaxClock
  BY <1>0 DEF Call, TypeInv
<1>11. PICK t \in [{"a", "b"} -> 0..MaxClock] :
         \A y \in {"a", "b"} : t[y] = IF y = x THEN clock ELSE k.st[y]
  <2> DEFINE u == [y \in {"a", "b"} |-> IF y = x THEN clock ELSE k.st[y]]
  <2>1. u \in [{"a", "b"} -> 0..MaxClock]
    BY <1>10
  <2>2. QED
    BY <2>1
<1>12. PICK a \in Place : a = After(x)
  BY DEF After, Place
<1>13. PICK w \in 0..MaxClock : w = IF x = "b" THEN clock ELSE 0
  <2>1. PICK w : w = IF x = "b" THEN clock ELSE 0
    OBVIOUS
  <2>2. w \in 0..MaxClock
    BY <1>10, <2>1, DirMtimeAssumption
  <2>3. QED
    BY <2>1, <2>2
<1>14. Becomes(d, [k EXCEPT !.at = a, !.now = w, !.made = n, !.st = t])
  <2>1. t = [y \in DOMAIN k.st |-> IF y = x THEN clock ELSE k.st[y]]
    BY <1>10, <1>11
  <2>2. QED
    BY <1>2, <1>3, <1>4, <1>5, <1>12, <1>13, <2>1 DEF MakePart
<1>15. PICK c \in Call :
         /\ Becomes(d, c)
         /\ c.at = a /\ c.now = w /\ c.made = n /\ c.st = t
         /\ c.result = k.result /\ c.saw = k.saw
  <2>1. PICK c : c = [k EXCEPT !.at = a, !.now = w, !.made = n, !.st = t]
    OBVIOUS
  <2>2. c \in Call
    BY <2>1 DEF Call
  <2>3. c.at = a /\ c.now = w /\ c.made = n /\ c.st = t
    BY <2>1 DEF Call
  <2>4. c.result = k.result /\ c.saw = k.saw
    BY <2>1 DEF Call
  <2>5. Becomes(d, c)
    BY <1>14, <2>1, Zenon
  <2>6. QED
    BY <2>2, <2>3, <2>4, <2>5
<1>16. /\ daemon'[d] = c /\ \A e \in Daemons \ {d} : daemon'[e] = daemon[e]
       /\ fs' = fs /\ clock' = clock /\ late' = late
  BY <1>0, <1>15, Moved
<1>17. /\ Len(n) \in 1..5 /\ x = Parts[Len(n)]
       /\ a = After(x)
       /\ x = "tmp" => Len(n) = 1 /\ a = "make"
       /\ x = "a" => Len(n) = 2 /\ a = "make"
       /\ x = "b" => Len(n) = 3 /\ a = "sleep"
       /\ x = "a1" => Len(n) = 4 /\ a = "check"
       /\ x = "b1" => Len(n) = 5 /\ a = "check"
       /\ x \in {"tmp", "a", "b", "a1", "b1"}
  <2>1. PICK i \in 1..5 : i = Len(n) /\ x = Parts[i]
    BY <1>4, <1>6, PrefixIs
  <2>2. i = 1 \/ i = 2 \/ i = 3 \/ i = 4 \/ i = 5
    OBVIOUS
  <2>3. QED
    BY <1>12, <2>1, <2>2, PartList DEF After
<1>18. Made(d) = Range(m) /\ Made(d)' = Range(n)
  BY <1>2, <1>4, <1>15, <1>16 DEF Made
<1>19. a \in {"make", "sleep", "check"}
  BY <1>17
<1>20. Stage(d)'
  <2>1. /\ daemon'[d].at = a /\ daemon'[d].made = n /\ daemon'[d].now <= clock
    BY <1>10, <1>13, <1>15, <1>16
  <2>2. /\ a = "make" => Len(n) < 5
        /\ a = "sleep" => Len(n) = 3
        /\ a = "check" => Len(n) \in {4, 5}
    <3>1. x = "tmp" \/ x = "a" \/ x = "b" \/ x = "a1" \/ x = "b1"
      BY <1>17
    <3>2. CASE x = "tmp"
      <4>1. Len(n) = 1 /\ a = "make"
        BY <1>17, <3>2
      <4>2. QED
        BY <4>1
    <3>3. CASE x = "a"
      <4>1. Len(n) = 2 /\ a = "make"
        BY <1>17, <3>3
      <4>2. QED
        BY <4>1
    <3>4. CASE x = "b"
      BY <1>17, <3>4
    <3>5. CASE x = "a1" \/ x = "b1"
      BY <1>17, <3>5
    <3>6. QED
      BY <3>1, <3>2, <3>3, <3>4, <3>5
  <2>3. QED
    BY <1>16, <1>19, <2>1, <2>2 DEF Stage, at
<1>21. Owned(d)'
  BY <1>0, <1>1, <1>6, <1>8, <1>15, <1>16, <1>18, <1>19 DEF Right, Owned, at, Checks
<1>22. Aging(d)'
  <2> SUFFICES ASSUME IsStale(d, clock)' PROVE d \in late
    BY <1>16 DEF Aging
  <2>1. mtime'[d]["tmp"] + StaleAge <= clock
    BY <1>16 DEF IsStale
  <2>2. mtime'[d]["tmp"] # clock
    BY <1>10, <2>1, DirMtimeAssumption
  <2>3. x # "tmp" /\ "tmp" \in Part
    BY <1>8, <2>2, PartList
  <2>4. mtime'[d]["tmp"] = mtime[d]["tmp"]
    BY <1>8, <2>2, <2>3
  <2>5. exists[d] # {}
    BY <1>9, <2>3 DEF CanMake
  <2>6. QED
    BY <1>0, <1>1, <2>1, <2>4, <2>5 DEF Right, Aging, IsStale
<1>23. Stamped(d)'
  <2>1. ASSUME NEW y \in {"a", "b"}, y \in Range(n) PROVE Stamp(d, y)'
    <3>1. t[y] = (IF y = x THEN clock ELSE k.st[y]) /\ k.st[y] \in Nat /\ y \in Part
      BY <1>10, <1>11, PartList
    <3>2. y # x => Stamp(d, y) /\ y \in Range(m)
      BY <1>0, <1>1, <1>6, <1>18, <2>1 DEF Right, Stamped
    <3>3. t[y] <= clock
      BY <1>2, <1>10, <3>1, <3>2 DEF Stamp
    <3>4. a = "sleep" => t[y] <= w
      BY <1>13, <1>17, <3>3
    <3>5. a # "sleep" /\ "b" \in Range(n) => t[y] < clock
      <4> SUFFICES ASSUME a # "sleep", "b" \in Range(n) PROVE t[y] < clock
        OBVIOUS
      <4>1. x # "b" /\ "b" \in Range(m)
        BY <1>6, <1>17
      <4>2. x # y
        BY <1>6, <1>17, <4>1, FirstsList, PrefixFirsts
      <4>3. QED
        BY <1>1, <1>2, <1>18, <3>1, <3>2, <4>1, <4>2 DEF Stamp
    <3>6. y \in exists'[d] /\ ~Observes(y) => mtime'[d][y] = t[y]
      <4> SUFFICES ASSUME y \in exists'[d], ~Observes(y) PROVE mtime'[d][y] = t[y]
        OBVIOUS
      <4>1. CASE y = x
        BY <1>8, <3>1, <4>1
      <4>2. CASE y # x
        <5>1. y \in exists[d] /\ mtime[d][y] = t[y]
          BY <1>2, <1>8, <3>1, <3>2, <4>2 DEF Stamp
        <5>2. x # "tmp" /\ y = In[x] => ~Shows(x)
          BY <1>17, InList DEF Shows, Observes
        <5>3. QED
          BY <1>8, <3>1, <4>2, <5>1, <5>2
      <4>3. QED
        BY <4>1, <4>2
    <3>7. QED
      BY <1>15, <1>16, <1>18, <3>3, <3>4, <3>5, <3>6 DEF Stamp, Observes, at
  <2>2. ASSUME a = "check" PROVE ChangeShows(d)'
    <3>1. x \in {"a1", "b1"} /\ In[x] \in {"a", "b"} /\ (Observes(In[x]) <=> Shows(x))
      BY <1>17, <2>2, InList DEF Observes, Shows
    <3>2. PICK y \in {"a", "b"} : y = In[x]
      BY <3>1
    <3>3. t[y] = k.st[y] /\ k.st[y] \in Nat
      BY <1>10, <1>11, <3>1
    <3>4. Stamp(d, y) /\ "b" \in Range(m)
      <4>1. "b" \in Range(m)
        <5>1. "b" \in Range(n)
          BY <1>17, <3>1, PrefixRange
        <5>2. QED
          BY <1>6, <3>1, <5>1
      <4>2. QED
        BY <1>0, <1>1, <1>6, <1>18, <3>1, <3>2, <4>1 DEF Right, Stamped
    <3>5. k.st[y] < clock
      BY <1>1, <1>2, <1>18, <3>4 DEF Stamp
    <3>6. Shows(x) => mtime'[d][y] # t[y]
      BY <1>8, <1>10, <3>1, <3>2, <3>3, <3>5
    <3>7. Last(daemon'[d].made) = x /\ daemon'[d].st = t
      BY <1>6, <1>15, <1>16
    <3>8. Observes(y)' <=> Observes(y)
      BY <1>16 DEF Observes
    <3>9. Observes(y)' => mtime'[d][y] # daemon'[d].st[y]
      BY <3>1, <3>2, <3>6, <3>7, <3>8
    <3>10. QED
      BY <3>2, <3>7, <3>9 DEF ChangeShows
  <2>3. QED
    BY <1>15, <1>16, <1>18, <2>1, <2>2 DEF Stamped, at
<1>24. Verdict(d)'
  <2>1. fs.writable
    BY <1>0, <1>1, <1>2, <1>4, <1>6, <1>9 DEF Right, Verdict, CanMake
  <2>2. "a1" \in Range(n) => fs.dirs \/ (a = "check" /\ Len(n) = 4)
    BY <1>0, <1>1, <1>6, <1>17, <1>18 DEF Right, Verdict
  <2>3. k.result = FALSE
    BY <1>0, <1>1, <1>2 DEF Right, Verdict, Call
  <2>4. QED
    BY <1>15, <1>16, <1>18, <1>19, <2>1, <2>2, <2>3 DEF Verdict, at, Checks, AllShow
<1>25. Right(d)'
  BY <1>20, <1>21, <1>22, <1>23, <1>24 DEF Right
<1>26. Removing(d)' /\ Seen(d)'
  BY <1>0, <1>1, <1>2, <1>8, <1>15, <1>16, <1>19, CheckSeen
<1>27. QED
  BY <1>1, <1>8, <1>15, <1>25, <1>26, OwnStep

(* The scope guards leave nothing behind. *)
LEMMA ExitEnds ==
  ASSUME IInv, NEW d \in Daemons, Exit(d), daemon[d].made = <<>>
  PROVE  IInv'
<1>0. TypeInv /\ Closed /\ Right(d) /\ Seen(d)
  BY DEF IInv
<1>1. /\ at(d) = "exit" /\ ~Ended(d) /\ exists' = exists /\ mtime' = mtime
  BY DEF Exit, Ended, at
<1>2. PICK k \in Call : k = daemon[d]
  BY <1>0 DEF TypeInv
<1>3. PICK c : /\ c = [NewCall EXCEPT !.at = "done", !.result = k.result, !.saw = k.saw]
               /\ Becomes(d, c)
  BY <1>2 DEF Exit
<1>4. /\ c.at = "done" /\ c.made = <<>> /\ c.result = k.result /\ c.now = 0 /\ c.saw = k.saw
      /\ c = [at |-> "done", now |-> 0, list |-> <<>>, step |-> 0, st |-> [a |-> 0, b |-> 0],
              made |-> <<>>, result |-> k.result, saw |-> k.saw]
  BY <1>3 DEF NewCall
<1>5. c \in Call
  <2>1. <<>> \in Beginnings
    BY SubSeqEmpty DEF Beginnings
  <2>2. <<>> \in Seq(Probes) /\ 0 \in 0..MaxClock
    BY DirMtimeAssumption
  <2>3. [a |-> 0, b |-> 0] \in [{"a", "b"} -> 0..MaxClock]
    BY <2>2
  <2>4. k.result \in BOOLEAN /\ k.saw \in SUBSET Mine
    BY DEF Call
  <2>5. QED
    BY <1>4, <2>1, <2>2, <2>3, <2>4 DEF Call, Place
<1>6. /\ daemon'[d] = c /\ \A e \in Daemons \ {d} : daemon'[e] = daemon[e]
      /\ fs' = fs /\ clock' = clock /\ late' = late
  BY <1>0, <1>3, <1>5, Moved
<1>7. exists[d] = {}
  BY <1>0, <1>1 DEF Right, Owned, Made, Range
<1>8. Right(d)'
  <2>1. 0 <= clock
    BY <1>0 DEF TypeInv
  <2>2. Stage(d)'
    BY <1>4, <1>6, <2>1 DEF Stage, at
  <2>3. Owned(d)' /\ Aging(d)' /\ Stamped(d)'
    BY <1>1, <1>4, <1>6, <1>7 DEF Owned, Aging, Stamped, at, Checks
  <2>4. Verdict(d)'
    BY <1>0, <1>1, <1>2, <1>4, <1>6 DEF Right, Verdict, at, Checks, AllShow
  <2>5. QED
    BY <2>2, <2>3, <2>4 DEF Right
<1>9. FilesTyped /\ OnlyIn(d)
  BY <1>0, <1>1, NoFiles
<1>10. Removing(d)' /\ Seen(d)'
  BY <1>0, <1>1, <1>2, <1>4, <1>6, <1>9, CheckSeen
<1>11. QED
  BY <1>1, <1>3, <1>5, <1>8, <1>9, <1>10, OwnStep

\* It is kept when the check removes what it made.
LEMMA ExitRemoves ==
  ASSUME IInv, NEW d \in Daemons, Exit(d), daemon[d].made # <<>>
  PROVE  IInv'
<1>0. TypeInv /\ Closed /\ Right(d) /\ Seen(d)
  BY DEF IInv
<1>1. at(d) = "exit" /\ ~Ended(d)
  BY DEF Exit, Ended, at
<1>2. PICK k \in Call : k = daemon[d]
  BY <1>0 DEF TypeInv
<1>3. PICK m \in Beginnings : m = k.made /\ m # <<>> /\ m = daemon[d].made
  BY <1>2 DEF Call
<1>4. PICK x : x = Last(m)
  OBVIOUS
<1>5. /\ x \in Part /\ Front(m) \in Beginnings /\ Inside(x) \cap Range(m) = {}
      /\ Range(m) \ {x} \subseteq Range(Front(m))
  BY <1>3, <1>4, LastLeaves
<1>6. d \in Probes
  BY DEF Probes
<1>7. /\ FilesTyped /\ OnlyIn(d)
      /\ exists'[d] = IF CanRemove(d, x) THEN exists[d] \ {x} ELSE exists[d]
      /\ exists'[d] = {} \/ mtime'[d]["tmp"] \in {mtime[d]["tmp"], clock}
  <2>1. RemoveDir(d, x)
    BY <1>3, <1>4 DEF Exit, LastMade
  <2>2. QED
    BY <1>0, <1>5, <1>6, <2>1, RemoveEffect
<1>8. PICK c : c = [k EXCEPT !.made = Front(m)] /\ Becomes(d, c)
  BY <1>2, <1>3 DEF Exit
<1>9. c \in Call /\ c.at = k.at /\ c.made = Front(m) /\ c.result = k.result
      /\ c.now = k.now /\ c.saw = k.saw
  BY <1>5, <1>8 DEF Call
<1>10. /\ daemon'[d] = c /\ \A e \in Daemons \ {d} : daemon'[e] = daemon[e]
       /\ fs' = fs /\ clock' = clock /\ late' = late
  BY <1>0, <1>8, <1>9, Moved
<1>11. exists'[d] \subseteq Range(Front(m)) /\ exists'[d] \subseteq exists[d]
  <2>1. exists[d] \subseteq Range(m)
    BY <1>0, <1>1, <1>3 DEF Right, Owned, Made
  <2>2. QED
    BY <1>5, <1>7, <2>1 DEF CanRemove
<1>12. daemon'[d].at = "exit" /\ Made(d)' = Range(Front(m))
  BY <1>1, <1>2, <1>9, <1>10 DEF Made, at
<1>13. Right(d)'
  <2>1. Stage(d)'
    BY <1>0, <1>2, <1>9, <1>10, <1>12 DEF Right, Stage, at
  <2>2. Owned(d)' /\ Stamped(d)'
    BY <1>11, <1>12 DEF Owned, Stamped, at, Checks
  <2>3. Aging(d)'
    <3> SUFFICES ASSUME exists'[d] # {}, IsStale(d, clock)' PROVE d \in late
      BY <1>10 DEF Aging
    <3>1. mtime'[d]["tmp"] + StaleAge <= clock /\ clock \in Nat
      BY <1>0, <1>10 DEF IsStale, TypeInv
    <3>2. mtime'[d]["tmp"] = mtime[d]["tmp"]
      BY <1>7, <3>1, DirMtimeAssumption
    <3>3. QED
      BY <1>0, <1>1, <1>11, <3>1, <3>2 DEF Right, Aging, IsStale
  <2>4. Verdict(d)'
    BY <1>0, <1>1, <1>2, <1>9, <1>10, <1>12 DEF Right, Verdict, at, Checks, AllShow
  <2>5. QED
    BY <2>1, <2>2, <2>3, <2>4 DEF Right
<1>14. Removing(d)' /\ Seen(d)'
  BY <1>0, <1>1, <1>2, <1>7, <1>9, <1>10, <1>12, CheckSeen
<1>15. QED
  BY <1>1, <1>7, <1>8, <1>9, <1>13, <1>14, OwnStep

-----------------------------------------------------------------------------
\* The invariant holds at first.
LEMMA InitIInv == Init => IInv
<1> SUFFICES ASSUME Init PROVE IInv
  OBVIOUS
<1>1. NewCall \in Call
  <2>1. <<>> \in Beginnings
    BY SubSeqEmpty DEF Beginnings
  <2>2. <<>> \in Seq(Probes) /\ 0 \in 0..MaxClock
    BY DirMtimeAssumption
  <2>3. [a |-> 0, b |-> 0] \in [{"a", "b"} -> 0..MaxClock]
    BY <2>2
  <2>4. QED
    BY <2>1, <2>2, <2>3 DEF NewCall, Call, Place
<1>2. \A d \in Daemons : daemon[d] = NewCall
  BY DEF Init
<1>3. /\ NewCall.at = "new" /\ NewCall.made = <<>> /\ NewCall.result = FALSE
      /\ NewCall.now = 0 /\ NewCall.saw = {}
  BY DEF NewCall
<1>4. PICK n \in LeftGrown : exists = [p \in Probes |-> IF p \in Left THEN Grown(n[p]) ELSE {}]
  BY DEF Init
<1>5. \A p \in Left : n[p] \in 0..5
  BY DirMtimeAssumption, PartList
<1>6. \A i \in 0..5 : Grown(i) \subseteq Part /\ \A x \in Grown(i) : x # "tmp" => In[x] \in Grown(i)
  <2> TAKE i \in 0..5
  <2>1. SubSeq(Parts, 1, i) \in Beginnings
    BY DEF Beginnings
  <2>2. PICK k \in 0..5 : k = Len(SubSeq(Parts, 1, i))
    BY <2>1, PrefixIs
  <2>3. Grown(i) = Firsts(k)
    BY <2>1, <2>2, PrefixFirsts DEF Grown
  <2>4. k = 0 \/ k = 1 \/ k = 2 \/ k = 3 \/ k = 4 \/ k = 5
    OBVIOUS
  <2>5. Firsts(k) \subseteq Part
    BY <2>4, FirstsList, PartList
  <2>6. \A x \in Firsts(k) : x # "tmp" => In[x] \in Firsts(k)
    BY <2>4, FirstsList, InList
  <2>7. QED
    BY <2>3, <2>5, <2>6
<1>7. TypeInv
  <2>1. exists \in [Probes -> SUBSET Part]
    BY <1>4, <1>5, <1>6
  <2>2. mtime \in [Probes -> [Part -> 1..MaxClock]] /\ clock \in 1..MaxClock
    BY DirMtimeAssumption DEF Init
  <2>3. daemon \in [Daemons -> Call]
    BY <1>1 DEF Init
  <2>4. QED
    BY <2>1, <2>2, <2>3 DEF Init, TypeInv
<1>8. Closed
  BY <1>4, <1>5, <1>6 DEF Closed
<1>9. ASSUME NEW d \in Daemons PROVE Right(d) /\ Removing(d) /\ Seen(d)
  <2>1. exists[d] = {}
    BY <1>4, DirMtimeAssumption DEF Probes
  <2>2. Stage(d)
    BY <1>2, <1>3 DEF Init, Stage, at
  <2>3. Owned(d) /\ Aging(d)
    BY <1>2, <1>3, <2>1 DEF Owned, Aging, at, Checks
  <2>4. Stamped(d) /\ Verdict(d) /\ Removing(d) /\ Seen(d)
    BY <1>2, <1>3 DEF Stamped, Verdict, Removing, Seen, at, Checks
  <2>5. QED
    BY <2>2, <2>3, <2>4 DEF Right
<1>10. QED
  BY <1>7, <1>8, <1>9 DEF IInv

\* Every step keeps it.
LEMMA NextIInv == IInv /\ [Next]_vars => IInv'
<1> SUFFICES ASSUME IInv, [Next]_vars PROVE IInv'
  OBVIOUS
<1>1. ASSUME NEW d \in Daemons, CheckDirMtime(d) PROVE IInv'
  BY <1>1, ListDirKeeps, ListFailsKeeps, StatEntryKeeps, RemovePartKeeps, CleanedKeeps,
     MakePartKeeps, MakeFailsKeeps, SleepKeeps, CheckKeeps, ExitEnds, ExitRemoves
     DEF CheckDirMtime
<1>2. ASSUME NEW d \in Daemons, Crash(d) PROVE IInv'
  BY <1>2, CrashKeeps
<1>3. CASE Tick
  BY <1>3, TickKeeps
<1>4. CASE UNCHANGED vars
  <2>1. fs' = fs /\ clock' = clock /\ exists' = exists /\ mtime' = mtime /\ daemon' = daemon
        /\ late' = late
    BY <1>4 DEF vars
  <2>2. TypeInv' /\ Closed'
    BY <2>1 DEF IInv, TypeInv, Closed
  <2>3. \A d \in Daemons : Right(d)'
    BY <2>1, OtherRight DEF IInv
  <2>4. \A d \in Daemons : Removing(d)' /\ Seen(d)'
    BY <2>1 DEF IInv, Removing, Seen, Handled, Ahead, IsStale, Ended, at, Entry
  <2>5. QED
    BY <2>2, <2>3, <2>4 DEF IInv
<1>5. QED
  BY <1>1, <1>2, <1>3, <1>4 DEF Next

(* The invariant: types, what each check knows, what each removal has done. *)
THEOREM Invariance == Spec => []IInv
  BY InitIInv, NextIInv, PTL DEF Spec

(* The untracked cache is enabled only where new directories and files show *)
(* in mtimes, and it is enabled there unless the daemon was so slow that    *)
(* its directories looked abandoned: no daemon ever disturbs another's.     *)
THEOREM VerdictCorrect == Spec => []VerdictIsTrue
<1>1. IInv => VerdictIsTrue
  <2> SUFFICES ASSUME IInv, NEW d \in Daemons, at(d) = "done" 
               PROVE  /\ daemon[d].result => fs.dirs /\ fs.files /\ fs.writable
                      /\ fs.dirs /\ fs.files /\ fs.writable /\ d \notin late => daemon[d].result
    BY DEF VerdictIsTrue, at
  <2>1. Verdict(d)
    BY DEF IInv, Right
  <2>2. QED
    BY <2>1 DEF Verdict, AllShow
<1>2. QED
  BY <1>1, Invariance, PTL

(* A check removes all it made, and once all checks have ended well nothing *)
(* is left of what any of them found abandoned.                             *)
THEOREM NothingLeftBehind == Spec => []NothingLeft
<1>1. IInv => NothingLeft
  <2> SUFFICES ASSUME IInv PROVE NothingLeft
    OBVIOUS
  <2>1. TypeOK
    BY DEF IInv, TypeInv, TypeOK, Call, Place
  <2>2. ASSUME NEW d \in Daemons, daemon[d].at = "done" PROVE exists[d] = {}
    BY <2>2 DEF IInv, Right, Stage, Owned, Made, Range, at
  <2>3. ASSUME \A d \in Daemons : daemon[d].at = "done",
               NEW d \in Daemons, NEW p \in daemon[d].saw
        PROVE  exists[p] = {}
    BY <2>3 DEF IInv, Seen, Handled, Ahead, at
  <2>4. QED
    BY <2>1, <2>2, <2>3 DEF NothingLeft
<1>2. QED
  BY <1>1, Invariance, PTL

-----------------------------------------------------------------------------
(* The inductive invariant of the tag database.                            *)

Tag == [name : Names, id : Object]
LookupAt == {"none", "queued", "loose", "stat", "reset", "read", "tags", "done", "failed"}
Then == {"none", "tags", "read", "failed"}

DbTypes ==
  /\ TagDbTypeOK /\ version <= events + 1
  /\ packed \in File /\ WellFormed(packed)
  /\ queue \in Seq({"lookup", "sort"})
  /\ looseTags \in Seq(Names)
  /\ name2id \in Seq(Tag) /\ id2name \in [entries : SUBSET Tag, sorted : BOOLEAN]
  /\ sort \in [at : {"none", "queued", "sorting"}, entries : SUBSET Tag]
  /\ lookup \in [at : LookupAt, oid : Commits \cup {NoRef}, st : 0..version, then : Then,
                 todo : Seq(Names), deref : Nat, res : Names \cup {NoName}]
  /\ was \subseteq Names /\ kept \subseteq Names /\ packedWas \subseteq Names /\ unseen \subseteq Names

(* Who runs: the lookup is on its way exactly while the main thread waits  *)
(* for it, and once in the queue; nothing is changed under the sort.       *)
Once(f) == \A i, j \in DOMAIN queue : queue[i] = f /\ queue[j] = f => i = j
Queued(f) == \E i \in DOMAIN queue : queue[i] = f
Turns ==
  /\ SortIsAlone
  /\ lookup.at = "none" => lookup = NoLookup
  /\ lookup.at # "none" => lookup.oid \in Commits
  /\ main = "wait" <=> lookup.at # "none"
  /\ Once("lookup") /\ (Queued("lookup") <=> lookup.at = "queued")
  /\ ~dirty /\ ~id2name.sorted => id2name.entries = {}
  /\ lookup.at = "read" => ~dirty /\ name2id = <<>>
  /\ lookup.at = "reset" => lookup.then # "none"

(* The index by name is in order, and is that of the version which         *)
(* pack_stat_ tells, unless it is about to be read or to be forgotten.     *)
Parsed(p) == IF p.header = "none" THEN {} ELSE Range(TagsOf(p.lines))
Cached ==
  /\ \A i, j \in DOMAIN name2id : i < j => ByName(name2id[i], name2id[j])
  /\ packStat = version /\ lookup.at \notin {"read", "reset"} =>
       packed.exists /\ Range(name2id) = Parsed(packed)

(* What the ghosts say of the present; no tag has the name of a directory. *)
Ghosts ==
  /\ GitTags(loose, packed, lookup.oid) \subseteq was
  /\ kept \subseteq Findable(loose, packed, lookup.oid)
  /\ PackedTags(packed, lookup.oid) \subseteq packedWas
  /\ NoClash(loose, packed)

(* The tags that may be answered; those that stay and are not found.       *)
Answerable == was \cup (packedWas \cap unseen)
Missed(n) == n \in unseen /\ InLoose(loose, n)

(* The list has those that stayed loose where it can see them and not      *)
(* those that stayed packed, although it has directories too; a packed tag *)
(* that it lacks, if of the commit now, was so or hides an unseen one.     *)
PackedTo(n) == \E l \in PackedLines(packed, n) : Commit(l.id) = lookup.oid
ListedRight ==
  lookup.at \in {"stat", "reset", "read", "tags"} =>
    /\ \A n \in kept : IsLooseTag(n) <=> InLoose(loose, n) /\ n \notin unseen
    /\ \A n \in Names : ~IsLooseTag(n) /\ lookup.oid # NoRef /\ PackedTo(n) => n \in Answerable
    /\ lookup.at = "reset" /\ lookup.then = "tags" => \A n \in kept : InLoose(loose, n)

(* The search: packed tags are true and complete, whatever git does now;   *)
(* of the loose ones, those that are not left to be tried.                 *)
SearchRight ==
  lookup.at = "tags" =>
    /\ \A t \in Range(name2id) : t.id = lookup.oid /\ ~IsLooseTag(t.name) => t.name \in Answerable
    /\ \A n \in kept : ~IsLooseTag(n) =>
          Missed(n) \/ \E t \in Range(name2id) : t.name = n /\ t.id = lookup.oid
    /\ Range(lookup.todo) \subseteq Range(looseTags)
    /\ \A n \in kept : IsLooseTag(n) => n \in Range(lookup.todo) \/ n <= lookup.res

ResultRight ==
  /\ lookup.at \in {"none", "queued", "loose", "stat", "reset", "read"} => lookup.res = NoName
  /\ lookup.res \in Answerable \cup {NoName}
  /\ AnswerIsTrue

DbInv == DbTypes /\ Turns /\ Cached /\ Ghosts /\ ListedRight /\ SearchRight /\ ResultRight
-----------------------------------------------------------------------------
(* Sets in order.                                                          *)

\* A set of natural numbers has a least one.
LEMMA LeastNumber ==
  ASSUME NEW S \in SUBSET Nat, S # {}
  PROVE  \E x \in S : \A y \in S : x <= y
<1> DEFINE R == {p \in Nat \X Nat : p[1] < p[2]}
<1>1. R = OpToRel(<, Nat)
  BY Zenon DEF OpToRel
<1>2. IsWellFoundedOn(R, Nat)
  BY <1>1, NatLessThanWellFounded, Zenon
<1>3. \E x \in S : \A y \in S : ~ (<<y, x>> \in R)
  <2> HIDE DEF R
  <2> QED
    BY <1>2, WFMin
<1>4. \A x, y \in Nat : ~ (<<y, x>> \in R) => x <= y
  <2> SUFFICES ASSUME NEW x \in Nat, NEW y \in Nat, y < x PROVE <<y, x>> \in R
    OBVIOUS
  <2>1. <<y, x>> \in Nat \X Nat /\ <<y, x>>[1] = y /\ <<y, x>>[2] = x
    OBVIOUS
  <2>2. QED
    BY <2>1
<1> HIDE DEF R
<1>5. QED
  BY <1>3, <1>4

\* Numbers that are counted can be enumerated in increasing order.  Were it
\* not so, take a least number of them for which it is not: without their
\* least, they can be.
Increasing(s, S) == s \in [1..Cardinality(S) -> S] /\ \A i, j \in DOMAIN s : i < j => s[i] < s[j]

LEMMA Enumeration ==
  ASSUME NEW S \in SUBSET Nat, IsFiniteSet(S)
  PROVE  \E s : Increasing(s, S)
<1> DEFINE Bad(T) == T \in SUBSET Nat /\ IsFiniteSet(T) /\ ~\E s : Increasing(s, T)
           Sizes == {n \in Nat : \E T : Bad(T) /\ Cardinality(T) = n}
<1> SUFFICES ASSUME Bad(S) PROVE FALSE
  OBVIOUS
<1>1. Cardinality(S) \in Sizes /\ Sizes \in SUBSET Nat
  BY FS_CardinalityType
<1>2. PICK n \in Sizes : \A m \in Sizes : n <= m
  <2> HIDE DEF Sizes
  <2> QED
    BY <1>1, LeastNumber
<1>3. PICK T : Bad(T) /\ Cardinality(T) = n
  BY <1>2
<1>4. T # {}
  <2> SUFFICES ASSUME T = {} PROVE FALSE
    OBVIOUS
  <2>1. Increasing(<<>>, T)
    BY FS_EmptySet DEF Increasing
  <2>2. QED
    BY <2>1, <1>3
<1>5. PICK x \in T : \A y \in T : x <= y
  BY <1>3, <1>4, LeastNumber
<1>6. /\ IsFiniteSet(T \ {x}) /\ Cardinality(T \ {x}) = n - 1 /\ n - 1 \in Nat
      /\ T \ {x} \in SUBSET Nat
  <2>1. IsFiniteSet(T \ {x}) /\ Cardinality(T \ {x}) = Cardinality(T) - 1
    BY <1>3, <1>5, FS_RemoveElement
  <2>2. n \in Nat /\ n # 0
    BY <1>3, <1>4, FS_CardinalityType, FS_EmptySet
  <2>3. T \ {x} \in SUBSET Nat
    BY <1>3
  <2>4. QED
    BY <1>3, <2>1, <2>2, <2>3
<1>7. ~Bad(T \ {x})
  <2>1. n \in Nat /\ n - 1 \in Nat /\ n - 1 \notin Sizes
    <3> HIDE DEF Sizes
    <3> QED
      BY <1>1, <1>2, <1>6
  <2>2. Bad(T \ {x}) => n - 1 \in Sizes
    <3> HIDE DEF Bad
    <3> QED
      BY <2>1, <1>6
  <2>3. QED
    BY <2>1, <2>2
<1>8. PICK s : Increasing(s, T \ {x})
  BY <1>6, <1>7
<1> DEFINE t == [i \in 1..n |-> IF i = 1 THEN x ELSE s[i - 1]]
<1>9. s \in [1..(n - 1) -> T \ {x}] /\ \A i, j \in 1..(n - 1) : i < j => s[i] < s[j]
  BY <1>6, <1>8 DEF Increasing
<1>10. t \in [1..n -> T]
  BY <1>9, <1>6, <1>5
<1>11. \A i, j \in 1..n : i < j => t[i] < t[j]
  <2> SUFFICES ASSUME NEW i \in 1..n, NEW j \in 1..n, i < j PROVE t[i] < t[j]
    OBVIOUS
  <2>1. j # 1 /\ j - 1 \in 1..(n - 1) /\ t[j] = s[j - 1] /\ s[j - 1] \in T \ {x}
    BY <1>6, <1>9
  <2>2. CASE i = 1
    <3>1. t[i] = x /\ x \in Nat /\ t[j] \in Nat /\ x # t[j] /\ x <= t[j]
      BY <2>1, <2>2, <1>5, <1>3
    <3>2. QED
      BY <3>1
  <2>3. CASE i # 1
    BY <2>1, <2>3, <1>6, <1>9
  <2>4. QED
    BY <2>2, <2>3
<1>12. Increasing(t, T)
  BY <1>3, <1>10, <1>11 DEF Increasing
<1>13. QED
  BY <1>12, <1>3

\* What enumerates without repetition enumerates all.
LEMMA OneToOne ==
  ASSUME NEW S, IsFiniteSet(S), NEW s \in [1..Cardinality(S) -> S],
         \A i, j \in 1..Cardinality(S) : s[i] = s[j] => i = j
  PROVE  Range(s) = S
<1> DEFINE n == Cardinality(S)
<1>1. n \in Nat /\ IsFiniteSet(1..n) /\ Cardinality(1..n) = n
  BY FS_CardinalityType, FS_Interval
<1>2. s \in Injection(1..n, S)
  BY DEF Injection, IsInjective
<1>3. s \in Surjection(1..n, S)
  BY <1>1, <1>2, FS_Injection
<1>4. QED
  BY <1>3 DEF Surjection, Range

LEMMA NumbersInOrder ==
  ASSUME NEW S \in SUBSET Nat, IsFiniteSet(S)
  PROVE  InOrder(S, <) \in Seq(S) /\ Range(InOrder(S, <)) = S
<1> DEFINE n == Cardinality(S)
           s == InOrder(S, <)
<1>1. n \in Nat
  BY FS_CardinalityType
<1>2. \E t \in [1..n -> S] : \A i, j \in DOMAIN t : i < j => t[i] < t[j]
  BY Enumeration DEF Increasing
<1>3. s \in [1..n -> S] /\ \A i, j \in DOMAIN s : i < j => s[i] < s[j]
  BY <1>2, Zenon DEF InOrder
<1>4. \A i, j \in 1..n : s[i] = s[j] => i = j
  <2> HIDE DEF s
  <2> SUFFICES ASSUME NEW i \in 1..n, NEW j \in 1..n, s[i] = s[j], i # j PROVE FALSE
    OBVIOUS
  <2>1. s[i] \in Nat /\ s[j] \in Nat /\ DOMAIN s = 1..n
    BY <1>3
  <2>2. QED
    BY <1>1, <1>3, <2>1
<1>5. Range(s) = S
  <2> HIDE DEF s
  <2> QED
    BY <1>3, <1>4, OneToOne
<1>6. s \in Seq(S)
  <2> HIDE DEF s
  <2> QED
    BY <1>1, <1>3
<1>7. QED
  BY <1>5, <1>6

\* Records with names of their own.
LEMMA RecordsInOrder ==
  ASSUME NEW S, IsFiniteSet(S), \A x \in S : x.name \in Nat,
         \A x, y \in S : x.name = y.name => x = y
  PROVE  /\ InOrder(S, ByName) \in Seq(S) /\ Range(InOrder(S, ByName)) = S
         /\ \A i, j \in DOMAIN InOrder(S, ByName) :
              i < j => ByName(InOrder(S, ByName)[i], InOrder(S, ByName)[j])
<1> DEFINE n == Cardinality(S)
           N == {x.name : x \in S}
           s == InOrder(S, ByName)
           f == [x \in S |-> x.name]
<1>1. n \in Nat
  BY FS_CardinalityType
<1>2. IsFiniteSet(N) /\ Cardinality(N) = n /\ N \in SUBSET Nat
  <2>1. f \in Bijection(S, N)
    BY DEF Bijection, Injection, Surjection, IsInjective
  <2>2. ExistsBijection(S, N)
    BY <2>1 DEF ExistsBijection
  <2>3. QED
    BY <2>2, FS_Bijection
<1>3. PICK u : Increasing(u, N)
  BY <1>2, Enumeration
<1> DEFINE t == [i \in 1..n |-> CHOOSE x \in S : x.name = u[i]]
<1>4. \A i \in 1..n : t[i] \in S /\ t[i].name = u[i]
  BY <1>2, <1>3 DEF Increasing
<1>5. t \in [1..n -> S] /\ \A i, j \in DOMAIN t : i < j => ByName(t[i], t[j])
  <2> HIDE DEF t
  <2>1. t \in [1..n -> S]
    <3> USE DEF t
    <3> QED
      BY <1>4
  <2>2. \A i, j \in 1..n : i < j => u[i] < u[j]
    BY <1>2, <1>3, <1>1 DEF Increasing
  <2>3. DOMAIN t = 1..n
    BY <2>1
  <2>4. QED
    BY <2>1, <2>2, <2>3, <1>4 DEF ByName
<1>6. s \in [1..n -> S] /\ \A i, j \in DOMAIN s : i < j => ByName(s[i], s[j])
  <2> HIDE DEF t
  <2> QED
    BY <1>5, Zenon DEF InOrder
<1>7. \A i, j \in 1..n : s[i] = s[j] => i = j
  <2> HIDE DEF s
  <2> SUFFICES ASSUME NEW i \in 1..n, NEW j \in 1..n, s[i] = s[j], i # j PROVE FALSE
    OBVIOUS
  <2>1. s[i].name \in Nat /\ s[j].name \in Nat /\ DOMAIN s = 1..n
    BY <1>6
  <2>2. QED
    BY <1>1, <1>6, <2>1 DEF ByName
<1>8. Range(s) = S
  <2> HIDE DEF s
  <2> QED
    BY <1>6, <1>7, OneToOne
<1>9. s \in Seq(S)
  <2> HIDE DEF s
  <2> QED
    BY <1>1, <1>6
<1>10. QED
  BY <1>6, <1>8, <1>9

-----------------------------------------------------------------------------
(* What the files say.                                                     *)

LEMMA Given ==
  /\ \A n \in Names : n \in Nat /\ n # NoName
  /\ NoName \notin Names /\ NoName = 0 /\ IsFiniteSet(Names)
  /\ NoRef \notin Object /\ Symbolic \notin Object
  /\ Commits \cap TagObjects = {} /\ MaxEvents \in Nat /\ kMaxDerefCount \in Nat
BY TagDbAssumption DEF NoName

LEMMA Targets ==
  /\ \A v : Commit(v) \in Commits \cup {NoRef}
  /\ \A v \in Object : Commit(v) \in Commits
  /\ \A c \in Commits : Commit(c) = c
  /\ Commit(NoRef) = NoRef /\ NoRef \notin Commits
  /\ \A v, oid : oid \in Commits => (Commit(v) = oid <=> v = oid \/ (v \in TagObjects /\ Peel[kMaxDerefCount, v] = oid))
<1>1. /\ \A o \in TagObjects : Commit(o) \in Commits /\ Peel[kMaxDerefCount, o] = Commit(o)
      /\ NoRef \notin Commits /\ NoRef \notin TagObjects /\ Commits \cap TagObjects = {}
  BY TagDbAssumption DEF Object
<1>2. /\ \A v \in Commits : Commit(v) = v
      /\ \A v : v \notin Commits /\ v \notin TagObjects => Commit(v) = NoRef
  BY DEF Commit
<1>3. QED
  <2> HIDE DEF Commit
  <2> QED
    BY <1>1, <1>2 DEF Object

\* A packed-refs that git writes says of each tag what the references did.
LEMMA NewPackRight ==
  ASSUME NEW refs \in SUBSET (Names \X Object),
         \A r, q \in refs : r[1] = q[1] => r = q
  PROVE  /\ NewPack(refs) \in File /\ WellFormed(NewPack(refs)) /\ NewPack(refs).exists
         /\ NewPack(refs).valid /\ NewPack(refs).header = "full"
         /\ \A n : \A l \in PackedLines(NewPack(refs), n) : <<n, l.id>> \in refs
<1> DEFINE line(r) == [name |-> r[1], id |-> r[2],
                       peeled |-> IF r[2] \in Commits THEN NoRef ELSE Commit(r[2])]
           L == {line(r) : r \in refs}
           f == [r \in refs |-> r[1]]
           g == [r \in refs |-> line(r)]
<1>1. IsFiniteSet(refs)
  <2>1. f \in [refs -> Names]
    OBVIOUS
  <2>2. f \in Injection(refs, Names)
    BY <2>1, Zenon DEF Injection, IsInjective
  <2>3. QED
    BY <2>2, FS_Injection, Given
<1>2. IsFiniteSet(L)
  <2>1. g \in Surjection(refs, L)
    BY Zenon DEF Surjection
  <2>2. QED
    BY <2>1, <1>1, FS_Surjection
<1>3. /\ L \in SUBSET Line
      /\ \A l \in L : <<l.name, l.id>> \in refs /\ l.name \in Nat /\ l.peeled \in {NoRef, Commit(l.id)}
      /\ \A x, y \in L : x.name = y.name => x = y
  <2>1. ASSUME NEW r \in refs
        PROVE  /\ line(r) \in Line /\ line(r).name = r[1] /\ line(r).id = r[2] /\ <<r[1], r[2]>> = r
               /\ line(r).peeled \in {NoRef, Commit(r[2])}
    <3>1. r[1] \in Names /\ r[2] \in Object /\ <<r[1], r[2]>> = r
      OBVIOUS
    <3>2. (IF r[2] \in Commits THEN NoRef ELSE Commit(r[2])) \in Commits \cup {NoRef}
      BY Targets
    <3>3. QED
      BY <3>1, <3>2 DEF Line
  <2> HIDE DEF line
  <2>2. \A l \in L : \E r \in refs : l = line(r)
    OBVIOUS
  <2>3. L \in SUBSET Line
    BY <2>1, <2>2
  <2>4. ASSUME NEW l \in L PROVE <<l.name, l.id>> \in refs /\ l.name \in Nat /\ l.peeled \in {NoRef, Commit(l.id)}
    <3>1. PICK r \in refs : l = line(r)
      BY <2>2
    <3>2. r[1] \in Nat
      BY Given
    <3>3. QED
      BY <3>1, <3>2, <2>1
  <2>5. ASSUME NEW x \in L, NEW y \in L, x.name = y.name PROVE x = y
    <3>1. PICK r \in refs : x = line(r)
      BY <2>2
    <3>2. PICK q \in refs : y = line(q)
      BY <2>2
    <3>3. r = q
      BY <3>1, <3>2, <2>1, <2>5
    <3>4. QED
      BY <3>1, <3>2, <3>3
  <2>6. QED
    BY <2>3, <2>4, <2>5
<1> HIDE DEF L
<1> DEFINE s == InOrder(L, ByName)
<1>4. s \in Seq(L) /\ Range(s) = L
  BY <1>2, <1>3, RecordsInOrder
<1>5. NewPack(refs) = [exists |-> TRUE, header |-> "full", valid |-> TRUE, lines |-> s]
  BY DEF NewPack, L
<1> HIDE DEF s
<1>6. s \in Seq(Line)
  BY <1>3, <1>4
<1>7. /\ NewPack(refs) \in File /\ NewPack(refs).exists /\ NewPack(refs).lines = s
      /\ NewPack(refs).valid /\ NewPack(refs).header = "full"
  BY <1>5, <1>6 DEF File, Headers
<1> HIDE DEF NewPack
<1>8. WellFormed(NewPack(refs))
  BY <1>7, <1>4, <1>3 DEF WellFormed
<1>9. \A n : \A l \in PackedLines(NewPack(refs), n) : <<n, l.id>> \in refs
  BY <1>7, <1>4, <1>3 DEF PackedLines
<1>10. QED
  BY <1>7, <1>8, <1>9

\* What git tag -d and git pack-refs leave in packed-refs.
LEMMA RefsRight ==
  ASSUME DbTypes
  PROVE  /\ PackedRefs \in SUBSET (Names \X Object)
         /\ \A r, q \in PackedRefs : r[1] = q[1] => r = q
         /\ \A r \in PackedRefs : \E l \in PackedLines(packed, r[1]) : l.id = r[2]
<1>1. Range(packed.lines) \subseteq Line
  <2>1. packed.lines \in Seq(Line)
    BY DEF DbTypes, File
  <2>2. QED
    BY <2>1 DEF Range
<1>2. \A r \in PackedRefs : \E l \in Range(packed.lines) :
        r = <<l.name, l.id>> /\ packed.exists /\ l \in Line
  BY <1>1, Zenon DEF PackedRefs, PackedLines
<1>3. \A x, y \in Range(packed.lines) : x.name = y.name => x = y
  BY DEF DbTypes, WellFormed
<1>4. \A l \in Line : l.name \in Names /\ l.id \in Object
  BY DEF Line
<1>5. ASSUME NEW r \in PackedRefs
      PROVE  r \in Names \X Object /\ \E l \in PackedLines(packed, r[1]) : l.id = r[2]
  <2>1. PICK l \in Range(packed.lines) : r = <<l.name, l.id>> /\ packed.exists /\ l \in Line
    BY <1>2
  <2>2. l \in PackedLines(packed, r[1]) /\ l.id = r[2]
    BY <2>1 DEF PackedLines
  <2>3. QED
    BY <2>1, <2>2, <1>4
<1>6. ASSUME NEW r \in PackedRefs, NEW q \in PackedRefs, r[1] = q[1] PROVE r = q
  <2>1. PICK l \in Range(packed.lines) : r = <<l.name, l.id>>
    BY <1>2
  <2>2. PICK k \in Range(packed.lines) : q = <<k.name, k.id>>
    BY <1>2
  <2>3. QED
    BY <2>1, <2>2, <1>3, <1>6
<1>7. QED
  BY <1>5, <1>6

\* A tag is of the commit by its loose file, or else by its line.
LEMMA TagsAre ==
  ASSUME DbTypes, lookup.oid \in Commits, NEW n \in Names
  PROVE  n \in GitTags(loose, packed, lookup.oid) <=>
           IF InLoose(loose, n) THEN Commit(loose[n]) = lookup.oid ELSE PackedTo(n)
<1>1. lookup.oid # NoRef
  BY Targets
<1>2. \A x, y \in PackedLines(packed, n) : x = y
  BY DEF DbTypes, WellFormed, PackedLines
<1>3. ASSUME PackedLines(packed, n) # {}
      PROVE  Commit((CHOOSE l \in PackedLines(packed, n) : TRUE).id) = lookup.oid <=> PackedTo(n)
  <2>1. PICK l \in PackedLines(packed, n) : TRUE
    BY <1>3
  <2>2. (CHOOSE k \in PackedLines(packed, n) : TRUE) = l
    BY <1>2, <2>1
  <2>3. QED
    BY <1>2, <2>1, <2>2 DEF PackedTo
<1>4. PackedLines(packed, n) = {} => ~PackedTo(n)
  BY DEF PackedTo
<1>5. QED
  <2> HIDE DEF Commit, PackedTo, PackedLines
  <2> QED
    BY <1>1, <1>3, <1>4 DEF GitTags, GitTarget, InLoose

-----------------------------------------------------------------------------
(* The beginning, and what git does.                                       *)

LEMMA DbBegins == TagDbInit => DbInv
<1> SUFFICES ASSUME TagDbInit PROVE DbInv
  OBVIOUS
<1>1. /\ loose \in [Names -> Value] /\ packed \in File /\ WellFormed(packed) /\ MaxEvents \in Nat
  BY TagDbAssumption DEF TagDbInit
<1>2. TagDbTypeOK /\ version = 1 /\ events = 0
  <2>1. version = 1 /\ events = 0 /\ packStat = 0
    BY DEF TagDbInit, NoStat
  <2>2. version \in 1..(MaxEvents + 1) /\ events \in 0..MaxEvents /\ packStat \in 0..version
    BY <1>1, <2>1
  <2>3. /\ obsolete = {} /\ dirty = FALSE /\ sort.at = "none" /\ asleep = {} /\ lookup.at = "none"
        /\ main = "idle"
    BY DEF TagDbInit, NoLookup, NoSort
  <2>4. QED
    BY <1>1, <2>1, <2>2, <2>3 DEF TagDbTypeOK
<1>3. NoLookup \in [at : LookupAt, oid : Commits \cup {NoRef}, st : 0..1,
                    then : Then, todo : Seq(Names), deref : Nat,
                    res : Names \cup {NoName}]
  BY DEF NoLookup, LookupAt, Then, NoStat
<1>4. DbTypes
  <2>1. /\ queue \in Seq({"lookup", "sort"}) /\ looseTags \in Seq(Names) /\ name2id \in Seq(Tag)
        /\ id2name \in [entries : SUBSET Tag, sorted : BOOLEAN]
        /\ sort \in [at : {"none", "queued", "sorting"}, entries : SUBSET Tag]
    BY DEF TagDbInit, NoSort
  <2>2. /\ was \subseteq Names /\ kept \subseteq Names /\ packedWas \subseteq Names
        /\ unseen \subseteq Names /\ lookup = NoLookup
    BY DEF TagDbInit
  <2>3. QED
    BY <1>1, <1>2, <1>3, <2>1, <2>2 DEF DbTypes
<1>5. Range(name2id) = {} /\ DOMAIN queue = {} /\ DOMAIN name2id = {}
  BY DEF TagDbInit, Range
<1>6. Turns
  BY <1>2, <1>5 DEF Turns, Once, Queued, SortIsAlone, TagDbInit, NoSort, NoLookup
<1>7. Cached
  BY <1>2, <1>5 DEF Cached, TagDbInit, NoStat
<1>8. Ghosts
  <2>1. lookup.oid = NoRef /\ kept = {}
    BY DEF TagDbInit, NoLookup
  <2>2. GitTags(loose, packed, lookup.oid) = {} /\ PackedTags(packed, lookup.oid) = {}
    BY <2>1 DEF GitTags, PackedTags
  <2>3. QED
    BY <2>1, <2>2 DEF Ghosts, TagDbInit
<1>9. ListedRight /\ SearchRight /\ ResultRight
  BY DEF ListedRight, SearchRight, ResultRight, AnswerIsTrue, TagDbInit, NoLookup
<1>10. QED
  BY <1>4, <1>6, <1>7, <1>8, <1>9 DEF DbInv

\* git leaves files that are of their types, a packed-refs that is as it was
\* or another one, and in it no tag of the commit that was not one before.
GitStep ==
  /\ GitChanges
  /\ loose' \in [Names -> Value] /\ packed' \in File /\ WellFormed(packed')
  /\ obsolete' \subseteq Names /\ events' \in events..MaxEvents
  /\ UNCHANGED <<packed, version>> \/ (version' = version + 1 /\ events' = events + 1)
  /\ lookup.oid \in Commits =>
       \A n \in Names : PackedTo(n)' => PackedTo(n) \/ n \in GitTags(loose, packed, lookup.oid)
  /\ NoClash(loose', packed')

\* Tags come only one by one; whatever else git does, the names stay apart.
LEMMA StayApart ==
  ASSUME DbInv, \A n \in Names : IsTag(loose', packed', n) => IsTag(loose, packed, n)
  PROVE  NoClash(loose', packed')
<1>1. \A n \in Nested : n \in Names /\ DirOf[n] \in Names
  BY TagDbAssumption
<1>2. QED
  BY <1>1 DEF DbInv, Ghosts, NoClash

LEMMA PackIsLeft ==
  ASSUME UNCHANGED <<packed, lookup>>
  PROVE  \A n : PackedTo(n)' => PackedTo(n)
BY DEF PackedTo, PackedLines

LEMMA GitTypes ==
  ASSUME DbTypes
  PROVE  /\ loose \in [Names -> Value] /\ packed \in File /\ WellFormed(packed)
         /\ obsolete \subseteq Names /\ events \in 0..MaxEvents /\ version \in 1..(events + 1)
         /\ MaxEvents \in Nat
<1>1. /\ loose \in [Names -> Value] /\ packed \in File /\ WellFormed(packed)
      /\ obsolete \subseteq Names /\ events \in 0..MaxEvents
      /\ version \in 1..(MaxEvents + 1) /\ version <= events + 1
  BY DEF DbTypes, TagDbTypeOK
<1>2. MaxEvents \in Nat
  BY Given
<1>3. version \in 1..(events + 1)
  BY <1>1, <1>2
<1>4. QED
  BY <1>1, <1>2, <1>3

LEMMA WriteTagStep ==
  ASSUME DbInv, NEW n \in Names, NEW v \in Written, WriteTag(n, v)
  PROVE  GitStep
<1>1. v \in Value
  BY TagDbAssumption
<1>2. loose' \in [Names -> Value]
  BY <1>1, GitTypes DEF DbInv, WriteTag
<1>3. UNCHANGED <<packed, version, obsolete, lookup>> /\ GitChanges
  BY DEF WriteTag, GitChanges
<1>4. events' \in events..MaxEvents /\ NoClash(loose', packed')
  BY <1>3, GitTypes DEF DbInv, WriteTag, GitCommand
<1>5. QED
  BY <1>2, <1>3, <1>4, GitTypes, PackIsLeft DEF DbInv, GitStep

LEMMA RemoveLooseStep ==
  ASSUME DbInv, NEW n \in Names, RemoveLoose(n)
  PROVE  GitStep
<1>1. loose' \in [Names -> Value]
  BY GitTypes DEF DbInv, RemoveLoose, Value
<1>2. UNCHANGED <<packed, version, events, lookup>> /\ GitChanges /\ obsolete' \subseteq obsolete
  BY DEF RemoveLoose, GitChanges
<1>3. \A m \in Names : IsTag(loose', packed', m) => IsTag(loose, packed, m)
  BY <1>2, GitTypes DEF DbInv, RemoveLoose, IsTag, InLoose
<1>4. QED
  BY <1>1, <1>2, <1>3, StayApart, GitTypes, PackIsLeft DEF DbInv, GitStep

LEMMA PackRefsStep ==
  ASSUME DbInv, PackRefs
  PROVE  GitStep
<1> DEFINE refs == {r \in PackedRefs : r[1] \notin Unpacked} \cup {<<n, loose[n]>> : n \in Unpacked}
<1>1. /\ refs \in SUBSET (Names \X Object)
      /\ \A r, q \in refs : r[1] = q[1] => r = q
      /\ \A r \in refs : r \in PackedRefs \/ (r[1] \in Unpacked /\ r[2] = loose[r[1]])
  <2>1. \A n \in Unpacked : n \in Names /\ loose[n] \in Object
    BY DEF Unpacked
  <2>2. \A r \in refs : (r \in PackedRefs /\ r[1] \notin Unpacked) \/ (r[1] \in Unpacked /\ r = <<r[1], loose[r[1]]>>)
    OBVIOUS
  <2>3. QED
    BY <2>1, <2>2, RefsRight DEF DbInv
<1>2. /\ GitCommand /\ packed' = NewPack(refs) /\ version' = version + 1 /\ obsolete' = Unpacked
      /\ UNCHANGED <<loose, lookup>> /\ GitChanges
  BY DEF PackRefs, GitChanges
<1> HIDE DEF refs
<1>3. packed' \in File /\ WellFormed(packed') /\ \A n : \A l \in PackedLines(packed', n) : <<n, l.id>> \in refs
  BY <1>1, <1>2, NewPackRight
<1>4. events' \in events..MaxEvents /\ events' = events + 1 /\ obsolete' \subseteq Names
  BY <1>2, GitTypes DEF DbInv, GitCommand, Unpacked
<1>5. ASSUME NEW n \in Names, PackedTo(n)', lookup.oid \in Commits
      PROVE  PackedTo(n) \/ n \in GitTags(loose, packed, lookup.oid)
  <2>1. PICK l \in PackedLines(packed', n) : Commit(l.id) = lookup.oid
    BY <1>2, <1>5 DEF PackedTo
  <2>2. <<n, l.id>> \in refs
    BY <1>3, <2>1
  <2>3. CASE <<n, l.id>> \in PackedRefs
    <3>1. PICK k \in PackedLines(packed, n) : k.id = l.id
      BY <2>3, RefsRight DEF DbInv
    <3>2. QED
      BY <3>1, <2>1 DEF PackedTo
  <2>4. CASE n \in Unpacked /\ l.id = loose[n]
    <3>1. loose[n] \in Object /\ InLoose(loose, n)
      BY <2>4, TagDbAssumption DEF Unpacked, InLoose
    <3>2. n \in GitTags(loose, packed, lookup.oid)
      BY <3>1, <2>4, <2>1, <1>5, TagsAre DEF DbInv
    <3>3. QED
      BY <3>2
  <2>5. QED
    BY <2>2, <2>3, <2>4, <1>1
<1>6. ASSUME NEW n \in Names, IsTag(loose', packed', n) PROVE IsTag(loose, packed, n)
  <2>1. InLoose(loose, n) \/ \E l \in PackedLines(packed', n) : <<n, l.id>> \in refs
    BY <1>2, <1>3, <1>6 DEF IsTag
  <2>2. n \in Unpacked => InLoose(loose, n)
    BY TagDbAssumption DEF Unpacked, InLoose
  <2>3. \A v : <<n, v>> \in PackedRefs => PackedLines(packed, n) # {}
    BY RefsRight DEF DbInv
  <2>4. QED
    BY <1>1, <2>1, <2>2, <2>3 DEF IsTag
<1>7. QED
  BY <1>2, <1>3, <1>4, <1>5, <1>6, StayApart, GitTypes DEF DbInv, GitStep

LEMMA DeleteTagStep ==
  ASSUME DbInv, NEW n \in Names, DeleteTag(n)
  PROVE  GitStep
<1> DEFINE refs == {r \in PackedRefs : r[1] # n}
<1>1. /\ GitCommand /\ UNCHANGED <<loose, lookup>> /\ GitChanges /\ obsolete' \subseteq Names
      /\ \/ packed' = NewPack(refs) /\ version' = version + 1
         \/ UNCHANGED <<packed, version>>
  BY DEF DeleteTag, GitChanges
<1>2. /\ refs \in SUBSET (Names \X Object) /\ refs \subseteq PackedRefs
      /\ \A r, q \in refs : r[1] = q[1] => r = q
  BY RefsRight DEF DbInv
<1> HIDE DEF refs
<1>3. events' \in events..MaxEvents /\ events' = events + 1
  BY <1>1, GitTypes DEF DbInv, GitCommand
<1>4. CASE UNCHANGED <<packed, version>>
  <2>1. \A m \in Names : IsTag(loose', packed', m) => IsTag(loose, packed, m)
    BY <1>1, <1>4
  <2>2. QED
    BY <1>1, <1>3, <1>4, <2>1, StayApart, GitTypes, PackIsLeft DEF DbInv, GitStep
<1>5. CASE packed' = NewPack(refs) /\ version' = version + 1
  <2>1. packed' \in File /\ WellFormed(packed') /\ \A m : \A l \in PackedLines(packed', m) : <<m, l.id>> \in refs
    BY <1>2, <1>5, NewPackRight
  <2>2. ASSUME NEW m \in Names, PackedTo(m)' PROVE PackedTo(m)
    <3>1. PICK l \in PackedLines(packed', m) : Commit(l.id) = lookup.oid
      BY <1>1, <2>2 DEF PackedTo
    <3>2. <<m, l.id>> \in PackedRefs
      BY <2>1, <3>1, <1>2
    <3>3. PICK k \in PackedLines(packed, m) : k.id = l.id
      BY <3>2, RefsRight DEF DbInv
    <3>4. QED
      BY <3>1, <3>3 DEF PackedTo
  <2>3. ASSUME NEW m \in Names, IsTag(loose', packed', m) PROVE IsTag(loose, packed, m)
    <3>1. InLoose(loose, m) \/ \E l \in PackedLines(packed', m) : <<m, l.id>> \in PackedRefs
      BY <1>1, <1>2, <2>1, <2>3 DEF IsTag
    <3>2. \A v : <<m, v>> \in PackedRefs => PackedLines(packed, m) # {}
      BY RefsRight DEF DbInv
    <3>3. QED
      BY <3>1, <3>2 DEF IsTag
  <2>4. QED
    BY <1>1, <1>3, <1>5, <2>1, <2>2, <2>3, StayApart, GitTypes DEF DbInv, GitStep
<1>6. QED
  BY <1>1, <1>4, <1>5

LEMMA GitKeeps ==
  ASSUME DbInv, GitStep
  PROVE  DbInv'
<1>1. /\ UNCHANGED <<threads, queue, looseTags, pack, dirty, sort, asleep, lookup, main, lookups, unseen>>
      /\ was' = was \cup GitTags(loose', packed', lookup.oid)
      /\ packedWas' = packedWas \cup PackedTags(packed', lookup.oid)
      /\ kept' = {n \in kept \cap Findable(loose', packed', lookup.oid) :
                    InLoose(loose', n) = InLoose(loose, n)}
  BY DEF GitStep, GitChanges
<1>2. /\ was \subseteq was' /\ Answerable \subseteq Answerable' /\ unseen' = unseen
      /\ kept' \subseteq kept /\ \A n \in kept' : InLoose(loose', n) = InLoose(loose, n)
  BY <1>1 DEF Answerable
<1>3. /\ version \in Nat /\ version' \in Nat /\ events' \in Nat /\ MaxEvents \in Nat
      /\ version <= version' /\ 1 <= version' /\ version' <= events' + 1 /\ events' <= MaxEvents
  BY GitTypes DEF DbInv, GitStep
<1>4. TagDbTypeOK'
  <2>1. packStat' \in 0..version' /\ version' \in 1..(MaxEvents + 1)
    <3>1. packStat' = packStat /\ packStat \in 0..version
      BY <1>1 DEF DbInv, DbTypes, TagDbTypeOK, pack
    <3>2. version' <= MaxEvents + 1
      <4>1. \A v, e, m \in Nat : v <= e + 1 /\ e <= m => v <= m + 1
        OBVIOUS
      <4>2. QED
        BY <4>1, <1>3, Zenon
    <3>3. packStat' \in Nat /\ packStat' <= version'
      BY <3>1, <1>3
    <3>4. QED
      BY <3>2, <3>3, <1>3
  <2>2. QED
    BY <2>1, <1>1, <1>3 DEF DbInv, DbTypes, TagDbTypeOK, GitStep, pack
<1>5. DbTypes'
  <2>1. was' \subseteq Names /\ kept' \subseteq Names /\ packedWas' \subseteq Names /\ unseen' \subseteq Names
    BY <1>1 DEF DbInv, DbTypes, GitTags, PackedTags
  <2>2. lookup' \in [at : LookupAt, oid : Commits \cup {NoRef}, st : 0..version',
                 then : Then, todo : Seq(Names), deref : Nat,
                 res : Names \cup {NoName}]
    <3>1. 0..version \subseteq 0..version'
      BY <1>3, GitTypes DEF DbInv
    <3>2. QED
      BY <3>1, <1>1 DEF DbInv, DbTypes
  <2>3. QED
    BY <1>1, <1>3, <1>4, <2>1, <2>2 DEF DbInv, DbTypes, GitStep, pack
<1>6. Turns'
  BY <1>1, <1>4, Zenon DEF DbInv, Turns, Once, Queued, SortIsAlone, pack
<1>7. Cached'
  <2>1. packStat \in 0..version /\ version \in Nat
    BY GitTypes DEF DbInv, DbTypes, TagDbTypeOK
  <2>2. packStat' = version' => UNCHANGED <<packed, version>>
    BY <1>1, <2>1 DEF GitStep, pack
  <2>3. QED
    BY <1>1, <2>2 DEF DbInv, Cached, pack
<1>8. Ghosts'
  <2>1. lookup' = lookup
    BY <1>1
  <2>2. QED
    BY <1>1, <2>1 DEF Ghosts, GitStep
<1>9. ListedRight'
  <2> SUFFICES ASSUME lookup.at \in {"stat", "reset", "read", "tags"}, ListedRight PROVE ListedRight'
    BY <1>1 DEF ListedRight, DbInv
  <2>1. lookup.oid \in Commits
    BY DEF DbInv, Turns
  <2>2. \A n : IsLooseTag(n)' = IsLooseTag(n)
    BY <1>1 DEF IsLooseTag
  <2>3. \A n \in kept' : IsLooseTag(n) <=> InLoose(loose', n) /\ n \notin unseen
    BY <1>2 DEF ListedRight
  <2>4. ASSUME NEW n \in Names, ~IsLooseTag(n), PackedTo(n)' PROVE n \in Answerable'
    <3>1. PackedTo(n) \/ n \in GitTags(loose, packed, lookup.oid)
      BY <2>1, <2>4 DEF GitStep
    <3>2. n \in Answerable
      BY <2>1, <2>4, <3>1, Targets DEF ListedRight, DbInv, Ghosts, Answerable
    <3>3. QED
      BY <3>2, <1>2
  <2>5. QED
    BY <1>1, <1>2, <2>2, <2>3, <2>4 DEF ListedRight
<1>10. SearchRight'
  <2>1. \A n : IsLooseTag(n)' = IsLooseTag(n)
    BY <1>1 DEF IsLooseTag
  <2>2. QED
    BY <1>1, <1>2, <2>1 DEF SearchRight, DbInv, pack, Missed
<1>11. ResultRight'
  BY <1>1, <1>2 DEF ResultRight, DbInv, AnswerIsTrue
<1>12. QED
  BY <1>5, <1>6, <1>7, <1>8, <1>9, <1>10, <1>11 DEF DbInv

LEMMA GitSteps ==
  ASSUME DbInv, Git
  PROVE  GitStep
BY PackRefsStep, DeleteTagStep, RemoveLooseStep, WriteTagStep DEF Git

-----------------------------------------------------------------------------
(* The main thread, the pool and the sort.                                 *)

Jobs == {"lookup", "sort"}

LEMMA QueueAppended ==
  ASSUME queue \in Seq(Jobs), NEW f \in Jobs, queue' = Append(queue, f)
  PROVE  /\ queue' \in Seq(Jobs)
         /\ \A g : Queued(g)' <=> Queued(g) \/ g = f
         /\ \A g : Once(g) /\ (g = f => ~Queued(g)) => Once(g)'
<1>1. PICK q \in Seq(Jobs) : q = queue
  OBVIOUS
<1>2. PICK p : p = Append(q, f)
  OBVIOUS
<1>3. /\ Len(q) \in Nat /\ DOMAIN q = 1..Len(q) /\ DOMAIN p = 1..(Len(q) + 1) /\ p \in Seq(Jobs)
      /\ \A i \in 1..Len(q) : p[i] = q[i]
      /\ p[Len(q) + 1] = f
  BY <1>2, AppendProperties, LenProperties
<1>4. \A g : (\E i \in DOMAIN p : p[i] = g) <=> (\E i \in DOMAIN q : q[i] = g) \/ g = f
  BY <1>3
<1>5. ASSUME NEW g, \A i, j \in DOMAIN q : q[i] = g /\ q[j] = g => i = j,
             g = f => ~\E i \in DOMAIN q : q[i] = g,
             NEW i \in DOMAIN p, NEW j \in DOMAIN p, p[i] = g, p[j] = g
      PROVE  i = j
  BY <1>3, <1>5
<1>6. queue' = p
  BY <1>1, <1>2
<1>7. QED
  <2>1. \A g : /\ Once(g) <=> \A i, j \in DOMAIN q : q[i] = g /\ q[j] = g => i = j
               /\ Queued(g) <=> \E i \in DOMAIN q : q[i] = g
    BY <1>1 DEF Once, Queued
  <2>2. \A g : /\ Once(g)' <=> \A i, j \in DOMAIN p : p[i] = g /\ p[j] = g => i = j
               /\ Queued(g)' <=> \E i \in DOMAIN p : p[i] = g
    BY <1>6 DEF Once, Queued
  <2>3. QED
    BY <2>1, <2>2, <1>3, <1>4, <1>5, <1>6

LEMMA QueueStarted ==
  ASSUME queue \in Seq(Jobs), queue # <<>>, queue' = RemoveAt(queue, 1)
  PROVE  /\ queue' \in Seq(Jobs) /\ queue[1] \in Jobs /\ Queued(queue[1])
         /\ \A g : Once(g) => Once(g)' /\ (Queued(g)' <=> Queued(g) /\ g # queue[1])
<1>1. PICK q \in Seq(Jobs) : q = queue
  OBVIOUS
<1>2. q # <<>>
  BY <1>1
<1>3. PICK p : p = RemoveAt(q, 1)
  OBVIOUS
<1>4. /\ Len(q) \in Nat /\ Len(q) >= 1 /\ DOMAIN q = 1..Len(q) /\ \A i \in 1..Len(q) : q[i] \in Jobs
  BY <1>2, LenProperties, EmptySeq, ElementOfSeq
<1>5. p = Tail(q)
  <2>1. SubSeq(q, 1, 0) = <<>>
    BY <1>4
  <2>2. SubSeq(q, 2, Len(q)) = Tail(q)
    BY <1>4
  <2>3. p = SubSeq(q, 1, 0) \o SubSeq(q, 2, Len(q))
    BY <1>3 DEF RemoveAt
  <2>4. Tail(q) \in Seq(Jobs)
    BY <1>2, HeadTailProperties
  <2>5. QED
    BY <2>1, <2>2, <2>3, <2>4, ConcatEmptySeq
<1>6. /\ p \in Seq(Jobs) /\ DOMAIN p = 1..(Len(q) - 1)
      /\ \A i \in 1..(Len(q) - 1) : p[i] = q[i + 1]
  BY <1>2, <1>4, <1>5, HeadTailProperties, LenProperties
<1>7. ASSUME NEW g, \A i, j \in DOMAIN q : q[i] = g /\ q[j] = g => i = j
      PROVE  /\ \A i, j \in DOMAIN p : p[i] = g /\ p[j] = g => i = j
             /\ (\E i \in DOMAIN p : p[i] = g) <=> (\E i \in DOMAIN q : q[i] = g) /\ g # q[1]
  <2>1. ASSUME NEW i \in DOMAIN p, NEW j \in DOMAIN p, p[i] = g, p[j] = g PROVE i = j
    <3>1. i + 1 \in DOMAIN q /\ j + 1 \in DOMAIN q /\ q[i + 1] = g /\ q[j + 1] = g
      BY <1>4, <1>6, <2>1
    <3>2. i + 1 = j + 1
      BY <3>1, <1>7
    <3>3. QED
      BY <3>2, <1>4, <1>6
  <2>2. ASSUME NEW i \in DOMAIN p, p[i] = g PROVE (\E k \in DOMAIN q : q[k] = g) /\ g # q[1]
    <3>1. i + 1 \in DOMAIN q /\ q[i + 1] = g /\ i + 1 # 1 /\ 1 \in DOMAIN q
      BY <1>4, <1>6, <2>2
    <3>2. QED
      BY <3>1, <1>7
  <2>3. ASSUME NEW k \in DOMAIN q, q[k] = g, g # q[1] PROVE \E i \in DOMAIN p : p[i] = g
    <3>1. k - 1 \in DOMAIN p /\ p[k - 1] = q[k]
      BY <1>4, <1>6, <2>3
    <3>2. QED
      BY <3>1, <2>3
  <2>4. QED
    BY <2>1, <2>2, <2>3
<1>8. queue' = p /\ 1 \in DOMAIN q
  BY <1>1, <1>3, <1>4
<1>9. QED
  <2>1. \A g : /\ Once(g) <=> \A i, j \in DOMAIN q : q[i] = g /\ q[j] = g => i = j
               /\ Queued(g) <=> \E i \in DOMAIN q : q[i] = g
    BY <1>1 DEF Once, Queued
  <2>2. \A g : /\ Once(g)' <=> \A i, j \in DOMAIN p : p[i] = g /\ p[j] = g => i = j
               /\ Queued(g)' <=> \E i \in DOMAIN p : p[i] = g
    BY <1>8 DEF Once, Queued
  <2>3. \A g : Once(g) => Once(g)' /\ (Queued(g)' <=> Queued(g) /\ g # q[1])
    BY <2>1, <2>2, <1>7
  <2>4. QED
    BY <2>1, <2>3, <1>1, <1>4, <1>6, <1>8

\* While the files stay, a tag stays what it is.
LEMMA FilesStay ==
  ASSUME DbInv, UNCHANGED <<loose, packed, was, kept, packedWas>>, lookup'.oid = lookup.oid
  PROVE  /\ Ghosts'
         /\ \A n : (PackedTo(n)' <=> PackedTo(n)) /\ (InLoose(loose, n)' <=> InLoose(loose, n))
<1>1. Ghosts'
  BY DEF DbInv, Ghosts
<1>2. QED
  BY <1>1 DEF PackedTo, InLoose

LEMMA AloneNext ==
  ASSUME TagDbTypeOK', dirty' <=> sort' # NoSort, dirty' => ~id2name'.sorted,
         id2name'.entries = Range(name2id'),
         sort'.at = "sorting" => sort'.entries = id2name'.entries,
         Once("sort")', Queued("sort")' <=> sort'.at = "queued", main' = "gone" => sort' = NoSort
  PROVE  SortIsAlone'
BY DEF SortIsAlone, Once, Queued

LEMMA Alone ==
  ASSUME DbInv
  PROVE  /\ TagDbTypeOK /\ (dirty <=> sort # NoSort) /\ (dirty => ~id2name.sorted)
         /\ id2name.entries = Range(name2id)
         /\ sort.at = "sorting" => sort.entries = id2name.entries
         /\ Once("sort") /\ (Queued("sort") <=> sort.at = "queued") /\ (main = "gone" => sort = NoSort)
BY DEF DbInv, Turns, SortIsAlone, Once, Queued

LEMMA NoLookupIs ==
  /\ NoLookup.at = "none" /\ NoLookup.oid = NoRef /\ NoLookup.st = 0 /\ NoLookup.then = "none"
  /\ NoLookup.todo = <<>> /\ NoLookup.deref = 0 /\ NoLookup.res = NoName
BY DEF NoLookup, NoStat

LEMMA GetTagNameStep ==
  ASSUME DbInv, NEW oid \in Commits, GetTagName(oid)
  PROVE  DbInv'
<1>1. /\ UNCHANGED <<loose, packed, version, obsolete, events, looseTags, packStat, name2id, id2name,
                     dirty, sort, asleep>>
      /\ main = "idle" /\ main' = "wait" /\ queue' = Append(queue, "lookup")
      /\ lookup' = [NoLookup EXCEPT !.at = "queued", !.oid = oid]
      /\ was' = GitTags(loose, packed, oid) /\ kept' = Findable(loose, packed, oid)
      /\ packedWas' = PackedTags(packed, oid) /\ unseen' = {}
  BY DEF GetTagName, files, pack
<1>2. lookup = NoLookup
  BY <1>1 DEF DbInv, Turns
<1>3. /\ lookup'.at = "queued" /\ lookup'.oid = oid /\ lookup'.res = NoName /\ lookup'.then = "none"
      /\ lookup' = [at |-> "queued", oid |-> oid, st |-> 0, then |-> "none", todo |-> <<>>,
                    deref |-> 0, res |-> NoName]
  BY <1>1 DEF NoLookup, NoStat
<1>4. ~Queued("lookup") /\ queue \in Seq(Jobs)
  BY <1>2, NoLookupIs DEF DbInv, DbTypes, Turns, Jobs
<1>5. queue' \in Seq(Jobs) /\ Once("lookup")' /\ Queued("lookup")' /\ Once("sort")' /\ (Queued("sort")' <=> Queued("sort"))
  <2>1. "lookup" \in Jobs
    BY DEF Jobs
  <2>2. QED
    BY <1>1, <1>4, <2>1, QueueAppended, Alone DEF DbInv, Turns
<1>6. DbTypes'
  <2>1. 0 \in 0..version
    BY GitTypes DEF DbInv
  <2>2. lookup' \in [at : LookupAt, oid : Commits \cup {NoRef}, st : 0..version, then : Then,
                     todo : Seq(Names), deref : Nat, res : Names \cup {NoName}]
    BY <1>3, <2>1 DEF LookupAt, Then
  <2>3. was' \subseteq Names /\ kept' \subseteq Names /\ packedWas' \subseteq Names /\ unseen' \subseteq Names
    BY <1>1 DEF GitTags, Findable, PackedTags
  <2>4. TagDbTypeOK'
    BY <1>1, <1>3 DEF DbInv, DbTypes, TagDbTypeOK
  <2>5. QED
    BY <1>1, <1>5, <2>2, <2>3, <2>4 DEF DbInv, DbTypes, Jobs
<1>7. Turns'
  <2>1. SortIsAlone'
    BY <1>1, <1>5, <1>6, Alone, AloneNext DEF DbTypes
  <2>2. QED
    BY <1>1, <1>3, <1>5, <2>1 DEF DbInv, Turns
<1>8. Cached'
  BY <1>1, <1>2, NoLookupIs DEF DbInv, Cached
<1>9. Ghosts'
  BY <1>1, <1>3 DEF Ghosts, DbInv
<1>10. ListedRight' /\ SearchRight' /\ ResultRight'
  BY <1>3 DEF ListedRight, SearchRight, ResultRight, AnswerIsTrue
<1>11. QED
  BY <1>6, <1>7, <1>8, <1>9, <1>10 DEF DbInv

LEMMA AnsweredStep ==
  ASSUME DbInv, Answered
  PROVE  DbInv'
<1>1. /\ UNCHANGED <<loose, packed, version, obsolete, events, queue, looseTags, packStat, name2id,
                     id2name, dirty, sort, asleep>>
      /\ lookup.at \in {"done", "failed"}
      /\ main' = "idle" /\ lookup' = NoLookup /\ was' = {} /\ kept' = {}
      /\ packedWas' = {} /\ unseen' = {}
  BY DEF Answered, files, pack
<1>2. (Once("lookup")' <=> Once("lookup")) /\ (Queued("lookup")' <=> Queued("lookup"))
      /\ (Once("sort")' <=> Once("sort")) /\ (Queued("sort")' <=> Queued("sort"))
  BY <1>1 DEF Once, Queued
<1>3. DbTypes'
  <2>1. 0 \in 0..version
    BY GitTypes DEF DbInv
  <2>2. lookup' \in [at : LookupAt, oid : Commits \cup {NoRef}, st : 0..version, then : Then,
                     todo : Seq(Names), deref : Nat, res : Names \cup {NoName}]
    BY <1>1, <2>1 DEF LookupAt, Then, NoLookup, NoStat
  <2>3. TagDbTypeOK'
    BY <1>1, NoLookupIs DEF DbInv, DbTypes, TagDbTypeOK
  <2>4. QED
    BY <1>1, <2>2, <2>3 DEF DbInv, DbTypes
<1>4. Turns'
  <2>1. SortIsAlone'
    BY <1>1, <1>2, <1>3, Alone, AloneNext DEF DbTypes
  <2>2. QED
    BY <1>1, <1>2, <2>1, NoLookupIs DEF DbInv, Turns
<1>5. Cached'
  BY <1>1 DEF DbInv, Cached
<1>6. Ghosts'
  BY <1>1, NoLookupIs DEF DbInv, Ghosts, GitTags, PackedTags
<1>7. ListedRight' /\ SearchRight' /\ ResultRight'
  BY <1>1, NoLookupIs DEF ListedRight, SearchRight, ResultRight, AnswerIsTrue
<1>8. QED
  BY <1>3, <1>4, <1>5, <1>6, <1>7 DEF DbInv

\* The rest of the main thread changes only who waits and main.
LEMMA MainStep ==
  ASSUME DbInv,
         UNCHANGED <<loose, packed, version, obsolete, events, queue, looseTags, packStat, name2id,
                     id2name, dirty, sort, lookup, was, kept, packedWas, unseen>>,
         asleep' \subseteq {"lookup", "main"}, main' \in {"idle", "wait", "destroy", "gone"},
         main' = "wait" <=> main = "wait", main' = "gone" => main = "gone" \/ ~dirty
  PROVE  DbInv'
<1>1. (Once("lookup")' <=> Once("lookup")) /\ (Queued("lookup")' <=> Queued("lookup"))
      /\ (Once("sort")' <=> Once("sort")) /\ (Queued("sort")' <=> Queued("sort"))
  BY DEF Once, Queued
<1>2. DbTypes'
  BY DEF DbInv, DbTypes, TagDbTypeOK
<1>3. Turns'
  <2>1. SortIsAlone'
    BY <1>1, <1>2, Alone, AloneNext DEF DbTypes
  <2>2. QED
    BY <1>1, <2>1 DEF DbInv, Turns
<1>4. Ghosts' /\ \A n : (PackedTo(n)' <=> PackedTo(n)) /\ (InLoose(loose, n)' <=> InLoose(loose, n))
  BY FilesStay
<1>5. \A n : IsLooseTag(n)' <=> IsLooseTag(n)
  BY DEF IsLooseTag
<1>6. Cached' /\ ListedRight' /\ SearchRight' /\ ResultRight'
  BY <1>4, <1>5 DEF DbInv, Cached, ListedRight, SearchRight, ResultRight, AnswerIsTrue, Answerable, Missed
<1>7. QED
  BY <1>2, <1>3, <1>4, <1>6 DEF DbInv

LEMMA WaitingSteps ==
  ASSUME DbInv, Destroy \/ Destroyed \/ (\E who \in {"lookup", "main"} : SleepOnSort(who))
  PROVE  DbInv'
<1>1. main \in {"idle", "wait", "destroy", "gone"} /\ asleep \subseteq {"lookup", "main"}
  BY DEF DbInv, DbTypes, TagDbTypeOK
<1>2. CASE Destroy
  BY <1>1, <1>2, MainStep DEF Destroy, files, pack, ghosts
<1>3. CASE Destroyed
  BY <1>1, <1>3, MainStep DEF Destroyed, Waited, files, pack, ghosts
<1>4. CASE \E who \in {"lookup", "main"} : SleepOnSort(who)
  BY <1>1, <1>4, MainStep DEF SleepOnSort, files, pack, ghosts
<1>5. QED
  BY <1>2, <1>3, <1>4

LEMMA StartStep ==
  ASSUME DbInv, Start
  PROVE  DbInv'
<1>1. /\ UNCHANGED <<loose, packed, version, obsolete, events, looseTags, packStat, name2id, id2name,
                     dirty, asleep, main, was, kept, packedWas, unseen>>
      /\ queue # <<>> /\ queue' = RemoveAt(queue, 1)
      /\ lookup' = IF queue[1] = "lookup" THEN [lookup EXCEPT !.at = "loose"] ELSE lookup
      /\ sort' = IF queue[1] = "sort" THEN [at |-> "sorting", entries |-> id2name.entries] ELSE sort
  BY DEF Start, FirstScheduled, files, pack, ghosts
<1>2. /\ queue' \in Seq(Jobs) /\ queue[1] \in Jobs /\ Queued(queue[1])
      /\ Once("lookup")' /\ (Queued("lookup")' <=> Queued("lookup") /\ queue[1] # "lookup")
      /\ Once("sort")' /\ (Queued("sort")' <=> Queued("sort") /\ queue[1] # "sort")
  <2>1. queue \in Seq(Jobs) /\ Once("lookup") /\ Once("sort")
    BY Alone DEF DbInv, DbTypes, Turns, Jobs
  <2>2. QED
    BY <1>1, <2>1, QueueStarted
<1>3. /\ lookup \in [at : LookupAt, oid : Commits \cup {NoRef}, st : 0..version, then : Then,
                     todo : Seq(Names), deref : Nat, res : Names \cup {NoName}]
      /\ sort \in [at : {"none", "queued", "sorting"}, entries : SUBSET Tag]
      /\ id2name.entries \subseteq Tag
  BY DEF DbInv, DbTypes
<1>4. /\ lookup' \in [at : LookupAt, oid : Commits \cup {NoRef}, st : 0..version, then : Then,
                      todo : Seq(Names), deref : Nat, res : Names \cup {NoName}]
      /\ lookup'.oid = lookup.oid /\ lookup'.res = lookup.res /\ lookup'.then = lookup.then
      /\ IF queue[1] = "lookup" THEN lookup.at = "queued" /\ lookup'.at = "loose" ELSE lookup' = lookup
  <2>1. queue[1] = "lookup" => lookup.at = "queued"
    BY <1>2 DEF DbInv, Turns
  <2>2. QED
    BY <1>1, <1>3, <2>1 DEF LookupAt
<1>5. /\ sort' \in [at : {"none", "queued", "sorting"}, entries : SUBSET Tag]
      /\ IF queue[1] = "sort"
         THEN sort.at = "queued" /\ sort'.at = "sorting" /\ sort'.entries = id2name.entries
         ELSE sort' = sort
      /\ sort # NoSort <=> sort' # NoSort
  <2>1. queue[1] = "sort" => sort.at = "queued"
    BY <1>2, Alone
  <2>2. NoSort.at = "none"
    BY DEF NoSort
  <2>3. QED
    BY <1>1, <1>3, <2>1, <2>2
<1>6. DbTypes'
  <2>1. TagDbTypeOK'
    BY <1>1, <1>4, <1>5 DEF DbInv, DbTypes, TagDbTypeOK
  <2>2. QED
    BY <1>1, <1>2, <1>4, <1>5, <2>1 DEF DbInv, DbTypes, Jobs
<1>7. Turns'
  <2>1. (dirty' <=> sort' # NoSort) /\ (Queued("sort")' <=> sort'.at = "queued")
        /\ (sort'.at = "sorting" => sort'.entries = id2name'.entries)
        /\ (main' = "gone" => sort' = NoSort)
    BY <1>1, <1>2, <1>5, Alone
  <2>2. SortIsAlone'
    BY <1>1, <1>2, <1>6, <2>1, Alone, AloneNext DEF DbTypes
  <2>3. (Queued("lookup")' <=> lookup'.at = "queued") /\ (lookup'.at # "none" <=> lookup.at # "none")
        /\ (lookup'.at = "none" => lookup' = lookup)
        /\ (lookup'.at \in {"read", "reset"} => lookup' = lookup)
    BY <1>2, <1>4 DEF DbInv, Turns
  <2>4. QED
    BY <1>1, <1>2, <1>4, <2>2, <2>3 DEF DbInv, Turns
<1>8. Ghosts' /\ \A n : (PackedTo(n)' <=> PackedTo(n)) /\ (InLoose(loose, n)' <=> InLoose(loose, n))
  BY <1>1, <1>4, FilesStay
<1>9. \A n : IsLooseTag(n)' <=> IsLooseTag(n)
  BY <1>1 DEF IsLooseTag
<1>10. CASE queue[1] = "lookup"
  <2>1. Cached'
    BY <1>1, <1>4, <1>10 DEF DbInv, Cached
  <2>2. ListedRight' /\ SearchRight' /\ ResultRight'
    BY <1>1, <1>4, <1>10 DEF DbInv, ListedRight, SearchRight, ResultRight, AnswerIsTrue
  <2>3. QED
    BY <1>6, <1>7, <1>8, <2>1, <2>2 DEF DbInv
<1>11. CASE lookup' = lookup
  <2>1. Cached' /\ SearchRight' /\ ResultRight'
    BY <1>1, <1>9, <1>11 DEF DbInv, Cached, SearchRight, ResultRight, AnswerIsTrue, Answerable, Missed
  <2>2. ListedRight'
    BY <1>1, <1>8, <1>9, <1>11 DEF DbInv, ListedRight, Answerable
  <2>3. QED
    BY <1>6, <1>7, <1>8, <2>1, <2>2 DEF DbInv
<1>12. QED
  BY <1>4, <1>10, <1>11

LEMMA SortByIdStep ==
  ASSUME DbInv, SortById
  PROVE  DbInv'
<1>1. /\ UNCHANGED <<loose, packed, version, obsolete, events, queue, looseTags, packStat, name2id,
                     lookup, main, was, kept, packedWas, unseen>>
      /\ sort.at = "sorting" /\ sort' = NoSort /\ id2name' = [id2name EXCEPT !.sorted = TRUE]
      /\ dirty' = FALSE /\ asleep' \subseteq asleep
  BY DEF SortById, files, ghosts
<1>2. (Once("lookup")' <=> Once("lookup")) /\ (Queued("lookup")' <=> Queued("lookup"))
      /\ (Once("sort")' <=> Once("sort")) /\ (Queued("sort")' <=> Queued("sort"))
  BY <1>1 DEF Once, Queued
<1>3. /\ id2name' \in [entries : SUBSET Tag, sorted : BOOLEAN] /\ id2name'.entries = id2name.entries
      /\ id2name'.sorted
  BY <1>1 DEF DbInv, DbTypes
<1>4. NoSort.at = "none" /\ NoSort.entries = {}
  BY DEF NoSort
<1>5. DbTypes'
  <2>1. TagDbTypeOK'
    BY <1>1, <1>4 DEF DbInv, DbTypes, TagDbTypeOK
  <2>2. sort' \in [at : {"none", "queued", "sorting"}, entries : SUBSET Tag]
    BY <1>1 DEF NoSort
  <2>3. QED
    BY <1>1, <1>3, <2>1, <2>2 DEF DbInv, DbTypes
<1>6. Turns'
  <2>1. SortIsAlone'
    BY <1>1, <1>2, <1>3, <1>4, <1>5, Alone, AloneNext DEF DbTypes
  <2>2. lookup.at = "read" => FALSE
    BY <1>1, <1>4, Alone DEF DbInv, Turns
  <2>3. QED
    BY <1>1, <1>2, <1>3, <2>1, <2>2 DEF DbInv, Turns
<1>7. Ghosts' /\ \A n : (PackedTo(n)' <=> PackedTo(n)) /\ (InLoose(loose, n)' <=> InLoose(loose, n))
  BY <1>1, FilesStay
<1>8. \A n : IsLooseTag(n)' <=> IsLooseTag(n)
  BY <1>1 DEF IsLooseTag
<1>9. Cached' /\ SearchRight' /\ ResultRight'
  BY <1>1, <1>8 DEF DbInv, Cached, SearchRight, ResultRight, AnswerIsTrue, Answerable, Missed
<1>10. ListedRight'
  BY <1>1, <1>7, <1>8 DEF DbInv, ListedRight, Answerable
<1>11. QED
  BY <1>5, <1>6, <1>7, <1>9, <1>10 DEF DbInv

-----------------------------------------------------------------------------
(* The lookup.                                                             *)

LEMMA GreatestNumber ==
  ASSUME NEW S \in SUBSET Nat, IsFiniteSet(S), S # {}
  PROVE  Max(S) \in S /\ \A x \in S : x <= Max(S)
<1> DEFINE n == Cardinality(S)
<1>1. n \in Nat /\ n # 0
  BY FS_CardinalityType, FS_EmptySet
<1>2. PICK s : Increasing(s, S)
  BY Enumeration
<1>3. s \in [1..n -> S] /\ \A i, j \in 1..n : i < j => s[i] < s[j]
  BY <1>2 DEF Increasing
<1>4. \A i, j \in 1..n : s[i] = s[j] => i = j
  <2> SUFFICES ASSUME NEW i \in 1..n, NEW j \in 1..n, s[i] = s[j], i # j PROVE FALSE
    OBVIOUS
  <2>1. s[i] \in Nat /\ s[j] \in Nat
    BY <1>3
  <2>2. QED
    BY <1>1, <1>3, <2>1
<1>5. Range(s) = S
  BY <1>3, <1>4, OneToOne
<1>6. n \in 1..n /\ s[n] \in S
  BY <1>1, <1>3
<1>7. ASSUME NEW x \in S PROVE s[n] >= x
  <2>1. PICK i \in 1..n : x = s[i]
    BY <1>3, <1>5 DEF Range
  <2>2. i = n \/ s[i] < s[n]
    BY <1>1, <1>3, <1>6
  <2>3. s[i] \in Nat /\ s[n] \in Nat
    BY <1>3, <1>6
  <2>4. QED
    BY <2>1, <2>2, <2>3
<1>8. Max(S) \in S /\ \A x \in S : Max(S) >= x
  BY <1>6, <1>7 DEF Max
<1>9. QED
  BY <1>8

\* What a step of the lookup that leaves the index of packed tags alone has
\* to show of the types and of who runs.
LEMMA LookupSteps ==
  ASSUME DbInv,
         UNCHANGED <<loose, packed, version, obsolete, events, queue, name2id, id2name, dirty, sort,
                     asleep, main, was, kept, packedWas>>,
         unseen' \subseteq Names, looseTags' \in Seq(Names), packStat' \in 0..version,
         lookup' \in [at : LookupAt, oid : Commits \cup {NoRef}, st : 0..version, then : Then,
                      todo : Seq(Names), deref : Nat, res : Names \cup {NoName}],
         lookup'.oid = lookup.oid,
         lookup.at \notin {"none", "queued"}, lookup'.at \notin {"none", "queued"},
         lookup'.at = "read" => ~dirty /\ name2id = <<>>,
         lookup'.at = "reset" => lookup'.then # "none"
  PROVE  /\ DbTypes' /\ Turns' /\ Ghosts'
         /\ \A n : (PackedTo(n)' <=> PackedTo(n)) /\ (InLoose(loose, n)' <=> InLoose(loose, n))
<1>1. (Once("lookup")' <=> Once("lookup")) /\ (Queued("lookup")' <=> Queued("lookup"))
      /\ (Once("sort")' <=> Once("sort")) /\ (Queued("sort")' <=> Queued("sort"))
  BY DEF Once, Queued
<1>2. DbTypes'
  <2>1. TagDbTypeOK'
    BY DEF DbInv, DbTypes, TagDbTypeOK, LookupAt
  <2>2. QED
    BY <2>1 DEF DbInv, DbTypes
<1>3. Turns'
  <2>1. SortIsAlone'
    BY <1>1, <1>2, Alone, AloneNext DEF DbTypes
  <2>2. QED
    BY <1>1, <2>1 DEF DbInv, Turns
<1>4. QED
  BY <1>2, <1>3, FilesStay

LEMMA LookupType ==
  ASSUME DbInv
  PROVE  /\ lookup \in [at : LookupAt, oid : Commits \cup {NoRef}, st : 0..version, then : Then,
                        todo : Seq(Names), deref : Nat, res : Names \cup {NoName}]
         /\ looseTags \in Seq(Names) /\ packStat \in 0..version /\ version \in 0..version /\ version # 0
         /\ unseen \subseteq Names
         /\ lookup.at # "none" => lookup.oid \in Commits /\ lookup.oid # NoRef
<1>1. version \in 0..version /\ version # 0
  BY GitTypes DEF DbInv
<1>2. QED
  BY <1>1, Targets DEF DbInv, DbTypes, TagDbTypeOK, Turns

\* A tag that is known is not a directory, whichever are listed.
LEMMA EntryOfTag ==
  ASSUME DbInv, NEW n \in Names, IsTag(loose, packed, n)
  PROVE  n \in Entries(loose) <=> InLoose(loose, n) /\ n \notin Nested
BY DEF DbInv, Ghosts, NoClash, IsTag, Entries

LEMMA ReadLooseTagsStep ==
  ASSUME DbInv, ReadLooseTags
  PROVE  DbInv'
<1> DEFINE S == Entries(loose)
<1>1. /\ UNCHANGED <<loose, packed, version, obsolete, events, queue, packStat, name2id, id2name,
                     dirty, sort, asleep, main, was, kept, packedWas>>
      /\ lookup.at = "loose" /\ lookup' = [lookup EXCEPT !.at = "stat"]
      /\ \/ looseTags' = InOrder(S, <) /\ unseen' = Nested
         \/ looseTags' = <<>> /\ unseen' = Names
  BY DEF ReadLooseTags, files, pack
<1>2. IsFiniteSet(S) /\ S \in SUBSET Nat /\ S \subseteq Names
  BY Given, FS_Subset DEF Entries
<1> HIDE DEF S
<1>3. \/ looseTags' \in Seq(S) /\ Range(looseTags') = S /\ unseen' = Nested
      \/ looseTags' = <<>> /\ Range(looseTags') = {} /\ unseen' = Names
  <2>1. InOrder(S, <) \in Seq(S) /\ Range(InOrder(S, <)) = S
    BY <1>2, NumbersInOrder
  <2>2. Range(<<>>) = {}
    BY DEF Range
  <2>3. QED
    BY <1>1, <2>1, <2>2, Zenon
<1>4. \/ unseen' = Nested /\ \A n : IsLooseTag(n)' <=> n \in S
      \/ unseen' = Names /\ \A n : ~IsLooseTag(n)'
  BY <1>3 DEF IsLooseTag
<1>5. looseTags' \in Seq(Names) /\ unseen' \subseteq Names
  <2>1. ASSUME NEW s \in Seq(S) PROVE s \in Seq(Names)
    <3>1. s \in [1..Len(s) -> S] /\ Len(s) \in Nat
      BY LenProperties, ElementOfSeq
    <3>2. s \in [1..Len(s) -> Names]
      BY <1>2, <3>1
    <3>3. QED
      BY <3>1, <3>2
  <2>2. <<>> \in Seq(Names)
    OBVIOUS
  <2>3. Nested \subseteq Names
    BY TagDbAssumption
  <2>4. QED
    BY <1>3, <2>1, <2>2, <2>3
<1>6. /\ lookup' \in [at : LookupAt, oid : Commits \cup {NoRef}, st : 0..version, then : Then,
                      todo : Seq(Names), deref : Nat, res : Names \cup {NoName}]
      /\ lookup'.at = "stat" /\ lookup'.oid = lookup.oid /\ lookup'.res = lookup.res
  BY <1>1, LookupType DEF LookupAt
<1>7. DbTypes' /\ Turns' /\ Ghosts'
      /\ \A n : (PackedTo(n)' <=> PackedTo(n)) /\ (InLoose(loose, n)' <=> InLoose(loose, n))
  BY <1>1, <1>5, <1>6, LookupType, LookupSteps
<1>8. ListedRight'
  <2>1. lookup.oid \in Commits /\ lookup.oid # NoRef
    BY <1>1, LookupType
  <2>2. ASSUME NEW n \in Names, IsTag(loose, packed, n)
        PROVE  IsLooseTag(n)' <=> InLoose(loose, n) /\ n \notin unseen'
    BY <1>4, <2>2, EntryOfTag DEF S
  <2>3. ASSUME NEW n \in Names, ~IsLooseTag(n)', PackedTo(n) PROVE n \in Answerable'
    <3>1. IsTag(loose, packed, n)
      BY <2>3 DEF IsTag, PackedTo
    <3>2. CASE InLoose(loose, n)
      <4>1. n \in PackedTags(packed, lookup.oid)
        BY <2>1, <2>3 DEF PackedTags, PackedTo
      <4>2. QED
        BY <1>1, <2>2, <2>3, <3>1, <3>2, <4>1 DEF DbInv, Ghosts, Answerable
    <3>3. CASE ~InLoose(loose, n)
      BY <1>1, <2>1, <2>3, <3>3, TagsAre DEF DbInv, Ghosts, Answerable
    <3>4. QED
      BY <3>2, <3>3
  <2>4. ASSUME NEW n \in kept PROVE n \in Names /\ IsTag(loose, packed, n)
    <3>1. n \in Names /\ n \in GitTags(loose, packed, lookup.oid)
      BY DEF DbInv, DbTypes, Ghosts, Findable
    <3>2. InLoose(loose, n) \/ PackedTo(n)
      BY <2>1, <3>1, TagsAre DEF DbInv
    <3>3. QED
      BY <3>1, <3>2 DEF IsTag, PackedTo
  <2>5. QED
    BY <1>1, <1>6, <1>7, <2>2, <2>3, <2>4 DEF ListedRight
<1>9. Cached' /\ SearchRight' /\ ResultRight'
  <2>1. lookup'.res = NoName
    BY <1>1, <1>6 DEF DbInv, ResultRight
  <2>2. QED
    BY <1>1, <1>6, <2>1 DEF DbInv, Cached, SearchRight, ResultRight, AnswerIsTrue
<1>10. QED
  BY <1>7, <1>8, <1>9 DEF DbInv

\* What is read off packed-refs is of the commit only if the tag is, and for
\* a tag that stayed in it, it is there to be read.
LEMMA ParsedRight ==
  ASSUME DbInv, lookup.oid \in Commits, packed.exists
  PROVE  /\ \A t \in Parsed(packed) : t.id = lookup.oid => PackedTo(t.name) /\ t.name \in Names
         /\ \A n \in kept : ~InLoose(loose, n) =>
              \E t \in Parsed(packed) : t.name = n /\ t.id = lookup.oid
<1>1. /\ \A l \in Range(packed.lines) : l \in Line /\ l.peeled \in {NoRef, Commit(l.id)}
      /\ packed.header # "none" => Parsed(packed) = {TagOf(l) : l \in Range(packed.lines)}
      /\ packed.header = "none" => Parsed(packed) = {}
  <2>1. packed.lines \in Seq(Line) /\ DOMAIN TagsOf(packed.lines) = DOMAIN packed.lines
    BY DEF DbInv, DbTypes, File, TagsOf
  <2>2. \A i \in DOMAIN packed.lines : TagsOf(packed.lines)[i] = TagOf(packed.lines[i])
    BY DEF TagsOf
  <2>3. Range(TagsOf(packed.lines)) = {TagOf(l) : l \in Range(packed.lines)}
    <3> HIDE DEF TagsOf
    <3> QED
      BY <2>1, <2>2 DEF Range
  <2>4. \A l \in Range(packed.lines) : l \in Line
    BY <2>1 DEF Range
  <2>5. \A l \in Range(packed.lines) : l.peeled \in {NoRef, Commit(l.id)}
    BY DEF DbInv, DbTypes, WellFormed
  <2>6. QED
    BY <2>3, <2>4, <2>5 DEF Parsed
<1>2. \A l \in Line : TagOf(l).name = l.name /\ l.name \in Names
                      /\ TagOf(l).id = IF l.peeled = NoRef THEN l.id ELSE l.peeled
  BY DEF TagOf, Line
<1>3. ASSUME NEW t \in Parsed(packed), t.id = lookup.oid
      PROVE  PackedTo(t.name) /\ t.name \in Names
  <2>1. PICK l \in Range(packed.lines) : t = TagOf(l)
    BY <1>1
  <2>2. l \in Line /\ l \in PackedLines(packed, t.name) /\ t.name \in Names
    BY <1>1, <1>2, <2>1 DEF PackedLines
  <2>3. Commit(l.id) = lookup.oid
    <3>1. CASE l.peeled = NoRef
      BY <1>2, <1>3, <2>1, <2>2, <3>1, Targets
    <3>2. CASE l.peeled # NoRef
      BY <1>1, <1>2, <1>3, <2>1, <2>2, <3>2
    <3>3. QED
      BY <3>1, <3>2
  <2>4. QED
    BY <2>2, <2>3 DEF PackedTo
<1>4. ASSUME NEW n \in kept, ~InLoose(loose, n)
      PROVE  \E t \in Parsed(packed) : t.name = n /\ t.id = lookup.oid
  <2>1. n \in GitTags(loose, packed, lookup.oid) /\ Readable(packed, n) /\ n \in Names
    BY <1>4 DEF DbInv, Ghosts, Findable, DbTypes
  <2>2. PICK l \in PackedLines(packed, n) : Commit(l.id) = lookup.oid
    BY <2>1, <1>4, TagsAre DEF DbInv, PackedTo
  <2>3. /\ packed.header # "none" /\ l \in Range(packed.lines) /\ l.name = n
        /\ l.id \in Commits \/ l.peeled # NoRef
    BY <2>1, <2>2 DEF Readable, PackedLines
  <2>4. TagOf(l) \in Parsed(packed) /\ TagOf(l).name = n /\ l \in Line
    BY <2>3, <1>1, <1>2
  <2>5. TagOf(l).id = lookup.oid
    <3>1. CASE l.peeled = NoRef
      BY <1>2, <2>2, <2>3, <2>4, <3>1, Targets
    <3>2. CASE l.peeled # NoRef
      BY <1>1, <1>2, <2>2, <2>3, <2>4, <3>2
    <3>3. QED
      BY <3>1, <3>2
  <2>6. QED
    BY <2>4, <2>5
<1>5. QED
  BY <1>3, <1>4

LEMMA SearchBegins ==
  ASSUME DbInv, lookup.at \in {"stat", "read"}, packed.exists
  PROVE  /\ \A t \in Parsed(packed) : t.id = lookup.oid /\ ~IsLooseTag(t.name) => t.name \in Answerable
         /\ \A n \in kept : ~IsLooseTag(n) =>
              Missed(n) \/ \E t \in Parsed(packed) : t.name = n /\ t.id = lookup.oid
<1>1. lookup.oid \in Commits /\ lookup.oid # NoRef
  BY LookupType
<1>2. /\ \A n \in kept : IsLooseTag(n) <=> InLoose(loose, n) /\ n \notin unseen
      /\ \A n \in Names : ~IsLooseTag(n) /\ PackedTo(n) => n \in Answerable
  BY <1>1 DEF DbInv, ListedRight
<1>3. QED
  BY <1>1, <1>2, ParsedRight DEF Missed

LEMMA StatPackStep ==
  ASSUME DbInv, StatPack
  PROVE  DbInv'
<1>1. /\ UNCHANGED <<loose, packed, version, obsolete, events, queue, looseTags, packStat, name2id,
                     id2name, dirty, sort, asleep, main, was, kept, packedWas, unseen>>
      /\ lookup.at = "stat"
  BY DEF StatPack, files, pack, ghosts
<1>2. \/ ~packed.exists /\ lookup' = [lookup EXCEPT !.at = "reset", !.then = "tags"]
      \/ packed.exists /\ packStat = version /\ lookup' = [lookup EXCEPT !.at = "tags", !.todo = looseTags]
      \/ lookup' = [lookup EXCEPT !.at = "reset", !.then = "read", !.st = version]
  BY DEF StatPack
<1>3. /\ lookup' \in [at : LookupAt, oid : Commits \cup {NoRef}, st : 0..version, then : Then,
                      todo : Seq(Names), deref : Nat, res : Names \cup {NoName}]
      /\ lookup'.oid = lookup.oid /\ lookup'.res = lookup.res
      /\ \/ ~packed.exists /\ lookup'.at = "reset" /\ lookup'.then = "tags"
         \/ packed.exists /\ packStat = version /\ lookup'.at = "tags" /\ lookup'.todo = looseTags
         \/ lookup'.at = "reset" /\ lookup'.then = "read"
  BY <1>2, LookupType DEF LookupAt, Then
<1>4. DbTypes' /\ Turns' /\ Ghosts'
      /\ \A n : (PackedTo(n)' <=> PackedTo(n)) /\ (InLoose(loose, n)' <=> InLoose(loose, n))
  BY <1>1, <1>3, LookupType, LookupSteps
<1>5. \A n : IsLooseTag(n)' <=> IsLooseTag(n)
  BY <1>1 DEF IsLooseTag
<1>6. Cached'
  BY <1>1, <1>3 DEF DbInv, Cached
<1>7. ListedRight'
  <2>1. ASSUME ~packed.exists, NEW n \in kept PROVE InLoose(loose, n)
    <3>1. n \in GitTags(loose, packed, lookup.oid) /\ n \in Names
      BY DEF DbInv, Ghosts, Findable, DbTypes
    <3>2. ~PackedTo(n)
      BY <2>1 DEF PackedTo, PackedLines
    <3>3. QED
      BY <1>1, <3>1, <3>2, TagsAre, LookupType DEF DbInv
  <2>2. QED
    BY <1>1, <1>3, <1>4, <1>5, <2>1 DEF DbInv, ListedRight, Answerable
<1>8. SearchRight'
  <2> SUFFICES ASSUME lookup'.at = "tags" PROVE SearchRight'
    BY DEF SearchRight
  <2>1. packed.exists /\ packStat = version /\ lookup'.todo = looseTags
    BY <1>3
  <2>2. Range(name2id) = Parsed(packed)
    BY <1>1, <2>1 DEF DbInv, Cached
  <2>3. Range(lookup'.todo) \subseteq Range(looseTags) /\ \A n : IsLooseTag(n) => n \in Range(lookup'.todo)
    BY <2>1 DEF IsLooseTag
  <2>4. QED
    BY <1>1, <1>3, <1>5, <2>1, <2>2, <2>3, SearchBegins DEF SearchRight, Answerable, Missed
<1>9. ResultRight'
  BY <1>1, <1>3 DEF DbInv, ResultRight, AnswerIsTrue
<1>10. QED
  BY <1>4, <1>6, <1>7, <1>8, <1>9 DEF DbInv

LEMMA ReadAgainStep ==
  ASSUME DbInv, ReadAgain \/ ReadFails
  PROVE  DbInv'
<1>1. /\ UNCHANGED <<loose, packed, version, obsolete, events, queue, looseTags, name2id, id2name,
                     dirty, sort, asleep, main, was, kept, packedWas, unseen>>
      /\ lookup.at = "read" /\ packStat' \in {packStat, version}
      /\ \/ lookup' = [lookup EXCEPT !.st = version]
         \/ lookup' = [lookup EXCEPT !.at = "reset", !.then = "failed"]
  BY DEF ReadAgain, ReadFails, files, ghosts
<1>2. /\ lookup' \in [at : LookupAt, oid : Commits \cup {NoRef}, st : 0..version, then : Then,
                      todo : Seq(Names), deref : Nat, res : Names \cup {NoName}]
      /\ lookup'.oid = lookup.oid /\ lookup'.res = lookup.res
      /\ lookup'.at = "read" \/ (lookup'.at = "reset" /\ lookup'.then = "failed")
  BY <1>1, LookupType DEF LookupAt, Then
<1>3. ~dirty /\ name2id = <<>> /\ packStat' \in 0..version
  BY <1>1, LookupType DEF DbInv, Turns
<1>4. DbTypes' /\ Turns' /\ Ghosts'
      /\ \A n : (PackedTo(n)' <=> PackedTo(n)) /\ (InLoose(loose, n)' <=> InLoose(loose, n))
  BY <1>1, <1>2, <1>3, LookupType, LookupSteps
<1>5. \A n : IsLooseTag(n)' <=> IsLooseTag(n)
  BY <1>1 DEF IsLooseTag
<1>6. ListedRight'
  BY <1>1, <1>2, <1>4, <1>5 DEF DbInv, ListedRight, Answerable
<1>7. Cached' /\ SearchRight' /\ ResultRight'
  BY <1>1, <1>2 DEF DbInv, Cached, SearchRight, ResultRight, AnswerIsTrue
<1>8. QED
  BY <1>4, <1>6, <1>7 DEF DbInv

\* What the lookup left is as it was, for a step that changes only the index.
LEMMA IndexSteps ==
  ASSUME DbInv, UNCHANGED <<loose, packed, version, obsolete, events, looseTags, asleep, main, was, kept, packedWas, unseen>>,
         lookup.at \in {"reset", "read"}, lookup'.at \in {"tags", "read", "failed"},
         lookup'.oid = lookup.oid, lookup'.res = lookup.res
  PROVE  /\ Ghosts' /\ ListedRight' /\ ResultRight'
         /\ \A n : (PackedTo(n)' <=> PackedTo(n)) /\ (InLoose(loose, n)' <=> InLoose(loose, n))
         /\ \A n : IsLooseTag(n)' <=> IsLooseTag(n)
<1>1. Ghosts' /\ \A n : (PackedTo(n)' <=> PackedTo(n)) /\ (InLoose(loose, n)' <=> InLoose(loose, n))
  BY FilesStay
<1>2. \A n : IsLooseTag(n)' <=> IsLooseTag(n)
  BY DEF IsLooseTag
<1>3. ListedRight'
  BY <1>1, <1>2 DEF DbInv, ListedRight, Answerable
<1>4. ResultRight'
  BY DEF DbInv, ResultRight, AnswerIsTrue
<1>5. QED
  BY <1>1, <1>2, <1>3, <1>4

LEMMA ResetStep ==
  ASSUME DbInv, Reset
  PROVE  DbInv'
<1>1. /\ UNCHANGED <<loose, packed, version, obsolete, events, queue, looseTags, dirty, sort, asleep,
                     main, was, kept, packedWas, unseen>>
      /\ lookup.at = "reset" /\ ~dirty
      /\ packStat' = 0 /\ name2id' = <<>> /\ id2name' = [entries |-> {}, sorted |-> FALSE]
      /\ lookup' = [lookup EXCEPT !.at = lookup.then, !.todo = looseTags]
  BY DEF Reset, ResetNow, Waited, NoStat, files, ghosts
<1>2. lookup.then \in {"tags", "read", "failed"}
  BY <1>1, LookupType DEF DbInv, Turns, Then
<1>3. /\ lookup' \in [at : LookupAt, oid : Commits \cup {NoRef}, st : 0..version, then : Then,
                      todo : Seq(Names), deref : Nat, res : Names \cup {NoName}]
      /\ lookup'.oid = lookup.oid /\ lookup'.res = lookup.res /\ lookup'.todo = looseTags
      /\ lookup'.at = lookup.then
  BY <1>1, <1>2, LookupType DEF LookupAt
<1>4. /\ (Once("lookup")' <=> Once("lookup")) /\ (Queued("lookup")' <=> Queued("lookup"))
      /\ (Once("sort")' <=> Once("sort")) /\ (Queued("sort")' <=> Queued("sort"))
  BY <1>1 DEF Once, Queued
<1>5. /\ Range(name2id') = {} /\ id2name'.entries = {} /\ ~id2name'.sorted /\ name2id' \in Seq(Tag)
      /\ id2name' \in [entries : SUBSET Tag, sorted : BOOLEAN] /\ DOMAIN name2id' = {}
  BY <1>1 DEF Range
<1>6. DbTypes'
  <2>1. 0 \in 0..version
    BY GitTypes DEF DbInv
  <2>2. TagDbTypeOK'
    BY <1>1, <1>2, <1>3, <2>1 DEF DbInv, DbTypes, TagDbTypeOK
  <2>3. QED
    BY <1>1, <1>3, <1>5, <2>2 DEF DbInv, DbTypes
<1>7. Turns'
  <2>1. sort = NoSort /\ NoSort.at = "none"
    BY <1>1, Alone DEF NoSort
  <2>2. SortIsAlone'
    BY <1>1, <1>4, <1>5, <1>6, <2>1, Alone, AloneNext DEF DbTypes
  <2>3. QED
    BY <1>1, <1>2, <1>3, <1>4, <1>5, <2>2 DEF DbInv, Turns
<1>8. /\ Ghosts' /\ ListedRight' /\ ResultRight'
      /\ \A n : (PackedTo(n)' <=> PackedTo(n)) /\ (InLoose(loose, n)' <=> InLoose(loose, n))
      /\ \A n : IsLooseTag(n)' <=> IsLooseTag(n)
  BY <1>1, <1>2, <1>3, IndexSteps
<1>9. Cached'
  BY <1>1, <1>5, LookupType DEF Cached
<1>10. SearchRight'
  <2>1. Range(looseTags) = Range(looseTags') /\ \A n : IsLooseTag(n) => n \in Range(looseTags)
    BY <1>1 DEF IsLooseTag
  <2>2. lookup.then = "tags" => \A n \in kept : IsLooseTag(n) \/ Missed(n)
    BY <1>1 DEF DbInv, ListedRight, Missed
  <2>3. QED
    BY <1>1, <1>3, <1>5, <1>8, <2>1, <2>2 DEF SearchRight, Missed
<1>11. QED
  BY <1>6, <1>7, <1>8, <1>9, <1>10 DEF DbInv

\* The lines of a file, each with its tag, can be put in the order of names.
LEMMA TagsInOrder ==
  ASSUME DbInv
  PROVE  LET s == SortedByName(TagsOf(packed.lines))
         IN  /\ s \in Seq(Tag) /\ Range(s) = Range(TagsOf(packed.lines))
             /\ \A i, j \in DOMAIN s : i < j => ByName(s[i], s[j])
<1> DEFINE q == packed.lines
           t == TagsOf(q)
           S == Range(t)
           s == SortedByName(t)
<1>1. /\ q \in Seq(Line) /\ \A i \in DOMAIN q : q[i] \in Line
      /\ DOMAIN q = 1..Len(q) /\ Len(q) \in Nat
  <2>1. q \in Seq(Line)
    BY DEF DbInv, DbTypes, File
  <2>2. QED
    BY <2>1, LenProperties, ElementOfSeq
<1>2. DOMAIN t = DOMAIN q /\ \A i \in DOMAIN q : t[i] = TagOf(q[i])
  BY DEF TagsOf
<1>3. ASSUME NEW i \in DOMAIN q, NEW j \in DOMAIN q, TagOf(q[i]).name = TagOf(q[j]).name
      PROVE  TagOf(q[i]) = TagOf(q[j])
  <2>1. q[i] \in Range(q) /\ q[j] \in Range(q) /\ q[i].name = q[j].name
    BY <1>3 DEF Range, TagOf
  <2>2. q[i] = q[j]
    BY <2>1 DEF DbInv, DbTypes, WellFormed
  <2>3. QED
    BY <2>2
<1>4. \A l \in Line : TagOf(l) \in Tag /\ TagOf(l).name \in Nat
  BY Given DEF TagOf, Line, Tag, Object
<1> HIDE DEF q, t
<1>5. /\ \A x \in S : x \in Tag /\ x.name \in Nat
      /\ \A x, y \in S : x.name = y.name => x = y
  BY <1>1, <1>2, <1>3, <1>4 DEF Range
<1>6. IsFiniteSet(S)
  <2>1. IsFiniteSet(DOMAIN q)
    BY <1>1, FS_Interval
  <2>2. t \in Surjection(DOMAIN q, S)
    <3>1. t \in [DOMAIN q -> S]
      <4>1. t = [i \in DOMAIN q |-> t[i]]
        BY <1>2 DEF t, TagsOf
      <4>2. \A i \in DOMAIN q : t[i] \in S
        BY <1>2 DEF Range
      <4>3. QED
        BY <4>1, <4>2
    <3>2. QED
      BY <3>1, <1>2, Zenon DEF Surjection, Range
  <2>3. QED
    BY <2>1, <2>2, FS_Surjection
<1>7. s \in Seq(S) /\ Range(s) = S /\ \A i, j \in DOMAIN s : i < j => ByName(s[i], s[j])
  BY <1>5, <1>6, RecordsInOrder DEF SortedByName
<1> HIDE DEF s, S
<1>8. s \in Seq(Tag)
  BY <1>5, <1>7
<1>9. QED
  BY <1>7, <1>8 DEF s, S, t, q

LEMMA ReadStep ==
  ASSUME DbInv, Read
  PROVE  DbInv'
<1>1. /\ UNCHANGED <<loose, packed, version, obsolete, events, looseTags, asleep, main, was, kept, packedWas, unseen>>
      /\ lookup.at = "read" /\ packed.exists /\ packStat' = version
      /\ lookup' = [lookup EXCEPT !.at = "tags", !.todo = looseTags]
      /\ IF packed.header = "none" THEN UNCHANGED <<name2id, id2name, dirty, queue, sort>>
         ELSE /\ name2id' = SortedByName(TagsOf(packed.lines))
              /\ id2name' = [entries |-> Range(TagsOf(packed.lines)), sorted |-> FALSE]
              /\ dirty' = TRUE /\ sort' = [NoSort EXCEPT !.at = "queued"] /\ queue' = Append(queue, "sort")
  BY DEF Read, files, ghosts
<1>2. /\ lookup' \in [at : LookupAt, oid : Commits \cup {NoRef}, st : 0..version, then : Then,
                      todo : Seq(Names), deref : Nat, res : Names \cup {NoName}]
      /\ lookup'.oid = lookup.oid /\ lookup'.res = lookup.res /\ lookup'.todo = looseTags
      /\ lookup'.at = "tags"
  BY <1>1, LookupType DEF LookupAt
<1>3. ~dirty /\ name2id = <<>> /\ sort = NoSort /\ ~Queued("sort") /\ id2name.entries = {}
  <2>1. ~dirty /\ name2id = <<>>
    BY <1>1 DEF DbInv, Turns
  <2>2. Range(<<>>) = {}
    BY DEF Range
  <2>3. QED
    BY <2>1, <2>2, Alone DEF NoSort
<1>4. /\ name2id' \in Seq(Tag) /\ Range(name2id') = Parsed(packed) /\ id2name'.entries = Range(name2id')
      /\ id2name' \in [entries : SUBSET Tag, sorted : BOOLEAN]
      /\ \A i, j \in DOMAIN name2id' : i < j => ByName(name2id'[i], name2id'[j])
  <2>1. CASE packed.header = "none"
    <3>1. Range(<<>>) = {} /\ DOMAIN <<>> = {}
      BY DEF Range
    <3>2. Parsed(packed) = {}
      BY <2>1 DEF Parsed
    <3>3. QED
      BY <1>1, <1>3, <2>1, <3>1, <3>2 DEF DbInv, DbTypes
  <2>2. CASE packed.header # "none"
    <3> DEFINE s == SortedByName(TagsOf(packed.lines))
    <3>2. /\ name2id' = s /\ id2name' = [entries |-> Range(TagsOf(packed.lines)), sorted |-> FALSE]
          /\ Parsed(packed) = Range(TagsOf(packed.lines))
      BY <1>1, <2>2 DEF Parsed
    <3>3. s \in Seq(Tag) /\ Range(s) = Range(TagsOf(packed.lines))
          /\ \A i, j \in DOMAIN s : i < j => ByName(s[i], s[j])
      BY TagsInOrder
    <3> HIDE DEF s
    <3>4. Range(s) \subseteq Tag
      BY <3>3 DEF Range
    <3>5. QED
      BY <3>2, <3>3, <3>4
  <2>3. QED
    BY <2>1, <2>2
<1>5. /\ queue' \in Seq(Jobs) /\ Once("lookup")' /\ (Queued("lookup")' <=> Queued("lookup")) /\ Once("sort")'
      /\ (Queued("sort")' <=> sort'.at = "queued") /\ (dirty' <=> sort' # NoSort) /\ dirty' \in BOOLEAN
      /\ sort' \in [at : {"none", "queued", "sorting"}, entries : SUBSET Tag] /\ sort'.at # "sorting"
      /\ dirty' => ~id2name'.sorted
      /\ ~dirty' => id2name' = id2name
  <2>1. queue \in Seq(Jobs) /\ Once("lookup") /\ Once("sort")
    BY Alone DEF DbInv, DbTypes, Turns, Jobs
  <2>2. NoSort = [at |-> "none", entries |-> {}]
    BY DEF NoSort
  <2>3. CASE packed.header = "none"
    <3>1. UNCHANGED <<queue, id2name, dirty, sort>>
      BY <1>1, <2>3
    <3>2. (Once("lookup")' <=> Once("lookup")) /\ (Queued("lookup")' <=> Queued("lookup"))
          /\ (Once("sort")' <=> Once("sort")) /\ (Queued("sort")' <=> Queued("sort"))
      BY <3>1 DEF Once, Queued
    <3>3. sort' = NoSort /\ dirty' = FALSE /\ dirty' = dirty
      BY <1>3, <3>1, Alone DEF DbInv, DbTypes, TagDbTypeOK
    <3>4. sort' \in [at : {"none", "queued", "sorting"}, entries : SUBSET Tag] /\ sort'.at = "none"
      BY <3>3, <2>2
    <3>5. QED
      BY <1>3, <2>1, <3>1, <3>2, <3>3, <3>4
  <2>4. CASE packed.header # "none"
    <3>1. sort' = [at |-> "queued", entries |-> {}] /\ dirty' = TRUE /\ queue' = Append(queue, "sort")
          /\ ~id2name'.sorted
      BY <1>1, <2>2, <2>4
    <3>2. "sort" \in Jobs
      BY DEF Jobs
    <3>3. /\ queue' \in Seq(Jobs) /\ Once("lookup")' /\ (Queued("lookup")' <=> Queued("lookup")) /\ Once("sort")'
          /\ Queued("sort")'
      BY <1>3, <2>1, <3>1, <3>2, QueueAppended
    <3>4. QED
      BY <3>1, <3>3, <2>2
  <2>5. QED
    BY <2>3, <2>4
<1>6. DbTypes'
  <2>1. version \in 0..version /\ version' = version
    BY <1>1, LookupType
  <2>2. TagDbTypeOK'
    BY <1>1, <1>2, <1>5, <2>1 DEF DbInv, DbTypes, TagDbTypeOK
  <2>3. QED
    BY <1>1, <1>2, <1>4, <1>5, <2>2 DEF DbInv, DbTypes, Jobs
<1>7. Turns'
  <2>1. main # "gone"
    BY <1>1 DEF DbInv, Turns
  <2>2. SortIsAlone'
    BY <1>1, <1>4, <1>5, <1>6, <2>1, AloneNext DEF DbTypes
  <2>3. ~dirty' /\ ~id2name'.sorted => id2name'.entries = {}
    BY <1>3, <1>5
  <2>4. QED
    BY <1>1, <1>2, <1>5, <2>2, <2>3 DEF DbInv, Turns
<1>8. /\ Ghosts' /\ ListedRight' /\ ResultRight'
      /\ \A n : (PackedTo(n)' <=> PackedTo(n)) /\ (InLoose(loose, n)' <=> InLoose(loose, n))
      /\ \A n : IsLooseTag(n)' <=> IsLooseTag(n)
  BY <1>1, <1>2, IndexSteps
<1>9. Cached'
  <2>1. Parsed(packed)' = Parsed(packed)
    BY <1>1 DEF Parsed
  <2>2. QED
    BY <1>1, <1>4, <2>1 DEF Cached
<1>10. SearchRight'
  <2>1. Range(looseTags) = Range(looseTags') /\ \A n : IsLooseTag(n) => n \in Range(looseTags)
    BY <1>1 DEF IsLooseTag
  <2>2. /\ \A t \in Parsed(packed) : t.id = lookup.oid /\ ~IsLooseTag(t.name) => t.name \in Answerable
        /\ \A n \in kept : ~IsLooseTag(n) =>
             Missed(n) \/ \E t \in Parsed(packed) : t.name = n /\ t.id = lookup.oid
    BY <1>1, SearchBegins
  <2>3. QED
    BY <1>1, <1>2, <1>4, <1>8, <2>1, <2>2 DEF SearchRight, Answerable, Missed
<1>11. QED
  BY <1>6, <1>7, <1>8, <1>9, <1>10 DEF DbInv

\* What a step of the search that leaves the lists alone has to show.
LEMMA LoopSteps ==
  ASSUME DbInv,
         UNCHANGED <<loose, packed, version, obsolete, events, queue, looseTags, packStat, name2id,
                     id2name, dirty, sort, asleep, main, was, kept, packedWas, unseen>>,
         lookup.at = "tags", lookup'.at \in {"tags", "done"}, lookup'.oid = lookup.oid,
         lookup' \in [at : LookupAt, oid : Commits \cup {NoRef}, st : 0..version, then : Then,
                      todo : Seq(Names), deref : Nat, res : Names \cup {NoName}]
  PROVE  /\ DbTypes' /\ Turns' /\ Ghosts' /\ Cached' /\ ListedRight'
         /\ \A n : IsLooseTag(n)' <=> IsLooseTag(n)
<1>1. DbTypes' /\ Turns' /\ Ghosts'
      /\ \A n : (PackedTo(n)' <=> PackedTo(n)) /\ (InLoose(loose, n)' <=> InLoose(loose, n))
  BY LookupType, LookupSteps
<1>2. \A n : IsLooseTag(n)' <=> IsLooseTag(n)
  BY DEF IsLooseTag
<1>3. Cached'
  BY DEF DbInv, Cached
<1>4. ListedRight'
  BY <1>1, <1>2 DEF DbInv, ListedRight, Answerable
<1>5. QED
  BY <1>1, <1>2, <1>3, <1>4

LEMMA FollowSymbolicStep ==
  ASSUME DbInv, FollowSymbolic
  PROVE  DbInv'
<1>1. /\ UNCHANGED <<loose, packed, version, obsolete, events, queue, looseTags, packStat, name2id,
                     id2name, dirty, sort, asleep, main, was, kept, packedWas, unseen>>
      /\ lookup.at = "tags" /\ lookup' = [lookup EXCEPT !.deref = @ + 1]
  BY DEF FollowSymbolic, LoosePart, files, pack, ghosts
<1>2. /\ lookup' \in [at : LookupAt, oid : Commits \cup {NoRef}, st : 0..version, then : Then,
                      todo : Seq(Names), deref : Nat, res : Names \cup {NoName}]
      /\ lookup'.oid = lookup.oid /\ lookup'.res = lookup.res /\ lookup'.at = "tags"
      /\ lookup'.todo = lookup.todo
  BY <1>1, LookupType DEF LookupAt
<1>3. DbTypes' /\ Turns' /\ Ghosts' /\ Cached' /\ ListedRight' /\ \A n : IsLooseTag(n)' <=> IsLooseTag(n)
  BY <1>1, <1>2, LoopSteps
<1>4. SearchRight' /\ ResultRight'
  BY <1>1, <1>2, <1>3 DEF DbInv, SearchRight, ResultRight, AnswerIsTrue, Answerable, Missed
<1>5. QED
  BY <1>3, <1>4 DEF DbInv

LEMMA TryLooseTagStep ==
  ASSUME DbInv, TryLooseTag
  PROVE  DbInv'
<1> DEFINE n == Head(lookup.todo)
           found == HasTarget(loose[n]) \/ InPack(n)
<1>1. /\ UNCHANGED <<loose, packed, version, obsolete, events, queue, looseTags, packStat, name2id,
                     id2name, dirty, sort, asleep, main, was, kept, packedWas, unseen>>
      /\ lookup.at = "tags" /\ lookup.todo # <<>>
      /\ lookup' = [lookup EXCEPT !.todo = Tail(@), !.deref = 0,
                                  !.res = IF @ < n /\ found THEN n ELSE @]
  BY DEF TryLooseTag, LoosePart, files, pack, ghosts
<1>2. /\ n \in Names /\ n \in Range(lookup.todo) /\ Tail(lookup.todo) \in Seq(Names)
      /\ \A m \in Range(lookup.todo) : m = n \/ m \in Range(Tail(lookup.todo))
      /\ Range(Tail(lookup.todo)) \subseteq Range(lookup.todo)
  BY <1>1, LookupType, ListTail
<1>3. lookup.oid \in Commits /\ lookup.oid # NoRef
  BY <1>1, LookupType
<1>4. IsLooseTag(n)
  BY <1>1, <1>2 DEF DbInv, SearchRight, IsLooseTag
<1>5. found <=> Commit(loose[n]) = lookup.oid
  <2>1. HasTarget(loose[n]) <=> Commit(loose[n]) = lookup.oid
    BY <1>3, Targets, Zenon DEF HasTarget
  <2>2. ~InPack(n)
    BY <1>4 DEF InPack
  <2>3. QED
    BY <2>1, <2>2
<1>6. found => n \in was
  <2>1. found => InLoose(loose, n)
    BY <1>3, <1>5, Targets DEF InLoose
  <2>2. QED
    BY <1>2, <1>3, <1>5, <2>1, TagsAre DEF DbInv, Ghosts
<1>7. n \in kept => found
  <2>1. ASSUME n \in kept PROVE found
    <3>1. InLoose(loose, n) /\ n \in GitTags(loose, packed, lookup.oid)
      BY <1>1, <1>4, <2>1 DEF DbInv, ListedRight, Ghosts, Findable
    <3>2. QED
      BY <1>2, <1>3, <1>5, <3>1, TagsAre DEF DbInv
  <2>2. QED
    BY <2>1
<1> HIDE DEF n, found
<1>8. n \in Nat /\ lookup.res \in Nat /\ \A m \in kept : m \in Nat
  BY <1>2, Given, LookupType DEF DbInv, DbTypes
<1>9. /\ lookup' \in [at : LookupAt, oid : Commits \cup {NoRef}, st : 0..version, then : Then,
                      todo : Seq(Names), deref : Nat, res : Names \cup {NoName}]
      /\ lookup'.oid = lookup.oid /\ lookup'.at = "tags" /\ lookup'.todo = Tail(lookup.todo)
      /\ lookup'.res = IF lookup.res < n /\ found THEN n ELSE lookup.res
  BY <1>1, <1>2, LookupType
<1>10. /\ lookup'.res \in Answerable \cup {NoName}
       /\ \A m \in kept : m <= lookup.res => m <= lookup'.res
       /\ n \in kept => n <= lookup'.res
  BY <1>6, <1>7, <1>8, <1>9 DEF DbInv, ResultRight, Answerable
<1>11. DbTypes' /\ Turns' /\ Ghosts' /\ Cached' /\ ListedRight' /\ \A m : IsLooseTag(m)' <=> IsLooseTag(m)
  BY <1>1, <1>9, LoopSteps
<1>12. SearchRight'
  BY <1>1, <1>2, <1>9, <1>10, <1>11 DEF DbInv, SearchRight, Answerable, Missed
<1>13. ResultRight'
  BY <1>1, <1>9, <1>10 DEF ResultRight, AnswerIsTrue, Answerable
<1>14. QED
  BY <1>11, <1>12, <1>13 DEF DbInv

\* The packed tags that are found were of the commit, and among them is one
\* at or behind each that stayed packed.
LEMMA FoundRight ==
  ASSUME DbInv, lookup.at = "tags",
         NEW found \in (IF dirty THEN {FromNames} ELSE IF id2name.sorted THEN {FromIds} ELSE SUBSET FromIds)
  PROVE  /\ found \subseteq Answerable
         /\ \A n \in kept : ~IsLooseTag(n) => Missed(n) \/ \E m \in found : n <= m
<1>1. name2id \in Seq(Tag) /\ kept \subseteq Names
  BY DEF DbInv, DbTypes
<1>2. DOMAIN name2id = 1..Len(name2id) /\ Len(name2id) \in Nat /\ \A i \in DOMAIN name2id : name2id[i].name \in Nat
  <2>1. \A i \in DOMAIN name2id : name2id[i] \in Tag
    BY <1>1, LenProperties, ElementOfSeq
  <2>2. QED
    BY <1>1, <2>1, LenProperties, Given DEF Tag
<1>3. /\ \A t \in Range(name2id) : t.id = lookup.oid /\ ~IsLooseTag(t.name) => t.name \in Answerable
      /\ \A n \in kept : ~IsLooseTag(n) =>
           Missed(n) \/ \E t \in Range(name2id) : t.name = n /\ t.id = lookup.oid
  BY DEF DbInv, SearchRight
<1>4. CASE dirty
  <2> DEFINE hits == {i \in DOMAIN name2id : name2id[i].id = lookup.oid /\ ~IsLooseTag(name2id[i].name)}
             g == Max(hits)
  <2>1. found = IF hits = {} THEN {} ELSE {name2id[g].name}
    BY <1>4 DEF FromNames
  <2>2. hits # {} => g \in hits /\ \A i \in hits : i <= g
    <3>1. IsFiniteSet(1..Len(name2id)) /\ hits \in SUBSET (1..Len(name2id)) /\ hits \in SUBSET Nat
      BY <1>2, FS_Interval
    <3>2. IsFiniteSet(hits)
      BY <3>1, FS_Subset
    <3> HIDE DEF hits
    <3>3. QED
      BY <3>1, <3>2, GreatestNumber
  <2> HIDE DEF g
  <2>3. \A i \in hits : name2id[i] \in Range(name2id)
    BY DEF Range
  <2>4. found \subseteq Answerable
    BY <2>1, <2>2, <2>3, <1>3
  <2>5. ASSUME NEW n \in kept, ~IsLooseTag(n), ~Missed(n) PROVE \E m \in found : n <= m
    <3>1. PICK i \in DOMAIN name2id : name2id[i].name = n /\ name2id[i].id = lookup.oid
      BY <1>3, <2>5 DEF Range
    <3>2. i \in hits
      BY <3>1, <2>5
    <3>3. g \in hits /\ i <= g /\ found = {name2id[g].name}
      BY <2>1, <2>2, <3>2
    <3>4. i = g \/ ByName(name2id[i], name2id[g])
      <4>1. i \in Nat /\ g \in Nat /\ g \in DOMAIN name2id
        BY <1>2, <3>3
      <4>2. i = g \/ i < g
        BY <4>1, <3>3
      <4>3. QED
        BY <4>1, <4>2 DEF DbInv, Cached
    <3>5. n <= name2id[g].name
      BY <1>2, <3>1, <3>3, <3>4 DEF ByName
    <3>6. QED
      BY <3>3, <3>5
  <2>6. QED
    BY <2>4, <2>5
<1>5. CASE ~dirty
  <2>1. FromIds = {t.name : t \in {x \in Range(name2id) : x.id = lookup.oid /\ ~IsLooseTag(x.name)}}
    BY Alone DEF FromIds, AnyFromIds
  <2>2. found \subseteq FromIds /\ (id2name.sorted => found = FromIds)
    BY <1>5
  <2>3. ~id2name.sorted => Range(name2id) = {}
    BY <1>5, Alone DEF DbInv, Turns
  <2>4. found \subseteq Answerable
    BY <2>1, <2>2, <1>3
  <2>5. ASSUME NEW n \in kept, ~IsLooseTag(n), ~Missed(n) PROVE \E m \in found : n <= m
    <3>1. n \in FromIds /\ id2name.sorted
      BY <1>3, <2>1, <2>3, <2>5
    <3>2. n <= n
      BY <1>1, Given
    <3>3. QED
      BY <3>1, <3>2, <2>2
  <2>6. QED
    BY <2>4, <2>5
<1>6. QED
  BY <1>4, <1>5

LEMMA PackedPartStep ==
  ASSUME DbInv, PackedPart
  PROVE  DbInv'
<1>1. /\ UNCHANGED <<loose, packed, version, obsolete, events, queue, looseTags, packStat, name2id,
                     id2name, dirty, sort, asleep, main, was, kept, packedWas, unseen>>
      /\ lookup.at = "tags" /\ lookup.todo = <<>>
  BY DEF PackedPart, files, pack, ghosts
<1>2. PICK found \in (IF dirty THEN {FromNames} ELSE IF id2name.sorted THEN {FromIds} ELSE SUBSET FromIds) :
        lookup' = [lookup EXCEPT !.at = "done", !.res = Max({@} \cup found)]
  BY DEF PackedPart
<1>3. /\ found \subseteq Answerable
      /\ \A n \in kept : ~IsLooseTag(n) => Missed(n) \/ \E m \in found : n <= m
  BY <1>1, FoundRight
<1> DEFINE S == {lookup.res} \cup found
           r == Max(S)
<1>4. Answerable \subseteq Names /\ kept \subseteq Names /\ lookup.res \in Answerable \cup {NoName}
  BY DEF DbInv, DbTypes, ResultRight, Answerable
<1>5. S \in SUBSET (Names \cup {NoName}) /\ IsFiniteSet(Names \cup {NoName}) /\ S \in SUBSET Nat /\ S # {}
  BY <1>3, <1>4, Given, FS_AddElement
<1>6. r \in S /\ \A x \in S : x <= r
  <2>1. IsFiniteSet(S)
    BY <1>5, FS_Subset
  <2> HIDE DEF S
  <2>2. QED
    BY <2>1, <1>5, GreatestNumber
<1>7. lookup' = [lookup EXCEPT !.at = "done", !.res = r]
  BY <1>2
<1> HIDE DEF r
<1>8. /\ lookup' \in [at : LookupAt, oid : Commits \cup {NoRef}, st : 0..version, then : Then,
                      todo : Seq(Names), deref : Nat, res : Names \cup {NoName}]
      /\ lookup'.oid = lookup.oid /\ lookup'.at = "done" /\ lookup'.res = r
  BY <1>5, <1>6, <1>7, LookupType DEF LookupAt
<1>9. r \in Answerable \cup {NoName}
  BY <1>3, <1>4, <1>6
<1>10. ASSUME NEW n \in kept, ~Missed(n) PROVE n <= r
  <2>1. n \in Nat /\ r \in Nat /\ \A x \in S : x \in Nat
    BY <1>4, <1>5, <1>6, Given
  <2>2. CASE IsLooseTag(n)
    <3>1. Range(lookup.todo) = {}
      BY <1>1 DEF Range
    <3>2. n <= lookup.res
      BY <1>1, <2>2, <3>1 DEF DbInv, SearchRight
    <3>3. QED
      BY <1>6, <2>1, <3>2
  <2>3. CASE ~IsLooseTag(n)
    <3>1. PICK m \in found : n <= m
      BY <1>3, <1>10, <2>3
    <3>2. QED
      BY <1>6, <2>1, <3>1
  <2>4. QED
    BY <2>2, <2>3
<1>11. DbTypes' /\ Turns' /\ Ghosts' /\ Cached' /\ ListedRight'
  BY <1>1, <1>8, LoopSteps
<1>12. SearchRight' /\ ResultRight'
  BY <1>1, <1>8, <1>9, <1>10 DEF SearchRight, ResultRight, AnswerIsTrue, Answerable, Missed
<1>13. QED
  BY <1>11, <1>12 DEF DbInv

-----------------------------------------------------------------------------
(* The invariant, and what it says.                                        *)

LEMMA DbStutters ==
  ASSUME DbInv, UNCHANGED tagDbVars
  PROVE  DbInv'
BY MainStep DEF DbInv, DbTypes, TagDbTypeOK, tagDbVars, files, pack, ghosts

\* Whatever git does, whatever of refs/tags a lookup sees and whenever the pool
\* runs, the invariant holds.
THEOREM DbInvariance == TagDbSpec => []DbInv
<1>1. TagDbInit => DbInv
  BY DbBegins
<1>2. DbInv /\ [TagDbNext]_tagDbVars => DbInv'
  <2> SUFFICES ASSUME DbInv, [TagDbNext]_tagDbVars PROVE DbInv'
    OBVIOUS
  <2>1. CASE Git
    BY <2>1, GitSteps, GitKeeps
  <2>2. CASE Start \/ SortById
    BY <2>2, StartStep, SortByIdStep
  <2>3. CASE TagForCommit
    BY <2>3, ReadLooseTagsStep, StatPackStep, ResetStep, ReadStep, ReadAgainStep,
       FollowSymbolicStep, TryLooseTagStep, PackedPartStep, WaitingSteps DEF TagForCommit
  <2>4. CASE Destructor \/ Destroy
    BY <2>4, WaitingSteps DEF Destructor
  <2>5. CASE \E oid \in Commits : GetTagName(oid)
    BY <2>5, GetTagNameStep
  <2>6. CASE Answered
    BY <2>6, AnsweredStep
  <2>7. CASE UNCHANGED tagDbVars
    BY <2>7, DbStutters
  <2>8. QED
    BY <2>1, <2>2, <2>3, <2>4, <2>5, <2>6, <2>7 DEF TagDbNext
<1>3. QED
  BY <1>1, <1>2, PTL DEF TagDbSpec

\* No function sorts the tags while they are searched, replaced or gone, and
\* id2name_dirty_ says so.
THEOREM SortStaysAlone == TagDbSpec => []SortIsAlone
<1>1. DbInv => SortIsAlone
  BY DEF DbInv, Turns
<1>2. QED
  BY <1>1, DbInvariance, PTL

\* The tag that a prompt shows was of the commit while it was looked up, and
\* no tag that stayed where it was is behind it: but of a tag whose loose file
\* the listing does not have, because it is in a directory of refs/tags or
\* refs/tags could not be read, the file is not found, and the line in
\* packed-refs that it overrides is believed.
THEOREM AnswersAreTrue == TagDbSpec => []AnswerIsTrue
<1>1. DbInv => AnswerIsTrue
  BY DEF DbInv, ResultRight
<1>2. QED
  BY <1>1, DbInvariance, PTL
=============================================================================
