----------------------------- MODULE IndexProofs -----------------------------
(***************************************************************************)
(* What holds of the directories, splits and shards of every index, and of *)
(* every request that scans its working tree.                              *)
(*                                                                         *)
(* The tree is built by recursion over entries, levels and bytes.  That a  *)
(* recursive definition has a value, and that something holds of all its   *)
(* values, follows from the least number for which it would not: Recursion *)
(* and Steps.                                                              *)
(***************************************************************************)
EXTENDS Index, FiniteSetTheorems, SequenceTheorems, WellFoundedInduction, TLAPS

\* A function over an interval from 1 is a sequence.
LEMMA FunctionIsSeq ==
  ASSUME NEW S, NEW n \in Nat, NEW f \in [1..n -> S]
  PROVE  f \in Seq(S) /\ Len(f) = n
<1>1. f \in Seq(S)
  BY SeqDef, Zenon
<1>2. QED
  BY <1>1, LenProperties

\* A set of natural numbers has a least one.
LEMMA LeastNumber ==
  ASSUME NEW S \in SUBSET Nat, S # {}
  PROVE  \E x \in S : \A y \in S : x <= y
<1> DEFINE R == {p \in Nat \X Nat : p[1] < p[2]}
<1>1. R = OpToRel(<, Nat)
  BY Zenon DEF OpToRel
<1>2. IsWellFoundedOn(R, Nat)
  BY <1>1, NatLessThanWellFounded, Zenon
<1>3. \E x \in S : \A y \in S : ~ (<<y, x>> \in R)
  <2> HIDE DEF R
  <2> QED
    BY <1>2, WFMin
<1>4. \A x, y \in Nat : ~ (<<y, x>> \in R) => x <= y
  <2> SUFFICES ASSUME NEW x \in Nat, NEW y \in Nat, y < x PROVE <<y, x>> \in R
    OBVIOUS
  <2>1. <<y, x>> \in Nat \X Nat /\ <<y, x>>[1] = y /\ <<y, x>>[2] = x
    OBVIOUS
  <2>2. QED
    BY <2>1
<1> HIDE DEF R
<1>5. QED
  BY <1>3, <1>4

\* A set that has the first of an interval and, with a number, the next one,
\* has the whole interval.
LEMMA Steps ==
  ASSUME NEW m \in Int, NEW n \in Int, m <= n, NEW T,
         m \in T, \A i \in (m + 1)..n : i - 1 \in T => i \in T
  PROVE  \A i \in m..n : i \in T
<1> SUFFICES ASSUME NEW k \in m..n, k \notin T PROVE FALSE
  OBVIOUS
<1> DEFINE S == {i \in Nat : i + m \in m..n /\ i + m \notin T}
<1>1. S \in SUBSET Nat /\ S # {}
  <2>1. k - m \in Nat /\ (k - m) + m = k
    OBVIOUS
  <2>2. k - m \in S
    BY <2>1
  <2>3. QED
    BY <2>2
<1>2. PICK x \in S : \A y \in S : x <= y
  <2> HIDE DEF S
  <2> QED
    BY <1>1, LeastNumber
<1>3. x # 0
  BY <1>2
<1>4. x - 1 \in Nat /\ x - 1 \notin S /\ (x - 1) + m \in m..n /\ (x - 1) + m = (x + m) - 1
  BY <1>2, <1>3
<1>5. (x + m) - 1 \in T /\ x + m \in (m + 1)..n
  BY <1>2, <1>3, <1>4
<1>6. QED
  BY <1>2, <1>5

\* A recursion over an interval defines a function: G[i] is the step to i, and
\* I[i] what is known to hold there.
Follows(f, m, n, I, a, G) ==
  /\ f = [i \in m..n |-> f[i]] /\ f[m] = a
  /\ \A i \in m..n : f[i] \in I[i] /\ (i # m => f[i] = G[i][f[i - 1]])

LEMMA Recursion ==
  ASSUME NEW m \in Int, NEW n \in Int, m <= n, NEW I, NEW a \in I[m], NEW G,
         \A i \in m..n : i # m => G[i] \in [I[i - 1] -> I[i]]
  PROVE  \E f : Follows(f, m, n, I, a, G)
<1> DEFINE T == {k \in Int : \E f : Follows(f, m, k, I, a, G)}
<1>1. m \in T
  <2>1. Follows([i \in m..m |-> a], m, m, I, a, G)
    BY DEF Follows
  <2>2. QED
    BY <2>1
<1>2. ASSUME NEW k \in (m + 1)..n, k - 1 \in T PROVE k \in T
  <2>1. PICK f : Follows(f, m, k - 1, I, a, G)
    BY <1>2
  <2> DEFINE g == [i \in m..k |-> IF i = k THEN G[k][f[k - 1]] ELSE f[i]]
  <2>2. f[k - 1] \in I[k - 1] /\ f[m] = a
    BY <2>1 DEF Follows
  <2>3. G[k][f[k - 1]] \in I[k]
    <3>1. k \in m..n /\ k # m
      OBVIOUS
    <3>2. G[k] \in [I[k - 1] -> I[k]]
      BY <3>1
    <3>3. QED
      BY <2>2, <3>2
  <2>4. g = [i \in m..k |-> g[i]] /\ g[m] = a
    BY <2>2
  <2>5. ASSUME NEW i \in m..k PROVE g[i] \in I[i] /\ (i # m => g[i] = G[i][g[i - 1]])
    <3>1. i # m => i - 1 \in m..(k - 1) /\ g[i - 1] = f[i - 1]
      OBVIOUS
    <3>2. CASE i = k
      BY <3>1, <3>2, <2>3
    <3>3. CASE i # k
      <4>1. i \in m..(k - 1) /\ g[i] = f[i]
        BY <3>3
      <4>2. f[i] \in I[i] /\ (i # m => f[i] = G[i][f[i - 1]])
        BY <4>1, <2>1 DEF Follows
      <4> HIDE DEF g
      <4>3. QED
        BY <4>1, <4>2, <3>1
    <3>4. QED
      BY <3>2, <3>3
  <2> HIDE DEF g
  <2>6. Follows(g, m, k, I, a, G)
    BY <2>4, <2>5 DEF Follows
  <2>7. QED
    BY <2>6
<1> HIDE DEF T
<1>3. \A k \in m..n : k \in T
  BY <1>1, <1>2, Steps
<1>4. n \in T
  BY <1>3
<1>5. QED
  BY <1>4 DEF T

\* One over all numbers, with the same step to each.
LEMMA RecursionNat ==
  ASSUME NEW S, NEW a \in S, NEW G \in [S -> S]
  PROVE  \E f \in [Nat -> S] : f[0] = a /\ \A i \in Nat \ {0} : f[i] = G[f[i - 1]]
<1> DEFINE Good(k, f) == f \in [0..k -> S] /\ f[0] = a /\ \A i \in 0..k : i # 0 => f[i] = G[f[i - 1]]
           F == [n \in Nat |-> CHOOSE f : Good(n, f)]
           g == [n \in Nat |-> F[n][n]]
<1>1. ASSUME NEW n \in Nat PROVE Good(n, F[n])
  <2> DEFINE H == [i \in 0..n |-> G]
             I == [i \in Int |-> S]
  <2>1. \A i \in 0..n : i # 0 => H[i] \in [I[i - 1] -> I[i]]
    OBVIOUS
  <2>2. PICK f : Follows(f, 0, n, I, a, H)
    <3>1. 0 \in Int /\ n \in Int /\ 0 <= n /\ a \in I[0]
      OBVIOUS
    <3> HIDE DEF H, I
    <3>2. QED
      BY <2>1, <3>1, Recursion
  <2>3. Good(n, f)
    <3>1. \A i \in 0..n : I[i] = S /\ H[i] = G
      OBVIOUS
    <3> HIDE DEF H, I
    <3>2. f = [i \in 0..n |-> f[i]] /\ f[0] = a
      BY <2>2 DEF Follows
    <3>3. \A i \in 0..n : f[i] \in S /\ (i # 0 => f[i] = G[f[i - 1]])
      BY <2>2, <3>1, Zenon DEF Follows
    <3>4. QED
      BY <3>2, <3>3
  <2>4. F[n] = CHOOSE h : Good(n, h)
    OBVIOUS
  <2> HIDE DEF Good, F
  <2>5. QED
    BY <2>3, <2>4
<1>2. ASSUME NEW n \in Nat PROVE F[n + 1][n] = F[n][n]
  <2> HIDE DEF F
  <2>1. Good(n, F[n]) /\ Good(n + 1, F[n + 1])
    BY <1>1
  <2> DEFINE T == {i \in 0..n : F[n + 1][i] = F[n][i]}
  <2>2. 0 \in T
    BY <2>1
  <2>3. \A i \in (0 + 1)..n : i - 1 \in T => i \in T
    <3> TAKE i \in (0 + 1)..n
    <3> HAVE i - 1 \in T
    <3>1. i \in 0..(n + 1) /\ i \in 0..n /\ i # 0
      OBVIOUS
    <3>2. F[n + 1][i] = G[F[n + 1][i - 1]] /\ F[n][i] = G[F[n][i - 1]]
      BY <2>1, <3>1
    <3>3. QED
      BY <3>1, <3>2
  <2> HIDE DEF T
  <2>4. \A i \in 0..n : i \in T
    BY <2>2, <2>3, Steps
  <2>5. n \in T
    BY <2>4
  <2>6. QED
    BY <2>5 DEF T
<1>3. g \in [Nat -> S]
  <2>1. ASSUME NEW n \in Nat PROVE F[n][n] \in S
    <3> HIDE DEF F
    <3>1. Good(n, F[n]) /\ n \in 0..n
      BY <1>1
    <3>2. QED
      BY <3>1
  <2> HIDE DEF F
  <2>2. QED
    BY <2>1
<1>4. g[0] = a
  <2> HIDE DEF F
  <2>1. Good(0, F[0])
    BY <1>1
  <2>2. QED
    BY <2>1
<1>5. ASSUME NEW i \in Nat \ {0} PROVE g[i] = G[g[i - 1]]
  <2> HIDE DEF F
  <2>1. Good(i, F[i]) /\ i - 1 \in Nat /\ i \in 0..i /\ (i - 1) + 1 = i
    <3> HIDE DEF Good
    <3> QED
      BY <1>1
  <2>2. F[i][i] = G[F[i][i - 1]]
    BY <2>1
  <2>3. F[i][i - 1] = F[i - 1][i - 1]
    BY <1>2, <2>1
  <2>4. QED
    BY <2>1, <2>2, <2>3
<1> HIDE DEF g
<1>6. QED
  BY <1>3, <1>4, <1>5

LEMMA Greatest ==
  ASSUME NEW n \in Nat, NEW S \in SUBSET (0..n), S # {}
  PROVE  Max(S) \in S /\ \A y \in S : y <= Max(S)
<1> DEFINE D == {n - y : y \in S}
<1>1. D \in SUBSET Nat /\ D # {}
  <2>1. \A y \in S : n - y \in Nat
    OBVIOUS
  <2>2. D \in SUBSET Nat
    BY <2>1
  <2>3. PICK y \in S : TRUE
    OBVIOUS
  <2>4. n - y \in D
    OBVIOUS
  <2>5. QED
    BY <2>2, <2>4
<1>2. PICK d \in D : \A e \in D : d <= e
  <2> HIDE DEF D
  <2> QED
    BY <1>1, LeastNumber
<1>3. PICK x \in S : d = n - x
  BY <1>2
<1>4. \A y \in S : x >= y
  <2> TAKE y \in S
  <2>1. d <= n - y
    BY <1>2
  <2>2. x \in 0..n /\ y \in 0..n
    OBVIOUS
  <2>3. QED
    BY <2>1, <2>2, <1>3
<1>5. Max(S) \in S /\ \A y \in S : Max(S) >= y
  BY <1>3, <1>4, Zenon DEF Max
<1>6. QED
  BY <1>5

-----------------------------------------------------------------------------
(* Strings.                                                                *)

LEMMA Values ==
  ASSUME NEW c \in Nat, NEW cs \in BOOLEAN
  PROVE  /\ Value(c, cs) \in Nat /\ (Value(c, cs) = 0 <=> c = 0)
         /\ Value(c, cs) = Slash <=> c = Slash
BY DEF Value, Lower, Slash

LEMMA Length ==
  ASSUME NEW x \in Bytes
  PROVE  /\ Len(x) \in Nat /\ DOMAIN x = 1..Len(x) /\ (Len(x) = 0 <=> x = <<>>)
         /\ \A k \in 1..Len(x) : x[k] \in 1..255 /\ x[k] \in Nat /\ x[k] # 0
<1>1. x \in Seq(1..255)
  BY DEF Bytes
<1>2. Len(x) \in Nat /\ DOMAIN x = 1..Len(x)
  BY <1>1, LenProperties
<1>3. Len(x) = 0 <=> x = <<>>
  BY <1>1, EmptySeq
<1>4. \A k \in 1..Len(x) : x[k] \in 1..255
  BY <1>1, ElementOfSeq
<1>5. \A c \in 1..255 : c \in Nat /\ c # 0
  OBVIOUS
<1>6. QED
  BY <1>2, <1>3, <1>4, <1>5, Zenon

LEMMA AtByte ==
  ASSUME NEW x \in Bytes, NEW k \in Nat \ {0}
  PROVE  At(x, k) \in Nat /\ (At(x, k) = 0 <=> k > Len(x))
<1>1. Len(x) \in Nat /\ \A i \in 1..Len(x) : x[i] \in Nat /\ x[i] # 0
  BY Length
<1>2. CASE k <= Len(x)
  <2>1. At(x, k) = x[k] /\ k \in 1..Len(x)
    BY <1>1, <1>2 DEF At
  <2>2. QED
    BY <1>1, <1>2, <2>1
<1>3. CASE ~ (k <= Len(x))
  BY <1>1, <1>3 DEF At
<1>4. QED
  BY <1>2, <1>3

\* Two strings are equal if their bytes are, one by one.
LEMMA Equal ==
  ASSUME NEW x \in Bytes, NEW y \in Bytes, NEW cs \in BOOLEAN
  PROVE  Eq(x, y, cs) <=>
           Len(x) = Len(y) /\ \A k \in 1..Len(x) : Value(x[k], cs) = Value(y[k], cs)
<1> DEFINE X(k) == Value(At(x, k), cs)
           Y(k) == Value(At(y, k), cs)
           D == {k \in 1..(Len(x) + 1) : X(k) - Y(k) # 0}
<1>1. Cmp(x, y, cs) = IF D = {} THEN 0 ELSE X(Min(D)) - Y(Min(D))
  BY Zenon DEF Cmp
<1>2. \A k \in Nat \ {0} : /\ X(k) \in Nat /\ (X(k) = 0 <=> k > Len(x))
                           /\ Y(k) \in Nat /\ (Y(k) = 0 <=> k > Len(y))
  <2> TAKE k \in Nat \ {0}
  <2>1. At(x, k) \in Nat /\ (At(x, k) = 0 <=> k > Len(x))
    BY AtByte
  <2>2. At(y, k) \in Nat /\ (At(y, k) = 0 <=> k > Len(y))
    BY AtByte
  <2>3. QED
    BY <2>1, <2>2, Values
<1>3. Len(x) \in Nat /\ Len(y) \in Nat
  BY DEF Bytes
<1>4. D # {} => Min(D) \in D
  <2> SUFFICES ASSUME D # {} PROVE Min(D) \in D
    OBVIOUS
  <2>1. D \in SUBSET Nat
    BY <1>3
  <2>2. \E k \in D : \A j \in D : k <= j
    <3> HIDE DEF D
    <3> QED
      BY <2>1, LeastNumber
  <2> HIDE DEF D
  <2>3. QED
    BY <2>2, Zenon DEF Min
<1>5. Cmp(x, y, cs) = 0 <=> D = {}
  <2>1. ASSUME D # {} PROVE X(Min(D)) - Y(Min(D)) # 0
    BY <1>4, <2>1
  <2> HIDE DEF D, X, Y
  <2>2. QED
    BY <1>1, <2>1
<1>6. ASSUME D = {} PROVE Len(x) = Len(y)
  <2>1. \A k \in 1..(Len(x) + 1) : X(k) = Y(k)
    <3> HIDE DEF X, Y
    <3> TAKE k \in 1..(Len(x) + 1)
    <3>1. k \in Nat \ {0} /\ X(k) - Y(k) = 0
      BY <1>6, <1>3
    <3> QED
      BY <3>1, <1>2
  <2> HIDE DEF X, Y, D
  <2>2. X(Len(x) + 1) = Y(Len(x) + 1) /\ (Len(x) > 0 => X(Len(x)) = Y(Len(x)))
    BY <2>1, <1>3
  <2>3. Len(x) + 1 > Len(y)
    BY <2>2, <1>2, <1>3
  <2>4. Len(x) > 0 => ~ (Len(x) > Len(y))
    BY <2>2, <1>2, <1>3
  <2>5. QED
    BY <2>3, <2>4, <1>3
<1>7. \A k \in 1..Len(x) : X(k) = Value(x[k], cs)
  BY DEF At
<1>8. Len(x) = Len(y) => \A k \in 1..Len(x) : Y(k) = Value(y[k], cs)
  BY DEF At
<1>9. ASSUME D = {} PROVE \A k \in 1..Len(x) : Value(x[k], cs) = Value(y[k], cs)
  <2> TAKE k \in 1..Len(x)
  <2>1. k \in Nat \ {0} /\ k \in 1..(Len(x) + 1)
    BY <1>3
  <2>2. X(k) - Y(k) = 0
    BY <2>1, <1>9
  <2>3. X(k) = Y(k)
    <3> HIDE DEF X, Y
    <3> QED
      BY <2>1, <2>2, <1>2
  <2>4. QED
    BY <2>3, <1>6, <1>7, <1>8, <1>9
<1>10. ASSUME Len(x) = Len(y), \A k \in 1..Len(x) : Value(x[k], cs) = Value(y[k], cs) PROVE D = {}
  <2> SUFFICES ASSUME NEW k \in 1..(Len(x) + 1) PROVE X(k) - Y(k) = 0
    OBVIOUS
  <2>1. k \in Nat \ {0}
    BY <1>3
  <2>2. CASE k = Len(x) + 1
    <3>1. k > Len(x) /\ k > Len(y)
      BY <2>2, <1>3, <1>10
    <3>2. X(k) = 0 /\ Y(k) = 0
      <4> HIDE DEF X, Y
      <4> QED
        BY <3>1, <2>1, <1>2
    <3> HIDE DEF X, Y
    <3>3. QED
      BY <3>2
  <2>3. CASE k \in 1..Len(x)
    <3>1. X(k) = Y(k)
      BY <2>3, <1>10, <1>7, <1>8
    <3> HIDE DEF X, Y
    <3>2. QED
      BY <3>1, <2>1, <1>2
  <2>4. QED
    BY <2>2, <2>3, <1>3
<1>11. QED
  BY <1>5, <1>6, <1>9, <1>10, Zenon DEF Eq

LEMMA EqualRefl ==
  ASSUME NEW x \in Bytes, NEW cs \in BOOLEAN PROVE Eq(x, x, cs)
BY Equal
LEMMA EqualSym ==
  ASSUME NEW x \in Bytes, NEW y \in Bytes, NEW cs \in BOOLEAN, Eq(x, y, cs) PROVE Eq(y, x, cs)
BY Equal
LEMMA EqualTrans ==
  ASSUME NEW x \in Bytes, NEW y \in Bytes, NEW z \in Bytes, NEW cs \in BOOLEAN,
         Eq(x, y, cs), Eq(y, z, cs)
  PROVE  Eq(x, z, cs)
<1>1. Len(x) = Len(y) /\ \A k \in 1..Len(x) : Value(x[k], cs) = Value(y[k], cs)
  BY Equal
<1>2. Len(y) = Len(z) /\ \A k \in 1..Len(y) : Value(y[k], cs) = Value(z[k], cs)
  BY Equal
<1>3. QED
  BY <1>1, <1>2, Equal

\* The first n bytes of a string.
LEMMA FirstBytes ==
  ASSUME NEW x \in Bytes, NEW n \in 0..Len(x)
  PROVE  /\ SubSeq(x, 1, n) \in Bytes /\ Len(SubSeq(x, 1, n)) = n
         /\ \A k \in 1..n : SubSeq(x, 1, n)[k] = x[k]
         /\ SlashesIn(SubSeq(x, 1, n)) = {k \in SlashesIn(x) : k <= n}
         /\ \A m \in 0..n : SubSeq(SubSeq(x, 1, n), 1, m) = SubSeq(x, 1, m)
<1>1. Len(x) \in Nat /\ \A k \in 1..n : x[k] \in 1..255
  BY Length
<1>2. /\ SubSeq(x, 1, n) \in Bytes /\ Len(SubSeq(x, 1, n)) = n
      /\ \A k \in 1..n : SubSeq(x, 1, n)[k] = x[k]
  <2>1. Len(SubSeq(x, 1, n)) = IF 1 <= n THEN n - 1 + 1 ELSE 0
    BY <1>1, SubSeqProperties
  <2>2. SubSeq(x, 1, n) \in Seq(1..255) /\ \A i \in 1..(n - 1 + 1) : SubSeq(x, 1, n)[i] = x[1 + i - 1]
    BY <1>1, SubSeqProperties
  <2>3. \A i \in 1..n : 1 + i - 1 = i
    OBVIOUS
  <2>4. n - 1 + 1 = n /\ n \in Nat
    BY <1>1
  <2>5. QED
    BY <2>1, <2>2, <2>3, <2>4 DEF Bytes
<1>3. SlashesIn(SubSeq(x, 1, n)) = {k \in SlashesIn(x) : k <= n}
  BY <1>1, <1>2 DEF SlashesIn
<1>4. ASSUME NEW m \in 0..n PROVE SubSeq(SubSeq(x, 1, n), 1, m) = SubSeq(x, 1, m)
  <2> DEFINE u == SubSeq(x, 1, n)
  <2>1. SubSeq(u, 1, m) = [i \in 1..m |-> u[i]]
    <3>1. 1 + m - 1 = m /\ \A i \in 1..m : 1 + i - 1 = i
      OBVIOUS
    <3> HIDE DEF u
    <3>2. QED
      BY <3>1 DEF SubSeq
  <2>2. SubSeq(x, 1, m) = [i \in 1..m |-> x[i]]
    BY DEF SubSeq
  <2>3. \A i \in 1..m : u[i] = x[i]
    BY <1>2
  <2> HIDE DEF u
  <2>4. QED
    BY <2>1, <2>2, <2>3
<1>5. QED
  BY <1>2, <1>3, <1>4

LEMMA EqualFirst ==
  ASSUME NEW x \in Bytes, NEW y \in Bytes, NEW cs \in BOOLEAN, Eq(x, y, cs)
  PROVE  /\ Len(x) = Len(y) /\ SlashesIn(x) = SlashesIn(y)
         /\ \A n \in 0..Len(x) : Eq(SubSeq(x, 1, n), SubSeq(y, 1, n), cs)
<1>1. Len(x) = Len(y) /\ \A k \in 1..Len(x) : Value(x[k], cs) = Value(y[k], cs)
  BY Equal
<1>2. \A k \in 1..Len(x) : x[k] = Slash <=> y[k] = Slash
  <2> TAKE k \in 1..Len(x)
  <2>1. x[k] \in Nat /\ y[k] \in Nat
    BY <1>1, Length
  <2>2. QED
    BY <1>1, <2>1, Values
<1>3. ASSUME NEW n \in 0..Len(x) PROVE Eq(SubSeq(x, 1, n), SubSeq(y, 1, n), cs)
  <2>1. /\ SubSeq(x, 1, n) \in Bytes /\ Len(SubSeq(x, 1, n)) = n
        /\ \A k \in 1..n : SubSeq(x, 1, n)[k] = x[k]
    BY FirstBytes
  <2>2. /\ SubSeq(y, 1, n) \in Bytes /\ Len(SubSeq(y, 1, n)) = n
        /\ \A k \in 1..n : SubSeq(y, 1, n)[k] = y[k]
    BY <1>1, FirstBytes
  <2>3. \A k \in 1..n : k \in 1..Len(x)
    BY Length
  <2> DEFINE u == SubSeq(x, 1, n)
             v == SubSeq(y, 1, n)
  <2>4. Len(u) = Len(v) /\ \A k \in 1..Len(u) : Value(u[k], cs) = Value(v[k], cs)
    <3> HIDE DEF u, v
    <3>1. \A k \in 1..n : u[k] = x[k] /\ v[k] = y[k]
      BY <2>1, <2>2 DEF u, v
    <3>2. QED
      BY <3>1, <2>1, <2>2, <2>3, <1>1 DEF u, v
  <2> HIDE DEF u, v
  <2>5. Eq(u, v, cs)
    BY <2>4, <2>1, <2>2, Equal DEF u, v
  <2>6. QED
    BY <2>5 DEF u, v
<1>4. QED
  BY <1>1, <1>2, <1>3 DEF SlashesIn

\* Where the directory of a path ends.
LEMMA DirEnds ==
  ASSUME NEW x \in Bytes
  PROVE  \E c \in {0} \cup SlashesIn(x) :
           /\ DirOf(x) = SubSeq(x, 1, c) /\ c \in 0..Len(x) /\ DirOf(x) \in Bytes /\ Len(DirOf(x)) = c
           /\ \A s \in SlashesIn(x) : s <= c
<1> DEFINE S == {0} \cup SlashesIn(x)
<1>1. Len(x) \in Nat /\ S \in SUBSET (0..Len(x)) /\ S # {}
  BY Length DEF SlashesIn
<1>2. Max(S) \in S /\ \A y \in S : y <= Max(S)
  <2> HIDE DEF S
  <2> QED
    BY <1>1, Greatest
<1>3. Max(S) \in 0..Len(x)
  BY <1>1, <1>2
<1>4. DirOf(x) = SubSeq(x, 1, Max(S))
  BY DEF DirOf
<1> DEFINE c == Max(S)
<1>5. c \in {0} \cup SlashesIn(x) /\ c \in 0..Len(x) /\ \A s \in SlashesIn(x) : s <= c
  BY <1>2, <1>3
<1>6. DirOf(x) = SubSeq(x, 1, c)
  BY <1>4
<1> HIDE DEF c
<1>7. QED
  BY <1>5, <1>6, FirstBytes

\* A path of which the last byte is its last slash is its own directory.
LEMMA DirCut ==
  ASSUME NEW x \in Bytes, NEW c \in {0} \cup SlashesIn(x), \A s \in SlashesIn(x) : s <= c
  PROVE  DirOf(x) = SubSeq(x, 1, c)
<1>1. PICK d \in {0} \cup SlashesIn(x) :
        DirOf(x) = SubSeq(x, 1, d) /\ d \in 0..Len(x) /\ \A s \in SlashesIn(x) : s <= d
  BY DirEnds
<1>2. c = d
  <2>1. c \in Nat /\ d \in Nat
    BY Length DEF SlashesIn
  <2>2. c <= d
    BY <1>1, <2>1
  <2>3. d <= c
    BY <1>1, <2>1
  <2>4. QED
    BY <2>1, <2>2, <2>3
<1>3. QED
  BY <1>1, <1>2

LEMMA EqualDirs ==
  ASSUME NEW x \in Bytes, NEW y \in Bytes, NEW cs \in BOOLEAN, Eq(x, y, cs)
  PROVE  Eq(DirOf(x), DirOf(y), cs)
<1>1. PICK c \in {0} \cup SlashesIn(x) :
        DirOf(x) = SubSeq(x, 1, c) /\ c \in 0..Len(x) /\ \A s \in SlashesIn(x) : s <= c
  BY DirEnds
<1>2. SlashesIn(y) = SlashesIn(x) /\ Eq(SubSeq(x, 1, c), SubSeq(y, 1, c), cs)
  BY <1>1, EqualFirst
<1>3. DirOf(y) = SubSeq(y, 1, c)
  BY <1>1, <1>2, DirCut
<1>4. QED
  BY <1>1, <1>2, <1>3

-----------------------------------------------------------------------------
(* The directories above one.                                              *)

LEMMA UnslashedOf ==
  ASSUME NEW x \in Bytes
  PROVE  /\ Unslashed(x) \in Bytes /\ (x = <<>> => Unslashed(x) = <<>>)
         /\ x # <<>> => Unslashed(x) = SubSeq(x, 1, Len(x) - 1) /\ Len(x) - 1 \in 0..Len(x)
                        /\ Len(Unslashed(x)) = Len(x) - 1
<1>1. Len(x) \in Nat /\ (Len(x) = 0 <=> x = <<>>)
  BY Length
<1>2. CASE x = <<>>
  BY <1>2 DEF Unslashed, Root
<1>3. CASE x # <<>>
  <2>1. Unslashed(x) = SubSeq(x, 1, Len(x) - 1) /\ Len(x) - 1 \in 0..Len(x)
    BY <1>1, <1>3 DEF Unslashed, Root, Front
  <2>2. QED
    BY <2>1, <1>3, FirstBytes
<1>4. QED
  BY <1>2, <1>3

LEMMA AboveOne ==
  ASSUME NEW x \in Bytes
  PROVE  /\ DirAbove(x) \in Bytes
         /\ \A y \in Bytes, cs \in BOOLEAN : Eq(x, y, cs) => Eq(DirAbove(x), DirAbove(y), cs)
<1>1. Unslashed(x) \in Bytes
  BY UnslashedOf
<1>2. ASSUME NEW y \in Bytes, NEW cs \in BOOLEAN, Eq(x, y, cs)
      PROVE  Eq(Unslashed(x), Unslashed(y), cs)
  <2>1. Len(x) = Len(y) /\ (x = <<>> <=> y = <<>>)
    BY <1>2, EqualFirst, Length
  <2>2. CASE x = <<>>
    <3>1. x \in Bytes /\ y = x /\ Unslashed(x) = <<>>
      BY <2>1, <2>2, UnslashedOf
    <3>2. QED
      BY <1>2, <3>1, <2>2
  <2>3. CASE x # <<>>
    <3>1. /\ Unslashed(x) = SubSeq(x, 1, Len(x) - 1) /\ Len(x) - 1 \in 0..Len(x)
          /\ Unslashed(y) = SubSeq(y, 1, Len(x) - 1)
      BY <2>1, <2>3, UnslashedOf
    <3>2. QED
      BY <3>1, EqualFirst, <1>2
  <2>4. QED
    BY <2>2, <2>3
<1>3. ASSUME NEW y \in Bytes, NEW cs \in BOOLEAN, Eq(x, y, cs)
      PROVE  Eq(DirAbove(x), DirAbove(y), cs)
  <2>1. Unslashed(y) \in Bytes
    BY UnslashedOf
  <2>2. QED
    BY <1>1, <1>2, <1>3, <2>1, EqualDirs DEF DirAbove
<1>4. QED
  BY <1>1, <1>3, DirEnds DEF DirAbove

LEMMA UpRecursion ==
  ASSUME NEW x \in Bytes
  PROVE  /\ Up(x, 0) = x /\ \A j \in Nat : Up(x, j) \in Bytes
         /\ \A j \in Nat \ {0} : Up(x, j) = DirAbove(Up(x, j - 1))
<1> DEFINE P(f) == f = [i \in Nat |-> IF i = 0 THEN x ELSE DirAbove(f[i - 1])]
           G == [y \in Bytes |-> DirAbove(y)]
<1>1. PICK f \in [Nat -> Bytes] : f[0] = x /\ \A i \in Nat \ {0} : f[i] = G[f[i - 1]]
  <2>1. G \in [Bytes -> Bytes]
    BY AboveOne
  <2> HIDE DEF G
  <2>2. QED
    BY <2>1, RecursionNat
<1>2. \A i \in Nat \ {0} : f[i] = DirAbove(f[i - 1])
  <2> TAKE i \in Nat \ {0}
  <2>1. f[i - 1] \in Bytes
    BY <1>1
  <2>2. QED
    BY <1>1, <2>1
<1>3. P(f)
  BY <1>1, <1>2
<1> DEFINE u == DirsAbove(x)
<1>4. u = CHOOSE h : P(h)
  BY Zenon DEF DirsAbove
<1>5. P(u)
  <2> HIDE DEF P, u
  <2> QED
    BY <1>3, <1>4
<1>6. u[0] = x /\ \A i \in Nat \ {0} : u[i] = DirAbove(u[i - 1])
  <2> HIDE DEF u
  <2>1. u = [i \in Nat |-> IF i = 0 THEN x ELSE DirAbove(u[i - 1])]
    BY <1>5
  <2> HIDE DEF P
  <2>2. QED
    BY <2>1
<1>7. \A j \in Nat : u[j] \in Bytes
  <2> SUFFICES ASSUME NEW n \in Nat PROVE u[n] \in Bytes
    OBVIOUS
  <2> DEFINE T == {i \in 0..n : u[i] \in Bytes}
  <2> HIDE DEF u
  <2>1. 0 \in T
    BY <1>6
  <2>2. \A i \in (0 + 1)..n : i - 1 \in T => i \in T
    BY <1>6, AboveOne
  <2> HIDE DEF T
  <2>3. \A i \in 0..n : i \in T
    BY <2>1, <2>2, Steps
  <2>4. QED
    BY <2>3 DEF T
<1> HIDE DEF u
<1>8. \A j \in Nat : Up(x, j) = u[j]
  BY DEF Up, u
<1>9. QED
  BY <1>6, <1>7, <1>8

\* Going up by some levels and then by others.
LEMMA UpUp ==
  ASSUME NEW x \in Bytes, NEW a \in Nat, NEW b \in Nat
  PROVE  Up(Up(x, a), b) = Up(x, a + b)
<1> DEFINE T == {i \in 0..b : Up(Up(x, a), i) = Up(x, a + i)}
<1>1. Up(x, a) \in Bytes
  BY UpRecursion
<1>2. 0 \in T
  BY <1>1, UpRecursion
<1>3. ASSUME NEW i \in (0 + 1)..b, i - 1 \in T PROVE i \in T
  <2>1. Up(Up(x, a), i) = DirAbove(Up(Up(x, a), i - 1))
    BY <1>1, UpRecursion
  <2>2. a + i \in Nat \ {0} /\ (a + i) - 1 = a + (i - 1)
    OBVIOUS
  <2>3. Up(x, a + i) = DirAbove(Up(x, a + (i - 1)))
    BY <2>2, UpRecursion
  <2>4. QED
    BY <1>3, <2>1, <2>3
<1> HIDE DEF T
<1>4. \A i \in 0..b : i \in T
  BY <1>2, <1>3, Steps
<1>5. QED
  BY <1>4 DEF T

LEMMA UpOne ==
  ASSUME NEW x \in Bytes
  PROVE  Up(x, 1) = DirAbove(x)
<1>1. 1 \in Nat \ {0} /\ 1 - 1 = 0
  OBVIOUS
<1>2. QED
  BY <1>1, UpRecursion

LEMMA EqualUp ==
  ASSUME NEW x \in Bytes, NEW y \in Bytes, NEW cs \in BOOLEAN, Eq(x, y, cs), NEW j \in Nat
  PROVE  Eq(Up(x, j), Up(y, j), cs)
<1> DEFINE T == {i \in 0..j : Eq(Up(x, i), Up(y, i), cs)}
<1>1. 0 \in T
  BY UpRecursion
<1>2. ASSUME NEW i \in (0 + 1)..j, i - 1 \in T PROVE i \in T
  <2>1. Up(x, i) = DirAbove(Up(x, i - 1)) /\ Up(y, i) = DirAbove(Up(y, i - 1))
    BY UpRecursion
  <2>2. Up(x, i - 1) \in Bytes /\ Up(y, i - 1) \in Bytes
    BY UpRecursion
  <2>3. QED
    BY <1>2, <2>1, <2>2, AboveOne
<1> HIDE DEF T
<1>3. \A i \in 0..j : i \in T
  BY <1>1, <1>2, Steps
<1>4. QED
  BY <1>3 DEF T

-----------------------------------------------------------------------------
(* InitDirs: the directories, as they are built and when they are done.    *)

Building == [path : Bytes, basename : Bytes, depth : Nat, files : Seq(Nat), subdirs : Seq(Bytes)]
SubdirsSorted == {StrSort(xs, cs) : xs \in Seq(Bytes), cs \in BOOLEAN}
Built == [path : Bytes, basename : Bytes, depth : Nat, files : Seq(Nat), subdirs : SubdirsSorted]
Stacks == [stack : Seq(Building), dirs : Seq(Built)]

\* A directory below so many others.
Deep(path, n) == Len(path) \in {0} \cup SlashesIn(path) /\ Cardinality(SlashesIn(path)) = n

\* On the stack every directory is in the one before it.
Chain(st, cs) ==
  \A k \in 1..Len(st) :
    /\ st[k].depth = k - 1 /\ Deep(st[k].path, k - 1)
    /\ k > 1 => Eq(Up(st[k].path, 1), st[k - 1].path, cs)

\* What is done lies in what is done after it, or in a directory above that.
Linked(ds, cs) ==
  \A m \in 1..(Len(ds) - 1) :
    /\ ds[m].depth <= ds[m + 1].depth + 1
    /\ Eq(Up(ds[m].path, 1), Up(ds[m + 1].path, ds[m + 1].depth + 1 - ds[m].depth), cs)

\* The directory that what was done last lies in is still on the stack.
Waiting(t, cs) ==
  t.dirs # <<>> /\ t.stack # <<>> =>
    LET d == t.dirs[Len(t.dirs)]
    IN  d.depth \in 1..Len(t.stack) /\ Eq(Up(d.path, 1), t.stack[d.depth].path, cs)

Known(t, D) ==
  /\ \A k \in 1..Len(t.stack) : t.stack[k].path \in D
  /\ \A m \in 1..Len(t.dirs) : t.dirs[m].path \in D /\ Deep(t.dirs[m].path, t.dirs[m].depth)

Right(t, cs, D) ==
  t \in Stacks /\ Chain(t.stack, cs) /\ Linked(t.dirs, cs) /\ Waiting(t, cs) /\ Known(t, D)

\* The first so many of a sequence.
LEMMA Prefix ==
  ASSUME NEW S, NEW st \in Seq(S), NEW n \in 0..Len(st)
  PROVE  /\ SubSeq(st, 1, n) \in Seq(S) /\ Len(SubSeq(st, 1, n)) = n
         /\ \A k \in 1..n : SubSeq(st, 1, n)[k] = st[k]
         /\ \A m \in 0..n : SubSeq(SubSeq(st, 1, n), 1, m) = SubSeq(st, 1, m)
<1>1. Len(st) \in Nat /\ \A k \in 1..n : st[k] \in S
  BY LenProperties, ElementOfSeq
<1>2. Len(SubSeq(st, 1, n)) = IF 1 <= n THEN n - 1 + 1 ELSE 0
  BY <1>1, SubSeqProperties
<1>3. SubSeq(st, 1, n) \in Seq(S) /\ \A i \in 1..(n - 1 + 1) : SubSeq(st, 1, n)[i] = st[1 + i - 1]
  BY <1>1, SubSeqProperties
<1>4. /\ n - 1 + 1 = n /\ n \in Nat /\ n \in Int /\ \A i \in 1..n : 1 + i - 1 = i
      /\ ~ (1 <= n) => n = 0
  BY <1>1
<1>5. \A k \in 1..n : SubSeq(st, 1, n)[k] = st[k]
  BY <1>3, <1>4
<1>6. Len(SubSeq(st, 1, n)) = n
  BY <1>2, <1>4
<1>7. ASSUME NEW m \in 0..n PROVE SubSeq(SubSeq(st, 1, n), 1, m) = SubSeq(st, 1, m)
  <2> DEFINE u == SubSeq(st, 1, n)
  <2>1. SubSeq(u, 1, m) = [i \in 1..m |-> u[i]]
    <3>1. 1 + m - 1 = m /\ \A i \in 1..m : 1 + i - 1 = i
      BY <1>4
    <3> HIDE DEF u
    <3>2. QED
      BY <3>1 DEF SubSeq
  <2>2. SubSeq(st, 1, m) = [i \in 1..m |-> st[i]]
    <3>1. 1 + m - 1 = m /\ \A i \in 1..m : 1 + i - 1 = i
      BY <1>4
    <3>2. QED
      BY <3>1 DEF SubSeq
  <2>3. \A i \in 1..m : u[i] = st[i]
    BY <1>5
  <2> HIDE DEF u
  <2>4. QED
    BY <2>1, <2>2, <2>3
<1>8. QED
  BY <1>3, <1>5, <1>6, <1>7

LEMMA StackTypes ==
  ASSUME NEW st \in Seq(Building)
  PROVE  /\ Len(st) \in Nat /\ DOMAIN st = 1..Len(st)
         /\ \A k \in 1..Len(st) : st[k] \in Building /\ st[k].path \in Bytes /\ st[k].depth \in Nat
<1>1. Len(st) \in Nat /\ DOMAIN st = 1..Len(st)
  BY LenProperties
<1>2. \A k \in 1..Len(st) : st[k] \in Building
  BY ElementOfSeq
<1>3. \A b \in Building : b.path \in Bytes /\ b.depth \in Nat
  BY DEF Building
<1>4. QED
  BY <1>1, <1>2, <1>3

LEMMA BuiltTypes ==
  ASSUME NEW ds \in Seq(Built)
  PROVE  /\ Len(ds) \in Nat /\ DOMAIN ds = 1..Len(ds)
         /\ \A m \in 1..Len(ds) : ds[m] \in Built /\ ds[m].path \in Bytes /\ ds[m].depth \in Nat
<1>1. Len(ds) \in Nat /\ DOMAIN ds = 1..Len(ds)
  BY LenProperties
<1>2. \A m \in 1..Len(ds) : ds[m] \in Built
  BY ElementOfSeq
<1>3. \A b \in Built : b.path \in Bytes /\ b.depth \in Nat
  BY DEF Built
<1>4. QED
  BY <1>1, <1>2, <1>3

LEMMA ChainUp ==
  ASSUME NEW st \in Seq(Building), NEW cs \in BOOLEAN, Chain(st, cs),
         NEW k \in 1..Len(st), NEW d \in 0..(k - 1)
  PROVE  Eq(Up(st[k].path, d), st[k - d].path, cs)
<1> DEFINE T == {i \in 0..d : Eq(Up(st[k].path, i), st[k - i].path, cs)}
<1>1. \A j \in 1..Len(st) : st[j].path \in Bytes
  BY StackTypes
<1>2. Len(st) \in Nat /\ k \in Nat /\ d \in Nat
  BY LenProperties
<1>3. 0 \in T
  <2>1. Up(st[k].path, 0) = st[k].path /\ k - 0 = k
    BY <1>1, <1>2, UpRecursion
  <2>2. QED
    BY <2>1, <1>1, <1>2, EqualRefl
<1>4. ASSUME NEW i \in (0 + 1)..d, i - 1 \in T PROVE i \in T
  <2>1. /\ i \in Nat \ {0} /\ k - (i - 1) \in 1..Len(st) /\ k - i \in 1..Len(st)
        /\ k - (i - 1) > 1 /\ (k - (i - 1)) - 1 = k - i /\ i - 1 \in Nat
    BY <1>2
  <2> DEFINE x == Up(st[k].path, i - 1)
             y == st[k - (i - 1)].path
  <2>2. Eq(x, y, cs) /\ x \in Bytes /\ y \in Bytes
    BY <1>4, <1>1, <2>1, UpRecursion
  <2>3. Up(st[k].path, i) = DirAbove(x)
    BY <1>1, <2>1, UpRecursion
  <2>4. Eq(DirAbove(y), st[k - i].path, cs)
    <3>1. Eq(Up(y, 1), st[k - i].path, cs)
      BY <2>1 DEF Chain
    <3>2. QED
      BY <3>1, <2>2, UpOne
  <2>5. Eq(DirAbove(x), DirAbove(y), cs) /\ DirAbove(x) \in Bytes /\ DirAbove(y) \in Bytes
    BY <2>2, AboveOne
  <2> HIDE DEF x, y
  <2>6. Eq(DirAbove(x), st[k - i].path, cs)
    BY <2>1, <2>4, <2>5, <1>1, EqualTrans
  <2>7. QED
    BY <2>3, <2>6
<1> HIDE DEF T
<1>5. \A i \in 0..d : i \in T
  BY <1>3, <1>4, <1>2, Steps
<1>6. QED
  BY <1>5, <1>2 DEF T

LEMMA PopKeeps ==
  ASSUME NEW cs \in BOOLEAN, NEW D, NEW t, Right(t, cs, D), t.stack # <<>>
  PROVE  /\ Right(PopDir(t, cs), cs, D)
         /\ PopDir(t, cs).stack = SubSeq(t.stack, 1, Len(t.stack) - 1)
<1> DEFINE st == t.stack
           ds == t.dirs
           L == Len(st)
           M == Len(ds)
           top == st[L]
           new == [top EXCEPT !.subdirs = StrSort(@, cs)]
           u == PopDir(t, cs)
<1>1. t \in Stacks /\ st \in Seq(Building) /\ ds \in Seq(Built)
  BY DEF Right, Stacks
<1>2. /\ L \in Nat \ {0} /\ M \in Nat /\ DOMAIN st = 1..L /\ DOMAIN ds = 1..M
      /\ \A k \in 1..L : st[k] \in Building /\ st[k].path \in Bytes /\ st[k].depth \in Nat
      /\ \A m \in 1..M : ds[m] \in Built /\ ds[m].path \in Bytes /\ ds[m].depth \in Nat
  <2>1. L # 0
    BY <1>1, EmptySeq
  <2>2. QED
    BY <1>1, <2>1, StackTypes, BuiltTypes
<1>3. L \in 1..L /\ top \in Building
  BY <1>2
<1>4. new \in Built /\ new.path = top.path /\ new.depth = top.depth
  <2>1. StrSort(top.subdirs, cs) \in SubdirsSorted
    BY <1>3 DEF Building, SubdirsSorted
  <2>2. QED
    BY <1>3, <2>1 DEF Building, Built
<1>5. u = [stack |-> SubSeq(st, 1, L - 1), dirs |-> Append(ds, new)]
  BY DEF PopDir, Front, Last
<1> DEFINE st2 == SubSeq(st, 1, L - 1)
           ds2 == Append(ds, new)
<1>6. /\ st2 \in Seq(Building) /\ Len(st2) = L - 1 /\ L - 1 \in 0..L
      /\ \A k \in 1..(L - 1) : st2[k] = st[k] /\ k \in 1..L
  BY <1>1, <1>2, Prefix
<1>7. /\ ds2 \in Seq(Built) /\ Len(ds2) = M + 1 /\ ds2[M + 1] = new
      /\ \A m \in 1..M : ds2[m] = ds[m]
  BY <1>1, <1>4, AppendProperties
<1>8. u.stack = st2 /\ u.dirs = ds2 /\ u \in Stacks
  BY <1>5, <1>6, <1>7 DEF Stacks
<1> HIDE DEF u, new, st2, ds2
<1>9. Chain(st2, cs)
  <2>1. \A k \in 1..(L - 1) : k > 1 => k - 1 \in 1..(L - 1)
    BY <1>2
  <2>2. QED
    BY <1>6, <2>1 DEF Right, Chain
<1>10. Eq(Up(top.path, 0), top.path, cs)
  BY <1>3, <1>2, UpRecursion, EqualRefl
<1>11. top.depth = L - 1 /\ Deep(top.path, L - 1) /\ (L > 1 => Eq(Up(top.path, 1), st[L - 1].path, cs))
  BY <1>3 DEF Right, Chain
<1>12. Linked(ds2, cs)
  <2> SUFFICES ASSUME NEW m \in 1..M
               PROVE  /\ ds2[m].depth <= ds2[m + 1].depth + 1
                      /\ Eq(Up(ds2[m].path, 1),
                            Up(ds2[m + 1].path, ds2[m + 1].depth + 1 - ds2[m].depth), cs)
    <3>1. (M + 1) - 1 = M
      BY <1>2
    <3>2. QED
      BY <1>7, <3>1 DEF Linked
  <2>1. CASE m < M
    <3>1. m \in 1..(M - 1) /\ m + 1 \in 1..M
      BY <2>1, <1>2
    <3>2. ds2[m] = ds[m] /\ ds2[m + 1] = ds[m + 1]
      BY <1>7, <3>1
    <3>3. QED
      BY <3>1, <3>2 DEF Right, Linked
  <2>2. CASE m = M
    <3> DEFINE d == ds[M]
    <3>1. M \in 1..M /\ ds # <<>>
      <4>1. M \in 1..M
        BY <2>2
      <4>2. ds # <<>>
        BY <4>1, <1>1, <1>2, EmptySeq
      <4>3. QED
        BY <4>1, <4>2
    <3>2. ds2[m] = d /\ ds2[m + 1] = new /\ d.depth \in Nat /\ d.path \in Bytes
      BY <1>7, <2>2, <1>2, <3>1
    <3>3. d.depth \in 1..L /\ Eq(Up(d.path, 1), st[d.depth].path, cs)
      BY <3>1 DEF Right, Waiting
    <3>4. new.depth + 1 - d.depth = L - d.depth /\ L - d.depth \in 0..(L - 1) /\ L - (L - d.depth) = d.depth
      BY <1>4, <1>11, <3>3, <1>2
    <3>5. Eq(Up(top.path, L - d.depth), st[d.depth].path, cs)
      <4>1. Chain(st, cs)
        BY DEF Right
      <4>2. Eq(Up(st[L].path, L - d.depth), st[L - (L - d.depth)].path, cs)
        BY <1>1, <1>3, <3>4, <4>1, ChainUp
      <4>3. QED
        BY <4>2, <3>4
    <3>6. /\ Up(top.path, L - d.depth) \in Bytes /\ st[d.depth].path \in Bytes
          /\ Up(d.path, 1) \in Bytes
      <4>1. L - d.depth \in Nat /\ 1 \in Nat
        BY <3>4
      <4>2. QED
        BY <4>1, <1>2, <1>3, <3>2, <3>3, UpRecursion
    <3>7. Eq(Up(d.path, 1), Up(top.path, L - d.depth), cs)
      BY <3>3, <3>5, <3>6, EqualSym, EqualTrans
    <3>8. d.depth <= new.depth + 1
      BY <3>3, <1>4, <1>11, <1>2
    <3> HIDE DEF d
    <3>9. QED
      BY <3>2, <3>4, <3>7, <3>8, <1>4
  <2>3. QED
    BY <2>1, <2>2, <1>2
<1>13. Waiting(u, cs)
  <2> SUFFICES ASSUME st2 # <<>>
               PROVE  new.depth \in 1..(L - 1) /\ Eq(Up(new.path, 1), st2[new.depth].path, cs)
    BY <1>6, <1>7, <1>8 DEF Waiting
  <2>1. L - 1 # 0
    BY <1>6, EmptySeq
  <2>2. QED
    BY <2>1, <1>2, <1>4, <1>6, <1>11
<1>14. Known(u, D)
  <2>1. \A k \in 1..(L - 1) : st2[k].path \in D
    BY <1>6 DEF Right, Known
  <2>2. top.path \in D
    BY <1>3 DEF Right, Known
  <2>3. \A m \in 1..M : ds2[m].path \in D /\ Deep(ds2[m].path, ds2[m].depth)
    BY <1>7 DEF Right, Known
  <2>4. new.path \in D /\ Deep(new.path, new.depth)
    BY <2>2, <1>4, <1>11
  <2>5. \A m \in 1..(M + 1) : m \in 1..M \/ m = M + 1
    BY <1>2
  <2>6. \A m \in 1..(M + 1) : ds2[m].path \in D /\ Deep(ds2[m].path, ds2[m].depth)
    BY <2>3, <2>4, <2>5, <1>7
  <2>7. QED
    BY <2>1, <2>6, <1>6, <1>7, <1>8 DEF Known
<1>15. Right(u, cs, D) /\ u.stack = SubSeq(t.stack, 1, Len(t.stack) - 1)
  BY <1>8, <1>9, <1>12, <1>13, <1>14 DEF Right, st2
<1>16. QED
  BY <1>15 DEF u

\* Popping n directories, one by one.
LEMMA PoppingSteps ==
  ASSUME NEW cs \in BOOLEAN, NEW D, NEW s, Right(s, cs, D), NEW n \in 0..Len(s.stack)
  PROVE  LET u == Popping(s, n, cs)
         IN  /\ u[0] = s /\ \A i \in 0..n : i # 0 => u[i] = PopDir(u[i - 1], cs)
             /\ \A i \in 0..n : /\ Right(u[i], cs, D)
                               /\ u[i].stack = SubSeq(s.stack, 1, Len(s.stack) - i)
<1> DEFINE st == s.stack
           L == Len(st)
           I == [i \in 0..n |-> {t \in Stacks : Right(t, cs, D) /\ t.stack = SubSeq(st, 1, L - i)}]
           G == [i \in 0..n |-> [t \in I[i - 1] |-> PopDir(t, cs)]]
           P(f) == f = [i \in 0..n |-> IF i = 0 THEN s ELSE PopDir(f[i - 1], cs)]
           u == Popping(s, n, cs)
<1>1. s \in Stacks /\ st \in Seq(Building) /\ L \in Nat /\ n \in Nat
  BY LenProperties DEF Right, Stacks
<1>2. s \in I[0] /\ 0 \in 0..n
  <2>1. L - 0 = L /\ SubSeq(st, 1, L) = st /\ 0 \in 0..n
    BY <1>1, SubSeqFull
  <2>2. QED
    BY <2>1, <1>1
<1>3. ASSUME NEW i \in 0..n, i # 0, NEW t \in I[i - 1] PROVE PopDir(t, cs) \in I[i]
  <2>1. i - 1 \in 0..n /\ L - (i - 1) \in 0..L /\ L - (i - 1) # 0 /\ (L - (i - 1)) - 1 = L - i
        /\ L - i \in 0..(L - (i - 1))
    BY <1>1, <1>3
  <2>2. Right(t, cs, D) /\ t.stack = SubSeq(st, 1, L - (i - 1))
    BY <1>3, <2>1
  <2>3. Len(t.stack) = L - (i - 1) /\ SubSeq(t.stack, 1, L - i) = SubSeq(st, 1, L - i)
    BY <1>1, <2>1, <2>2, Prefix
  <2>4. t.stack # <<>>
    BY <2>1, <2>3
  <2>5. Right(PopDir(t, cs), cs, D) /\ PopDir(t, cs).stack = SubSeq(t.stack, 1, Len(t.stack) - 1)
    BY <2>2, <2>4, PopKeeps
  <2>6. PopDir(t, cs).stack = SubSeq(st, 1, L - i) /\ PopDir(t, cs) \in Stacks
    BY <2>1, <2>3, <2>5 DEF Right
  <2>7. QED
    BY <2>5, <2>6
<1>4. PICK f : Follows(f, 0, n, I, s, G)
  <2>1. \A i \in 0..n : i # 0 => G[i] \in [I[i - 1] -> I[i]]
    <3> TAKE i \in 0..n
    <3> HAVE i # 0
    <3>1. G[i] = [t \in I[i - 1] |-> PopDir(t, cs)]
      OBVIOUS
    <3> HIDE DEF I, G
    <3>2. QED
      BY <3>1, <1>3
  <2>2. 0 \in Int /\ n \in Int /\ 0 <= n
    BY <1>1
  <2> HIDE DEF I, G
  <2>3. QED
    BY <2>1, <2>2, <1>2, Recursion
<1>5. P(f)
  <2>1. f = [i \in 0..n |-> f[i]] /\ f[0] = s
    BY <1>4 DEF Follows
  <2>2. ASSUME NEW i \in 0..n, i # 0 PROVE f[i] = PopDir(f[i - 1], cs)
    <3>1. f[i] = G[i][f[i - 1]]
      <4> HIDE DEF G, I
      <4> QED
        BY <2>2, <1>4 DEF Follows
    <3>2. f[i - 1] \in I[i - 1]
      <4>1. i - 1 \in 0..n
        BY <2>2, <1>1
      <4> HIDE DEF G, I
      <4>2. QED
        BY <4>1, <1>4 DEF Follows
    <3>3. G[i] = [t \in I[i - 1] |-> PopDir(t, cs)]
      OBVIOUS
    <3> HIDE DEF G, I
    <3>4. QED
      BY <3>1, <3>2, <3>3
  <2> HIDE DEF G, I
  <2>3. QED
    BY <2>1, <2>2
<1>6. u = CHOOSE h : P(h)
  BY Zenon DEF Popping
<1>7. P(u)
  <2> HIDE DEF P, u
  <2> QED
    BY <1>5, <1>6
<1>8. u[0] = s /\ \A i \in 0..n : i # 0 => u[i] = PopDir(u[i - 1], cs)
  <2> HIDE DEF u
  <2>1. u = [i \in 0..n |-> IF i = 0 THEN s ELSE PopDir(u[i - 1], cs)]
    BY <1>7
  <2> HIDE DEF P
  <2>2. QED
    BY <2>1, <1>2
<1> DEFINE T == {i \in 0..n : u[i] \in I[i]}
<1>9. 0 \in T
  <2> HIDE DEF u, I
  <2> QED
    BY <1>2, <1>8
<1>10. ASSUME NEW i \in (0 + 1)..n, i - 1 \in T PROVE i \in T
  <2>1. i \in 0..n /\ i # 0
    BY <1>1
  <2> HIDE DEF u, I
  <2>2. u[i - 1] \in I[i - 1] /\ u[i] = PopDir(u[i - 1], cs)
    BY <1>10, <1>8, <2>1
  <2>3. QED
    BY <2>1, <2>2, <1>3
<1>11. \A i \in 0..n : i \in T
  <2> HIDE DEF T
  <2> QED
    BY <1>9, <1>10, <1>1, Steps
<1>12. \A i \in 0..n : u[i] \in I[i]
  <2> HIDE DEF u, I
  <2>1. QED
    BY <1>11
<1> HIDE DEF u
<1>13. \A i \in 0..n : Right(u[i], cs, D) /\ u[i].stack = SubSeq(st, 1, L - i)
  BY <1>12
<1>14. QED
  BY <1>8, <1>13 DEF u

\* They leave the others.
LEMMA PoppingKeeps ==
  ASSUME NEW cs \in BOOLEAN, NEW D, NEW s, Right(s, cs, D), NEW n \in 0..Len(s.stack)
  PROVE  /\ Right(Popping(s, n, cs)[n], cs, D)
         /\ Popping(s, n, cs)[n].stack = SubSeq(s.stack, 1, Len(s.stack) - n)
<1>1. Len(s.stack) \in Nat
  BY LenProperties DEF Right, Stacks
<1>2. n \in 0..n
  BY <1>1
<1>3. QED
  BY <1>2, PoppingSteps

LEMMA PopToKeeps ==
  ASSUME NEW cs \in BOOLEAN, NEW D, NEW s, Right(s, cs, D), NEW depth \in (-1)..(Len(s.stack) - 1)
  PROVE  /\ Right(PopTo(s, depth, cs), cs, D)
         /\ PopTo(s, depth, cs).stack = SubSeq(s.stack, 1, depth + 1)
<1> DEFINE L == Len(s.stack)
           n == L - 1 - depth
<1>1. L \in Nat
  BY LenProperties DEF Right, Stacks
<1>2. n \in 0..L /\ L - n = depth + 1 /\ n \in Nat
  <2>1. depth \in Int /\ -1 <= depth /\ depth <= L - 1
    BY <1>1
  <2> HIDE DEF L
  <2>2. QED
    BY <1>1, <2>1
<1>3. Max({0, n}) = n
  <2> HIDE DEF n
  <2>1. {0, n} \in SUBSET (0..n) /\ {0, n} # {}
    BY <1>2
  <2>2. Max({0, n}) \in {0, n} /\ \A y \in {0, n} : y <= Max({0, n})
    BY <1>2, <2>1, Greatest
  <2>3. QED
    BY <1>2, <2>2
<1>4. PopTo(s, depth, cs) = Popping(s, n, cs)[n]
  BY <1>3 DEF PopTo
<1> HIDE DEF n
<1>5. QED
  BY <1>2, <1>4, PoppingKeeps

\* A change of what is on top that keeps its path and depth.
LEMMA OnTopKeeps ==
  ASSUME NEW cs \in BOOLEAN, NEW D, NEW t, Right(t, cs, D), t.stack # <<>>, NEW d \in Building,
         d.path = Last(t.stack).path, d.depth = Last(t.stack).depth
  PROVE  /\ Right(OnTop(t, d), cs, D) /\ OnTop(t, d).dirs = t.dirs
         /\ Len(OnTop(t, d).stack) = Len(t.stack) /\ Len(t.stack) \in Nat \ {0}
         /\ \A k \in 1..Len(t.stack) : OnTop(t, d).stack[k].path = t.stack[k].path
<1> DEFINE st == t.stack
           L == Len(st)
           st2 == Append(SubSeq(st, 1, L - 1), d)
           u == OnTop(t, d)
<1>1. t \in Stacks /\ st \in Seq(Building) /\ t.dirs \in Seq(Built)
  BY DEF Right, Stacks
<1>2. /\ L \in Nat \ {0} /\ \A k \in 1..L : st[k] \in Building
      /\ \A m \in 1..Len(t.dirs) : t.dirs[m].depth \in Nat
  <2>1. L # 0
    BY <1>1, EmptySeq
  <2>2. QED
    BY <1>1, <2>1, StackTypes, BuiltTypes
<1>3. /\ SubSeq(st, 1, L - 1) \in Seq(Building) /\ Len(SubSeq(st, 1, L - 1)) = L - 1
      /\ \A k \in 1..(L - 1) : SubSeq(st, 1, L - 1)[k] = st[k]
  <2>1. L - 1 \in 0..L
    BY <1>2
  <2>2. QED
    BY <1>1, <2>1, Prefix
<1>4. /\ st2 \in Seq(Building) /\ Len(st2) = L /\ st2[L] = d
      /\ \A k \in 1..(L - 1) : st2[k] = st[k]
  <2>1. (L - 1) + 1 = L
    BY <1>2
  <2>2. QED
    BY <1>3, <2>1, AppendProperties
<1>5. \A k \in 1..L : st2[k].path = st[k].path /\ st2[k].depth = st[k].depth
  <2>1. d.path = st[L].path /\ d.depth = st[L].depth
    BY DEF Last
  <2>2. \A k \in 1..L : k \in 1..(L - 1) \/ k = L
    BY <1>2
  <2> HIDE DEF st2
  <2>3. QED
    BY <1>4, <2>1, <2>2
<1>6. u.stack = st2 /\ u.dirs = t.dirs /\ u \in Stacks
  <2>1. u = [t EXCEPT !.stack = st2]
    BY DEF OnTop, Front
  <2> HIDE DEF st2, u
  <2>2. QED
    BY <2>1, <1>1, <1>4 DEF Stacks
<1> HIDE DEF st2, u
<1>7. Chain(u.stack, cs)
  <2>1. \A k \in 1..L : k > 1 => k - 1 \in 1..L
    BY <1>2
  <2>2. QED
    BY <2>1, <1>4, <1>5, <1>6 DEF Right, Chain
<1>8. Linked(u.dirs, cs)
  BY <1>6 DEF Right
<1>9. Waiting(u, cs)
  <2>1. Waiting(t, cs)
    BY DEF Right
  <2>2. QED
    BY <2>1, <1>4, <1>5, <1>6 DEF Waiting
<1>10. Known(u, D)
  BY <1>4, <1>5, <1>6 DEF Right, Known
<1>11. Right(u, cs, D) /\ u.dirs = t.dirs /\ Len(u.stack) = L /\ \A k \in 1..L : u.stack[k].path = st[k].path
  BY <1>4, <1>5, <1>6, <1>7, <1>8, <1>9, <1>10 DEF Right
<1>12. QED
  BY <1>2, <1>11 DEF u

\* Entering the directory that ends with byte i of the path.
LEMMA PushKeeps ==
  ASSUME NEW cs \in BOOLEAN, NEW D, NEW t, Right(t, cs, D), t.stack # <<>>,
         NEW path \in Bytes, NEW i \in 1..Len(path), path[i] = Slash, SubSeq(path, 1, i) \in D,
         Cardinality(SlashesIn(SubSeq(path, 1, i))) = Len(t.stack),
         Eq(DirOf(SubSeq(path, 1, i - 1)), Last(t.stack).path, cs)
  PROVE  /\ Right(PushDir(t, path, i), cs, D)
         /\ Len(PushDir(t, path, i).stack) = Len(t.stack) + 1
         /\ Last(PushDir(t, path, i).stack).path = SubSeq(path, 1, i)
<1> DEFINE L == Len(t.stack)
           top == Last(t.stack)
           sub == SubSeq(path, Len(top.path) + 1, i - 1)
           top2 == [top EXCEPT !.subdirs = Append(@, sub)]
           v == OnTop(t, top2)
           dir == SubSeq(path, 1, i)
           new == IndexDir(dir, sub, L)
           u == PushDir(t, path, i)
<1>1. t \in Stacks /\ t.stack \in Seq(Building) /\ L \in Nat \ {0}
  <2>1. t \in Stacks /\ t.stack \in Seq(Building)
    BY DEF Right, Stacks
  <2>2. QED
    BY <2>1, EmptySeq
<1>2. top \in Building /\ top.path \in Bytes /\ L \in 1..L
  BY <1>1, StackTypes DEF Last
<1>3. Len(path) \in Nat /\ i \in Nat \ {0} /\ i \in 0..Len(path) /\ i - 1 \in 0..Len(path)
  BY Length
<1>4. dir \in Bytes /\ Len(dir) = i /\ SlashesIn(dir) = {k \in SlashesIn(path) : k <= i}
  BY <1>3, FirstBytes
<1>5. sub \in Bytes
  <2>1. Len(top.path) + 1 \in Nat \ {0}
    BY <1>2, Length
  <2>2. \A k \in (Len(top.path) + 1)..(i - 1) : k \in 1..Len(path)
    BY <2>1, <1>3
  <2>3. \A k \in (Len(top.path) + 1)..(i - 1) : path[k] \in 1..255
    BY <2>2, Length
  <2>4. Len(top.path) + 1 \in Int /\ i - 1 \in Int
    BY <2>1, <1>3
  <2>5. QED
    BY <2>3, <2>4, SubSeqProperties DEF Bytes
<1>6. top2 \in Building /\ top2.path = top.path /\ top2.depth = top.depth
  <2>1. Append(top.subdirs, sub) \in Seq(Bytes)
    BY <1>2, <1>5, AppendProperties DEF Building
  <2> HIDE DEF sub
  <2>2. QED
    BY <2>1, <1>2 DEF Building
<1>7. /\ Right(v, cs, D) /\ v.dirs = t.dirs /\ Len(v.stack) = L
      /\ \A k \in 1..L : v.stack[k].path = t.stack[k].path
  <2> HIDE DEF top2
  <2>1. QED
    BY <1>6, OnTopKeeps
<1>8. new \in Building /\ new.path = dir /\ new.depth = L
  <2>1. <<>> \in Seq(Nat) /\ <<>> \in Seq(Bytes)
    BY EmptySeq
  <2> HIDE DEF dir, sub
  <2>2. QED
    BY <2>1, <1>1, <1>4, <1>5 DEF IndexDir, Building
<1>9. u = [v EXCEPT !.stack = Append(@, new)]
  BY Zenon DEF PushDir
<1> HIDE DEF v, new, u, dir, sub, top2
<1> DEFINE st2 == Append(v.stack, new)
<1>10. v \in Stacks /\ v.stack \in Seq(Building) /\ v.dirs \in Seq(Built)
  BY <1>7 DEF Right, Stacks
<1>11. u.stack = st2 /\ u.dirs = v.dirs /\ u \in Stacks
  <2>1. st2 \in Seq(Building)
    BY <1>8, <1>10, AppendProperties
  <2>2. QED
    BY <2>1, <1>9, <1>10 DEF Stacks
<1>12. Len(st2) = L + 1 /\ st2[L + 1] = new /\ \A k \in 1..L : st2[k] = v.stack[k]
  BY <1>7, <1>8, <1>10, AppendProperties
<1> HIDE DEF st2
<1>13. Deep(dir, L)
  <2>1. i \in SlashesIn(dir)
    BY <1>3, <1>4 DEF SlashesIn
  <2>2. QED
    BY <2>1, <1>4 DEF Deep, dir
<1>14. Eq(Up(dir, 1), v.stack[L].path, cs)
  <2>1. dir # <<>> /\ Len(dir) - 1 = i - 1
    BY <1>3, <1>4, Length
  <2>2. Unslashed(dir) = SubSeq(dir, 1, i - 1)
    BY <1>4, <2>1, UnslashedOf
  <2>3. SubSeq(dir, 1, i - 1) = SubSeq(path, 1, i - 1)
    <3>1. i - 1 \in 0..i
      BY <1>3
    <3>2. QED
      BY <3>1, <1>3, FirstBytes DEF dir
  <2>4. Up(dir, 1) = DirOf(SubSeq(path, 1, i - 1))
    BY <1>4, <2>2, <2>3, UpOne DEF DirAbove
  <2>5. QED
    BY <2>4, <1>2, <1>7 DEF Last
<1>15. \A k \in 1..(L + 1) : k \in 1..L \/ k = L + 1
  BY <1>1
<1>16. Chain(u.stack, cs)
  <2> SUFFICES ASSUME NEW k \in 1..(L + 1)
               PROVE  /\ st2[k].depth = k - 1 /\ Deep(st2[k].path, k - 1)
                      /\ k > 1 => Eq(Up(st2[k].path, 1), st2[k - 1].path, cs)
    BY <1>11, <1>12 DEF Chain
  <2>1. CASE k \in 1..L
    <3>1. k > 1 => k - 1 \in 1..L
      BY <2>1, <1>1
    <3>2. QED
      BY <2>1, <3>1, <1>7, <1>12 DEF Right, Chain
  <2>2. CASE k = L + 1
    <3>1. k - 1 = L /\ L \in 1..L
      BY <2>2, <1>1
    <3>2. QED
      BY <2>2, <3>1, <1>8, <1>12, <1>13, <1>14
  <2>3. QED
    BY <2>1, <2>2, <1>15
<1>17. Linked(u.dirs, cs)
  BY <1>7, <1>11 DEF Right
<1>18. Waiting(u, cs)
  <2> SUFFICES ASSUME v.dirs # <<>>
               PROVE  LET d == v.dirs[Len(v.dirs)]
                      IN  d.depth \in 1..(L + 1) /\ Eq(Up(d.path, 1), st2[d.depth].path, cs)
    BY <1>11, <1>12 DEF Waiting
  <2> DEFINE d == v.dirs[Len(v.dirs)]
  <2>1. v.stack # <<>>
    BY <1>1, <1>7, <1>10, EmptySeq
  <2>2. d.depth \in 1..L /\ Eq(Up(d.path, 1), v.stack[d.depth].path, cs)
    BY <2>1, <1>7 DEF Right, Waiting
  <2>3. d.depth \in 1..(L + 1) /\ st2[d.depth] = v.stack[d.depth]
    BY <2>2, <1>12, <1>1
  <2>4. QED
    BY <2>2, <2>3
<1>19. Known(u, D)
  <2>1. \A k \in 1..L : st2[k].path \in D
    BY <1>7, <1>12 DEF Right, Known
  <2>2. st2[L + 1].path \in D
    BY <1>8, <1>12 DEF dir
  <2>3. \A k \in 1..(L + 1) : st2[k].path \in D
    BY <2>1, <2>2, <1>15
  <2>4. QED
    BY <2>3, <1>7, <1>11, <1>12 DEF Right, Known
<1>20. Right(u, cs, D) /\ Len(u.stack) = L + 1 /\ Last(u.stack).path = SubSeq(path, 1, i)
  BY <1>8, <1>11, <1>12, <1>16, <1>17, <1>18, <1>19 DEF Right, Last, dir
<1>21. QED
  BY <1>20 DEF u

-----------------------------------------------------------------------------
(* Where two paths part.                                                   *)

LEMMA SlashesCount ==
  ASSUME NEW x \in Bytes
  PROVE  /\ IsFiniteSet(SlashesIn(x)) /\ Cardinality(SlashesIn(x)) \in Nat
         /\ SlashesIn(x) \subseteq 1..Len(x) /\ SlashesIn(x) \subseteq Nat
         /\ Cardinality(SlashesIn(x)) <= Len(x)
<1>1. Len(x) \in Nat
  BY Length
<1>2. SlashesIn(x) \subseteq 1..Len(x)
  BY DEF SlashesIn
<1>3. IsFiniteSet(1..Len(x)) /\ Cardinality(1..Len(x)) = Len(x)
  BY <1>1, FS_Interval
<1>4. QED
  BY <1>1, <1>2, <1>3, FS_Subset, FS_CardinalityType

\* The directories above one end with its slashes.
LEMMA UpCut ==
  ASSUME NEW x \in Bytes, Len(x) \in {0} \cup SlashesIn(x), NEW c \in {0} \cup SlashesIn(x)
  PROVE  Up(x, Cardinality({s \in SlashesIn(x) : s > c})) = SubSeq(x, 1, c)
<1> DEFINE S == SlashesIn(x)
           Over(b) == {s \in S : s > b}
           n == Cardinality(S)
           T == {j \in 0..n : \A b \in {0} \cup S : Cardinality(Over(b)) = j => Up(x, j) = SubSeq(x, 1, b)}
<1>1. /\ IsFiniteSet(S) /\ n \in Nat /\ S \subseteq 1..Len(x) /\ S \subseteq Nat /\ Len(x) \in Nat
  BY SlashesCount, Length
<1>2. \A b : IsFiniteSet(Over(b)) /\ Cardinality(Over(b)) \in 0..n
  <2> TAKE b
  <2>1. Over(b) \in SUBSET S
    OBVIOUS
  <2> HIDE DEF Over, S
  <2>2. QED
    BY <1>1, <2>1, FS_Subset, FS_CardinalityType
<1>3. 0 \in T
  <2> SUFFICES ASSUME NEW b \in {0} \cup S, Cardinality(Over(b)) = 0 PROVE Up(x, 0) = SubSeq(x, 1, b)
    BY <1>1
  <2>1. Over(b) = {}
    BY <1>2, FS_EmptySet
  <2>2. b = Len(x)
    <3>1. ~ (Len(x) > b)
      <4>1. Len(x) \in S => Len(x) \notin Over(b)
        BY <2>1
      <4>2. QED
        BY <4>1, <1>1
    <3>2. b <= Len(x) /\ b \in Nat
      BY <1>1
    <3>3. QED
      BY <3>1, <3>2, <1>1
  <2>3. QED
    BY <2>2, UpRecursion, SubSeqFull DEF Bytes
<1>4. ASSUME NEW j \in (0 + 1)..n, j - 1 \in T PROVE j \in T
  <2>1. j \in Nat \ {0} /\ j \in 0..n /\ j - 1 \in Nat
    BY <1>1
  <2> SUFFICES ASSUME NEW b \in {0} \cup S, Cardinality(Over(b)) = j PROVE Up(x, j) = SubSeq(x, 1, b)
    BY <2>1
  <2>2. Over(b) # {} /\ Over(b) \in SUBSET Nat
    <3>1. Over(b) # {}
      BY <2>1, <1>2, FS_EmptySet
    <3>2. QED
      BY <3>1, <1>1
  <2>3. PICK e \in Over(b) : \A y \in Over(b) : e <= y
    <3> HIDE DEF Over
    <3> QED
      BY <2>2, LeastNumber
  <2>4. e \in S /\ e > b /\ e \in Nat /\ b \in Nat /\ e \in 1..Len(x) /\ \A s \in S : s < e => s <= b
    <3>1. e \in S /\ e > b /\ e \in Nat /\ b \in Nat /\ e \in 1..Len(x)
      BY <1>1
    <3>2. ASSUME NEW s \in S, s < e PROVE s <= b
      <4>1. s \notin Over(b)
        <5> HIDE DEF Over
        <5>1. s \in Nat
          BY <1>1
        <5>2. QED
          BY <5>1, <2>3, <3>1, <3>2
      <4>2. QED
        BY <4>1, <1>1, <3>1
    <3>3. QED
      BY <3>1, <3>2
  <2>5. Over(e) = Over(b) \ {e}
    <3>1. \A s \in S : s > e => s > b /\ s # e
      BY <2>4, <1>1
    <3>2. \A s \in S : s > b /\ s # e => s > e
      BY <2>4, <1>1
    <3>3. QED
      BY <3>1, <3>2
  <2>6. Cardinality(Over(e)) = j - 1
    <3> HIDE DEF Over
    <3>1. IsFiniteSet(Over(b)) /\ e \in Over(b)
      BY <1>2
    <3>2. QED
      BY <3>1, <2>5, FS_RemoveElement
  <2>7. Up(x, j - 1) = SubSeq(x, 1, e)
    BY <1>4, <2>4, <2>6
  <2> DEFINE u == SubSeq(x, 1, e)
             v == SubSeq(x, 1, e - 1)
  <2>8. u \in Bytes /\ Len(u) = e /\ u # <<>> /\ SubSeq(u, 1, e - 1) = v
    <3>1. e \in 0..Len(x) /\ e - 1 \in 0..e
      BY <2>4
    <3>2. u \in Bytes /\ Len(u) = e /\ SubSeq(u, 1, e - 1) = v
      BY <3>1, FirstBytes
    <3> HIDE DEF u
    <3>3. QED
      BY <2>4, <3>2, Length
  <2>9. v \in Bytes /\ Len(v) = e - 1 /\ SlashesIn(v) = {k \in S : k <= e - 1} /\ SubSeq(v, 1, b) = SubSeq(x, 1, b)
    <3>1. e - 1 \in 0..Len(x) /\ b \in 0..(e - 1)
      BY <2>4
    <3>2. QED
      BY <3>1, FirstBytes
  <2>10. DirOf(v) = SubSeq(v, 1, b)
    <3>1. b \in {0} \cup SlashesIn(v)
      BY <2>4, <2>9
    <3>2. \A s \in SlashesIn(v) : s <= b
      BY <2>4, <2>9, <1>1
    <3> HIDE DEF v
    <3>3. QED
      BY <3>1, <3>2, <2>9, DirCut
  <2>11. Unslashed(u) = v
    <3> HIDE DEF u, v
    <3> QED
      BY <2>8, UnslashedOf
  <2>12. Up(x, j) = DirAbove(u)
    <3>1. Up(x, j) = DirAbove(Up(x, j - 1))
      BY <2>1, UpRecursion
    <3>2. QED
      BY <3>1, <2>7
  <2> HIDE DEF u, v
  <2>13. QED
    BY <2>9, <2>10, <2>11, <2>12 DEF DirAbove
<1>5. \A j \in 0..n : j \in T
  <2>1. 0 \in Int /\ n \in Int /\ 0 <= n
    BY <1>1
  <2> HIDE DEF T, n
  <2>2. QED
    BY <2>1, <1>3, <1>4, Steps
<1>6. Cardinality(Over(c)) \in T
  <2>1. Cardinality(Over(c)) \in 0..n
    BY <1>2
  <2> HIDE DEF T, Over
  <2>2. QED
    BY <2>1, <1>5
<1>7. QED
  BY <1>6

\* The directories two paths have in common are the first ones of each.
LEMMA Common ==
  ASSUME NEW cs \in BOOLEAN, NEW a \in Bytes, NEW b \in Bytes
  PROVE  /\ CommonLen(a, b, cs) \in {0} \cup SlashesIn(a)
         /\ CommonLen(a, b, cs) \in {0} \cup SlashesIn(b)
         /\ CommonDirs(a, b, cs) = {s \in SlashesIn(a) : ~ (s > CommonLen(a, b, cs))}
         /\ CommonDirs(a, b, cs) = SlashesIn(SubSeq(b, 1, CommonLen(a, b, cs)))
         /\ Eq(SubSeq(a, 1, CommonLen(a, b, cs)), SubSeq(b, 1, CommonLen(a, b, cs)), cs)
<1> DEFINE C == CommonDirs(a, b, cs)
           c == CommonLen(a, b, cs)
<1>1. Len(a) \in Nat /\ Len(b) \in Nat
  BY Length
<1>2. C \subseteq SlashesIn(a) /\ C \subseteq 1..Len(a) /\ SlashesIn(a) \subseteq 1..Len(a)
  BY DEF CommonDirs, SlashesIn
<1>3. \A i \in C : i <= Len(b) /\ Eq(SubSeq(a, 1, i), SubSeq(b, 1, i), cs)
  BY DEF CommonDirs
<1>4. c \in {0} \cup C /\ \A i \in C : i <= c
  <2>1. {0} \cup C \in SUBSET (0..Len(a)) /\ {0} \cup C # {}
    BY <1>1, <1>2
  <2>2. c = Max({0} \cup C)
    BY DEF CommonLen
  <2> HIDE DEF C, c
  <2>3. QED
    BY <1>1, <2>1, <2>2, Greatest
<1>5. c \in 0..Len(a) /\ c \in 0..Len(b) /\ Eq(SubSeq(a, 1, c), SubSeq(b, 1, c), cs)
  <2>1. CASE c = 0
    <3>1. SubSeq(a, 1, 0) = <<>> /\ SubSeq(b, 1, 0) = <<>> /\ <<>> \in Bytes
      BY SubSeqEmpty, EmptySeq DEF Bytes
    <3>2. Eq(SubSeq(a, 1, 0), SubSeq(b, 1, 0), cs)
      BY <3>1, EqualRefl
    <3> HIDE DEF c
    <3>3. QED
      BY <2>1, <3>2, <1>1
  <2>2. CASE c \in C
    <3> HIDE DEF c, C
    <3> QED
      BY <2>2, <1>1, <1>2, <1>3
  <2>3. QED
    BY <1>4, <2>1, <2>2
<1> DEFINE u == SubSeq(a, 1, c)
           v == SubSeq(b, 1, c)
<1>6. /\ u \in Bytes /\ v \in Bytes /\ Len(u) = c /\ Len(v) = c
      /\ SlashesIn(u) = {k \in SlashesIn(a) : k <= c} /\ SlashesIn(v) = {k \in SlashesIn(b) : k <= c}
      /\ \A m \in 0..c : SubSeq(u, 1, m) = SubSeq(a, 1, m) /\ SubSeq(v, 1, m) = SubSeq(b, 1, m)
  <2> HIDE DEF c
  <2> QED
    BY <1>5, FirstBytes
<1> HIDE DEF u, v, c, C
<1>7. SlashesIn(u) = SlashesIn(v) /\ \A m \in 0..c : Eq(SubSeq(u, 1, m), SubSeq(v, 1, m), cs)
  <2>1. Eq(u, v, cs)
    BY <1>5 DEF u, v
  <2>2. QED
    BY <2>1, <1>6, EqualFirst
<1>8. ASSUME NEW i \in SlashesIn(u) PROVE i \in C
  <2>1. i \in SlashesIn(a) /\ i <= c /\ i \in 1..Len(a) /\ i \in 0..c
    BY <1>1, <1>2, <1>5, <1>6
  <2>2. Eq(SubSeq(a, 1, i), SubSeq(b, 1, i), cs)
    BY <2>1, <1>6, <1>7
  <2>3. i <= Len(b) /\ a[i] = Slash
    BY <2>1, <1>1, <1>5 DEF SlashesIn
  <2>4. QED
    BY <2>1, <2>2, <2>3 DEF C, CommonDirs
<1>9. C = SlashesIn(u)
  BY <1>2, <1>4, <1>6, <1>8
<1>10. C = {s \in SlashesIn(a) : ~ (s > c)}
  <2>1. \A s \in SlashesIn(a) : s <= c <=> ~ (s > c)
    BY <1>1, <1>2, <1>5
  <2>2. QED
    BY <2>1, <1>6, <1>9
<1>11. c \in {0} \cup SlashesIn(a) /\ c \in {0} \cup SlashesIn(b)
  BY <1>2, <1>4, <1>6, <1>7, <1>9
<1>12. QED
  BY <1>5, <1>7, <1>9, <1>10, <1>11 DEF c, C, v

\* The directory where a path parts from that on top of the stack is below.
LEMMA PartsOnStack ==
  ASSUME NEW cs \in BOOLEAN, NEW st \in Seq(Building), Chain(st, cs), st # <<>>,
         NEW path \in Bytes
  PROVE  LET prev == Last(st).path
             depth == CommonDepth(prev, path, cs)
             len == CommonLen(prev, path, cs)
         IN  /\ depth \in 0..(Len(st) - 1)
             /\ len \in {0} \cup SlashesIn(path)
             /\ Cardinality(SlashesIn(SubSeq(path, 1, len))) = depth
             /\ Eq(SubSeq(path, 1, len), st[depth + 1].path, cs)
<1> DEFINE L == Len(st)
           prev == Last(st).path
           C == CommonDirs(prev, path, cs)
           depth == CommonDepth(prev, path, cs)
           len == CommonLen(prev, path, cs)
           S == SlashesIn(prev)
<1>1. L \in Nat \ {0} /\ L \in 1..L /\ prev = st[L].path /\ prev \in Bytes
  <2>1. L # 0
    BY EmptySeq
  <2>2. QED
    BY <2>1, StackTypes DEF Last
<1> HIDE DEF prev
<1>2. Len(prev) \in {0} \cup S /\ Cardinality(S) = L - 1
  BY <1>1 DEF Chain, Deep
<1>3. /\ len \in {0} \cup S /\ len \in {0} \cup SlashesIn(path)
      /\ C = {s \in S : ~ (s > len)}
      /\ C = SlashesIn(SubSeq(path, 1, len))
      /\ Eq(SubSeq(prev, 1, len), SubSeq(path, 1, len), cs)
  BY <1>1, Common
<1>4. depth = Cardinality(C)
  BY DEF CommonDepth
<1>5. IsFiniteSet(S) /\ IsFiniteSet(C) /\ depth \in 0..(L - 1)
  <2>1. IsFiniteSet(S) /\ C \in SUBSET S
    BY <1>1, <1>3, SlashesCount
  <2> HIDE DEF S, C, depth
  <2>2. IsFiniteSet(C) /\ Cardinality(C) <= Cardinality(S) /\ Cardinality(C) \in Nat
    BY <2>1, FS_Subset, FS_CardinalityType
  <2>3. QED
    BY <2>1, <2>2, <1>1, <1>2, <1>4
<1> DEFINE O == {s \in S : s > len}
           d == L - 1 - depth
<1>6. Cardinality(O) = d
  <2>1. O = S \ C /\ S \cap C = C
    <3> HIDE DEF len
    <3> QED
      BY <1>3
  <2> HIDE DEF S, C, O, depth
  <2>2. Cardinality(S \ C) = Cardinality(S) - Cardinality(S \cap C)
    BY <1>5, FS_Difference
  <2>3. QED
    BY <2>1, <2>2, <1>2, <1>4
<1>7. Up(prev, d) = SubSeq(prev, 1, len)
  <2>1. Up(prev, Cardinality(O)) = SubSeq(prev, 1, len)
    <3> HIDE DEF len
    <3> QED
      BY <1>1, <1>2, <1>3, UpCut
  <2> HIDE DEF O, d
  <2>2. QED
    BY <2>1, <1>6
<1>8. Eq(Up(prev, d), st[depth + 1].path, cs)
  <2>1. d \in 0..(L - 1) /\ L - d = depth + 1
    <3> HIDE DEF depth
    <3> QED
      BY <1>1, <1>5
  <2> HIDE DEF d, depth
  <2>2. QED
    BY <2>1, <1>1, ChainUp
<1>9. /\ SubSeq(prev, 1, len) \in Bytes /\ SubSeq(path, 1, len) \in Bytes
      /\ st[depth + 1].path \in Bytes
  <2>1. len \in 0..Len(prev) /\ len \in 0..Len(path)
    BY <1>1, <1>3, SlashesCount, Length
  <2>2. depth + 1 \in 1..L
    <3> HIDE DEF depth
    <3> QED
      BY <1>1, <1>5
  <2> HIDE DEF len, depth
  <2>3. QED
    BY <2>1, <2>2, <1>1, FirstBytes, StackTypes
<1> HIDE DEF len, depth
<1>10. Eq(SubSeq(path, 1, len), st[depth + 1].path, cs)
  <2>1. Eq(SubSeq(path, 1, len), SubSeq(prev, 1, len), cs)
    BY <1>3, <1>9, EqualSym
  <2>2. Eq(SubSeq(prev, 1, len), st[depth + 1].path, cs)
    BY <1>7, <1>8
  <2>3. QED
    BY <2>1, <2>2, <1>9, EqualTrans
<1>11. Cardinality(SlashesIn(SubSeq(path, 1, len))) = depth
  BY <1>3, <1>4
<1>12. QED
  BY <1>3, <1>5, <1>10, <1>11 DEF len, depth, prev

\* Entering the directories of a path that lie below the one on top.
LEMMA PushingSteps ==
  ASSUME NEW cs \in BOOLEAN, NEW D, NEW s, Right(s, cs, D), s.stack # <<>>,
         NEW path \in Bytes, NEW from \in {0} \cup SlashesIn(path),
         \A i \in SlashesIn(path) : SubSeq(path, 1, i) \in D,
         Len(s.stack) = Cardinality(SlashesIn(SubSeq(path, 1, from))) + 1,
         Eq(SubSeq(path, 1, from), Last(s.stack).path, cs)
  PROVE  LET u == Pushing(s, path, from)
         IN  /\ u[from] = s
             /\ \A i \in from..Len(path) :
                  i # from /\ path[i] = Slash => u[i] = PushDir(u[i - 1], path, i)
             /\ \A i \in from..Len(path) : i # from /\ path[i] # Slash => u[i] = u[i - 1]
             /\ \A i \in from..Len(path) :
                  /\ Right(u[i], cs, D)
                  /\ Len(u[i].stack) = Cardinality(SlashesIn(SubSeq(path, 1, i))) + 1
                  /\ Eq(DirOf(SubSeq(path, 1, i)), Last(u[i].stack).path, cs)
<1> DEFINE n == Len(path)
           top(t) == Last(t.stack).path
           I == [i \in from..n |->
                   {t \in Stacks : /\ Right(t, cs, D)
                                   /\ Len(t.stack) = Cardinality(SlashesIn(SubSeq(path, 1, i))) + 1
                                   /\ Eq(DirOf(SubSeq(path, 1, i)), top(t), cs)}]
           Step_(t, i) == IF path[i] = Slash THEN PushDir(t, path, i) ELSE t
           G == [i \in from..n |-> [t \in I[i - 1] |-> Step_(t, i)]]
           P(f) == f = [i \in from..n |-> IF i = from THEN s
                                          ELSE IF path[i] = Slash THEN PushDir(f[i - 1], path, i)
                                          ELSE f[i - 1]]
           u == Pushing(s, path, from)
<1>1. n \in Nat /\ from \in 0..n /\ from \in Nat /\ from \in from..n /\ n \in from..n
  <2>1. n \in Nat /\ from \in 0..n
    BY Length, SlashesCount
  <2>2. QED
    BY <2>1
<1>2. s \in I[from]
  <2> DEFINE x == SubSeq(path, 1, from)
  <2>1. x \in Bytes /\ Len(x) = from /\ SlashesIn(x) = {k \in SlashesIn(path) : k <= from}
    BY <1>1, FirstBytes
  <2>2. DirOf(x) = SubSeq(x, 1, from)
    <3>1. from \in {0} \cup SlashesIn(x) /\ \A k \in SlashesIn(x) : k <= from
      BY <1>1, <2>1
    <3> HIDE DEF x
    <3>2. QED
      BY <2>1, <3>1, DirCut
  <2>3. DirOf(x) = x
    <3> HIDE DEF x
    <3> QED
      BY <2>1, <2>2, SubSeqFull DEF Bytes
  <2>4. s \in Stacks
    BY DEF Right
  <2>5. QED
    BY <1>1, <2>3, <2>4
<1>3. ASSUME NEW i \in from..n, i # from, NEW t \in I[i - 1] PROVE Step_(t, i) \in I[i]
  <2> DEFINE x == SubSeq(path, 1, i - 1)
             y == SubSeq(path, 1, i)
  <2>1. /\ i \in Nat \ {0} /\ i \in 1..n /\ i \in 0..n /\ i - 1 \in 0..n /\ i - 1 \in from..n
        /\ i \in 0..i /\ i - 1 \in 0..i
    BY <1>1, <1>3
  <2>2. /\ Right(t, cs, D) /\ Len(t.stack) = Cardinality(SlashesIn(x)) + 1
        /\ Eq(DirOf(x), top(t), cs)
    BY <1>3, <2>1
  <2>3. /\ x \in Bytes /\ Len(x) = i - 1 /\ SlashesIn(x) = {k \in SlashesIn(path) : k <= i - 1}
        /\ y \in Bytes /\ Len(y) = i /\ SlashesIn(y) = {k \in SlashesIn(path) : k <= i}
        /\ SubSeq(y, 1, i - 1) = x /\ SubSeq(y, 1, i) = y
    <3>1. SubSeq(y, 1, i) = y
      BY <2>1, FirstBytes
    <3>2. QED
      BY <3>1, <2>1, FirstBytes
  <2>4. /\ SlashesIn(path) \subseteq Nat /\ IsFiniteSet(SlashesIn(x)) /\ Cardinality(SlashesIn(x)) \in Nat
    BY <2>3, SlashesCount
  <2> HIDE DEF x, y
  <2>5. t.stack # <<>> /\ t \in Stacks /\ t.stack \in Seq(Building)
    <3>1. t \in Stacks /\ t.stack \in Seq(Building)
      BY <2>2 DEF Right, Stacks
    <3>2. Len(t.stack) # 0
      BY <2>2, <2>4
    <3>3. QED
      BY <3>1, <3>2, EmptySeq
  <2>6. CASE path[i] = Slash
    <3>1. i \in SlashesIn(path) /\ i \in SlashesIn(y) /\ y \in D
      BY <2>1, <2>3, <2>6 DEF SlashesIn, y
    <3>2. SlashesIn(y) = SlashesIn(x) \cup {i} /\ i \notin SlashesIn(x)
      BY <2>1, <2>3, <2>4, <3>1
    <3>3. Cardinality(SlashesIn(y)) = Cardinality(SlashesIn(x)) + 1
      BY <2>4, <3>2, FS_AddElement
    <3>4. /\ Right(PushDir(t, path, i), cs, D)
          /\ Len(PushDir(t, path, i).stack) = Len(t.stack) + 1
          /\ top(PushDir(t, path, i)) = y
      <4>1. Cardinality(SlashesIn(SubSeq(path, 1, i))) = Len(t.stack)
        BY <3>3, <2>2 DEF y
      <4>2. Eq(DirOf(SubSeq(path, 1, i - 1)), Last(t.stack).path, cs)
        BY <2>2 DEF x
      <4>3. SubSeq(path, 1, i) \in D
        BY <3>1 DEF y
      <4>4. QED
        BY <2>1, <2>2, <2>5, <2>6, <4>1, <4>2, <4>3, PushKeeps DEF y
    <3>5. DirOf(y) = y
      <4>1. \A k \in SlashesIn(y) : k <= i
        BY <2>3
      <4>2. QED
        BY <3>1, <4>1, <2>3, DirCut
    <3>6. Eq(DirOf(y), top(PushDir(t, path, i)), cs)
      BY <3>4, <3>5, <2>3, EqualRefl
    <3>7. PushDir(t, path, i) \in Stacks
      BY <3>4 DEF Right
    <3>8. Len(PushDir(t, path, i).stack) = Cardinality(SlashesIn(y)) + 1
      BY <2>2, <3>3, <3>4
    <3>9. QED
      BY <2>6, <3>4, <3>6, <3>7, <3>8 DEF y
  <2>7. CASE path[i] # Slash
    <3>1. SlashesIn(y) = SlashesIn(x)
      <4>1. i \notin SlashesIn(path)
        BY <2>7 DEF SlashesIn
      <4>2. \A k \in SlashesIn(path) : k <= i <=> k <= i - 1
        BY <4>1, <2>1, <2>4
      <4>3. QED
        BY <4>2, <2>3
    <3>2. DirOf(y) = DirOf(x)
      <4>1. PICK c \in {0} \cup SlashesIn(x) :
              DirOf(x) = SubSeq(x, 1, c) /\ c \in 0..Len(x) /\ \A k \in SlashesIn(x) : k <= c
        BY <2>3, DirEnds
      <4>2. DirOf(y) = SubSeq(y, 1, c)
        BY <4>1, <3>1, <2>3, DirCut
      <4>3. SubSeq(x, 1, c) = SubSeq(path, 1, c) /\ SubSeq(y, 1, c) = SubSeq(path, 1, c)
        <5>1. c \in 0..(i - 1) /\ c \in 0..i
          BY <4>1, <2>1, <2>3
        <5>2. QED
          BY <5>1, <2>1, FirstBytes DEF x, y
      <4>4. QED
        BY <4>1, <4>2, <4>3
    <3>3. QED
      BY <2>2, <2>5, <2>7, <3>1, <3>2 DEF y
  <2>8. QED
    BY <2>6, <2>7
<1>4. PICK f : Follows(f, from, n, I, s, G)
  <2>1. \A i \in from..n : i # from => G[i] \in [I[i - 1] -> I[i]]
    <3> TAKE i \in from..n
    <3> HAVE i # from
    <3>1. G[i] = [t \in I[i - 1] |-> Step_(t, i)]
      OBVIOUS
    <3> HIDE DEF I, G, Step_
    <3>2. QED
      BY <3>1, <1>3
  <2>2. from \in Int /\ n \in Int /\ from <= n
    BY <1>1
  <2> HIDE DEF I, G
  <2>3. QED
    BY <2>1, <2>2, <1>2, Recursion
<1>5. P(f)
  <2>1. f = [i \in from..n |-> f[i]] /\ f[from] = s
    BY <1>4 DEF Follows
  <2>2. ASSUME NEW i \in from..n, i # from PROVE f[i] = Step_(f[i - 1], i)
    <3>1. f[i] = G[i][f[i - 1]]
      <4> HIDE DEF G, I
      <4> QED
        BY <2>2, <1>4 DEF Follows
    <3>2. f[i - 1] \in I[i - 1]
      <4>1. i - 1 \in from..n
        BY <2>2, <1>1
      <4> HIDE DEF G, I
      <4>2. QED
        BY <4>1, <1>4 DEF Follows
    <3>3. G[i] = [t \in I[i - 1] |-> Step_(t, i)]
      OBVIOUS
    <3> HIDE DEF G, I, Step_
    <3>4. QED
      BY <3>1, <3>2, <3>3
  <2> HIDE DEF G, I
  <2>3. QED
    BY <2>1, <2>2
<1>6. u = CHOOSE h : P(h)
  BY Zenon DEF Pushing
<1>7. P(u)
  <2> HIDE DEF P, u
  <2> QED
    BY <1>5, <1>6
<1>8. u[from] = s /\ \A i \in from..n : i # from => u[i] = Step_(u[i - 1], i)
  <2> HIDE DEF u
  <2>1. u = [i \in from..n |-> IF i = from THEN s
                               ELSE IF path[i] = Slash THEN PushDir(u[i - 1], path, i)
                               ELSE u[i - 1]]
    BY <1>7
  <2> HIDE DEF P
  <2>2. QED
    BY <2>1, <1>1
<1> DEFINE T == {i \in from..n : u[i] \in I[i]}
<1>9. from \in T
  <2> HIDE DEF u, I
  <2> QED
    BY <1>1, <1>2, <1>8
<1>10. ASSUME NEW i \in (from + 1)..n, i - 1 \in T PROVE i \in T
  <2>1. i \in from..n /\ i # from
    BY <1>1
  <2> HIDE DEF u, I, Step_
  <2>2. u[i - 1] \in I[i - 1] /\ u[i] = Step_(u[i - 1], i)
    BY <1>10, <1>8, <2>1
  <2>3. QED
    BY <2>1, <2>2, <1>3
<1>11. \A i \in from..n : i \in T
  <2>1. from \in Int /\ n \in Int /\ from <= n
    BY <1>1
  <2> HIDE DEF T
  <2> QED
    BY <1>9, <1>10, <2>1, Steps
<1>12. \A i \in from..n : u[i] \in I[i]
  <2> HIDE DEF u, I
  <2> QED
    BY <1>11
<1> HIDE DEF u
<1>13. \A i \in from..n : /\ Right(u[i], cs, D)
                         /\ Len(u[i].stack) = Cardinality(SlashesIn(SubSeq(path, 1, i))) + 1
                         /\ Eq(DirOf(SubSeq(path, 1, i)), Last(u[i].stack).path, cs)
  BY <1>12
<1>14. /\ \A i \in from..n : i # from /\ path[i] = Slash => u[i] = PushDir(u[i - 1], path, i)
       /\ \A i \in from..n : i # from /\ path[i] # Slash => u[i] = u[i - 1]
  BY <1>8 DEF u
<1>15. QED
  BY <1>8, <1>13, <1>14 DEF u

LEMMA PushingKeeps ==
  ASSUME NEW cs \in BOOLEAN, NEW D, NEW s, Right(s, cs, D), s.stack # <<>>,
         NEW path \in Bytes, NEW from \in {0} \cup SlashesIn(path),
         \A i \in SlashesIn(path) : SubSeq(path, 1, i) \in D,
         Len(s.stack) = Cardinality(SlashesIn(SubSeq(path, 1, from))) + 1,
         Eq(SubSeq(path, 1, from), Last(s.stack).path, cs)
  PROVE  /\ Right(PushDirs(s, path, from), cs, D) /\ PushDirs(s, path, from).stack # <<>>
         /\ Eq(DirOf(path), Last(PushDirs(s, path, from).stack).path, cs)
<1> DEFINE n == Len(path)
           u == Pushing(s, path, from)
<1>1. n \in Nat /\ from \in 0..n /\ n \in from..n /\ n \in 0..n
  <2>1. n \in Nat /\ from \in 0..n
    BY Length, SlashesCount
  <2>2. QED
    BY <2>1
<1>2. /\ Right(u[n], cs, D) /\ Len(u[n].stack) = Cardinality(SlashesIn(SubSeq(path, 1, n))) + 1
      /\ Eq(DirOf(SubSeq(path, 1, n)), Last(u[n].stack).path, cs)
  BY <1>1, PushingSteps
<1> HIDE DEF u
<1>3. SubSeq(path, 1, n) = path
  BY SubSeqFull DEF Bytes
<1>4. u[n].stack # <<>>
  <2>1. Cardinality(SlashesIn(path)) \in Nat
    BY SlashesCount
  <2> DEFINE st == u[n].stack
  <2> DEFINE a == Cardinality(SlashesIn(path))
  <2>2. Len(st) = a + 1 /\ a \in Nat
    BY <2>1, <1>2, <1>3, Zenon
  <2> HIDE DEF st, a
  <2>3. st # <<>>
    BY <2>2, EmptySeq
  <2>4. QED
    BY <2>3 DEF st
<1>5. QED
  BY <1>2, <1>3, <1>4 DEF PushDirs, u

LEMMA AddEntryKeeps ==
  ASSUME NEW cs \in BOOLEAN, NEW D, NEW s, Right(s, cs, D), s.stack # <<>>,
         NEW path \in Bytes, Holds(path) \subseteq D, NEW i \in Nat
  PROVE  Right(AddEntry(s, path, i, cs), cs, D) /\ AddEntry(s, path, i, cs).stack # <<>>
<1> DEFINE st == s.stack
           prev == Last(st).path
           depth == CommonDepth(prev, path, cs)
           len == CommonLen(prev, path, cs)
           t == PopTo(s, depth, cs)
           u == PushDirs(t, path, len)
<1>1. st \in Seq(Building) /\ Chain(st, cs)
  BY DEF Right, Stacks
<1>2. /\ depth \in 0..(Len(st) - 1) /\ len \in {0} \cup SlashesIn(path)
      /\ Cardinality(SlashesIn(SubSeq(path, 1, len))) = depth
      /\ Eq(SubSeq(path, 1, len), st[depth + 1].path, cs)
  BY <1>1, PartsOnStack
<1>3. Len(st) \in Nat /\ depth \in Nat /\ depth \in (-1)..(Len(st) - 1) /\ depth + 1 \in 0..Len(st)
      /\ depth + 1 \in 1..(depth + 1)
  <2>1. Len(st) \in Nat
    BY <1>1, StackTypes
  <2> HIDE DEF depth, st
  <2>2. QED
    BY <2>1, <1>2
<1> HIDE DEF depth, len
<1>4. Right(t, cs, D) /\ t.stack = SubSeq(st, 1, depth + 1)
  BY <1>3, PopToKeeps
<1> HIDE DEF t
<1>5. Len(t.stack) = depth + 1 /\ t.stack[depth + 1] = st[depth + 1]
  BY <1>1, <1>3, <1>4, Prefix
<1>6. t.stack # <<>> /\ Last(t.stack) = st[depth + 1]
  <2>1. Len(t.stack) # 0
    BY <1>3, <1>5
  <2>2. t.stack # <<>>
    BY <2>1, EmptySeq
  <2>3. QED
    BY <2>2, <1>5 DEF Last
<1>7. \A k \in SlashesIn(path) : SubSeq(path, 1, k) \in D
  BY DEF Holds
<1>8. Right(u, cs, D) /\ u.stack # <<>>
  <2>1. Len(t.stack) = Cardinality(SlashesIn(SubSeq(path, 1, len))) + 1
    BY <1>2, <1>5
  <2>2. Eq(SubSeq(path, 1, len), Last(t.stack).path, cs)
    BY <1>2, <1>6
  <2>3. QED
    BY <1>2, <1>4, <1>6, <1>7, <2>1, <2>2, PushingKeeps
<1>9. AddEntry(s, path, i, cs) = AddFile(u, i)
  BY Zenon DEF AddEntry, depth, len, t
<1> HIDE DEF u
<1> DEFINE top == Last(u.stack)
           top2 == [top EXCEPT !.files = Append(@, i)]
<1>10. u.stack \in Seq(Building) /\ top \in Building
  <2>1. u.stack \in Seq(Building)
    BY <1>8 DEF Right, Stacks
  <2>2. Len(u.stack) \in 1..Len(u.stack)
    <3>1. Len(u.stack) \in Nat \ {0}
      BY <2>1, <1>8, EmptySeq
    <3>2. QED
      BY <3>1
  <2>3. QED
    BY <2>1, <2>2, StackTypes DEF Last
<1>11. top2 \in Building /\ top2.path = top.path /\ top2.depth = top.depth
  <2>1. Append(top.files, i) \in Seq(Nat)
    BY <1>10, AppendProperties DEF Building
  <2> HIDE DEF top
  <2>2. QED
    BY <2>1, <1>10 DEF Building
<1>12. AddFile(u, i) = OnTop(u, top2)
  BY DEF AddFile
<1> HIDE DEF top2
<1>13. /\ Right(OnTop(u, top2), cs, D) /\ Len(OnTop(u, top2).stack) = Len(u.stack)
       /\ Len(u.stack) \in Nat \ {0}
  BY <1>8, <1>11, OnTopKeeps
<1>14. OnTop(u, top2).stack # <<>>
  BY <1>13, EmptySeq
<1>15. QED
  BY <1>9, <1>12, <1>13, <1>14

LEMMA AddingSteps ==
  ASSUME NEW cs \in BOOLEAN, NEW D, Root \in D, NEW paths \in Seq(Bytes),
         \A i \in 1..Len(paths) : Holds(paths[i]) \subseteq D
  PROVE  LET u == Adding(paths, cs)
         IN  /\ u[0] = NoDirs
             /\ \A i \in 0..Len(paths) : i # 0 => u[i] = AddEntry(u[i - 1], paths[i], i, cs)
             /\ \A i \in 0..Len(paths) : Right(u[i], cs, D) /\ u[i].stack # <<>>
<1> DEFINE n == Len(paths)
           J == {t \in Stacks : Right(t, cs, D) /\ t.stack # <<>>}
           I == [i \in 0..n |-> J]
           G == [i \in 0..n |-> [t \in I[i - 1] |-> AddEntry(t, paths[i], i, cs)]]
           P(f) == f = [i \in 0..n |-> IF i = 0 THEN NoDirs ELSE AddEntry(f[i - 1], paths[i], i, cs)]
           u == Adding(paths, cs)
<1>1. n \in Nat /\ 0 \in 0..n /\ n \in 0..n /\ \A i \in 1..n : paths[i] \in Bytes
  <2>1. n \in Nat /\ \A i \in 1..n : paths[i] \in Bytes
    BY LenProperties, ElementOfSeq
  <2>2. QED
    BY <2>1
<1>2. NoDirs \in J
  <2> DEFINE d == IndexDir(<<>>, <<>>, 0)
  <2>1. d \in Building /\ d.path = <<>> /\ d.depth = 0
    <3>1. <<>> \in Bytes /\ <<>> \in Seq(Nat) /\ <<>> \in Seq(Bytes)
      BY EmptySeq DEF Bytes
    <3>2. QED
      BY <3>1 DEF IndexDir, Building
  <2> HIDE DEF d
  <2>2. NoDirs.stack = <<d>> /\ NoDirs.dirs = <<>> /\ NoDirs = [stack |-> <<d>>, dirs |-> <<>>]
    BY DEF NoDirs, d
  <2>3. <<d>> \in Seq(Building) /\ Len(<<d>>) = 1 /\ <<d>>[1] = d /\ <<d>> # <<>>
    BY <2>1
  <2>4. NoDirs \in Stacks
    <3>1. <<>> \in Seq(Built)
      BY EmptySeq
    <3>2. QED
      BY <2>2, <2>3, <3>1 DEF Stacks
  <2>5. Deep(<<>>, 0)
    <3>1. SlashesIn(<<>>) = {}
      BY DEF SlashesIn
    <3>2. QED
      BY <3>1, FS_EmptySet DEF Deep
  <2>6. Chain(<<d>>, cs)
    <3>1. \A k \in 1..1 : k = 1
      OBVIOUS
    <3>2. QED
      BY <2>1, <2>3, <2>5, <3>1 DEF Chain
  <2>7. Linked(<<>>, cs)
    BY DEF Linked
  <2>8. Waiting(NoDirs, cs)
    BY <2>2 DEF Waiting
  <2>9. Known(NoDirs, D)
    <3>1. \A k \in 1..1 : k = 1
      OBVIOUS
    <3>2. d.path \in D
      BY <2>1 DEF Root
    <3>3. Len(<<>>) = 0 /\ \A m \in 1..0 : FALSE
      OBVIOUS
    <3>4. QED
      BY <2>2, <2>3, <3>1, <3>2, <3>3 DEF Known
  <2>10. QED
    BY <2>2, <2>3, <2>4, <2>6, <2>7, <2>8, <2>9 DEF Right
<1>3. ASSUME NEW i \in 0..n, i # 0, NEW t \in J PROVE AddEntry(t, paths[i], i, cs) \in J
  <2>1. i \in 1..n /\ i \in Nat
    BY <1>1, <1>3
  <2>2. paths[i] \in Bytes /\ Holds(paths[i]) \subseteq D
    BY <2>1, <1>1
  <2>3. Right(AddEntry(t, paths[i], i, cs), cs, D) /\ AddEntry(t, paths[i], i, cs).stack # <<>>
    BY <2>1, <2>2, <1>3, AddEntryKeeps
  <2>4. QED
    BY <2>3 DEF Right
<1>4. PICK f : Follows(f, 0, n, I, NoDirs, G)
  <2>1. \A i \in 0..n : i # 0 => G[i] \in [I[i - 1] -> I[i]]
    <3> TAKE i \in 0..n
    <3> HAVE i # 0
    <3>1. G[i] = [t \in I[i - 1] |-> AddEntry(t, paths[i], i, cs)]
      OBVIOUS
    <3>2. I[i] = J /\ I[i - 1] = J
      <4>1. i - 1 \in 0..n
        BY <1>1
      <4> HIDE DEF J
      <4>2. QED
        BY <4>1
    <3> HIDE DEF I, G, J
    <3>3. QED
      BY <3>1, <3>2, <1>3
  <2>2. 0 \in Int /\ n \in Int /\ 0 <= n /\ NoDirs \in I[0]
    BY <1>1, <1>2
  <2> HIDE DEF I, G
  <2>3. QED
    BY <2>1, <2>2, Recursion
<1>5. P(f)
  <2>1. f = [i \in 0..n |-> f[i]] /\ f[0] = NoDirs
    BY <1>4 DEF Follows
  <2>2. ASSUME NEW i \in 0..n, i # 0 PROVE f[i] = AddEntry(f[i - 1], paths[i], i, cs)
    <3>1. f[i] = G[i][f[i - 1]]
      <4> HIDE DEF G, I
      <4> QED
        BY <2>2, <1>4 DEF Follows
    <3>2. f[i - 1] \in I[i - 1]
      <4>1. i - 1 \in 0..n
        BY <2>2, <1>1
      <4> HIDE DEF G, I
      <4>2. QED
        BY <4>1, <1>4 DEF Follows
    <3>3. G[i] = [t \in I[i - 1] |-> AddEntry(t, paths[i], i, cs)]
      OBVIOUS
    <3> HIDE DEF G, I
    <3>4. QED
      BY <3>1, <3>2, <3>3
  <2> HIDE DEF G, I
  <2>3. QED
    BY <2>1, <2>2
<1>6. u = CHOOSE h : P(h)
  BY Zenon DEF Adding
<1>7. P(u)
  <2> HIDE DEF P, u
  <2> QED
    BY <1>5, <1>6
<1>8. u[0] = NoDirs /\ \A i \in 0..n : i # 0 => u[i] = AddEntry(u[i - 1], paths[i], i, cs)
  <2> HIDE DEF u
  <2>1. u = [i \in 0..n |-> IF i = 0 THEN NoDirs ELSE AddEntry(u[i - 1], paths[i], i, cs)]
    BY <1>7
  <2> HIDE DEF P
  <2>2. QED
    BY <2>1, <1>1
<1> DEFINE T == {i \in 0..n : u[i] \in J}
<1>9. 0 \in T
  <2> HIDE DEF u, J
  <2> QED
    BY <1>1, <1>2, <1>8
<1>10. ASSUME NEW i \in (0 + 1)..n, i - 1 \in T PROVE i \in T
  <2>1. i \in 0..n /\ i # 0
    BY <1>1
  <2> HIDE DEF u, J
  <2>2. u[i - 1] \in J /\ u[i] = AddEntry(u[i - 1], paths[i], i, cs)
    BY <1>10, <1>8, <2>1
  <2>3. QED
    BY <2>1, <2>2, <1>3
<1>11. \A i \in 0..n : i \in T
  <2>1. 0 \in Int /\ n \in Int /\ 0 <= n
    BY <1>1
  <2> HIDE DEF T
  <2> QED
    BY <1>9, <1>10, <2>1, Steps
<1>12. \A i \in 0..n : u[i] \in J
  <2> HIDE DEF u, J
  <2> QED
    BY <1>11
<1> HIDE DEF u
<1>13. \A i \in 0..n : Right(u[i], cs, D) /\ u[i].stack # <<>>
  BY <1>12
<1>14. QED
  BY <1>8, <1>13 DEF u

LEMMA AddingKeeps ==
  ASSUME NEW cs \in BOOLEAN, NEW D, Root \in D, NEW paths \in Seq(Bytes),
         \A i \in 1..Len(paths) : Holds(paths[i]) \subseteq D
  PROVE  Right(Adding(paths, cs)[Len(paths)], cs, D)
<1>1. Len(paths) \in 0..Len(paths)
  BY LenProperties
<1>2. QED
  BY <1>1, AddingSteps

\* The directories of an index: they are of paths in it, they have the depth
\* they say, and each opens from a directory that the one before it lies in.
LEMMA InitDirsRight ==
  ASSUME NEW cs \in BOOLEAN, NEW D, Root \in D, NEW paths \in Seq(Bytes),
         \A i \in 1..Len(paths) : Holds(paths[i]) \subseteq D
  PROVE  LET ds == InitDirs(paths, cs)
         IN  /\ ds \in Seq(Built)
             /\ \A j \in 1..Len(ds) : ds[j].path \in D /\ Deep(ds[j].path, ds[j].depth)
             /\ \A j \in 2..Len(ds) :
                  /\ ds[j].depth <= ds[j - 1].depth + 1
                  /\ Eq(Up(ds[j].path, 1),
                        Up(ds[j - 1].path, ds[j - 1].depth + 1 - ds[j].depth), cs)
<1> DEFINE s == Adding(paths, cs)[Len(paths)]
           t == PopTo(s, -1, cs)
           es == t.dirs
           n == Len(es)
           ds == InitDirs(paths, cs)
<1>1. Right(s, cs, D)
  BY AddingKeeps
<1>2. -1 \in (-1)..(Len(s.stack) - 1)
  <2>1. Len(s.stack) \in Nat
    BY <1>1, LenProperties DEF Right, Stacks
  <2> HIDE DEF s
  <2>2. QED
    BY <2>1
<1> HIDE DEF s
<1>3. Right(t, cs, D)
  BY <1>1, <1>2, PopToKeeps
<1>4. ds = Reverse(es)
  BY DEF InitDirs, s
<1> HIDE DEF t
<1>5. es \in Seq(Built) /\ n \in Nat /\ \A m \in 1..n : es[m] \in Built
  <2>1. es \in Seq(Built)
    BY <1>3 DEF Right, Stacks
  <2>2. QED
    BY <2>1, BuiltTypes
<1>6. \A j \in 1..n : (n - j) + 1 \in 1..n
  BY <1>5
<1>7. ds = [j \in 1..n |-> es[(n - j) + 1]]
  BY <1>4 DEF Reverse
<1>8. ds \in Seq(Built) /\ Len(ds) = n /\ \A j \in 1..n : ds[j] = es[(n - j) + 1]
  <2> HIDE DEF ds, es, n
  <2> QED
    BY <1>5, <1>6, <1>7
<1> HIDE DEF ds, n, es
<1>9. \A j \in 1..n : ds[j].path \in D /\ Deep(ds[j].path, ds[j].depth)
  <2>1. \A m \in 1..n : es[m].path \in D /\ Deep(es[m].path, es[m].depth)
    BY <1>3 DEF Right, Known, es, n
  <2>2. QED
    BY <2>1, <1>6, <1>8
<1>10. \A j \in 2..n :
         /\ ds[j].depth <= ds[j - 1].depth + 1
         /\ Eq(Up(ds[j].path, 1), Up(ds[j - 1].path, ds[j - 1].depth + 1 - ds[j].depth), cs)
  <2> TAKE j \in 2..n
  <2> DEFINE m == (n - j) + 1
  <2>1. m \in 1..(n - 1) /\ j \in 1..n /\ j - 1 \in 1..n /\ (n - (j - 1)) + 1 = m + 1
    BY <1>5
  <2>2. ds[j] = es[m] /\ ds[j - 1] = es[m + 1]
    BY <2>1, <1>8
  <2>3. Linked(es, cs)
    BY <1>3 DEF Right, es
  <2> HIDE DEF m
  <2>4. QED
    BY <2>1, <2>2, <2>3 DEF Linked, n
<1>11. QED
  BY <1>8, <1>9, <1>10 DEF ds

-----------------------------------------------------------------------------
(* InitSplits.                                                             *)

LEMMA WeightType ==
  ASSUME NEW d \in Built
  PROVE  Weight(d) \in Nat
<1>1. PICK xs \in Seq(Bytes), cs \in BOOLEAN : d.subdirs = StrSort(xs, cs)
  BY DEF Built, SubdirsSorted
<1>2. Len(xs) \in Nat
  BY LenProperties
<1>3. Len(StrSort(xs, cs)) = Len(xs)
  BY <1>2 DEF StrSort
<1>4. Len(d.files) \in Nat
  BY LenProperties DEF Built
<1>5. Len(d.subdirs) \in Nat
  BY <1>1, <1>2, <1>3
<1> DEFINE a == Len(d.subdirs)
           b == Len(d.files)
<1>6. Weight(d) = 1 + a + b
  BY Zenon DEF Weight
<1>7. a \in Nat /\ b \in Nat
  BY <1>4, <1>5
<1> HIDE DEF a, b
<1>8. QED
  BY <1>6, <1>7

\* Where the directories are cut: in between and, at last, at the end.
Cuts(sp, n) ==
  /\ sp \in Seq(0..n) /\ Len(sp) \in Nat \ {0} /\ sp[1] = 0
  /\ \A x, y \in 1..Len(sp) : x < y => sp[x] < sp[y]

LEMMA AppendCut ==
  ASSUME NEW n \in Nat, NEW m \in Nat, m < n, NEW sp, Cuts(sp, m)
  PROVE  Cuts(Append(sp, n), n) /\ Cuts(sp, n)
<1> DEFINE L == Len(sp)
           q == Append(sp, n)
<1>1. sp \in Seq(0..m) /\ L \in Nat \ {0} /\ \A x \in 1..L : sp[x] \in 0..m
  BY ElementOfSeq DEF Cuts
<1>2. sp \in Seq(0..n)
  <2>1. 0..m \subseteq 0..n
    OBVIOUS
  <2>2. QED
    BY <1>1, <2>1
<1>3. q \in Seq(0..n) /\ Len(q) = L + 1 /\ q[L + 1] = n /\ \A x \in 1..L : q[x] = sp[x]
  <2>1. n \in 0..n
    OBVIOUS
  <2>2. q \in Seq(0..n)
    BY <1>2, <2>1, AppendProperties
  <2>3. Len(q) = L + 1 /\ q[L + 1] = n /\ \A x \in 1..L : q[x] = sp[x]
    BY <1>2, <2>1, AppendProperties
  <2>4. QED
    BY <2>2, <2>3
<1> HIDE DEF q
<1>4. \A x, y \in 1..(L + 1) : x < y => q[x] < q[y]
  <2> TAKE x, y \in 1..(L + 1)
  <2> HAVE x < y
  <2>1. x \in 1..L /\ q[x] = sp[x] /\ sp[x] \in 0..m
    BY <1>1, <1>3
  <2>2. CASE y = L + 1
    BY <2>1, <2>2, <1>3
  <2>3. CASE y # L + 1
    <3>1. y \in 1..L
      BY <2>3, <1>1
    <3>2. QED
      BY <2>1, <3>1, <1>3 DEF Cuts
  <2>4. QED
    BY <2>2, <2>3
<1>5. 1 \in 1..L
  BY <1>1
<1>6. Cuts(q, n)
  BY <1>1, <1>3, <1>4, <1>5 DEF Cuts
<1>7. QED
  BY <1>2, <1>6 DEF Cuts, q

LEMMA CuttingKeeps ==
  ASSUME NEW ds \in Seq(Built)
  PROVE  Cuts(FullSplits(ds), Len(ds))
<1> DEFINE n == Len(ds)
           a == [w |-> 0, splits |-> <<0>>]
           I == [i \in 0..n |-> {s \in [w : Nat, splits : Seq(Nat)] : Cuts(s.splits, i)}]
           Step_(t, i) == Cut(t, Weight(ds[i]), i, ShardWeight(ds))
           G == [i \in 0..n |-> [t \in I[i - 1] |-> Step_(t, i)]]
           P(f) == f = [i \in 0..n |-> IF i = 0 THEN a ELSE Cut(f[i - 1], Weight(ds[i]), i, ShardWeight(ds))]
           u == Cutting(ds)
<1>1. n \in Nat /\ 0 \in 0..n /\ n \in 0..n /\ \A i \in 1..n : Weight(ds[i]) \in Nat
  <2>1. n \in Nat /\ \A i \in 1..n : ds[i] \in Built
    BY BuiltTypes
  <2>2. QED
    BY <2>1, WeightType
<1>2. a \in I[0]
  <2>1. Cuts(<<0>>, 0)
    <3>1. <<0>> \in Seq(0..0) /\ Len(<<0>>) = 1 /\ <<0>>[1] = 0
      OBVIOUS
    <3>2. \A x, y \in 1..1 : ~ (x < y)
      OBVIOUS
    <3>3. QED
      BY <3>1, <3>2 DEF Cuts
  <2>2. a \in [w : Nat, splits : Seq(Nat)] /\ a.splits = <<0>>
    OBVIOUS
  <2> HIDE DEF a
  <2>3. QED
    BY <1>1, <2>1, <2>2
<1>3. ASSUME NEW i \in 0..n, i # 0, NEW t \in I[i - 1] PROVE Step_(t, i) \in I[i]
  <2>1. i \in 1..n /\ i - 1 \in Nat /\ i - 1 \in 0..n /\ i \in Nat /\ i - 1 < i
    BY <1>1, <1>3
  <2> DEFINE wt == Weight(ds[i])
             sw == ShardWeight(ds)
  <2>2. t \in [w : Nat, splits : Seq(Nat)] /\ Cuts(t.splits, i - 1) /\ wt \in Nat
    BY <1>3, <1>1, <2>1
  <2>3. Cuts(Append(t.splits, i), i) /\ Cuts(t.splits, i)
    BY <2>1, <2>2, AppendCut
  <2>4. Append(t.splits, i) \in Seq(Nat) /\ t.w + wt \in Nat
    BY <2>1, <2>2, AppendProperties
  <2> HIDE DEF wt, sw
  <2>5. Cut(t, wt, i, sw) \in [w : Nat, splits : Seq(Nat)] /\ Cuts(Cut(t, wt, i, sw).splits, i)
    BY <2>2, <2>3, <2>4 DEF Cut
  <2>6. QED
    BY <2>1, <2>5 DEF wt, sw
<1>4. PICK f : Follows(f, 0, n, I, a, G)
  <2>1. \A i \in 0..n : i # 0 => G[i] \in [I[i - 1] -> I[i]]
    <3> TAKE i \in 0..n
    <3> HAVE i # 0
    <3>1. G[i] = [t \in I[i - 1] |-> Step_(t, i)]
      OBVIOUS
    <3> HIDE DEF I, G, Step_
    <3>2. QED
      BY <3>1, <1>3
  <2>2. 0 \in Int /\ n \in Int /\ 0 <= n
    BY <1>1
  <2> HIDE DEF I, G, a
  <2>3. QED
    BY <2>1, <2>2, <1>2, Recursion
<1>5. P(f)
  <2>1. f = [i \in 0..n |-> f[i]] /\ f[0] = a
    BY <1>4 DEF Follows
  <2>2. ASSUME NEW i \in 0..n, i # 0 PROVE f[i] = Step_(f[i - 1], i)
    <3>1. f[i] = G[i][f[i - 1]]
      <4> HIDE DEF G, I, a
      <4> QED
        BY <2>2, <1>4 DEF Follows
    <3>2. f[i - 1] \in I[i - 1]
      <4>1. i - 1 \in 0..n
        BY <2>2, <1>1
      <4> HIDE DEF G, I, a
      <4>2. QED
        BY <4>1, <1>4 DEF Follows
    <3>3. G[i] = [t \in I[i - 1] |-> Step_(t, i)]
      OBVIOUS
    <3> HIDE DEF G, I, Step_
    <3>4. QED
      BY <3>1, <3>2, <3>3
  <2> HIDE DEF G, I, a
  <2>3. QED
    BY <2>1, <2>2
<1>6. u = CHOOSE h : P(h)
  BY Zenon DEF Cutting
<1>7. P(u)
  <2> HIDE DEF P, u
  <2> QED
    BY <1>5, <1>6
<1>8. u[0] = a /\ \A i \in 0..n : i # 0 => u[i] = Step_(u[i - 1], i)
  <2> HIDE DEF u, a
  <2>1. u = [i \in 0..n |-> IF i = 0 THEN a ELSE Cut(u[i - 1], Weight(ds[i]), i, ShardWeight(ds))]
    BY <1>7
  <2> HIDE DEF P
  <2>2. QED
    BY <2>1, <1>1
<1> DEFINE T == {i \in 0..n : u[i] \in I[i]}
<1>9. 0 \in T
  <2> HIDE DEF u, I, a
  <2> QED
    BY <1>1, <1>2, <1>8
<1>10. ASSUME NEW i \in (0 + 1)..n, i - 1 \in T PROVE i \in T
  <2>1. i \in 0..n /\ i # 0
    BY <1>1
  <2> HIDE DEF u, I, Step_
  <2>2. u[i - 1] \in I[i - 1] /\ u[i] = Step_(u[i - 1], i)
    BY <1>10, <1>8, <2>1
  <2>3. QED
    BY <2>1, <2>2, <1>3
<1>11. \A i \in 0..n : i \in T
  <2>1. 0 \in Int /\ n \in Int /\ 0 <= n
    BY <1>1
  <2> HIDE DEF T
  <2> QED
    BY <1>9, <1>10, <2>1, Steps
<1>12. u[n] \in I[n]
  <2> HIDE DEF u, I
  <2> QED
    BY <1>1, <1>11
<1> HIDE DEF u
<1>13. Cuts(u[n].splits, n)
  BY <1>1, <1>12
<1>14. QED
  BY <1>13 DEF FullSplits, u

\* The splits of some directories are not empty, do not overlap, and have all
\* of them.
LEMMA SplitsRight ==
  ASSUME NEW ds \in Seq(Built)
  PROVE  LET sp == InitSplits(ds)
         IN  Cuts(sp, Len(ds)) /\ sp[Len(sp)] = Len(ds)
<1> DEFINE n == Len(ds)
           f == FullSplits(ds)
           L == Len(f)
<1>1. Cuts(f, n) /\ n \in Nat
  BY CuttingKeeps, LenProperties
<1>2. f \in Seq(0..n) /\ L \in Nat \ {0} /\ \A x \in 1..L : f[x] \in 0..n
  BY <1>1, ElementOfSeq DEF Cuts
<1> HIDE DEF f, n
<1>3. CASE Last(f) = n
  BY <1>1, <1>3 DEF InitSplits, f, n, Last
<1>4. CASE Last(f) # n
  <2>1. f[L] # n
    BY <1>4 DEF Last
  <2>2. \A x \in 1..L : f[x] < n
    <3> TAKE x \in 1..L
    <3>1. f[L] \in 0..n /\ f[L] < n /\ f[x] \in 0..n
      BY <1>2, <2>1, <1>1
    <3>2. CASE x = L
      BY <3>1, <3>2, <1>1
    <3>3. CASE x # L
      <4>1. x < L /\ L \in 1..L
        BY <1>2, <3>3
      <4>2. f[x] < f[L]
        BY <4>1, <1>1 DEF Cuts
      <4>3. QED
        BY <3>1, <4>2, <1>1
    <3>4. QED
      BY <3>2, <3>3
  <2>3. n - 1 \in Nat /\ n - 1 < n
    <3>1. 1 \in 1..L
      BY <1>2
    <3>2. f[1] < n /\ f[1] \in 0..n
      BY <3>1, <2>2, <1>2
    <3>3. QED
      BY <3>2, <1>1
  <2>4. Cuts(f, n - 1)
    <3>1. f \in Seq(0..(n - 1))
      <4>1. \A x \in 1..L : f[x] \in 0..(n - 1)
        BY <1>1, <1>2, <2>2
      <4>2. f \in [1..L -> 0..n]
        BY <1>2, LenProperties
      <4>3. f \in [1..L -> 0..(n - 1)]
        BY <4>1, <4>2
      <4> DEFINE S == 0..(n - 1)
      <4> HIDE DEF S
      <4>4. f \in [1..L -> S] /\ L \in Nat
        BY <4>3, <1>2 DEF S
      <4>5. f \in Seq(S)
        <5> HIDE DEF L
        <5> QED
          BY <4>4, FunctionIsSeq
      <4>6. QED
        BY <4>5 DEF S
    <3>2. QED
      BY <3>1, <1>1 DEF Cuts
  <2>5. Cuts(Append(f, n), n)
    BY <2>3, <2>4, <1>1, AppendCut
  <2>6. Len(Append(f, n)) = L + 1 /\ Append(f, n)[L + 1] = n
    <3>1. f \in Seq(Nat)
      <4>1. 0..n \subseteq Nat
        BY <1>1
      <4>2. QED
        BY <1>2, <4>1
    <3>2. QED
      BY <3>1, <1>1, AppendProperties
  <2>7. InitSplits(ds) = Append(f, n)
    BY <1>4 DEF InitSplits, f, n
  <2>8. QED
    BY <2>5, <2>6, <2>7 DEF n
<1>5. QED
  BY <1>3, <1>4

\* The directory above one is one less deep.
LEMMA DeepUp ==
  ASSUME NEW x \in Bytes, NEW n \in Nat \ {0}, Deep(x, n)
  PROVE  Deep(Up(x, 1), n - 1)
<1> DEFINE S == SlashesIn(x)
           L == Len(x)
           y == SubSeq(x, 1, L - 1)
<1>1. L \in Nat /\ S \subseteq 1..L /\ IsFiniteSet(S) /\ Cardinality(S) = n /\ L \in {0} \cup S
  BY SlashesCount, Length DEF Deep
<1>2. L \in S /\ x # <<>> /\ L - 1 \in 0..L
  <2>1. S # {}
    BY <1>1, FS_EmptySet
  <2>2. L # 0
    BY <2>1, <1>1
  <2>3. QED
    BY <2>2, <1>1, Length
<1>3. y \in Bytes /\ SlashesIn(y) = {k \in S : k <= L - 1}
  BY <1>2, FirstBytes
<1>4. SlashesIn(y) = S \ {L}
  <2>1. \A k \in S : k <= L - 1 <=> k # L
    BY <1>1
  <2>2. QED
    BY <2>1, <1>3
<1>5. Cardinality(SlashesIn(y)) = n - 1
  BY <1>1, <1>2, <1>4, FS_RemoveElement
<1>6. Up(x, 1) = DirOf(y)
  BY <1>2, UpOne, UnslashedOf DEF DirAbove
<1> HIDE DEF y, L, S
<1>7. PICK c \in {0} \cup SlashesIn(y) :
        DirOf(y) = SubSeq(y, 1, c) /\ c \in 0..Len(y) /\ \A s \in SlashesIn(y) : s <= c
  BY <1>3, DirEnds
<1> DEFINE z == SubSeq(y, 1, c)
<1>8. Len(z) = c /\ SlashesIn(z) = {k \in SlashesIn(y) : k <= c}
  BY <1>3, <1>7, FirstBytes
<1>9. SlashesIn(z) = SlashesIn(y)
  BY <1>7, <1>8
<1> HIDE DEF z
<1>10. QED
  BY <1>5, <1>6, <1>7, <1>8, <1>9 DEF Deep, z

LEMMA SlashedType ==
  ASSUME NEW x \in Bytes
  PROVE  x \in Seq(Nat) /\ <<Slash>> \in Seq(Nat)
<1> DEFINE S == 1..255
<1>2. x \in Seq(S)
  BY DEF Bytes
<1>3. S \subseteq Nat
  OBVIOUS
<1> HIDE DEF S
<1>4. x \in Seq(Nat)
  BY <1>2, <1>3, SeqMonotonic
<1>5. QED
  BY <1>4 DEF Slash

-----------------------------------------------------------------------------
(* The working tree.                                                       *)

\* The directory that a path lies in.
LEMMA ParentOf ==
  ASSUME NEW p \in Bytes
  PROVE  /\ Parent(p) \in Bytes /\ DirOf(p) \in Holds(p)
         /\ p # Root => Len(Parent(p)) < Len(p)
         /\ \A q \in Bytes : Under(p, q) => p = Root \/ Len(p) <= Len(q)
         /\ Under(Parent(p), p)
<1>1. Len(p) \in Nat /\ (Len(p) = 0 <=> p = <<>>)
  BY Length
<1>2. PICK c \in {0} \cup SlashesIn(p) :
        DirOf(p) = SubSeq(p, 1, c) /\ c \in 0..Len(p) /\ DirOf(p) \in Bytes /\ Len(DirOf(p)) = c
  BY DirEnds
<1> DEFINE d == DirOf(p)
<1>3. d \in Bytes /\ Len(d) = c /\ c \in Nat /\ d = SubSeq(p, 1, c)
  BY <1>1, <1>2
<1>4. d \in Holds(p)
  BY <1>2 DEF Holds
<1> HIDE DEF d
<1>5. Parent(p) = Unslashed(d) /\ Unslashed(d) \in Bytes
  BY <1>3, UnslashedOf DEF Parent, d
<1>6. p # Root => Len(Parent(p)) < Len(p)
  <2> SUFFICES ASSUME p # Root PROVE Len(Parent(p)) < Len(p)
    OBVIOUS
  <2>1. Len(p) > 0
    BY <1>1 DEF Root
  <2>2. CASE d = <<>>
    <3>1. Unslashed(d) = <<>> /\ Len(<<>>) = 0
      BY <2>2, <1>3, UnslashedOf
    <3>2. QED
      BY <3>1, <1>5, <2>1
  <2>3. CASE d # <<>>
    <3>1. Len(Unslashed(d)) = c - 1
      BY <2>3, <1>3, UnslashedOf
    <3>2. QED
      BY <3>1, <1>5, <1>2, <1>1
  <2>4. QED
    BY <2>2, <2>3
<1>7. \A q \in Bytes : Under(p, q) => p = Root \/ Len(p) <= Len(q)
  <2> TAKE q \in Bytes
  <2> HAVE Under(p, q)
  <2> SUFFICES ASSUME IsPrefix(p \o <<Slash>>, q) PROVE Len(p) <= Len(q)
    BY <1>1 DEF Under
  <2>1. p \in Seq(Nat) /\ <<Slash>> \in Seq(Nat) /\ Len(<<Slash>>) = 1 /\ Len(q) \in Nat
    BY SlashedType, Length
  <2>2. Len(p \o <<Slash>>) = Len(p) + 1
    BY <2>1, ConcatProperties
  <2>3. Len(p \o <<Slash>>) <= Len(q)
    BY DEF IsPrefix
  <2>4. QED
    BY <1>1, <2>1, <2>2, <2>3
<1>8. Under(Parent(p), p)
  <2>1. CASE d = <<>>
    BY <2>1, <1>3, <1>5, UnslashedOf DEF Under, Root
  <2>2. CASE d # <<>>
    <3> DEFINE u == SubSeq(d, 1, c - 1)
               v == u \o <<Slash>>
    <3>1. Unslashed(d) = u /\ c - 1 \in 0..c /\ c \in 1..Len(p) /\ c - 1 \in 0..Len(d)
      <4>1. c # 0
        BY <2>2, <1>3, Length
      <4>2. c - 1 \in 0..c /\ c \in 1..Len(p) /\ c - 1 \in 0..Len(d)
        BY <1>1, <1>2, <1>3, <4>1
      <4>3. Unslashed(d) = SubSeq(d, 1, Len(d) - 1)
        BY <2>2, <1>3, UnslashedOf
      <4>4. QED
        BY <4>2, <4>3, <1>3
    <3>2. u \in Bytes /\ Len(u) = c - 1 /\ \A k \in 1..(c - 1) : u[k] = d[k]
      BY <3>1, <1>3, FirstBytes
    <3>3. \A k \in 1..c : d[k] = p[k]
      BY <1>2, <1>3, FirstBytes
    <3>4. p[c] = Slash
      BY <1>2, <3>1 DEF SlashesIn
    <3> HIDE DEF u
    <3>5. Len(v) = c /\ \A k \in 1..c : v[k] = p[k]
      <4>1. u \in Seq(Nat) /\ <<Slash>> \in Seq(Nat) /\ Len(<<Slash>>) = 1 /\ <<Slash>>[1] = Slash
        BY <3>2, SlashedType
      <4>2. /\ Len(v) = Len(u) + Len(<<Slash>>)
            /\ \A i \in 1..(Len(u) + Len(<<Slash>>)) :
                 v[i] = IF i <= Len(u) THEN u[i] ELSE <<Slash>>[i - Len(u)]
        BY <4>1, ConcatProperties
      <4> HIDE DEF v
      <4>3. Len(v) = c
        BY <4>1, <4>2, <3>1, <3>2, <1>3
      <4>4. ASSUME NEW k \in 1..c PROVE v[k] = p[k]
        <5>1. CASE k = c
          <6>1. ~ (k <= Len(u)) /\ k - Len(u) = 1 /\ k \in 1..(Len(u) + Len(<<Slash>>))
            BY <5>1, <3>1, <3>2, <4>1, <1>3
          <6>2. QED
            BY <6>1, <5>1, <4>1, <4>2, <3>4
        <5>2. CASE k # c
          <6>1. k <= Len(u) /\ k \in 1..(c - 1) /\ k \in 1..(Len(u) + Len(<<Slash>>))
            BY <5>2, <3>1, <3>2, <4>1, <1>3
          <6>2. QED
            BY <6>1, <4>2, <3>2, <3>3
        <5>3. QED
          BY <5>1, <5>2
      <4>5. QED
        BY <4>3, <4>4
    <3> HIDE DEF v
    <3>6. IsPrefix(v, p)
      <4>1. Len(v) <= Len(p) /\ SubSeq(p, 1, Len(v)) = v
        <5>1. v = [k \in 1..c |-> v[k]]
          <6>1. v \in Seq(Nat)
            <7>1. u \in Seq(Nat) /\ <<Slash>> \in Seq(Nat)
              BY <3>2, SlashedType
            <7>2. QED
              BY <7>1, ConcatProperties DEF v
          <6>2. QED
            BY <6>1, <3>5, LenProperties
        <5>2. SubSeq(p, 1, c) = [k \in 1..c |-> p[k]]
          <6>1. 1 + c - 1 = c /\ \A k \in 1..c : 1 + k - 1 = k
            BY <1>3
          <6>2. QED
            BY <6>1 DEF SubSeq
        <5>3. QED
          BY <5>1, <5>2, <3>5, <3>1, <1>1
      <4>2. QED
        BY <4>1 DEF IsPrefix
    <3>7. QED
      BY <3>1, <3>6, <1>5 DEF Under, v
  <2>3. QED
    BY <2>1, <2>2
<1>9. QED
  BY <1>4, <1>5, <1>6, <1>7, <1>8 DEF d

LEMMA PrefixBytes ==
  ASSUME NEW s \in Seq(Nat), NEW t \in Seq(Nat)
  PROVE  IsPrefix(s, t) <=> Len(s) <= Len(t) /\ \A k \in 1..Len(s) : s[k] = t[k]
<1> DEFINE n == Len(s)
<1>1. n \in Nat /\ Len(t) \in Nat
  BY LenProperties
<1>2. 1 + n - 1 = n /\ \A k \in 1..n : 1 + k - 1 = k
  BY <1>1
<1>3. SubSeq(s, 1, n) = [k \in 1..n |-> s[k]] /\ SubSeq(t, 1, n) = [k \in 1..n |-> t[k]]
  <2> HIDE DEF n
  <2>1. SubSeq(s, 1, n) = [k \in 1..n |-> s[k]]
    BY <1>1, <1>2 DEF SubSeq
  <2>2. SubSeq(t, 1, n) = [k \in 1..n |-> t[k]]
    BY <1>1, <1>2 DEF SubSeq
  <2>3. QED
    BY <2>1, <2>2
<1>4. IsPrefix(s, t) <=> n <= Len(t) /\ SubSeq(s, 1, n) = SubSeq(t, 1, n)
  BY DEF IsPrefix
<1> HIDE DEF n
<1>5. SubSeq(s, 1, n) = SubSeq(t, 1, n) <=> \A k \in 1..n : s[k] = t[k]
  <2> DEFINE f == SubSeq(s, 1, n)
             g == SubSeq(t, 1, n)
  <2>1. (\A k \in 1..n : f[k] = s[k]) /\ (\A k \in 1..n : g[k] = t[k])
    BY <1>3
  <2>2. ASSUME f = g, NEW k \in 1..n PROVE s[k] = t[k]
    <3> HIDE DEF f, g
    <3> QED
      BY <2>1, <2>2
  <2>3. ASSUME \A k \in 1..n : s[k] = t[k] PROVE f = g
    BY <1>3, <2>3
  <2>4. QED
    BY <2>2, <2>3
<1>6. QED
  BY <1>4, <1>5 DEF n

\* What is in a directory starts with its name and a slash.
LEMMA UnderBytes ==
  ASSUME NEW p \in Bytes, NEW q \in Bytes, p # Root
  PROVE  Under(p, q) <=>
           \/ p = q
           \/ Len(p) < Len(q) /\ q[Len(p) + 1] = Slash /\ \A k \in 1..Len(p) : p[k] = q[k]
<1> DEFINE n == Len(p)
           v == p \o <<Slash>>
<1>1. /\ p \in Seq(Nat) /\ q \in Seq(Nat) /\ <<Slash>> \in Seq(Nat) /\ n \in Nat /\ Len(q) \in Nat
      /\ Len(<<Slash>>) = 1 /\ <<Slash>>[1] = Slash
  BY SlashedType, Length
<1>2. v \in Seq(Nat) /\ Len(v) = n + 1 /\ v[n + 1] = Slash /\ \A k \in 1..n : v[k] = p[k]
  <2>1. /\ v \in Seq(Nat) /\ Len(v) = Len(p) + Len(<<Slash>>)
        /\ \A i \in 1..(Len(p) + Len(<<Slash>>)) :
             v[i] = IF i <= Len(p) THEN p[i] ELSE <<Slash>>[i - Len(p)]
    BY <1>1, ConcatProperties
  <2>2. /\ n + 1 \in 1..(Len(p) + Len(<<Slash>>)) /\ ~ (n + 1 <= Len(p)) /\ (n + 1) - Len(p) = 1
        /\ \A k \in 1..n : k \in 1..(Len(p) + Len(<<Slash>>)) /\ k <= Len(p)
    BY <1>1
  <2> HIDE DEF v
  <2>3. QED
    BY <1>1, <2>1, <2>2
<1>3. IsPrefix(v, q) <=> Len(v) <= Len(q) /\ \A k \in 1..Len(v) : v[k] = q[k]
  BY <1>1, <1>2, PrefixBytes
<1>4. Under(p, q) <=> p = q \/ IsPrefix(v, q)
  BY DEF Under
<1> HIDE DEF v, n
<1>5. IsPrefix(v, q) <=> n < Len(q) /\ q[n + 1] = Slash /\ \A k \in 1..n : p[k] = q[k]
  <2>1. 1..Len(v) = (1..n) \cup {n + 1} /\ (n + 1 <= Len(q) <=> n < Len(q))
    BY <1>1, <1>2
  <2>2. QED
    BY <1>2, <1>3, <2>1
<1>6. QED
  BY <1>4, <1>5 DEF n

LEMMA UnderTrans ==
  ASSUME NEW p \in Bytes, NEW q \in Bytes, NEW r \in Bytes, Under(p, q), Under(q, r)
  PROVE  Under(p, r)
<1>1. CASE p = Root \/ p = q \/ q = r
  BY <1>1 DEF Under
<1>2. CASE p # Root /\ p # q /\ q # r
  <2>1. Len(p) \in Nat /\ Len(q) \in Nat /\ Len(r) \in Nat
    BY Length
  <2>2. Len(p) < Len(q) /\ q[Len(p) + 1] = Slash /\ \A k \in 1..Len(p) : p[k] = q[k]
    BY <1>2, UnderBytes
  <2>3. q # Root
    <3>1. Len(q) # 0
      BY <2>1, <2>2
    <3>2. QED
      BY <3>1, Length DEF Root
  <2>4. Len(q) < Len(r) /\ \A k \in 1..Len(q) : q[k] = r[k]
    BY <1>2, <2>3, UnderBytes
  <2>5. Len(p) < Len(r) /\ r[Len(p) + 1] = Slash /\ \A k \in 1..Len(p) : p[k] = r[k]
    <3>1. Len(p) + 1 \in 1..Len(q) /\ \A k \in 1..Len(p) : k \in 1..Len(q)
      BY <2>1, <2>2
    <3>2. QED
      BY <2>1, <2>2, <2>4, <3>1
  <2>6. QED
    BY <1>2, <2>5, UnderBytes
<1>3. QED
  BY <1>1, <1>2

\* Every path lies in a directory.
InTree(f) == \A p \in Paths \ {Root} : f[p] # None => f[Parent(p)] \in {Dir, Locked}

LEMMA ParentInPaths ==
  ASSUME NEW p \in Paths
  PROVE  p \in Bytes /\ Parent(p) \in Paths
<1>1. p \in Bytes
  BY IndexAssumption
<1>2. DirOf(p) \in Holds(p)
  BY <1>1, ParentOf
<1>3. Unslashed(DirOf(p)) \in Paths
  BY <1>2, IndexAssumption
<1>4. QED
  BY <1>1, <1>3 DEF Parent

LEMMA TreeType ==
  ASSUME NEW ix \in Seq(Entry)
  PROVE  Tree(ix) \in [Paths -> Node]
<1> DEFINE t(p) == Tree(ix)[p]
<1>1. /\ Untidy \subseteq Paths /\ Possible \in [Paths -> SUBSET Node]
      /\ \A p \in Untidy : Possible[p] \ {None} # {}
  BY IndexAssumption
<1>2. Dir \in Node /\ None \in Node
  BY DEF Dir, None, Node
<1>3. ASSUME NEW i \in DOMAIN ix PROVE [mode |-> ix[i].mode, data |-> ix[i].data] \in Node
  <2>1. ix[i] \in Entry
    BY <1>3, LenProperties, ElementOfSeq
  <2>2. ix[i].mode \in FileModes /\ ix[i].data \in Nat
    BY <2>1 DEF Entry
  <2>3. QED
    BY <2>2 DEF Node
<1>4. ASSUME NEW p \in Untidy PROVE (CHOOSE n \in Possible[p] : n # None) \in Node
  <2>1. Possible[p] \subseteq Node /\ \E n \in Possible[p] : n # None
    BY <1>1
  <2>2. (CHOOSE n \in Possible[p] : n # None) \in Possible[p]
    BY <2>1, Zenon
  <2>3. QED
    BY <2>1, <2>2
<1>5. ASSUME NEW p \in Paths PROVE
        (IF p = Root \/ \E i \in DOMAIN ix : p # ix[i].path /\ Under(p, ix[i].path) THEN Dir
         ELSE IF \E i \in DOMAIN ix : ix[i].path = p
         THEN LET e == ix[CHOOSE i \in DOMAIN ix : ix[i].path = p]
              IN  [mode |-> e.mode, data |-> e.data]
         ELSE IF p \in Untidy THEN CHOOSE n \in Possible[p] : n # None
         ELSE None) \in Node
  <2>1. CASE \E i \in DOMAIN ix : ix[i].path = p
    <3> DEFINE j == CHOOSE i \in DOMAIN ix : ix[i].path = p
    <3>1. j \in DOMAIN ix
      BY <2>1, Zenon
    <3> HIDE DEF j
    <3>2. [mode |-> ix[j].mode, data |-> ix[j].data] \in Node
      BY <3>1, <1>3
    <3>3. QED
      BY <2>1, <3>2, <1>2, Zenon DEF j
  <2>2. CASE ~ \E i \in DOMAIN ix : ix[i].path = p
    <3>1. p \in Untidy => (CHOOSE n \in Possible[p] : n # None) \in Node
      BY <1>4
    <3>2. QED
      BY <2>2, <3>1, <1>2, Zenon
  <2>3. QED
    BY <2>1, <2>2
<1>6. QED
  BY <1>5, Zenon DEF Tree

LEMMA TreeOf ==
  ASSUME NEW ix, NEW p \in Paths
  PROVE  /\ p = Root \/ (\E i \in DOMAIN ix : p # ix[i].path /\ Under(p, ix[i].path)) => Tree(ix)[p] = Dir
         /\ Tree(ix)[p] = None \/ p = Root \/ p \in Untidy \/ \E i \in DOMAIN ix : Under(p, ix[i].path)
<1> DEFINE above == \E i \in DOMAIN ix : p # ix[i].path /\ Under(p, ix[i].path)
           listed == \E i \in DOMAIN ix : ix[i].path = p
           e == ix[CHOOSE i \in DOMAIN ix : ix[i].path = p]
<1>1. Tree(ix)[p] = IF p = Root \/ above THEN Dir
                    ELSE IF listed THEN [mode |-> e.mode, data |-> e.data]
                    ELSE IF p \in Untidy THEN CHOOSE n \in Possible[p] : n # None
                    ELSE None
  BY Zenon DEF Tree
<1>2. above => \E i \in DOMAIN ix : Under(p, ix[i].path)
  OBVIOUS
<1>3. listed => \E i \in DOMAIN ix : Under(p, ix[i].path)
  BY DEF Under
<1> HIDE DEF e, listed
<1>4. ~ (p = Root \/ above \/ listed \/ p \in Untidy) => Tree(ix)[p] = None
  BY <1>1
<1>5. p = Root \/ above => Tree(ix)[p] = Dir
  BY <1>1
<1>6. QED
  BY <1>2, <1>3, <1>4, <1>5

LEMMA TreeIsTree ==
  ASSUME NEW ix \in Scanned
  PROVE  InTree(Tree(ix))
<1> SUFFICES ASSUME NEW p \in Paths \ {Root}, Tree(ix)[p] # None
             PROVE  Tree(ix)[Parent(p)] \in {Dir, Locked}
  BY DEF InTree
<1> DEFINE r == Parent(p)
<1>1. p \in Bytes /\ r \in Paths /\ r \in Bytes
  BY ParentInPaths, ParentOf
<1>2. Len(r) < Len(p) /\ Under(r, p) /\ Len(p) \in Nat /\ Len(r) \in Nat
  BY <1>1, ParentOf, Length
<1>3. p \in Untidy \/ \E i \in DOMAIN ix : Under(p, ix[i].path)
  BY TreeOf
<1>4. CASE p \in Untidy
  BY <1>4, IndexAssumption
<1>5. CASE \E i \in DOMAIN ix : Under(p, ix[i].path)
  <2>1. PICK i \in DOMAIN ix : Under(p, ix[i].path)
    BY <1>5
  <2> DEFINE q == ix[i].path
  <2>2. q \in Bytes
    BY IndexAssumption
  <2> HIDE DEF q, r
  <2>3. Len(p) <= Len(q) /\ Len(q) \in Nat
    BY <1>1, <2>1, <2>2, ParentOf, Length DEF q
  <2>4. r # q
    BY <1>2, <2>3
  <2>5. Under(r, q)
    BY <1>1, <1>2, <2>1, <2>2, UnderTrans DEF q
  <2>6. Tree(ix)[r] = Dir
    <3>1. \E m \in DOMAIN ix : r # ix[m].path /\ Under(r, ix[m].path)
      BY <2>1, <2>4, <2>5 DEF q
    <3>2. QED
      BY <1>1, <3>1, TreeOf
  <2>7. QED
    BY <2>6 DEF r
<1>6. QED
  BY <1>3, <1>4, <1>5

\* A change leaves nothing behind in what is not a directory any more.
LEMMA ChangeKeepsTree ==
  ASSUME NEW f \in [Paths -> Node], InTree(f), NEW p \in Paths, NEW n \in Node,
         p # Root => f[Parent(p)] = Dir
  PROVE  InTree([q \in Paths |->
                   IF q = p THEN n
                   ELSE IF Under(p, q) /\ {f[p], n} # {Dir, Locked} THEN None ELSE f[q]])
<1> DEFINE swap == {f[p], n} = {Dir, Locked}
           g == [q \in Paths |-> IF q = p THEN n ELSE IF Under(p, q) /\ ~swap THEN None ELSE f[q]]
<1> SUFFICES ASSUME NEW q \in Paths \ {Root}, g[q] # None PROVE g[Parent(q)] \in {Dir, Locked}
  BY DEF InTree
<1> DEFINE r == Parent(q)
<1>1. p \in Bytes /\ q \in Bytes /\ r \in Paths /\ r \in Bytes
  BY ParentInPaths, ParentOf
<1>2. Len(r) < Len(q) /\ Under(r, q) /\ Len(q) \in Nat /\ Len(r) \in Nat
  BY <1>1, ParentOf, Length
<1>3. swap => n \in {Dir, Locked}
  OBVIOUS
<1>4. f[q] # None => f[r] \in {Dir, Locked}
  BY DEF InTree
<1> HIDE DEF swap, r
<1>5. CASE q = p
  <2>1. r # p /\ ~Under(p, r)
    <3>1. r # p
      BY <1>2, <1>5
    <3>2. ~ (Len(p) <= Len(r))
      BY <1>2, <1>5
    <3>3. QED
      BY <3>1, <3>2, <1>1, <1>5, ParentOf
  <2>2. g[r] = f[r]
    BY <2>1, <1>1
  <2>3. f[r] = Dir
    BY <1>5 DEF r
  <2>4. QED
    BY <2>2, <2>3 DEF r
<1>6. CASE q # p
  <2>1. g[q] = f[q] /\ f[q] # None /\ ~ (Under(p, q) /\ ~swap)
    BY <1>6
  <2>2. CASE r = p
    <3>1. swap
      BY <2>1, <2>2, <1>2
    <3>2. g[r] = n
      BY <2>2, <1>1
    <3>3. QED
      BY <3>1, <3>2, <1>3 DEF r
  <2>3. CASE r # p
    <3>1. Under(p, r) => Under(p, q)
      BY <1>1, <1>2, UnderTrans
    <3>2. g[r] = f[r]
      BY <2>1, <2>3, <3>1, <1>1
    <3>3. QED
      BY <3>2, <2>1, <1>4 DEF r
  <2>4. QED
    BY <2>2, <2>3
<1>7. QED
  BY <1>5, <1>6

LEMMA Rest ==
  ASSUME NEW d \in Nat \ {0}, NEW a \in Nat
  PROVE  (a < d => a % d = a) /\ (d <= a /\ a < d + d => a % d = a - d)
OBVIOUS

-----------------------------------------------------------------------------
(* The object that the constructor builds.                                 *)

Object(ds, sp, cs) ==
  /\ ds \in Seq(Built) /\ Cuts(sp, Len(ds))
  /\ \A j \in 1..Len(ds) : Deep(ds[j].path, ds[j].depth)
  /\ \A j \in 2..Len(ds) :
       /\ ds[j].depth <= ds[j - 1].depth + 1
       /\ Eq(Up(ds[j].path, 1), Up(ds[j - 1].path, ds[j - 1].depth + 1 - ds[j].depth), cs)
Reachable(ds) == \A j \in 1..Len(ds) : Unslashed(ds[j].path) \in Paths

LEMMA ObjectRight ==
  ASSUME NEW cs \in BOOLEAN, NEW ix \in Seq(Entry)
  PROVE  LET ds == InitDirs(PathsOf(ix), cs)
         IN  Object(ds, InitSplits(ds), cs) /\ (ix \in Scanned => Reachable(ds))
<1> DEFINE ps == PathsOf(ix)
           ds == InitDirs(ps, cs)
           D == {Root} \cup UNION {Holds(ix[i].path) : i \in DOMAIN ix}
<1>1. DOMAIN ix = 1..Len(ix) /\ Len(ix) \in Nat /\ \A i \in 1..Len(ix) : ix[i].path \in Bytes
  <2>1. \A i \in 1..Len(ix) : ix[i] \in Entry
    BY ElementOfSeq
  <2>2. QED
    BY <2>1, LenProperties DEF Entry
<1>2. ps = [i \in 1..Len(ix) |-> ix[i].path]
  BY <1>1 DEF PathsOf
<1>3. ps \in Seq(Bytes) /\ Len(ps) = Len(ix) /\ \A i \in 1..Len(ix) : ps[i] = ix[i].path
  <2>1. ps \in [1..Len(ix) -> Bytes]
    BY <1>1, <1>2
  <2> DEFINE n == Len(ix)
  <2> HIDE DEF n, ps
  <2>2. n \in Nat /\ ps \in [1..n -> Bytes]
    BY <1>1, <2>1 DEF n
  <2>3. ps \in Seq(Bytes)
    BY <2>2, FunctionIsSeq
  <2>4. Len(ps) = n
    BY <2>2, <2>3
  <2>5. QED
    BY <2>3, <2>4, <1>2 DEF n
<1>4. Root \in D /\ \A i \in 1..Len(ps) : Holds(ps[i]) \subseteq D
  BY <1>1, <1>3
<1> HIDE DEF D, ps
<1>5. /\ ds \in Seq(Built)
      /\ \A j \in 1..Len(ds) : ds[j].path \in D /\ Deep(ds[j].path, ds[j].depth)
      /\ \A j \in 2..Len(ds) :
           /\ ds[j].depth <= ds[j - 1].depth + 1
           /\ Eq(Up(ds[j].path, 1), Up(ds[j - 1].path, ds[j - 1].depth + 1 - ds[j].depth), cs)
  BY <1>3, <1>4, InitDirsRight
<1> HIDE DEF ds
<1>6. Cuts(InitSplits(ds), Len(ds))
  BY <1>5, SplitsRight
<1>7. ASSUME ix \in Scanned PROVE Reachable(ds)
  <2>1. \A d \in D : Unslashed(d) \in Paths
    <3>1. Unslashed(Root) \in Paths
      BY IndexAssumption DEF Unslashed
    <3>2. \A i \in DOMAIN ix : ix[i].path \in Paths
      BY <1>7, IndexAssumption
    <3>3. \A i \in DOMAIN ix : \A d \in Holds(ix[i].path) : Unslashed(d) \in Paths
      BY <3>2, IndexAssumption
    <3>4. QED
      BY <3>1, <3>3 DEF D
  <2>2. QED
    BY <2>1, <1>5 DEF Reachable
<1>8. QED
  BY <1>5, <1>6, <1>7 DEF Object, ds, ps

-----------------------------------------------------------------------------
(* The stack of descriptors.                                               *)

Fds == [1..DirStackSize -> Bytes \cup {NoFd}]

\* A descriptor is of the directory so many levels above y.
Ancestors(fds, y, cs) ==
  \A j \in 1..DirStackSize : fds[j] # NoFd =>
    j - 1 <= Cardinality(SlashesIn(y)) /\ Eq(fds[j], Up(y, j - 1), cs)

LEMMA NoFdsRight ==
  ASSUME NEW y, NEW cs
  PROVE  NoFds \in Fds /\ Ancestors(NoFds, y, cs)
BY DEF NoFds, Fds, Ancestors

LEMMA FirstFd ==
  ASSUME NEW x \in Bytes, NEW cs \in BOOLEAN, NEW fds \in Fds,
         \A j \in 2..DirStackSize : fds[j] # NoFd =>
           j - 1 <= Cardinality(SlashesIn(x)) /\ Eq(fds[j], Up(x, j - 1), cs)
  PROVE  [fds EXCEPT ![1] = x] \in Fds /\ Ancestors([fds EXCEPT ![1] = x], x, cs)
<1> DEFINE g == [fds EXCEPT ![1] = x]
<1>1. DirStackSize \in Nat \ {0} /\ 1 \in 1..DirStackSize
  BY IndexAssumption
<1>2. g \in Fds /\ g[1] = x /\ \A j \in 2..DirStackSize : g[j] = fds[j]
  BY <1>1 DEF Fds
<1> HIDE DEF g
<1>3. Cardinality(SlashesIn(x)) \in Nat /\ Up(x, 0) = x /\ Eq(x, x, cs)
  BY SlashesCount, UpRecursion, EqualRefl
<1>4. ASSUME NEW j \in 1..DirStackSize, g[j] # NoFd
      PROVE  j - 1 <= Cardinality(SlashesIn(x)) /\ Eq(g[j], Up(x, j - 1), cs)
  <2>1. CASE j = 1
    <3>1. j - 1 = 0
      BY <2>1
    <3>2. QED
      BY <2>1, <3>1, <1>2, <1>3
  <2>2. CASE j # 1
    <3>1. j \in 2..DirStackSize
      BY <2>2, <1>1
    <3>2. QED
      BY <3>1, <1>2, <1>4
  <2>3. QED
    BY <2>1, <2>2
<1>5. QED
  BY <1>2, <1>4 DEF Ancestors, g

LEMMA NotRoot ==
  ASSUME NEW x \in Bytes, NEW n \in Nat, Deep(x, n)
  PROVE  (x = Root <=> n = 0) /\ Cardinality(SlashesIn(x)) = n
<1>1. /\ IsFiniteSet(SlashesIn(x)) /\ SlashesIn(x) \subseteq 1..Len(x) /\ Len(x) \in Nat
      /\ Cardinality(SlashesIn(x)) = n /\ Len(x) \in {0} \cup SlashesIn(x) /\ (Len(x) = 0 <=> x = <<>>)
  BY SlashesCount, Length DEF Deep
<1>2. SlashesIn(x) = {} <=> n = 0
  BY <1>1, FS_EmptySet
<1>3. SlashesIn(x) = {} <=> Len(x) = 0
  BY <1>1
<1>4. QED
  BY <1>1, <1>2, <1>3 DEF Root

LEMMA OpenTailRight ==
  ASSUME NEW x \in Bytes, NEW n \in Nat, Deep(x, n), NEW cs \in BOOLEAN
  PROVE  /\ OpenTail(x) \in Fds /\ Ancestors(OpenTail(x), Up(x, 1), cs)
         /\ x = Root => OpenTail(x) = NoFds
<1>1. x = Root => OpenTail(x) = NoFds
  BY DEF OpenTail
<1>2. NoFds \in Fds /\ Ancestors(NoFds, Up(x, 1), cs)
  BY NoFdsRight
<1> DEFINE c == Cardinality(SlashesIn(x))
           f == [j \in 1..DirStackSize |-> IF j <= c THEN Up(x, j) ELSE NoFd]
<1>3. ASSUME x # Root PROVE f \in Fds /\ Ancestors(f, Up(x, 1), cs)
  <2>1. DirStackSize \in Nat /\ c = n /\ n \in Nat \ {0}
    BY <1>3, NotRoot, IndexAssumption
  <2>2. \A j \in Nat : Up(x, j) \in Bytes
    BY UpRecursion
  <2>3. f \in Fds
    <3> HIDE DEF c
    <3> QED
      BY <2>1, <2>2 DEF Fds
  <2>4. Deep(Up(x, 1), n - 1) /\ Up(x, 1) \in Bytes
    BY <2>1, <2>2, DeepUp
  <2>5. Cardinality(SlashesIn(Up(x, 1))) = n - 1
    BY <2>4 DEF Deep
  <2> HIDE DEF c
  <2>6. ASSUME NEW j \in 1..DirStackSize, f[j] # NoFd
        PROVE  j - 1 <= Cardinality(SlashesIn(Up(x, 1))) /\ Eq(f[j], Up(Up(x, 1), j - 1), cs)
    <3>1. j <= n /\ f[j] = Up(x, j)
      BY <2>1, <2>6
    <3>2. j - 1 \in Nat /\ 1 + (j - 1) = j /\ j \in Nat /\ 1 \in Nat
      BY <2>1
    <3>3. Up(Up(x, 1), j - 1) = Up(x, j)
      BY <3>2, UpUp
    <3>4. Eq(Up(x, j), Up(x, j), cs)
      BY <2>2, <3>2, EqualRefl
    <3> HIDE DEF f
    <3>5. QED
      BY <2>1, <2>5, <3>1, <3>2, <3>3, <3>4
  <2> HIDE DEF f
  <2>7. QED
    BY <2>3, <2>6 DEF Ancestors
<1>4. OpenTail(x) = NoFds \/ (x # Root /\ OpenTail(x) = f)
  BY Zenon DEF OpenTail
<1> HIDE DEF f
<1>5. QED
  BY <1>1, <1>2, <1>3, <1>4

\* After d levels up and one down, the descriptors are of the same directories.
LEMMA PushedRight ==
  ASSUME NEW x \in Bytes, NEW a \in Nat, Deep(x, a), NEW y \in Bytes, NEW b \in Nat, Deep(y, b),
         NEW d \in 0..(DirStackSize - 1), a = b + 1 - d, NEW cs \in BOOLEAN,
         Eq(Up(x, 1), Up(y, d), cs), NEW fds \in Fds, Ancestors(fds, y, cs)
  PROVE  LET g == [Pushed(fds, d) EXCEPT ![1] = x] IN g \in Fds /\ Ancestors(g, x, cs)
<1> DEFINE S == DirStackSize
           cl == CloseTo(fds, d)
           n == (IF d = 0 THEN S ELSE d) - 1
           f == Pushed(fds, d)
           at(j) == ((j - 1 + n) % S) + 1
<1>1. S \in Nat \ {0} /\ d \in Nat /\ n \in Nat /\ n < S
  BY IndexAssumption
<1>2. \A j \in 1..S : at(j) \in 1..S
  <2> TAKE j \in 1..S
  <2>1. j - 1 + n \in Nat
    BY <1>1
  <2> HIDE DEF n
  <2>2. (j - 1 + n) % S \in 0..(S - 1)
    BY <1>1, <2>1
  <2>3. QED
    BY <2>2, <1>1
<1>3. cl \in Fds /\ \A j \in 1..S : cl[j] = IF j <= d THEN NoFd ELSE fds[j]
  BY <1>1 DEF CloseTo, Fds
<1>4. f = [j \in 1..S |-> cl[at(j)]]
  BY DEF Pushed, Turn
<1> HIDE DEF cl, f, at
<1>5. f \in Fds /\ \A j \in 1..S : f[j] = cl[at(j)]
  BY <1>2, <1>3, <1>4 DEF Fds
<1>6. Cardinality(SlashesIn(x)) = a /\ Cardinality(SlashesIn(y)) = b
  BY DEF Deep
<1>7. ASSUME NEW j \in 2..S, f[j] # NoFd
      PROVE  j - 1 <= Cardinality(SlashesIn(x)) /\ Eq(f[j], Up(x, j - 1), cs)
  <2>1. j \in 1..S /\ f[j] = cl[at(j)] /\ at(j) \in 1..S /\ ~ (at(j) <= d) /\ f[j] = fds[at(j)]
    <3>1. j \in 1..S
      BY <1>1
    <3>2. QED
      BY <3>1, <1>2, <1>3, <1>5, <1>7
  <2>2. at(j) = j + d - 1
    <3> DEFINE m == j - 1 + n
    <3>1. m \in Nat /\ m < S + S /\ at(j) = (m % S) + 1
      BY <1>1 DEF at
    <3>2. CASE d = 0
      <4>1. n = S - 1
        BY <3>2
      <4>2. S <= m /\ m - S = j - 2
        BY <4>1, <1>1
      <4>3. m % S = m - S
        <5> HIDE DEF m, n
        <5> QED
          BY <3>1, <4>2, <1>1, Rest
      <4>4. QED
        BY <3>1, <4>2, <4>3, <3>2
    <3>3. CASE d # 0
      <4>1. n = d - 1 /\ m = j + d - 2
        BY <3>3
      <4>2. CASE m < S
        <5>1. m % S = m
          <6> HIDE DEF m, n
          <6> QED
            BY <3>1, <4>2, <1>1, Rest
        <5>2. QED
          BY <5>1, <3>1, <4>1
      <4>3. CASE S <= m
        <5>1. m % S = m - S
          <6> HIDE DEF m, n
          <6> QED
            BY <3>1, <4>3, <1>1, Rest
        <5>2. at(j) = (j + d - 2 - S) + 1
          <6>1. at(j) = (m - S) + 1 /\ m = j + d - 2
            BY <5>1, <3>1, <4>1
          <6> HIDE DEF m, n
          <6>2. QED
            BY <6>1, <1>1
        <5>3. QED
          BY <5>2, <2>1, <1>1
      <4>4. QED
        BY <4>2, <4>3, <3>1, <1>1
    <3>4. QED
      BY <3>2, <3>3
  <2>3. fds[at(j)] # NoFd /\ at(j) - 1 <= b /\ Eq(fds[at(j)], Up(y, at(j) - 1), cs)
    BY <2>1, <1>6, <1>7 DEF Ancestors
  <2>4. j - 2 \in Nat /\ at(j) - 1 = d + (j - 2) /\ 1 + (j - 2) = j - 1 /\ j - 1 \in Nat /\ j - 1 <= a
    BY <2>2, <2>3, <1>1
  <2> DEFINE u == Up(x, 1)
             v == Up(y, d)
  <2>5. u \in Bytes /\ v \in Bytes /\ Eq(v, u, cs)
    BY <1>1, UpRecursion, EqualSym
  <2>6. Up(v, j - 2) = Up(y, at(j) - 1) /\ Up(u, j - 2) = Up(x, j - 1)
    <3>1. Up(v, j - 2) = Up(y, d + (j - 2))
      BY <2>4, <1>1, UpUp
    <3>2. Up(u, j - 2) = Up(x, 1 + (j - 2))
      BY <2>4, UpUp
    <3>3. QED
      BY <3>1, <3>2, <2>4
  <2>7. Eq(Up(v, j - 2), Up(u, j - 2), cs)
    <3> HIDE DEF u, v
    <3> QED
      BY <2>4, <2>5, EqualUp
  <2>8. fds[at(j)] \in Bytes
    BY <2>1, <2>3 DEF Fds
  <2>9. Up(v, j - 2) \in Bytes /\ Up(u, j - 2) \in Bytes
    <3> HIDE DEF u, v
    <3> QED
      BY <2>4, <2>5, UpRecursion
  <2> HIDE DEF u, v
  <2>10. Eq(fds[at(j)], Up(x, j - 1), cs)
    <3> DEFINE p == fds[at(j)]
               q == Up(v, j - 2)
               r == Up(u, j - 2)
    <3>1. p \in Bytes /\ q \in Bytes /\ r \in Bytes /\ Eq(p, q, cs) /\ Eq(q, r, cs)
      BY <2>3, <2>6, <2>7, <2>8, <2>9
    <3> HIDE DEF p, q, r
    <3>2. Eq(p, r, cs)
      BY <3>1, EqualTrans
    <3>3. QED
      BY <3>2, <2>6 DEF p, r
  <2>11. QED
    BY <2>1, <2>4, <2>10, <1>6
<1>8. QED
  BY <1>5, <1>7, FirstFd DEF f

-----------------------------------------------------------------------------
(* The inductive invariant of a request.                                   *)

States == {"none", "queued", "open", "stat", "files", "cached", "list", "match", "collect",
           "throw", "leave", "done"}
Active == {"open", "stat", "files", "cached", "list", "match"}

LastOf(k, t, ds, sp) ==
  IF t.at = "open" THEN IF t.it = sp[k] + 1 THEN Up(ds[t.it].path, 1) ELSE ds[t.it - 1].path
  ELSE ds[t.it].path

\* A task visits the directories of its split.
TaskRight(k, t, ds, sp, cs) ==
  /\ t = [at |-> t.at, it |-> t.it, fds |-> t.fds, list |-> t.list, found |-> t.found]
  /\ t.at \in States
  /\ t.at \in Active =>
       /\ t.it \in (sp[k] + 1)..sp[k + 1]
       /\ t.fds \in Fds /\ Ancestors(t.fds, LastOf(k, t, ds, sp), cs)
       /\ t.at = "open" /\ t.it = sp[k] + 1 /\ ds[t.it].path = Root => t.fds = NoFds

CacheRight(c, ds) ==
  /\ DOMAIN c = DOMAIN ds
  /\ \A i \in DOMAIN c : /\ c[i] = [st |-> c[i].st, unmatched |-> c[i].unmatched, racy |-> c[i].racy]
                         /\ c[i].st \in 0..MaxClock

Constructed ==
  /\ index \in Seq(Entry) /\ caps \in Caps
  /\ dirs = InitDirs(PathsOf(index), CS) /\ splits = InitSplits(dirs)
TasksRight == \A k \in Tasks : TaskRight(k, task[k], dirs, splits, CS)
AtRest == index \notin Scanned \/ pc = "idle" => \A k \in Tasks : task[k].at = "none"
Working == {k \in Tasks : task[k].at \notin {"none", "done"}}
IndexInv ==
  /\ TypeOK /\ Constructed /\ CacheRight(cache, dirs) /\ TasksRight
  /\ AtRest /\ inflight = Cardinality(Working)

LEMMA SplitOf ==
  ASSUME NEW sp, NEW n \in Nat, Cuts(sp, n), NEW k \in 1..(Len(sp) - 1)
  PROVE  sp[k] \in Nat /\ sp[k + 1] \in Nat /\ sp[k] < sp[k + 1] /\ sp[k + 1] <= n
<1>1. Len(sp) \in Nat \ {0} /\ sp \in Seq(0..n) /\ \A x, y \in 1..Len(sp) : x < y => sp[x] < sp[y]
  BY DEF Cuts
<1>2. k \in 1..Len(sp) /\ k + 1 \in 1..Len(sp) /\ k < k + 1
  BY <1>1
<1>3. sp[k] \in 0..n /\ sp[k + 1] \in 0..n
  BY <1>1, <1>2, ElementOfSeq
<1>4. QED
  BY <1>1, <1>2, <1>3

LEMMA DirsRight ==
  ASSUME IndexInv
  PROVE  /\ Object(dirs, splits, CS) /\ CS \in BOOLEAN /\ (index \in Scanned => Reachable(dirs))
         /\ Len(dirs) \in Nat /\ DOMAIN dirs = 1..Len(dirs) /\ Len(splits) - 1 \in Nat
         /\ \A i \in 1..Len(dirs) :
              dirs[i].path \in Bytes /\ dirs[i].depth \in Nat /\ Deep(dirs[i].path, dirs[i].depth)
<1>1. index \in Seq(Entry) /\ CS \in BOOLEAN
  BY DEF IndexInv, Constructed, CS, Caps
<1> DEFINE cs == CS
<1> HIDE DEF cs
<1>2. cs \in BOOLEAN /\ dirs = InitDirs(PathsOf(index), cs) /\ splits = InitSplits(dirs)
  BY <1>1 DEF IndexInv, Constructed, cs
<1>3. Object(dirs, splits, cs) /\ (index \in Scanned => Reachable(dirs))
  BY <1>1, <1>2, ObjectRight
<1>4. dirs \in Seq(Built) /\ Len(splits) \in Nat \ {0}
  BY <1>3 DEF Object, Cuts
<1>5. /\ Len(dirs) \in Nat /\ DOMAIN dirs = 1..Len(dirs)
      /\ \A i \in 1..Len(dirs) : dirs[i].path \in Bytes /\ dirs[i].depth \in Nat
  BY <1>4, BuiltTypes
<1>6. \A i \in 1..Len(dirs) : Deep(dirs[i].path, dirs[i].depth)
  BY <1>3 DEF Object
<1>7. Len(splits) - 1 \in Nat
  BY <1>4
<1>8. QED
  BY <1>1, <1>3, <1>5, <1>6, <1>7 DEF cs

LEMMA ActiveTask ==
  ASSUME IndexInv, NEW k \in Tasks, task[k].at # "none"
  PROVE  /\ index \in Scanned /\ pc # "idle" /\ TaskRight(k, task[k], dirs, splits, CS)
         /\ First(k) = splits[k] + 1 /\ End(k) = splits[k + 1] + 1
         /\ splits[k] \in Nat /\ splits[k + 1] \in Nat /\ splits[k] < splits[k + 1]
         /\ splits[k + 1] <= Len(dirs)
         /\ task[k].at \in Active =>
              /\ task[k].it \in (splits[k] + 1)..splits[k + 1]
              /\ task[k].it \in 1..Len(dirs) /\ task[k].it \in DOMAIN dirs /\ task[k].it \in Nat
              /\ DirAt(k) = dirs[task[k].it] /\ PathAt(k) \in Paths
              /\ task[k].fds \in Fds /\ Ancestors(task[k].fds, LastOf(k, task[k], dirs, splits), CS)
<1>1. index \in Scanned /\ pc # "idle" /\ TaskRight(k, task[k], dirs, splits, CS)
  BY DEF IndexInv, AtRest, TasksRight
<1>2. Object(dirs, splits, CS) /\ Reachable(dirs) /\ Len(dirs) \in Nat /\ DOMAIN dirs = 1..Len(dirs)
  BY <1>1, DirsRight
<1>3. /\ splits[k] \in Nat /\ splits[k + 1] \in Nat /\ splits[k] < splits[k + 1]
      /\ splits[k + 1] <= Len(dirs)
  BY <1>2, SplitOf DEF Object, Tasks
<1>4. ASSUME task[k].at \in Active
      PROVE  /\ task[k].it \in (splits[k] + 1)..splits[k + 1]
             /\ task[k].fds \in Fds /\ Ancestors(task[k].fds, LastOf(k, task[k], dirs, splits), CS)
  BY <1>1, <1>4 DEF TaskRight
<1>5. ASSUME task[k].at \in Active
      PROVE  task[k].it \in 1..Len(dirs) /\ task[k].it \in Nat
  BY <1>2, <1>3, <1>4, <1>5
<1>6. ASSUME task[k].at \in Active
      PROVE  PathAt(k) \in Paths /\ DirAt(k) = dirs[task[k].it]
  BY <1>2, <1>5, <1>6 DEF PathAt, DirAt, Reachable
<1>7. QED
  BY <1>1, <1>2, <1>3, <1>4, <1>5, <1>6 DEF First, End

\* A step of one task.
LEMMA OneTask ==
  ASSUME IndexInv, NEW k \in Tasks, task[k].at \notin {"none", "done"},
         NEW t, TaskRight(k, t, dirs, splits, CS), t.at # "none",
         DOMAIN task' = Tasks, task'[k] = t, \A q \in Tasks \ {k} : task'[q] = task[q],
         UNCHANGED <<env, object, caller>>, error' \in BOOLEAN, events' \in 0..MaxEvents,
         CacheRight(cache', dirs),
         inflight' = IF t.at = "done" THEN inflight - 1 ELSE inflight
  PROVE  IndexInv'
<1>1. /\ fs' = fs /\ mtime' = mtime /\ clock' = clock /\ steady' = steady
      /\ index' = index /\ caps' = caps /\ dirs' = dirs /\ splits' = splits
      /\ pc' = pc /\ opts' = opts /\ req' = req /\ Tasks' = Tasks /\ CS' = CS
  BY DEF env, object, caller, Tasks, CS
<1>2. TasksRight'
  <2>1. \A q \in Tasks : TaskRight(q, task'[q], dirs, splits, CS)
    BY DEF IndexInv, TasksRight
  <2>2. QED
    BY <2>1, <1>1 DEF TasksRight
<1>3. Constructed'
  BY <1>1 DEF IndexInv, Constructed
<1>4. TypeOK'
  <2>1. \A q \in Tasks : task'[q].at \in States
    BY <1>1, <1>2 DEF TasksRight, TaskRight
  <2>2. DOMAIN cache' = DOMAIN dirs /\ \A i \in DOMAIN cache' : cache'[i].st \in 0..MaxClock
    BY DEF CacheRight
  <2>3. TypeOK
    BY DEF IndexInv
  <2>4. QED
    BY <1>1, <2>1, <2>2, <2>3 DEF TypeOK, States
<1>5. AtRest'
  <2>1. index \in Scanned /\ pc # "idle"
    BY DEF IndexInv, AtRest
  <2>2. QED
    BY <2>1, <1>1 DEF AtRest
<1>6. inflight' = Cardinality(Working')
  <2>1. IsFiniteSet(Tasks)
    <3>1. Len(splits) - 1 \in Nat
      BY DirsRight
    <3>2. QED
      BY <3>1, FS_Interval DEF Tasks
  <2>2. IsFiniteSet(Working) /\ k \in Working /\ inflight = Cardinality(Working)
    <3>1. Working \subseteq Tasks
      BY DEF Working
    <3>2. QED
      BY <3>1, <2>1, FS_Subset DEF IndexInv, Working
  <2>3. CASE t.at = "done"
    <3>1. Working' = Working \ {k}
      BY <1>1, <2>3 DEF Working
    <3>2. Cardinality(Working \ {k}) = Cardinality(Working) - 1
      BY <2>2, FS_RemoveElement
    <3>3. QED
      BY <3>1, <3>2, <2>2, <2>3
  <2>4. CASE t.at # "done"
    <3>1. Working' = Working
      BY <1>1, <2>4 DEF Working
    <3>2. QED
      BY <3>1, <2>2, <2>4
  <2>5. QED
    BY <2>3, <2>4
<1>7. QED
  BY <1>1, <1>2, <1>3, <1>4, <1>5, <1>6 DEF IndexInv

LEMMA UnreadableRight ==
  ASSUME IndexInv, NEW k \in Tasks, task[k].at # "none", task[k].at \in Active
  PROVE  CacheRight(Unreadable(k), dirs)
<1>1. CacheRight(cache, dirs) /\ task[k].it \in DOMAIN dirs
  BY ActiveTask DEF IndexInv
<1>2. 0 \in 0..MaxClock
  BY IndexAssumption
<1>3. QED
  BY <1>1, <1>2 DEF CacheRight, Unreadable, NoStat

LEMMA RecordStatRight ==
  ASSUME IndexInv, NEW k \in Tasks, task[k].at # "none", task[k].at \in Active
  PROVE  CacheRight(RecordStat(k), dirs)
<1>1. CacheRight(cache, dirs) /\ task[k].it \in DOMAIN dirs /\ PathAt(k) \in Paths
  BY ActiveTask DEF IndexInv
<1>2. mtime[PathAt(k)] \in 0..MaxClock
  <2>1. mtime[PathAt(k)] \in 1..MaxClock
    BY <1>1 DEF IndexInv, TypeOK
  <2>2. QED
    BY <2>1
<1> DEFINE m == mtime[PathAt(k)]
           r == m = clock
<1>3. m \in 0..MaxClock
  BY <1>2
<1> HIDE DEF m, r
<1>4. RecordStat(k) = [cache EXCEPT ![task[k].it].st = m, ![task[k].it].racy = r]
  BY Zenon DEF RecordStat, m, r
<1>5. QED
  BY <1>1, <1>3, <1>4 DEF CacheRight

LEMMA FoundRight ==
  ASSUME IndexInv, NEW k \in Tasks, task[k].at # "none", task[k].at \in Active, NEW new
  PROVE  CacheRight([cache EXCEPT ![task[k].it].unmatched = new], dirs)
<1>1. CacheRight(cache, dirs) /\ task[k].it \in DOMAIN dirs
  BY ActiveTask DEF IndexInv
<1>2. QED
  BY <1>1 DEF CacheRight

\* The task, done with its directory, is at the next one or at the end.
LEMMA NextRight ==
  ASSUME IndexInv, NEW k \in Tasks, task[k].at \in Active, NEW found
  PROVE  /\ task[k].at # "open" => TaskRight(k, Next_(k, found), dirs, splits, CS)
         /\ TaskRight(k, [Next_(k, found) EXCEPT !.fds = NoFds], dirs, splits, CS)
         /\ Next_(k, found).at \in {"open", "collect"}
         /\ [Next_(k, found) EXCEPT !.fds = NoFds].at \in {"open", "collect"}
<1> DEFINE t == task[k]
           u == Next_(k, found)
           v == [u EXCEPT !.fds = NoFds]
<1>1. task[k].at # "none"
  BY DEF Active
<1>2. /\ t = [at |-> t.at, it |-> t.it, fds |-> t.fds, list |-> t.list, found |-> t.found]
      /\ t.it \in (splits[k] + 1)..splits[k + 1] /\ t.it \in Nat
      /\ t.fds \in Fds /\ Ancestors(t.fds, LastOf(k, t, dirs, splits), CS)
      /\ End(k) = splits[k + 1] + 1 /\ splits[k] \in Nat /\ splits[k + 1] \in Nat
  BY <1>1, ActiveTask DEF TaskRight
<1>3. u = [at |-> IF t.it + 1 = End(k) THEN "collect" ELSE "open", it |-> t.it + 1,
           fds |-> t.fds, list |-> <<>>, found |-> t.found \cup found]
  <2> DEFINE a == t.at
             b == t.it
             c == t.fds
             d == t.list
             e == t.found
             n == IF b + 1 = End(k) THEN "collect" ELSE "open"
  <2>1. u = [t EXCEPT !.found = e \cup found, !.it = b + 1, !.list = <<>>, !.at = n]
    BY Zenon DEF Next_
  <2>2. t = [at |-> a, it |-> b, fds |-> c, list |-> d, found |-> e]
    BY <1>2
  <2> HIDE DEF t, a, b, c, d, e, n, u
  <2>3. u = [at |-> n, it |-> b + 1, fds |-> c, list |-> <<>>, found |-> e \cup found]
    BY <2>1, <2>2
  <2>4. QED
    BY <2>3 DEF n, a, b, c, d, e
<1> HIDE DEF t, u
<1>4. /\ u.at = IF t.it + 1 = End(k) THEN "collect" ELSE "open"
      /\ u.it = t.it + 1 /\ u.fds = t.fds
      /\ u = [at |-> u.at, it |-> u.it, fds |-> u.fds, list |-> u.list, found |-> u.found]
  BY <1>3
<1>5. v.at = u.at /\ v.it = u.it /\ v.fds = NoFds
      /\ v = [at |-> v.at, it |-> v.it, fds |-> v.fds, list |-> v.list, found |-> v.found]
  BY <1>4
<1> HIDE DEF v
<1>6. u.at \in {"open", "collect"}
  BY <1>4
<1>7. u.at \in Active => /\ u.at = "open" /\ u.it \in (splits[k] + 1)..splits[k + 1]
                         /\ u.it # splits[k] + 1 /\ u.it - 1 = t.it
  BY <1>2, <1>4 DEF Active
<1>8. ASSUME t.at # "open" PROVE TaskRight(k, u, dirs, splits, CS)
  <2>1. LastOf(k, t, dirs, splits) = dirs[t.it].path
    BY <1>8 DEF LastOf
  <2>2. u.at \in Active => LastOf(k, u, dirs, splits) = dirs[t.it].path
    BY <1>7 DEF LastOf
  <2>3. u.at \in States
    BY <1>6 DEF States
  <2>4. QED
    BY <1>2, <1>4, <1>7, <2>1, <2>2, <2>3 DEF TaskRight
<1>9. TaskRight(k, v, dirs, splits, CS)
  <2>1. NoFds \in Fds /\ Ancestors(NoFds, LastOf(k, v, dirs, splits), CS)
    BY NoFdsRight
  <2>2. v.at \in States
    BY <1>5, <1>6 DEF States
  <2>3. QED
    BY <1>5, <1>7, <2>1, <2>2 DEF TaskRight
<1>10. QED
  BY <1>5, <1>6, <1>8, <1>9 DEF t, u, v

\* A task that goes on with the same directory and the same stack.
LEMMA GoesOn ==
  ASSUME IndexInv, NEW k \in Tasks, task[k].at \in Active \ {"open"},
         NEW at \in Active \ {"open"}, NEW list
  PROVE  TaskRight(k, [task[k] EXCEPT !.at = at, !.list = list], dirs, splits, CS)
<1> DEFINE t == task[k]
           u == [t EXCEPT !.at = at, !.list = list]
<1>1. task[k].at # "none"
  BY DEF Active
<1>2. /\ t = [at |-> t.at, it |-> t.it, fds |-> t.fds, list |-> t.list, found |-> t.found]
      /\ t.it \in (splits[k] + 1)..splits[k + 1]
      /\ t.fds \in Fds /\ Ancestors(t.fds, LastOf(k, t, dirs, splits), CS)
  BY <1>1, ActiveTask DEF TaskRight
<1> HIDE DEF t
<1>3. /\ u.at = at /\ u.it = t.it /\ u.fds = t.fds
      /\ u = [at |-> u.at, it |-> u.it, fds |-> u.fds, list |-> u.list, found |-> u.found]
  <2> DEFINE a == t.at
             b == t.it
             c == t.fds
             d == t.list
             e == t.found
  <2>1. t = [at |-> a, it |-> b, fds |-> c, list |-> d, found |-> e]
    BY <1>2
  <2>2. u = [t EXCEPT !.at = at, !.list = list]
    OBVIOUS
  <2> HIDE DEF a, b, c, d, e, u
  <2>3. u = [at |-> at, it |-> b, fds |-> c, list |-> list, found |-> e]
    BY <2>1, <2>2
  <2>4. QED
    BY <2>3 DEF b, c
<1> HIDE DEF u
<1>4. LastOf(k, u, dirs, splits) = LastOf(k, t, dirs, splits) /\ u.at \in States /\ u.at # "open"
  BY <1>3 DEF LastOf, States, Active, t
<1>5. TaskRight(k, u, dirs, splits, CS)
  BY <1>2, <1>3, <1>4 DEF TaskRight
<1>6. QED
  BY <1>5 DEF t, u

\* A task that has left its directories.
LEMMA Finished ==
  ASSUME IndexInv, NEW k \in Tasks, NEW at \in {"collect", "throw", "leave", "done"},
         NEW fds, NEW found
  PROVE  TaskRight(k, [task[k] EXCEPT !.at = at, !.fds = fds, !.found = found], dirs, splits, CS)
<1> DEFINE t == task[k]
           u == [t EXCEPT !.at = at, !.fds = fds, !.found = found]
<1>1. t = [at |-> t.at, it |-> t.it, fds |-> t.fds, list |-> t.list, found |-> t.found]
  BY DEF IndexInv, TasksRight, TaskRight
<1> HIDE DEF t
<1>2. u.at = at /\ u = [at |-> u.at, it |-> u.it, fds |-> u.fds, list |-> u.list, found |-> u.found]
  <2> DEFINE a == t.at
             b == t.it
             c == t.fds
             d == t.list
             e == t.found
  <2>1. t = [at |-> a, it |-> b, fds |-> c, list |-> d, found |-> e]
    BY <1>1
  <2>2. u = [t EXCEPT !.at = at, !.fds = fds, !.found = found]
    OBVIOUS
  <2> HIDE DEF a, b, c, d, e, u
  <2>3. u = [at |-> at, it |-> b, fds |-> fds, list |-> d, found |-> found]
    BY <2>1, <2>2
  <2>4. QED
    BY <2>3
<1> HIDE DEF u
<1>3. u.at \in States /\ u.at \notin Active
  BY <1>2 DEF States, Active
<1>4. TaskRight(k, u, dirs, splits, CS)
  BY <1>2, <1>3 DEF TaskRight
<1>5. QED
  BY <1>4 DEF t, u

\* What a step of ScanDirs does to the shared state.
LEMMA ScanStep ==
  ASSUME IndexInv, NEW k \in Tasks, task[k].at \in Active,
         NEW t, TaskRight(k, t, dirs, splits, CS), t.at \notin {"none", "done"},
         DOMAIN task' = Tasks, task'[k] = t, \A q \in Tasks \ {k} : task'[q] = task[q],
         CacheRight(cache', dirs), Fault \/ NoFault,
         UNCHANGED <<env, object, caller, inflight, error, res>>
  PROVE  IndexInv'
<1>1. events' \in 0..MaxEvents
  BY IndexAssumption DEF Fault, NoFault, IndexInv, TypeOK
<1>2. error' \in BOOLEAN /\ task[k].at \notin {"none", "done"}
  BY DEF IndexInv, TypeOK, Active
<1>3. QED
  BY <1>1, <1>2, OneTask

\* The stack that a directory is opened with is that of its own ancestors.
LEMMA OpenedRight ==
  ASSUME IndexInv, NEW k \in Tasks, task[k].at = "open"
  PROVE  LET g == FdsWith(k, DirAt(k).path) IN g \in Fds /\ Ancestors(g, DirAt(k).path, CS)
<1> DEFINE i == task[k].it
           x == DirAt(k).path
           y == LastOf(k, task[k], dirs, splits)
           d == LevelsUp(k)
           fds == task[k].fds
           f == IF ByParent(k) THEN Pushed(fds, d) ELSE NoFds
           cs == CS
<1>1. /\ i \in (splits[k] + 1)..splits[k + 1] /\ i \in 1..Len(dirs) /\ DirAt(k) = dirs[i]
      /\ splits[k] \in Nat /\ First(k) = splits[k] + 1 /\ i \in Nat
      /\ fds \in Fds /\ Ancestors(fds, y, cs)
  <2>1. task[k].at # "none" /\ task[k].at \in Active
    BY DEF Active
  <2>2. QED
    BY <2>1, ActiveTask
<1>2. i = First(k) /\ x = Root => fds = NoFds
  <2>1. TaskRight(k, task[k], dirs, splits, CS) /\ task[k].at \in Active
    BY DEF IndexInv, TasksRight, Active
  <2>2. QED
    BY <2>1, <1>1 DEF TaskRight
<1>3. /\ cs \in BOOLEAN /\ Object(dirs, splits, cs) /\ Len(dirs) \in Nat
      /\ \A j \in 1..Len(dirs) :
           dirs[j].path \in Bytes /\ dirs[j].depth \in Nat /\ Deep(dirs[j].path, dirs[j].depth)
  BY DirsRight
<1> DEFINE a == dirs[i].depth
<1>4. x \in Bytes /\ a \in Nat /\ Deep(x, a)
  BY <1>1, <1>3
<1>5. FdsWith(k, x) = [f EXCEPT ![1] = x]
  BY Zenon DEF FdsWith
<1>6. i = First(k) => y = Up(x, 1)
  BY <1>1 DEF LastOf
<1>7. i # First(k) => y = dirs[i - 1].path
  BY <1>1 DEF LastOf
<1>8. d = IF i = First(k) THEN 0 ELSE dirs[i - 1].depth + 1 - a
  BY <1>1 DEF LevelsUp
<1>9. ByParent(k) => d < DirStackSize /\ fds[d + 1] # NoFd
  BY DEF ByParent
<1>10. ~ByParent(k) => f = NoFds
  BY Zenon
<1>11. ByParent(k) => f = Pushed(fds, d)
  BY Zenon
<1>12. DirStackSize \in Nat \ {0}
  BY IndexAssumption
<1> HIDE DEF i, x, y, d, fds, f, a, cs
<1>13. CASE ~ByParent(k)
  <2>1. NoFds \in Fds /\ \A j \in 2..DirStackSize : NoFds[j] = NoFd
    <3>1. \A j \in 2..DirStackSize : j \in 1..DirStackSize
      BY <1>12
    <3>2. QED
      BY <3>1, NoFdsRight DEF NoFds
  <2>2. [NoFds EXCEPT ![1] = x] \in Fds /\ Ancestors([NoFds EXCEPT ![1] = x], x, cs)
    BY <2>1, <1>3, <1>4, FirstFd
  <2>3. QED
    BY <2>2, <1>5, <1>10, <1>13 DEF x, cs
<1>14. CASE ByParent(k) /\ i = First(k)
  <2>1. d = 0 /\ y = Up(x, 1) /\ d \in 0..(DirStackSize - 1)
    BY <1>6, <1>8, <1>12, <1>14
  <2>2. x # Root
    <3>1. d + 1 = 1 /\ 1 \in 1..DirStackSize
      BY <2>1, <1>12
    <3>2. fds # NoFds
      <4>1. NoFds[1] = NoFd
        BY <3>1 DEF NoFds
      <4>2. fds[1] # NoFd
        BY <3>1, <1>9, <1>14
      <4>3. QED
        BY <4>1, <4>2
    <3>3. QED
      BY <3>2, <1>2, <1>14
  <2>3. a \in Nat \ {0} /\ a - 1 \in Nat
    BY <2>2, <1>4, NotRoot
  <2>4. Deep(y, a - 1) /\ y \in Bytes
    BY <2>1, <2>3, <1>4, DeepUp, UpRecursion
  <2>5. Eq(Up(x, 1), Up(y, d), cs)
    BY <2>1, <2>4, <1>3, UpRecursion, EqualRefl
  <2>6. a = (a - 1) + 1 - d
    BY <2>1, <2>3
  <2> DEFINE b == a - 1
  <2>7. b \in Nat /\ Deep(y, b) /\ a = b + 1 - d
    BY <2>3, <2>4, <2>6
  <2> HIDE DEF b
  <2>8. [Pushed(fds, d) EXCEPT ![1] = x] \in Fds /\ Ancestors([Pushed(fds, d) EXCEPT ![1] = x], x, cs)
    <3>1. d \in 0..(DirStackSize - 1)
      BY <2>1
    <3>2. fds \in Fds /\ Ancestors(fds, y, cs) /\ cs \in BOOLEAN /\ x \in Bytes
      BY <1>1, <1>3, <1>4
    <3>3. a \in Nat /\ Deep(x, a) /\ y \in Bytes
      BY <2>3, <2>4, <1>4
    <3>4. QED
      BY <3>1, <3>2, <3>3, <2>5, <2>7, PushedRight
  <2>9. QED
    BY <2>8, <1>5, <1>11, <1>14 DEF x, cs
<1>15. CASE ByParent(k) /\ i # First(k)
  <2> DEFINE b == dirs[i - 1].depth
  <2>1. i \in 2..Len(dirs) /\ i - 1 \in 1..Len(dirs)
    BY <1>1, <1>15, <1>3
  <2>2. b \in Nat /\ y \in Bytes /\ Deep(y, b) /\ d = b + 1 - a
    BY <2>1, <1>3, <1>7, <1>8, <1>15
  <2>3. a <= b + 1 /\ Eq(Up(x, 1), Up(y, d), cs)
    <3>1. /\ dirs[i].depth <= dirs[i - 1].depth + 1
          /\ Eq(Up(dirs[i].path, 1), Up(dirs[i - 1].path, dirs[i - 1].depth + 1 - dirs[i].depth), cs)
      BY <2>1, <1>3 DEF Object
    <3>2. x = dirs[i].path
      BY <1>1 DEF x
    <3>3. y = dirs[i - 1].path
      BY <1>7, <1>15
    <3>4. QED
      BY <3>1, <3>2, <3>3, <2>2 DEF a
  <2>4. d \in 0..(DirStackSize - 1) /\ a = b + 1 - d
    <3>1. d \in Nat /\ d < DirStackSize
      BY <2>2, <2>3, <1>4, <1>9, <1>15
    <3>2. QED
      BY <3>1, <2>2, <1>4, <1>12
  <2> HIDE DEF b
  <2>5. [Pushed(fds, d) EXCEPT ![1] = x] \in Fds /\ Ancestors([Pushed(fds, d) EXCEPT ![1] = x], x, cs)
    BY <2>2, <2>3, <2>4, <1>1, <1>3, <1>4, PushedRight
  <2>6. QED
    BY <2>5, <1>5, <1>11, <1>15 DEF x, cs
<1>16. QED
  BY <1>13, <1>14, <1>15

LEMMA OpenDirKeeps ==
  ASSUME IndexInv, NEW k \in Tasks, OpenDir(k),
         UNCHANGED <<env, object, caller, inflight, error, res>>
  PROVE  IndexInv'
<1> DEFINE g == FdsWith(k, DirAt(k).path)
           t == task[k]
           u == [t EXCEPT !.at = "stat", !.fds = g]
<1>1. task[k].at = "open" /\ task[k].at \in Active /\ task[k].at # "none"
  BY DEF OpenDir, Active
<1>2. g \in Fds /\ Ancestors(g, DirAt(k).path, CS)
  BY <1>1, OpenedRight
<1>3. /\ TaskRight(k, t, dirs, splits, CS) /\ t.it \in (splits[k] + 1)..splits[k + 1]
      /\ DirAt(k) = dirs[t.it]
  BY <1>1, ActiveTask
<1>4. DOMAIN task = Tasks
  BY DEF IndexInv, TypeOK
<1>5. task' = [task EXCEPT ![k].at = "stat", ![k].fds = g] /\ NoFault /\ cache' = cache
  BY DEF OpenDir
<1>6. DOMAIN task' = Tasks /\ task'[k] = u /\ \A q \in Tasks \ {k} : task'[q] = task[q]
  <2> HIDE DEF g
  <2> QED
    BY <1>4, <1>5
<1> HIDE DEF g
<1>7. /\ u.at = "stat" /\ u.it = t.it /\ u.fds = g
      /\ u = [at |-> u.at, it |-> u.it, fds |-> u.fds, list |-> u.list, found |-> u.found]
  <2> DEFINE a == t.at
             b == t.it
             c == t.fds
             d == t.list
             e == t.found
  <2>1. t = [at |-> a, it |-> b, fds |-> c, list |-> d, found |-> e]
    BY <1>3 DEF TaskRight
  <2>2. u = [t EXCEPT !.at = "stat", !.fds = g]
    OBVIOUS
  <2> HIDE DEF t, a, b, c, d, e, u
  <2>3. u = [at |-> "stat", it |-> b, fds |-> g, list |-> d, found |-> e]
    BY <2>1, <2>2
  <2>4. QED
    BY <2>3 DEF b
<1> HIDE DEF u
<1>8. LastOf(k, u, dirs, splits) = DirAt(k).path
  BY <1>3, <1>7 DEF LastOf
<1>9. TaskRight(k, u, dirs, splits, CS)
  BY <1>2, <1>3, <1>7, <1>8 DEF TaskRight, States
<1>10. QED
  BY <1>1, <1>5, <1>6, <1>7, <1>9, ScanStep DEF IndexInv

LEMMA OpenFailsKeeps ==
  ASSUME IndexInv, NEW k \in Tasks, OpenFails(k),
         UNCHANGED <<env, object, caller, inflight, error, res>>
  PROVE  IndexInv'
<1> DEFINE u == [Next_(k, {DirAt(k).path}) EXCEPT !.fds = NoFds]
<1>1. task[k].at \in Active /\ task[k].at # "none"
  BY DEF OpenFails, Active
<1>2. TaskRight(k, u, dirs, splits, CS) /\ u.at \in {"open", "collect"}
  BY <1>1, NextRight
<1>3. task' = [task EXCEPT ![k] = u] /\ cache' = Unreadable(k) /\ (Fault \/ NoFault)
  BY DEF OpenFails
<1> HIDE DEF u
<1>4. DOMAIN task' = Tasks /\ task'[k] = u /\ \A q \in Tasks \ {k} : task'[q] = task[q]
  BY <1>3 DEF IndexInv, TypeOK
<1>5. CacheRight(cache', dirs)
  BY <1>1, <1>3, UnreadableRight
<1>6. QED
  BY <1>1, <1>2, <1>3, <1>4, <1>5, ScanStep

LEMMA DupFailsKeeps ==
  ASSUME IndexInv, NEW k \in Tasks, DupFails(k),
         UNCHANGED <<env, object, caller, inflight, error, res>>
  PROVE  IndexInv'
<1> DEFINE t == task[k]
           u == [t EXCEPT !.at = "throw", !.fds = NoFds, !.found = t.found]
<1>1. task[k].at \in Active /\ task[k].at # "none"
  BY DEF DupFails, Active
<1>2. TaskRight(k, u, dirs, splits, CS)
  BY Finished
<1>3. task' = [task EXCEPT ![k].at = "throw", ![k].fds = NoFds] /\ cache' = cache /\ Fault
  BY DEF DupFails
<1>4. t = [at |-> t.at, it |-> t.it, fds |-> t.fds, list |-> t.list, found |-> t.found]
  BY DEF IndexInv, TasksRight, TaskRight
<1>5. u = [t EXCEPT !.at = "throw", !.fds = NoFds] /\ u.at = "throw"
  <2> DEFINE a == t.at
             b == t.it
             c == t.fds
             d == t.list
             e == t.found
             v == [t EXCEPT !.at = "throw", !.fds = NoFds]
  <2>1. t = [at |-> a, it |-> b, fds |-> c, list |-> d, found |-> e]
    BY <1>4
  <2>2. u = [t EXCEPT !.at = "throw", !.fds = NoFds, !.found = e]
    OBVIOUS
  <2>3. v = [t EXCEPT !.at = "throw", !.fds = NoFds]
    OBVIOUS
  <2> HIDE DEF t, a, b, c, d, e, u, v
  <2>4. /\ u = [at |-> "throw", it |-> b, fds |-> NoFds, list |-> d, found |-> e]
        /\ v = [at |-> "throw", it |-> b, fds |-> NoFds, list |-> d, found |-> e]
    BY <2>1, <2>2, <2>3
  <2>5. QED
    BY <2>4 DEF v
<1>6. DOMAIN task' = Tasks /\ task'[k] = [t EXCEPT !.at = "throw", !.fds = NoFds]
      /\ \A q \in Tasks \ {k} : task'[q] = task[q]
  BY <1>3 DEF IndexInv, TypeOK
<1>7. CacheRight(cache', dirs) /\ (Fault \/ NoFault)
  BY <1>3 DEF IndexInv
<1>8. task'[k] = u /\ u.at \notin {"none", "done"}
  BY <1>5, <1>6, Zenon
<1> HIDE DEF u
<1>9. QED
  BY <1>1, <1>2, <1>6, <1>7, <1>8, ScanStep

LEMMA TaskForm ==
  ASSUME NEW t, NEW at,
         t = [at |-> t.at, it |-> t.it, fds |-> t.fds, list |-> t.list, found |-> t.found]
  PROVE  /\ [t EXCEPT !.at = at] = [at |-> at, it |-> t.it, fds |-> t.fds, list |-> t.list, found |-> t.found]
         /\ [t EXCEPT !.at = at, !.list = t.list] = [t EXCEPT !.at = at]
         /\ [t EXCEPT !.at = at, !.fds = t.fds, !.found = t.found] = [t EXCEPT !.at = at]
<1> DEFINE a == t.at
           b == t.it
           c == t.fds
           d == t.list
           e == t.found
           u == [t EXCEPT !.at = at]
           v == [t EXCEPT !.at = at, !.list = d]
           w == [t EXCEPT !.at = at, !.fds = c, !.found = e]
<1>1. t = [at |-> a, it |-> b, fds |-> c, list |-> d, found |-> e]
  OBVIOUS
<1>2. /\ u = [t EXCEPT !.at = at] /\ v = [t EXCEPT !.at = at, !.list = d]
      /\ w = [t EXCEPT !.at = at, !.fds = c, !.found = e]
  OBVIOUS
<1> HIDE DEF a, b, c, d, e, u, v, w
<1>3. u = [at |-> at, it |-> b, fds |-> c, list |-> d, found |-> e]
  BY <1>1, <1>2
<1>4. v = [at |-> at, it |-> b, fds |-> c, list |-> d, found |-> e]
  BY <1>1, <1>2
<1>5. w = [at |-> at, it |-> b, fds |-> c, list |-> d, found |-> e]
  BY <1>1, <1>2
<1>6. QED
  BY <1>3, <1>4, <1>5 DEF u, v, w, b, c, d, e

LEMMA StatDirKeeps ==
  ASSUME IndexInv, NEW k \in Tasks, StatDir(k),
         UNCHANGED <<env, object, caller, inflight, error, res>>
  PROVE  IndexInv'
<1> DEFINE t == task[k]
<1>1. task[k].at \in Active \ {"open"} /\ task[k].at # "none"
  BY DEF StatDir, Active
<1>2. /\ DOMAIN task = Tasks /\ CacheRight(cache, dirs)
      /\ t = [at |-> t.at, it |-> t.it, fds |-> t.fds, list |-> t.list, found |-> t.found]
  BY DEF IndexInv, TypeOK, TasksRight, TaskRight
<1>3. ASSUME NEW at \in {"files", "cached", "list"}
      PROVE  /\ TaskRight(k, [t EXCEPT !.at = at], dirs, splits, CS)
             /\ [t EXCEPT !.at = at].at = at
  <2>1. TaskRight(k, [t EXCEPT !.at = at, !.list = t.list], dirs, splits, CS)
    BY <1>1, GoesOn DEF Active
  <2>2. /\ [t EXCEPT !.at = at, !.list = t.list] = [t EXCEPT !.at = at]
        /\ [t EXCEPT !.at = at] = [at |-> at, it |-> t.it, fds |-> t.fds, list |-> t.list, found |-> t.found]
    <3> HIDE DEF t
    <3> QED
      BY <1>2, TaskForm
  <2> HIDE DEF t
  <2>3. QED
    BY <2>1, <2>2
<1>4. ASSUME NEW at \in {"files", "cached", "list"}, task' = [task EXCEPT ![k].at = at],
             CacheRight(cache', dirs), NoFault
      PROVE  IndexInv'
  <2> DEFINE u == [t EXCEPT !.at = at]
  <2>1. DOMAIN task' = Tasks /\ task'[k] = u /\ \A q \in Tasks \ {k} : task'[q] = task[q]
    BY <1>2, <1>4
  <2>2. TaskRight(k, u, dirs, splits, CS) /\ u.at = at
    BY <1>3
  <2> HIDE DEF u
  <2>3. QED
    BY <1>1, <1>4, <2>1, <2>2, ScanStep
<1>5. CASE task' = [task EXCEPT ![k].at = "files"] /\ NoFault /\ UNCHANGED cache
  BY <1>2, <1>4, <1>5
<1>6. CASE task' = [task EXCEPT ![k].at = "cached"] /\ NoFault /\ UNCHANGED cache
  BY <1>2, <1>4, <1>6
<1>7. CASE /\ task' = [task EXCEPT ![k].at = "list"] /\ NoFault
           /\ cache' = cache \/ cache' = RecordStat(k)
  <2>1. CacheRight(cache', dirs)
    BY <1>1, <1>2, <1>7, RecordStatRight
  <2>2. QED
    BY <2>1, <1>4, <1>7
<1>8. CASE Fault /\ task' = [task EXCEPT ![k] = Next_(k, {DirAt(k).path})] /\ cache' = Unreadable(k)
  <2> DEFINE u == Next_(k, {DirAt(k).path})
  <2>1. TaskRight(k, u, dirs, splits, CS) /\ u.at \in {"open", "collect"}
    BY <1>1, NextRight
  <2>2. CacheRight(cache', dirs)
    BY <1>1, <1>8, UnreadableRight
  <2> HIDE DEF u
  <2>3. DOMAIN task' = Tasks /\ task'[k] = u /\ \A q \in Tasks \ {k} : task'[q] = task[q]
    BY <1>2, <1>8 DEF u
  <2>4. QED
    BY <1>1, <1>8, <2>1, <2>2, <2>3, ScanStep
<1>9. QED
  BY <1>5, <1>6, <1>7, <1>8 DEF StatDir

\* A directory is done with, and what it holds may be remembered.
LEMMA DoneWith ==
  ASSUME IndexInv, NEW k \in Tasks, task[k].at \in Active \ {"open"}, NEW found,
         task' = [task EXCEPT ![k] = Next_(k, found)], CacheRight(cache', dirs), Fault \/ NoFault,
         UNCHANGED <<env, object, caller, inflight, error, res>>
  PROVE  IndexInv'
<1> DEFINE u == Next_(k, found)
<1>1. TaskRight(k, u, dirs, splits, CS) /\ u.at \in {"open", "collect"}
  BY NextRight
<1>2. DOMAIN task = Tasks
  BY DEF IndexInv, TypeOK
<1> HIDE DEF u
<1>3. DOMAIN task' = Tasks /\ task'[k] = u /\ \A q \in Tasks \ {k} : task'[q] = task[q]
  BY <1>2 DEF u
<1>4. QED
  BY <1>1, <1>3, ScanStep

LEMMA VisitKeeps ==
  ASSUME IndexInv, NEW k \in Tasks, Visit(k),
         UNCHANGED <<env, object, caller, inflight, error, res>>
  PROVE  IndexInv'
<1> DEFINE new == IF task[k].at = "cached" THEN cache[task[k].it].unmatched ELSE {}
           found == StatFiles(k) \cup new
<1>1. task[k].at \in Active \ {"open"}
  BY DEF Visit, Active
<1>2. task' = [task EXCEPT ![k] = Next_(k, found)] /\ NoFault /\ cache' = cache
  BY Zenon DEF Visit
<1> HIDE DEF found
<1>3. QED
  BY <1>1, <1>2, DoneWith DEF IndexInv

LEMMA MatchDirKeeps ==
  ASSUME IndexInv, NEW k \in Tasks, MatchDir(k),
         UNCHANGED <<env, object, caller, inflight, error, res>>
  PROVE  IndexInv'
<1> DEFINE new == AddUnmatched(k)
           found == MatchFiles(k) \cup new
<1>1. task[k].at \in Active \ {"open"} /\ task[k].at \in Active /\ task[k].at # "none"
  BY DEF MatchDir, Active
<1>2. /\ task' = [task EXCEPT ![k] = Next_(k, found)] /\ NoFault
      /\ cache' = [cache EXCEPT ![task[k].it].unmatched = new]
  BY Zenon DEF MatchDir
<1> HIDE DEF found, new
<1>3. CacheRight(cache', dirs)
  BY <1>1, <1>2, FoundRight
<1>4. QED
  BY <1>1, <1>2, <1>3, DoneWith

LEMMA ListDirKeeps ==
  ASSUME IndexInv, NEW k \in Tasks, ListDir(k),
         UNCHANGED <<env, object, caller, inflight, error, res>>
  PROVE  IndexInv'
<1> DEFINE t == task[k]
           list == Listing(PathAt(k))
<1>1. task[k].at \in Active \ {"open"} /\ task[k].at \in Active /\ task[k].at # "none"
  BY DEF ListDir, Active
<1>2. DOMAIN task = Tasks /\ CacheRight(cache, dirs) /\ TaskRight(k, t, dirs, splits, CS)
  BY DEF IndexInv, TypeOK, TasksRight
<1> HIDE DEF list
<1>3. CASE task' = [task EXCEPT ![k].at = "match", ![k].list = list] /\ NoFault /\ cache' = cache
  <2> DEFINE u == [t EXCEPT !.at = "match", !.list = list]
  <2>1. TaskRight(k, u, dirs, splits, CS)
    BY <1>1, GoesOn DEF Active
  <2>2. DOMAIN task' = Tasks /\ task'[k] = u /\ \A q \in Tasks \ {k} : task'[q] = task[q]
    BY <1>2, <1>3
  <2>3. u.at = "match"
    <3>1. t = [at |-> t.at, it |-> t.it, fds |-> t.fds, list |-> t.list, found |-> t.found]
      BY <1>2 DEF TaskRight
    <3> HIDE DEF t
    <3>2. QED
      BY <3>1
  <2> HIDE DEF u
  <2>4. QED
    BY <1>1, <1>2, <1>3, <2>1, <2>2, <2>3, ScanStep
<1>4. CASE Fault /\ task' = [task EXCEPT ![k] = Next_(k, {DirAt(k).path})] /\ cache' = Unreadable(k)
  <2>1. CacheRight(cache', dirs)
    BY <1>1, <1>4, UnreadableRight
  <2>2. QED
    BY <2>1, <1>1, <1>4, DoneWith
<1>5. QED
  BY <1>3, <1>4 DEF ListDir, list

LEMMA ScanDirsKeeps ==
  ASSUME IndexInv, NEW k \in Tasks, ScanDirs(k)
  PROVE  IndexInv'
BY OpenDirKeeps, OpenFailsKeeps, DupFailsKeeps, StatDirKeeps, VisitKeeps, ListDirKeeps,
   MatchDirKeeps DEF ScanDirs

LEMMA StartTaskKeeps ==
  ASSUME IndexInv, NEW k \in Tasks, StartTask(k)
  PROVE  IndexInv'
<1> DEFINE t == task[k]
           i == First(k)
           x == dirs[i].path
           fds == OpenTail(x)
           u == [t EXCEPT !.at = "open", !.it = i, !.fds = fds]
<1>1. task[k].at = "queued" /\ task[k].at # "none" /\ task[k].at \notin {"none", "done"}
  BY DEF StartTask
<1>2. /\ TaskRight(k, t, dirs, splits, CS) /\ i = splits[k] + 1
      /\ i \in (splits[k] + 1)..splits[k + 1] /\ i \in 1..Len(dirs)
  <2>1. /\ TaskRight(k, t, dirs, splits, CS) /\ i = splits[k] + 1
        /\ splits[k] \in Nat /\ splits[k + 1] \in Nat /\ splits[k] < splits[k + 1]
        /\ splits[k + 1] <= Len(dirs)
    BY <1>1, ActiveTask
  <2>2. Len(dirs) \in Nat
    BY DirsRight
  <2> HIDE DEF t, i
  <2>3. QED
    BY <2>1, <2>2
<1>3. /\ CS \in BOOLEAN /\ x \in Bytes /\ dirs[i].depth \in Nat /\ Deep(x, dirs[i].depth)
  BY <1>2, DirsRight
<1>4. fds \in Fds /\ Ancestors(fds, Up(x, 1), CS) /\ (x = Root => fds = NoFds)
  <2> DEFINE cs == CS
  <2> HIDE DEF x, cs
  <2>1. cs \in BOOLEAN
    BY <1>3 DEF cs
  <2>2. fds \in Fds /\ Ancestors(fds, Up(x, 1), cs) /\ (x = Root => fds = NoFds)
    BY <2>1, <1>3, OpenTailRight DEF x
  <2>3. QED
    BY <2>2 DEF cs
<1>5. /\ task' = [task EXCEPT ![k].at = "open", ![k].it = i, ![k].fds = fds]
      /\ UNCHANGED <<env, object, cache, caller, inflight, error, res, events>>
  BY DEF StartTask
<1>6. DOMAIN task' = Tasks /\ task'[k] = u /\ \A q \in Tasks \ {k} : task'[q] = task[q]
  <2> HIDE DEF i, fds
  <2> QED
    BY <1>5 DEF IndexInv, TypeOK
<1>7. /\ u.at = "open" /\ u.it = i /\ u.fds = fds
      /\ u = [at |-> u.at, it |-> u.it, fds |-> u.fds, list |-> u.list, found |-> u.found]
  <2> DEFINE a == t.at
             b == t.it
             c == t.fds
             d == t.list
             e == t.found
  <2>1. t = [at |-> a, it |-> b, fds |-> c, list |-> d, found |-> e]
    BY <1>2 DEF TaskRight
  <2>2. u = [t EXCEPT !.at = "open", !.it = i, !.fds = fds]
    OBVIOUS
  <2> HIDE DEF t, a, b, c, d, e, u, i, fds
  <2>3. u = [at |-> "open", it |-> i, fds |-> fds, list |-> d, found |-> e]
    BY <2>1, <2>2
  <2>4. QED
    BY <2>3
<1> HIDE DEF u, fds
<1>8. LastOf(k, u, dirs, splits) = Up(x, 1)
  BY <1>2, <1>7 DEF LastOf
<1> HIDE DEF i
<1>9. TaskRight(k, u, dirs, splits, CS)
  BY <1>2, <1>4, <1>7, <1>8 DEF TaskRight, States
<1>10. CacheRight(cache', dirs) /\ error' \in BOOLEAN /\ events' \in 0..MaxEvents
  BY <1>5 DEF IndexInv, TypeOK
<1>11. QED
  BY <1>1, <1>5, <1>6, <1>7, <1>9, <1>10, OneTask

LEMMA CollectKeeps ==
  ASSUME IndexInv, NEW k \in Tasks, Collect(k)
  PROVE  IndexInv'
<1> DEFINE t == task[k]
           u == [t EXCEPT !.at = "leave", !.fds = NoFds, !.found = {}]
<1>1. task[k].at \notin {"none", "done"}
  BY DEF Collect
<1>2. TaskRight(k, u, dirs, splits, CS)
  BY Finished
<1>3. TaskRight(k, t, dirs, splits, CS) /\ DOMAIN task = Tasks
  BY DEF IndexInv, TasksRight, TypeOK
<1>4. u.at = "leave"
  <2>1. t = [at |-> t.at, it |-> t.it, fds |-> t.fds, list |-> t.list, found |-> t.found]
    BY <1>3 DEF TaskRight
  <2> HIDE DEF t
  <2>2. QED
    BY <2>1
<1>5. DOMAIN task' = Tasks /\ task'[k] = u /\ \A q \in Tasks \ {k} : task'[q] = task[q]
  BY <1>3 DEF Collect
<1> HIDE DEF u
<1>6. error' \in BOOLEAN
  BY DEF Collect, IndexInv, TypeOK
<1>7. UNCHANGED <<env, object, cache, caller, inflight, events>>
  BY DEF Collect
<1>8. CacheRight(cache', dirs) /\ events' \in 0..MaxEvents
  BY <1>7 DEF IndexInv, TypeOK
<1>9. QED
  BY <1>1, <1>2, <1>4, <1>5, <1>6, <1>7, <1>8, OneTask

LEMMA LeaveKeeps ==
  ASSUME IndexInv, NEW k \in Tasks, Leave(k)
  PROVE  IndexInv'
<1> DEFINE t == task[k]
           u == [t EXCEPT !.at = "done"]
<1>1. task[k].at \notin {"none", "done"}
  BY DEF Leave
<1>2. /\ t = [at |-> t.at, it |-> t.it, fds |-> t.fds, list |-> t.list, found |-> t.found]
      /\ DOMAIN task = Tasks
  BY DEF IndexInv, TasksRight, TaskRight, TypeOK
<1>3. TaskRight(k, u, dirs, splits, CS) /\ u.at = "done"
  <2>1. TaskRight(k, [t EXCEPT !.at = "done", !.fds = t.fds, !.found = t.found], dirs, splits, CS)
    BY Finished
  <2>2. /\ [t EXCEPT !.at = "done", !.fds = t.fds, !.found = t.found] = u
        /\ u = [at |-> "done", it |-> t.it, fds |-> t.fds, list |-> t.list, found |-> t.found]
    <3> HIDE DEF t
    <3> QED
      BY <1>2, TaskForm
  <2> HIDE DEF u, t
  <2>3. QED
    BY <2>1, <2>2
<1>4. DOMAIN task' = Tasks /\ task'[k] = u /\ \A q \in Tasks \ {k} : task'[q] = task[q]
  BY <1>2 DEF Leave
<1> HIDE DEF u
<1>5. UNCHANGED <<env, object, cache, caller, error, res, events>> /\ inflight' = inflight - 1
  BY DEF Leave
<1>6. CacheRight(cache', dirs) /\ events' \in 0..MaxEvents /\ error' \in BOOLEAN
  BY <1>5 DEF IndexInv, TypeOK
<1>7. QED
  BY <1>1, <1>3, <1>4, <1>5, <1>6, OneTask

LEMMA StepKeeps ==
  ASSUME IndexInv, NEW k \in Tasks, Step(k)
  PROVE  IndexInv'
BY StartTaskKeeps, ScanDirsKeeps, CollectKeeps, LeaveKeeps DEF Step

-----------------------------------------------------------------------------
(* The caller and the other programs.                                      *)

LEMMA IdleRight ==
  ASSUME NEW k, NEW ds, NEW sp, NEW cs, NEW at \in States \ Active
  PROVE  TaskRight(k, [Idle EXCEPT !.at = at], ds, sp, cs) /\ TaskRight(k, Idle, ds, sp, cs)
         /\ Idle.at = "none" /\ [Idle EXCEPT !.at = at].at = at
BY DEF TaskRight, Idle, States, Active

LEMMA InitRight == Init => IndexInv
<1> SUFFICES ASSUME Init PROVE IndexInv
  OBVIOUS
<1>1. index \in Seq(Entry) /\ caps \in Caps /\ CS \in BOOLEAN
  <2>1. PICK o \in Objects : index = o[1] /\ caps = o[2]
    BY DEF Init
  <2>2. o \in Seq(Entry) \X Caps
    BY IndexAssumption
  <2>3. index \in Seq(Entry) /\ caps \in Caps
    BY <2>1, <2>2
  <2>4. QED
    BY <2>3 DEF CS, Caps
<1>2. Constructed
  BY <1>1 DEF Init, Constructed, CS
<1>3. /\ fs = Tree(index) /\ mtime = [p \in Paths |-> 1] /\ clock = 1 /\ steady = Paths
      /\ cache = NewCache(dirs) /\ pc = "idle" /\ req = 0 /\ events = 0
      /\ task = [k \in Tasks |-> Idle] /\ inflight = 0 /\ error = FALSE
      /\ opts = CHOOSE o \in ScanOpts : TRUE
  BY DEF Init
<1>4. MaxClock \in Nat \ {0} /\ MaxReq \in Nat /\ MaxEvents \in Nat
  BY IndexAssumption
<1>5. opts \in ScanOpts
  <2>1. [include_untracked |-> TRUE, untracked_cache |-> "unknown"] \in ScanOpts
    BY DEF ScanOpts
  <2>2. QED
    BY <2>1, <1>3, Zenon
<1>6. CacheRight(cache, dirs)
  <2>1. cache = [i \in DOMAIN dirs |-> [st |-> 0, unmatched |-> {}, racy |-> FALSE]]
    BY <1>3 DEF NewCache, NoStat
  <2>2. QED
    BY <2>1, <1>4 DEF CacheRight
<1>7. fs \in [Paths -> Node] /\ (index \in Scanned => InTree(fs))
  BY <1>1, <1>3, TreeType, TreeIsTree
<1>8. /\ DOMAIN task = Tasks /\ \A k \in Tasks : task[k] = Idle
  BY <1>3
<1>9. TasksRight /\ \A k \in Tasks : task[k].at = "none"
  <2>1. "none" \in States \ Active
    BY DEF States, Active
  <2>2. QED
    BY <2>1, <1>8, IdleRight DEF TasksRight
<1>10. TypeOK
  <2>1. DOMAIN cache = DOMAIN dirs /\ \A i \in DOMAIN cache : cache[i].st \in 0..MaxClock
    BY <1>6 DEF CacheRight
  <2>2. mtime \in [Paths -> 1..MaxClock] /\ clock \in 1..MaxClock /\ req \in 0..MaxReq /\ events \in 0..MaxEvents
    BY <1>3, <1>4
  <2>3. QED
    BY <1>3, <1>5, <1>7, <1>8, <1>9, <2>1, <2>2 DEF TypeOK, InTree
<1>11. inflight = Cardinality(Working)
  <2>1. Working = {}
    BY <1>9 DEF Working
  <2>2. QED
    BY <2>1, <1>3, FS_EmptySet
<1>12. QED
  BY <1>2, <1>6, <1>9, <1>10, <1>11 DEF IndexInv, AtRest

LEMMA ChangeKeeps ==
  ASSUME IndexInv, NEW p \in Paths, NEW n \in Possible[p], Change(p, n)
  PROVE  IndexInv'
<1>1. n \in Node
  BY IndexAssumption
<1>2. /\ events' \in 0..MaxEvents /\ index \in Scanned /\ (p # Root => fs[Parent(p)] = Dir)
      /\ fs' = [q \in Paths |->
                  IF q = p THEN n
                  ELSE IF Under(p, q) /\ {fs[p], n} # {Dir, Locked} THEN None ELSE fs[q]]
      /\ UNCHANGED <<clock, object, cache, caller, task, inflight, error, res>>
  BY IndexAssumption DEF Change, IndexInv, TypeOK
<1>3. fs \in [Paths -> Node] /\ InTree(fs) /\ mtime \in [Paths -> 1..MaxClock] /\ clock \in 1..MaxClock
  BY <1>2 DEF IndexInv, TypeOK, InTree
<1>4. fs' \in [Paths -> Node]
  <2>1. None \in Node
    BY DEF None, Node
  <2>2. QED
    BY <2>1, <1>1, <1>2, <1>3
<1>5. InTree(fs')
  BY <1>1, <1>2, <1>3, ChangeKeepsTree
<1>6. mtime' \in [Paths -> 1..MaxClock]
  <2> DEFINE sel(q) == Relisted(p, n) /\ (q = p \/ (p # Root /\ q = Parent(p)))
  <2>1. mtime' = [q \in Paths |-> IF sel(q) THEN clock ELSE mtime[q]]
    BY Zenon DEF Change
  <2> HIDE DEF sel
  <2>2. QED
    BY <2>1, <1>3
<1>7. steady' \subseteq Paths
  <2>1. steady' = steady \ {q \in Paths : Under(p, q)} /\ steady \subseteq Paths
    BY DEF Change, IndexInv, TypeOK
  <2>2. QED
    BY <2>1
<1>8. /\ clock' = clock /\ index' = index /\ caps' = caps /\ dirs' = dirs /\ splits' = splits
      /\ cache' = cache /\ pc' = pc /\ opts' = opts /\ req' = req /\ task' = task
      /\ inflight' = inflight /\ error' = error /\ Tasks' = Tasks /\ CS' = CS /\ Working' = Working
  BY <1>2 DEF object, caller, Tasks, CS, Working
<1>9. TypeOK'
  <2>1. TypeOK
    BY DEF IndexInv
  <2>2. QED
    BY <2>1, <1>2, <1>4, <1>5, <1>6, <1>7, <1>8 DEF TypeOK, InTree
<1>10. QED
  BY <1>8, <1>9 DEF IndexInv, Constructed, TasksRight, AtRest

LEMMA TickKeeps ==
  ASSUME IndexInv, Tick
  PROVE  IndexInv'
<1>1. /\ fs' = fs /\ mtime' = mtime /\ steady' = steady
      /\ index' = index /\ caps' = caps /\ dirs' = dirs /\ splits' = splits
      /\ cache' = cache /\ pc' = pc /\ opts' = opts /\ req' = req /\ task' = task /\ events' = events
      /\ inflight' = inflight /\ error' = error /\ Tasks' = Tasks /\ CS' = CS /\ Working' = Working
  BY DEF Tick, object, caller, Tasks, CS, Working
<1>2. clock' \in 1..MaxClock
  BY IndexAssumption DEF Tick, IndexInv, TypeOK
<1>3. TypeOK'
  <2>1. TypeOK
    BY DEF IndexInv
  <2>2. QED
    BY <2>1, <1>1, <1>2 DEF TypeOK
<1>4. QED
  BY <1>1, <1>3 DEF IndexInv, Constructed, TasksRight, AtRest

LEMMA NewIndexKeeps ==
  ASSUME IndexInv, NEW ix \in Scanned, NewIndex(ix)
  PROVE  IndexInv'
<1>1. /\ pc = "idle" /\ index \in Scanned /\ index' = ix
      /\ dirs' = InitDirs(PathsOf(ix), caps.case_sensitive) /\ splits' = InitSplits(dirs')
      /\ cache' = NewCache(dirs') /\ task' = [k \in 1..(Len(splits') - 1) |-> Idle]
      /\ UNCHANGED <<env, caps, caller, inflight, error, res, events>>
  BY DEF NewIndex
<1>2. ix \in Seq(Entry)
  BY IndexAssumption
<1>3. Constructed' /\ CS' = CS
  BY <1>1, <1>2 DEF Constructed, IndexInv, CS
<1>4. CacheRight(cache', dirs')
  <2>1. cache' = [i \in DOMAIN dirs' |-> [st |-> 0, unmatched |-> {}, racy |-> FALSE]]
    BY <1>1 DEF NewCache, NoStat
  <2>2. MaxClock \in Nat
    BY IndexAssumption
  <2>3. QED
    BY <2>1, <2>2 DEF CacheRight
<1>5. DOMAIN task' = Tasks' /\ \A k \in Tasks' : task'[k] = Idle
  BY <1>1 DEF Tasks
<1>6. TasksRight' /\ \A k \in Tasks' : task'[k].at = "none"
  <2>1. "none" \in States \ Active
    BY DEF States, Active
  <2>2. QED
    BY <2>1, <1>5, IdleRight DEF TasksRight
<1>7. inflight' = Cardinality(Working')
  <2>1. Working = {} /\ Working' = {}
    BY <1>1, <1>6 DEF Working, IndexInv, AtRest
  <2>2. QED
    BY <2>1, <1>1 DEF IndexInv
<1>8. TypeOK'
  <2>1. DOMAIN cache' = DOMAIN dirs' /\ \A i \in DOMAIN cache' : cache'[i].st \in 0..MaxClock
    BY <1>4 DEF CacheRight
  <2>2. TypeOK
    BY DEF IndexInv
  <2>3. QED
    BY <1>1, <1>5, <1>6, <2>1, <2>2 DEF TypeOK, env, caller
<1>9. QED
  BY <1>3, <1>4, <1>6, <1>7, <1>8 DEF IndexInv, AtRest

LEMMA RequestKeeps ==
  ASSUME IndexInv, NEW o \in ScanOpts, GetDirtyCandidates(o) \/ RootUnreadable(o)
  PROVE  IndexInv'
<1>1. /\ pc = "idle" /\ index \in Scanned /\ req' \in 0..MaxReq /\ opts' = o /\ steady' = Paths
      /\ UNCHANGED <<fs, mtime, clock, object, cache, events>>
  BY IndexAssumption DEF GetDirtyCandidates, RootUnreadable, OpenRoot, IndexInv, TypeOK
<1>2. /\ fs' = fs /\ mtime' = mtime /\ clock' = clock /\ index' = index /\ caps' = caps
      /\ dirs' = dirs /\ splits' = splits /\ cache' = cache /\ events' = events
      /\ Tasks' = Tasks /\ CS' = CS
  BY <1>1 DEF object, Tasks, CS
<1>3. Constructed' /\ CacheRight(cache', dirs')
  BY <1>2 DEF IndexInv, Constructed
<1>4. CASE GetDirtyCandidates(o)
  <2> DEFINE u == [Idle EXCEPT !.at = "queued"]
  <2>1. /\ pc' = "wait" /\ inflight' = Len(splits) - 1 /\ error' = FALSE
        /\ task' = [k \in Tasks |-> u]
    BY <1>4 DEF GetDirtyCandidates
  <2>2. u.at = "queued" /\ \A k \in Tasks : TaskRight(k, u, dirs, splits, CS)
    <3>1. "queued" \in States \ Active
      BY DEF States, Active
    <3>2. QED
      BY <3>1, IdleRight
  <2> HIDE DEF u
  <2>3. TasksRight'
    BY <2>1, <2>2, <1>2 DEF TasksRight
  <2>4. Working' = 1..(Len(splits) - 1)
    BY <2>1, <2>2, <1>2 DEF Working, Tasks
  <2>5. Len(splits) - 1 \in Nat
    BY DirsRight
  <2> DEFINE n == Len(splits) - 1
  <2> HIDE DEF n
  <2>6. Cardinality(1..n) = n
    <3>1. n \in Nat /\ 1 \in Int
      BY <2>5 DEF n
    <3>2. Cardinality(1..n) = IF 1 > n THEN 0 ELSE n - 1 + 1
      BY <3>1, FS_Interval
    <3>3. QED
      BY <3>1, <3>2
  <2>7. inflight' = Cardinality(Working')
    BY <2>1, <2>4, <2>6 DEF n
  <2>8. TypeOK'
    <3>1. TypeOK
      BY DEF IndexInv
    <3>2. DOMAIN task' = Tasks' /\ \A k \in Tasks' : task'[k].at = "queued"
      BY <2>1, <2>2, <1>2
    <3>3. QED
      BY <3>1, <3>2, <2>1, <1>1, <1>2 DEF TypeOK
  <2>9. AtRest'
    BY <2>1, <1>1, <1>2 DEF AtRest
  <2>10. QED
    BY <1>3, <2>3, <2>7, <2>8, <2>9 DEF IndexInv
<1>5. CASE RootUnreadable(o)
  <2>1. pc' = pc /\ inflight' = inflight /\ error' = error /\ task' = task
    BY <1>5 DEF RootUnreadable
  <2>2. Working' = Working
    BY <2>1, <1>2 DEF Working
  <2>3. TypeOK'
    <3>1. TypeOK
      BY DEF IndexInv
    <3>2. QED
      BY <3>1, <2>1, <1>1, <1>2 DEF TypeOK
  <2>4. QED
    BY <1>2, <1>3, <2>1, <2>2, <2>3 DEF IndexInv, TasksRight, AtRest
<1>6. QED
  BY <1>4, <1>5

LEMMA ReturnKeeps ==
  ASSUME IndexInv, Return
  PROVE  IndexInv'
<1>1. /\ inflight = 0 /\ pc' = "idle" /\ task' = [k \in Tasks |-> Idle]
      /\ fs' = fs /\ mtime' = mtime /\ clock' = clock /\ steady' = steady /\ index' = index
      /\ caps' = caps /\ dirs' = dirs /\ splits' = splits /\ cache' = cache /\ opts' = opts
      /\ req' = req /\ inflight' = inflight /\ error' = error /\ events' = events
      /\ Tasks' = Tasks /\ CS' = CS
  BY DEF Return, env, object, Tasks, CS
<1>2. TasksRight' /\ \A k \in Tasks' : task'[k].at = "none"
  <2>1. "none" \in States \ Active
    BY DEF States, Active
  <2>2. QED
    BY <2>1, <1>1, IdleRight DEF TasksRight
<1>3. inflight' = Cardinality(Working')
  <2>1. Working' = {}
    BY <1>2 DEF Working
  <2>2. QED
    BY <2>1, <1>1, FS_EmptySet
<1>4. TypeOK'
  <2>1. TypeOK
    BY DEF IndexInv
  <2>2. QED
    BY <2>1, <1>1, <1>2 DEF TypeOK
<1>5. QED
  BY <1>1, <1>2, <1>3, <1>4 DEF IndexInv, Constructed, AtRest

LEMMA NextKeeps == IndexInv /\ [Next]_vars => IndexInv'
<1> SUFFICES ASSUME IndexInv, [Next]_vars PROVE IndexInv'
  OBVIOUS
<1>1. CASE \E p \in Paths : \E n \in Possible[p] : Change(p, n)
  BY <1>1, ChangeKeeps
<1>2. CASE Tick
  BY <1>2, TickKeeps
<1>3. CASE \E ix \in Scanned : NewIndex(ix)
  BY <1>3, NewIndexKeeps
<1>4. CASE \E o \in ScanOpts : GetDirtyCandidates(o) \/ RootUnreadable(o)
  BY <1>4, RequestKeeps
<1>5. CASE \E k \in Tasks : Step(k)
  BY <1>5, StepKeeps
<1>6. CASE Return
  BY <1>6, ReturnKeeps
<1>7. CASE UNCHANGED vars
  <2>1. /\ fs' = fs /\ mtime' = mtime /\ clock' = clock /\ steady' = steady /\ index' = index
        /\ caps' = caps /\ dirs' = dirs /\ splits' = splits /\ cache' = cache /\ opts' = opts
        /\ req' = req /\ inflight' = inflight /\ error' = error /\ events' = events
        /\ pc' = pc /\ task' = task /\ Tasks' = Tasks /\ CS' = CS /\ Working' = Working
    BY <1>7 DEF vars, env, object, caller, Tasks, CS, Working
  <2>2. QED
    BY <2>1 DEF IndexInv, TypeOK, Constructed, TasksRight, AtRest
<1>8. QED
  BY <1>1, <1>2, <1>3, <1>4, <1>5, <1>6, <1>7 DEF Next

\* Whatever other programs do and whatever fails, a task visits its own split
\* of the directories with a stack of descriptors of what is above them, and
\* inflight counts the functions that the pool still has to finish.
THEOREM IndexInvariance == Spec => []IndexInv
<1>1. Init => IndexInv
  BY InitRight
<1>2. IndexInv /\ [Next]_vars => IndexInv'
  BY NextKeeps
<1>3. QED
  BY <1>1, <1>2, PTL DEF Spec

\* Once GetDirtyCandidates has returned none of its closures runs, so none
\* uses the caller's stack or root_fd after their end; and the types hold.
THEOREM RequestsEndAlone == Spec => []NothingOutlives
<1>1. IndexInv => NothingOutlives
  <2> SUFFICES ASSUME IndexInv PROVE NothingOutlives
    OBVIOUS
  <2>1. TypeOK /\ inflight = Cardinality(Working)
    BY DEF IndexInv
  <2>2. ASSUME pc = "idle" PROVE inflight = 0
    <3>1. Working = {}
      BY <2>2 DEF IndexInv, AtRest, Working
    <3>2. QED
      BY <3>1, <2>1, FS_EmptySet
  <2>3. QED
    BY <2>1, <2>2 DEF NothingOutlives, Working
<1>2. QED
  BY <1>1, IndexInvariance, PTL

\* A descriptor in ScanDirs' rotating stack is of the directory so many levels
\* above the last one opened, for every index, split, size of the stack and
\* failure: openat relative to it opens the directory that the index means.
THEOREM StackHoldsAncestors == Spec => []FdsAreAncestors
<1>1. IndexInv => FdsAreAncestors
  <2> SUFFICES ASSUME IndexInv, NEW k \in Tasks, task[k].at \in Active,
                      NEW j \in 1..DirStackSize, task[k].fds[j] # NoFd
               PROVE  /\ j - 1 <= Cardinality(SlashesIn(LastDir(k)))
                      /\ Same(task[k].fds[j], Up(LastDir(k), j - 1))
    BY DEF FdsAreAncestors, Active
  <2>1. task[k].at # "none"
    BY DEF Active
  <2>2. /\ Ancestors(task[k].fds, LastOf(k, task[k], dirs, splits), CS)
        /\ DirAt(k) = dirs[task[k].it] /\ First(k) = splits[k] + 1
    BY <2>1, ActiveTask
  <2>3. LastOf(k, task[k], dirs, splits) = LastDir(k)
    BY <2>2 DEF LastOf, LastDir
  <2>4. QED
    BY <2>2, <2>3 DEF Ancestors, Same
<1>2. QED
  BY <1>1, IndexInvariance, PTL

-----------------------------------------------------------------------------
(* The order of strings.                                                   *)

Byte(x, k, cs) == Value(At(x, k), cs)

LEMMA ByteRight ==
  ASSUME NEW x \in Bytes, NEW cs \in BOOLEAN, NEW k \in Nat \ {0}
  PROVE  Byte(x, k, cs) \in Nat /\ (Byte(x, k, cs) = 0 <=> k > Len(x))
<1>1. At(x, k) \in Nat /\ (At(x, k) = 0 <=> k > Len(x))
  BY AtByte
<1>2. QED
  BY <1>1, Values DEF Byte

\* The first byte in which two strings differ is the less one's.
Less(x, y, cs) ==
  \E k \in Nat \ {0} : /\ Byte(x, k, cs) < Byte(y, k, cs)
                       /\ \A j \in 1..(k - 1) : Byte(x, j, cs) = Byte(y, j, cs)

LEMMA LtIsLess ==
  ASSUME NEW x \in Bytes, NEW y \in Bytes, NEW cs \in BOOLEAN
  PROVE  Lt(x, y, cs) <=> Less(x, y, cs)
<1> DEFINE X(k) == Byte(x, k, cs)
           Y(k) == Byte(y, k, cs)
           D == {k \in 1..(Len(x) + 1) : X(k) - Y(k) # 0}
           m == Min(D)
<1>1. Cmp(x, y, cs) = IF D = {} THEN 0 ELSE X(m) - Y(m)
  BY Zenon DEF Cmp, Byte
<1>2. \A k \in Nat \ {0} : /\ X(k) \in Nat /\ (X(k) = 0 <=> k > Len(x))
                           /\ Y(k) \in Nat /\ (Y(k) = 0 <=> k > Len(y))
  BY ByteRight
<1>3. Len(x) \in Nat /\ Len(y) \in Nat
  BY Length
<1>4. D # {} => m \in D /\ \A j \in D : m <= j
  <2> SUFFICES ASSUME D # {} PROVE m \in D /\ \A j \in D : m <= j
    OBVIOUS
  <2>1. D \in SUBSET Nat
    BY <1>3
  <2> HIDE DEF D
  <2>2. \E k \in D : \A j \in D : k <= j
    BY <2>1, LeastNumber
  <2>3. QED
    BY <2>2, Zenon DEF Min
<1> HIDE DEF X, Y, m
<1>5. ASSUME Lt(x, y, cs) PROVE Less(x, y, cs)
  <2>1. Cmp(x, y, cs) < 0
    BY <1>5, Zenon DEF Lt
  <2>2. D # {}
    BY <2>1, <1>1
  <2>3. X(m) - Y(m) < 0 /\ m \in D /\ \A j \in D : m <= j
    BY <2>1, <2>2, <1>1, <1>4
  <2>4. m \in Nat \ {0} /\ m \in 1..(Len(x) + 1)
    BY <2>3, <1>3
  <2>5. X(m) < Y(m)
    BY <2>3, <2>4, <1>2
  <2>6. ASSUME NEW j \in 1..(m - 1) PROVE X(j) = Y(j)
    <3>1. j \notin D /\ j \in 1..(Len(x) + 1) /\ j \in Nat \ {0}
      <4>1. j \in Int /\ 1 <= j /\ j < m
        BY <2>4
      <4>2. j \notin D
        BY <4>1, <2>3, <2>4
      <4>3. QED
        BY <4>1, <4>2, <2>4, <1>3
    <3>2. X(j) - Y(j) = 0
      BY <3>1
    <3>3. QED
      BY <3>1, <3>2, <1>2
  <2>7. QED
    BY <2>4, <2>5, <2>6 DEF Less, X, Y
<1>6. ASSUME Less(x, y, cs) PROVE Lt(x, y, cs)
  <2>1. PICK k \in Nat \ {0} : X(k) < Y(k) /\ \A j \in 1..(k - 1) : X(j) = Y(j)
    BY <1>6 DEF Less, X, Y
  <2>2. k \in 1..(Len(x) + 1)
    <3> SUFFICES ASSUME k > Len(x) + 1 PROVE FALSE
      BY <1>3
    <3>1. Len(x) + 1 \in Nat \ {0} /\ Len(x) + 1 \in 1..(k - 1) /\ Len(x) + 1 > Len(x)
      BY <1>3
    <3>2. X(Len(x) + 1) = 0 /\ X(Len(x) + 1) = Y(Len(x) + 1)
      BY <3>1, <1>2, <2>1
    <3>3. Len(x) + 1 > Len(y)
      BY <3>1, <3>2, <1>2
    <3>4. Y(k) = 0 /\ X(k) \in Nat
      BY <3>3, <1>2, <1>3
    <3>5. QED
      BY <3>4, <2>1
  <2>3. X(k) \in Nat /\ Y(k) \in Nat
    BY <1>2
  <2>4. k \in D
    BY <2>1, <2>2, <2>3
  <2>5. m \in D /\ m <= k /\ m \in 1..(Len(x) + 1)
    BY <2>4, <1>4
  <2>6. m = k
    <3> SUFFICES ASSUME m < k PROVE FALSE
      BY <2>2, <2>5, <1>3
    <3>1. m \in 1..(k - 1) /\ m \in Nat \ {0}
      BY <2>5, <1>3
    <3>2. X(m) = Y(m) /\ X(m) - Y(m) # 0 /\ X(m) \in Nat /\ Y(m) \in Nat
      BY <3>1, <2>1, <2>5, <1>2
    <3>3. QED
      BY <3>2
  <2>7. Cmp(x, y, cs) = X(k) - Y(k)
    BY <2>4, <2>6, <1>1
  <2>8. Cmp(x, y, cs) < 0
    BY <2>1, <2>3, <2>7
  <2>9. QED
    BY <2>8, Zenon DEF Lt
<1>7. QED
  BY <1>5, <1>6

LEMMA EqIsSame ==
  ASSUME NEW x \in Bytes, NEW y \in Bytes, NEW cs \in BOOLEAN
  PROVE  Eq(x, y, cs) <=> \A k \in Nat \ {0} : Byte(x, k, cs) = Byte(y, k, cs)
<1>1. Eq(x, y, cs) <=> Len(x) = Len(y) /\ \A k \in 1..Len(x) : Value(x[k], cs) = Value(y[k], cs)
  BY Equal
<1>2. Len(x) \in Nat /\ Len(y) \in Nat
  BY Length
<1>3. /\ \A k \in 1..Len(x) : Byte(x, k, cs) = Value(x[k], cs)
      /\ \A k \in 1..Len(y) : Byte(y, k, cs) = Value(y[k], cs)
  BY DEF Byte, At
<1>4. \A k \in Nat \ {0} : /\ Byte(x, k, cs) \in Nat /\ (Byte(x, k, cs) = 0 <=> k > Len(x))
                           /\ Byte(y, k, cs) \in Nat /\ (Byte(y, k, cs) = 0 <=> k > Len(y))
  BY ByteRight
<1>5. ASSUME \A k \in Nat \ {0} : Byte(x, k, cs) = Byte(y, k, cs) PROVE Len(x) = Len(y)
  <2>1. Len(x) + 1 > Len(y)
    <3>1. Len(x) + 1 \in Nat \ {0} /\ Len(x) + 1 > Len(x)
      BY <1>2
    <3>2. QED
      BY <3>1, <1>4, <1>5
  <2>2. Len(y) + 1 > Len(x)
    <3>1. Len(y) + 1 \in Nat \ {0} /\ Len(y) + 1 > Len(y)
      BY <1>2
    <3>2. QED
      BY <3>1, <1>4, <1>5
  <2>3. QED
    BY <2>1, <2>2, <1>2
<1>6. ASSUME Len(x) = Len(y), \A k \in 1..Len(x) : Value(x[k], cs) = Value(y[k], cs),
             NEW k \in Nat \ {0}
      PROVE  Byte(x, k, cs) = Byte(y, k, cs)
  <2>1. CASE k \in 1..Len(x)
    BY <2>1, <1>3, <1>6
  <2>2. CASE k > Len(x)
    <3>1. Byte(x, k, cs) = 0 /\ Byte(y, k, cs) = 0
      BY <2>2, <1>4, <1>6
    <3>2. QED
      BY <3>1
  <2>3. QED
    BY <2>1, <2>2, <1>2
<1>7. ASSUME \A k \in Nat \ {0} : Byte(x, k, cs) = Byte(y, k, cs)
      PROVE  \A k \in 1..Len(x) : Value(x[k], cs) = Value(y[k], cs)
  <2> TAKE k \in 1..Len(x)
  <2>1. k \in Nat \ {0} /\ k \in 1..Len(y)
    BY <1>2, <1>5, <1>7
  <2>2. QED
    BY <2>1, <1>3, <1>7
<1>8. QED
  BY <1>1, <1>5, <1>6, <1>7

\* Lt is an order in which the equal ones are those that Eq says.
LEMMA LtAsym ==
  ASSUME NEW x \in Bytes, NEW y \in Bytes, NEW cs \in BOOLEAN, Lt(x, y, cs)
  PROVE  ~Lt(y, x, cs) /\ ~Eq(x, y, cs) /\ ~Eq(y, x, cs)
<1> DEFINE X(k) == Byte(x, k, cs)
           Y(k) == Byte(y, k, cs)
<1>1. \A k \in Nat \ {0} : X(k) \in Nat /\ Y(k) \in Nat
  BY ByteRight
<1>2. PICK k \in Nat \ {0} : X(k) < Y(k) /\ \A j \in 1..(k - 1) : X(j) = Y(j)
  BY LtIsLess DEF Less
<1>3. ~Less(y, x, cs)
  <2> SUFFICES ASSUME NEW i \in Nat \ {0}, Y(i) < X(i), \A j \in 1..(i - 1) : Y(j) = X(j)
               PROVE FALSE
    BY DEF Less
  <2> HIDE DEF X, Y
  <2>1. i # k
    BY <1>1, <1>2
  <2>2. CASE i < k
    <3>1. i \in 1..(k - 1)
      BY <2>2
    <3>2. QED
      BY <3>1, <1>1, <1>2
  <2>3. CASE k < i
    <3>1. k \in 1..(i - 1)
      BY <2>3
    <3>2. QED
      BY <3>1, <1>1, <1>2
  <2>4. QED
    BY <2>1, <2>2, <2>3
<1>4. X(k) # Y(k)
  <2> HIDE DEF X, Y
  <2> QED
    BY <1>1, <1>2
<1>5. QED
  BY <1>3, <1>4, LtIsLess, EqIsSame

LEMMA LtTotal ==
  ASSUME NEW x \in Bytes, NEW y \in Bytes, NEW cs \in BOOLEAN
  PROVE  Lt(x, y, cs) \/ Eq(x, y, cs) \/ Lt(y, x, cs)
<1> DEFINE X(k) == Byte(x, k, cs)
           Y(k) == Byte(y, k, cs)
           D == {k \in Nat \ {0} : X(k) # Y(k)}
<1>1. \A k \in Nat \ {0} : X(k) \in Nat /\ Y(k) \in Nat
  BY ByteRight
<1>2. SUFFICES ASSUME ~Eq(x, y, cs) PROVE Less(x, y, cs) \/ Less(y, x, cs)
  BY LtIsLess
<1>3. D # {} /\ D \in SUBSET Nat
  BY <1>2, EqIsSame
<1>4. PICK k \in D : \A j \in D : k <= j
  <2> HIDE DEF D
  <2> QED
    BY <1>3, LeastNumber
<1>5. k \in Nat \ {0} /\ X(k) # Y(k)
  BY <1>4
<1>6. \A j \in 1..(k - 1) : X(j) = Y(j)
  <2> TAKE j \in 1..(k - 1)
  <2>1. j \in Nat \ {0} /\ ~ (k <= j)
    BY <1>5
  <2>2. j \notin D
    BY <2>1, <1>4
  <2>3. QED
    BY <2>1, <2>2
<1>7. X(k) < Y(k) \/ Y(k) < X(k)
  <2> HIDE DEF X, Y
  <2> QED
    BY <1>1, <1>5
<1>8. QED
  BY <1>5, <1>6, <1>7 DEF Less

LEMMA LtSplit ==
  ASSUME NEW x \in Bytes, NEW y \in Bytes, NEW z \in Bytes, NEW cs \in BOOLEAN, Lt(x, z, cs)
  PROVE  Lt(x, y, cs) \/ Lt(y, z, cs)
<1> DEFINE X(k) == Byte(x, k, cs)
           Y(k) == Byte(y, k, cs)
           Z(k) == Byte(z, k, cs)
<1>1. \A k \in Nat \ {0} : X(k) \in Nat /\ Y(k) \in Nat /\ Z(k) \in Nat
  BY ByteRight
<1>2. PICK k \in Nat \ {0} : X(k) < Z(k) /\ \A j \in 1..(k - 1) : X(j) = Z(j)
  BY LtIsLess DEF Less
<1>3. SUFFICES Less(x, y, cs) \/ Less(y, z, cs)
  BY LtIsLess
<1> DEFINE D == {j \in 1..k : Y(j) # X(j)}
<1>4. CASE D = {}
  <2>1. \A j \in 1..k : Y(j) = X(j)
    BY <1>4
  <2>2. Y(k) < Z(k) /\ \A j \in 1..(k - 1) : Y(j) = Z(j)
    <3>1. k \in 1..k /\ \A j \in 1..(k - 1) : j \in 1..k
      OBVIOUS
    <3> HIDE DEF X, Y, Z, D
    <3>2. QED
      BY <3>1, <2>1, <1>2
  <2>3. QED
    BY <2>2 DEF Less
<1>5. CASE D # {}
  <2>1. D \in SUBSET Nat
    OBVIOUS
  <2>2. PICK i \in D : \A j \in D : i <= j
    <3> HIDE DEF D
    <3> QED
      BY <2>1, <1>5, LeastNumber
  <2>3. i \in 1..k /\ Y(i) # X(i) /\ i \in Nat \ {0}
    BY <2>2
  <2>4. \A j \in 1..(i - 1) : Y(j) = X(j)
    <3> TAKE j \in 1..(i - 1)
    <3>1. j \in 1..k /\ ~ (i <= j)
      BY <2>3
    <3>2. j \notin D
      BY <3>1, <2>2
    <3>3. QED
      BY <3>1, <3>2
  <2>5. \A j \in 1..(i - 1) : X(j) = Y(j) /\ X(j) = Z(j)
    <3> TAKE j \in 1..(i - 1)
    <3>1. j \in 1..(k - 1)
      BY <2>3
    <3>2. Y(j) = X(j)
      BY <2>4
    <3>3. X(j) = Z(j)
      BY <3>1, <1>2
    <3>4. QED
      BY <3>2, <3>3
  <2>6. CASE X(i) < Y(i)
    BY <2>3, <2>5, <2>6 DEF Less
  <2>7. CASE Y(i) < X(i)
    <3>1. Y(i) < Z(i)
      <4>1. X(i) < Z(i) \/ X(i) = Z(i)
        <5>1. i = k \/ i \in 1..(k - 1)
          BY <2>3
        <5>2. QED
          BY <5>1, <1>2
      <4> HIDE DEF X, Y, Z
      <4>2. QED
        BY <4>1, <2>3, <2>7, <1>1
    <3>2. \A j \in 1..(i - 1) : Y(j) = Z(j)
      <4> HIDE DEF X, Y, Z
      <4> QED
        BY <2>5
    <3>3. QED
      BY <2>3, <3>1, <3>2 DEF Less
  <2>8. QED
    <3> HIDE DEF X, Y
    <3> QED
      BY <2>3, <2>6, <2>7, <1>1
<1>6. QED
  BY <1>4, <1>5

LEMMA LtTrans ==
  ASSUME NEW x \in Bytes, NEW y \in Bytes, NEW z \in Bytes, NEW cs \in BOOLEAN,
         Lt(x, y, cs), Lt(y, z, cs)
  PROVE  Lt(x, z, cs)
<1>1. Lt(x, z, cs) \/ Lt(z, y, cs)
  BY LtSplit
<1>2. ~Lt(z, y, cs)
  BY LtAsym
<1>3. QED
  BY <1>1, <1>2

-----------------------------------------------------------------------------
(* Shards.                                                                 *)

\* A directory: a path that ends in a slash.
Slashed(dir) == dir \in Bytes /\ Len(dir) \in Nat \ {0} /\ dir[Len(dir)] = Slash

LEMMA BeforeDirRight ==
  ASSUME NEW dir, Slashed(dir), NEW cs \in BOOLEAN
  PROVE  LET e == BeforeDir(dir)
         IN  /\ e \in Bytes /\ Len(e) = Len(dir)
             /\ Byte(e, Len(dir), cs) = 46 /\ Byte(dir, Len(dir), cs) = 47
             /\ \A k \in Nat \ {0} : k # Len(dir) => Byte(e, k, cs) = Byte(dir, k, cs)
<1> DEFINE n == Len(dir)
           e == BeforeDir(dir)
<1>1. n \in Nat \ {0} /\ dir[n] = 47 /\ dir \in [1..n -> 1..255]
  BY LenProperties DEF Slashed, Slash, Bytes
<1>2. e = [dir EXCEPT ![n] = dir[n] - 1]
  BY DEF BeforeDir
<1>0. Len(dir) = n
  OBVIOUS
<1> HIDE DEF n, e
<1>3. e \in [1..n -> 1..255] /\ e[n] = 46 /\ \A k \in 1..n : k # n => e[k] = dir[k]
  BY <1>1, <1>2
<1>4. e \in Seq(1..255) /\ Len(e) = n
  <2> DEFINE S == 1..255
  <2>1. e \in Seq(1..255)
    <3>1. e \in [1..n -> S] /\ n \in Nat
      BY <1>1, <1>3
    <3> HIDE DEF S
    <3>2. e \in Seq(S)
      BY <3>1, FunctionIsSeq
    <3>3. QED
      BY <3>2 DEF S
  <2>2. QED
    BY <2>1, <1>1, <1>3, LenProperties
<1>5. At(e, n) = 46 /\ At(dir, n) = 47
  BY <1>1, <1>3, <1>4, <1>0 DEF At
<1>6. Value(46, cs) = 46 /\ Value(47, cs) = 47
  BY DEF Value, Lower
<1>7. ASSUME NEW k \in Nat \ {0}, k # n PROVE Byte(e, k, cs) = Byte(dir, k, cs)
  <2>1. At(e, k) = At(dir, k)
    BY <1>1, <1>3, <1>4, <1>7, <1>0 DEF At
  <2>2. QED
    BY <2>1 DEF Byte
<1>8. e \in Bytes
  BY <1>4 DEF Bytes
<1>9. QED
  BY <1>4, <1>5, <1>6, <1>7, <1>8 DEF Byte, e, n

LEMMA TruncateRight ==
  ASSUME NEW p \in Bytes, NEW n \in Nat \ {0}, NEW cs \in BOOLEAN
  PROVE  /\ Truncate(p, n) \in Bytes
         /\ \A k \in Nat \ {0} :
              Byte(Truncate(p, n), k, cs) = IF k <= n THEN Byte(p, k, cs) ELSE 0
<1> DEFINE m == Min({Len(p), n})
           t == Truncate(p, n)
<1>1. Len(p) \in Nat
  BY Length
<1>2. m \in 0..Len(p) /\ m <= n /\ (m = Len(p) \/ m = n)
  <2>1. \E x \in {Len(p), n} : \A y \in {Len(p), n} : x <= y
    BY <1>1
  <2>2. m \in {Len(p), n} /\ \A y \in {Len(p), n} : m <= y
    BY <2>1, Zenon DEF Min
  <2> HIDE DEF m
  <2>3. QED
    BY <2>2, <1>1
<1>3. t = SubSeq(p, 1, m)
  BY DEF Truncate
<1> HIDE DEF m, t
<1>4. t \in Bytes /\ Len(t) = m /\ \A k \in 1..m : t[k] = p[k]
  BY <1>2, <1>3, FirstBytes
<1>5. ASSUME NEW k \in Nat \ {0} PROVE Byte(t, k, cs) = IF k <= n THEN Byte(p, k, cs) ELSE 0
  <2>1. At(t, k) = IF k <= n THEN At(p, k) ELSE 0
    BY <1>1, <1>2, <1>4 DEF At
  <2>2. Value(0, cs) = 0
    BY Values
  <2>3. QED
    BY <2>1, <2>2 DEF Byte
<1>6. QED
  BY <1>4, <1>5 DEF t

\* Shard::Contains compares as many bytes as the end of the shard has, and so
\* finds the paths that are less than the directory after that end.
LEMMA EndsBefore ==
  ASSUME NEW dir, Slashed(dir), NEW cs \in BOOLEAN
  PROVE  /\ Lt(BeforeDir(dir), dir, cs)
         /\ \A p \in Bytes :
              ~Lt(BeforeDir(dir), Truncate(p, Len(BeforeDir(dir))), cs) <=> Lt(p, dir, cs)
<1> DEFINE e == BeforeDir(dir)
           n == Len(dir)
           E(k) == Byte(e, k, cs)
           D(k) == Byte(dir, k, cs)
<1>1. /\ e \in Bytes /\ Len(e) = n /\ dir \in Bytes /\ n \in Nat \ {0}
      /\ E(n) = 46 /\ D(n) = 47 /\ \A k \in Nat \ {0} : k # n => E(k) = D(k)
  BY BeforeDirRight DEF Slashed
<1>2. \A k \in Nat \ {0} : /\ E(k) \in Nat /\ (E(k) = 0 <=> k > n)
                           /\ D(k) \in Nat /\ (D(k) = 0 <=> k > n)
  BY <1>1, ByteRight
<1> HIDE DEF e, n
<1>3. Lt(e, dir, cs)
  <2>1. E(n) < D(n) /\ \A j \in 1..(n - 1) : E(j) = D(j)
    <3>1. \A j \in 1..(n - 1) : j \in Nat \ {0} /\ j # n
      BY <1>1
    <3> HIDE DEF E, D
    <3>2. QED
      BY <3>1, <1>1
  <2>2. QED
    BY <2>1, <1>1, LtIsLess DEF Less
<1>4. ASSUME NEW p \in Bytes PROVE ~Lt(e, Truncate(p, n), cs) <=> Lt(p, dir, cs)
  <2> DEFINE t == Truncate(p, n)
             T(k) == Byte(t, k, cs)
             Q(k) == Byte(p, k, cs)
  <2>1. t \in Bytes /\ \A k \in Nat \ {0} : T(k) = IF k <= n THEN Q(k) ELSE 0
    BY <1>1, TruncateRight
  <2>2. \A k \in Nat \ {0} : Q(k) \in Nat
    BY ByteRight
  <2> HIDE DEF t
  <2>3. ASSUME Lt(p, dir, cs) PROVE ~Lt(e, t, cs)
    <3>1. PICK k \in Nat \ {0} : Q(k) < D(k) /\ \A j \in 1..(k - 1) : Q(j) = D(j)
      BY <2>3, <1>1, LtIsLess DEF Less
    <3>2. k <= n
      <4> HIDE DEF E, D, Q
      <4> QED
        BY <3>1, <1>1, <1>2, <2>2
    <3>3. \A j \in 1..(k - 1) : j \in Nat \ {0} /\ j <= n /\ j # n
      BY <3>2, <1>1
    <3>4. \A j \in 1..(k - 1) : T(j) = E(j)
      <4> HIDE DEF E, D, Q, T
      <4> QED
        BY <3>1, <3>3, <1>1, <2>1
    <3>5. CASE T(k) < E(k)
      <4>1. Lt(t, e, cs)
        BY <3>4, <3>5, <2>1, <1>1, LtIsLess DEF Less
      <4>2. QED
        BY <4>1, <2>1, <1>1, LtAsym
    <3>6. CASE ~ (T(k) < E(k))
      <4> HIDE DEF E, D, Q, T
      <4>1. k = n /\ T(k) = E(k)
        <5>1. T(k) = Q(k) /\ T(k) < D(k) /\ T(k) \in Nat /\ E(k) \in Nat /\ D(k) \in Nat
          BY <3>1, <3>2, <1>2, <2>1, <2>2
        <5>2. k = n
          <6> SUFFICES ASSUME k # n PROVE FALSE
            OBVIOUS
          <6>1. E(k) = D(k)
            BY <1>1
          <6>2. QED
            BY <6>1, <5>1, <3>6
        <5>3. E(k) = 46 /\ D(k) = 47
          BY <5>2, <1>1
        <5>4. QED
          BY <5>1, <5>2, <5>3, <3>6
      <4>2. ASSUME NEW j \in Nat \ {0} PROVE T(j) = E(j)
        <5>1. j \in 1..(k - 1) \/ j = k \/ j > n
          BY <4>1
        <5>2. CASE j > n
          BY <5>2, <1>1, <1>2, <2>1
        <5>3. QED
          BY <5>1, <5>2, <4>1, <3>4
      <4>3. Eq(t, e, cs)
        BY <4>2, <2>1, <1>1, EqIsSame DEF T, E
      <4>4. QED
        BY <4>3, <2>1, <1>1, LtAsym
    <3>7. QED
      BY <3>5, <3>6
  <2>4. ASSUME ~Lt(p, dir, cs) PROVE Lt(e, t, cs)
    <3>1. \E k \in Nat \ {0} : E(k) < T(k) /\ \A j \in 1..(k - 1) : E(j) = T(j)
      <4>1. CASE Eq(p, dir, cs)
        <5>1. \A k \in Nat \ {0} : Q(k) = D(k)
          BY <4>1, <1>1, EqIsSame
        <5> HIDE DEF E, D, Q, T
        <5>2. E(n) < T(n)
          BY <5>1, <1>1, <2>1
        <5>3. \A j \in 1..(n - 1) : E(j) = T(j)
          <6>1. \A j \in 1..(n - 1) : j \in Nat \ {0} /\ j # n /\ j <= n
            BY <1>1
          <6>2. QED
            BY <6>1, <5>1, <1>1, <2>1
        <5>4. QED
          BY <5>2, <5>3, <1>1
      <4>2. CASE Lt(dir, p, cs)
        <5>1. PICK k \in Nat \ {0} : D(k) < Q(k) /\ \A j \in 1..(k - 1) : D(j) = Q(j)
          BY <4>2, <1>1, LtIsLess DEF Less
        <5> HIDE DEF E, D, Q, T
        <5> DEFINE i == IF k < n THEN k ELSE n
        <5>2. i \in Nat \ {0} /\ i <= n /\ i <= k /\ (i = k \/ i = n) /\ (i # n => i = k)
          BY <1>1
        <5> HIDE DEF i
        <5>3. \A j \in 1..(i - 1) : E(j) = T(j)
          <6>1. \A j \in 1..(i - 1) : j \in Nat \ {0} /\ j # n /\ j <= n /\ j \in 1..(k - 1)
            BY <1>1, <5>2
          <6>2. QED
            BY <6>1, <5>1, <1>1, <2>1
        <5>4. E(i) < T(i)
          <6>1. T(i) = Q(i)
            BY <5>2, <2>1
          <6>2. D(i) <= Q(i)
            <7>1. i = k \/ i \in 1..(k - 1)
              BY <5>2
            <7>2. QED
              BY <7>1, <5>1, <5>2, <1>2, <2>2
          <6>3. CASE i = n
            BY <6>1, <6>2, <6>3, <1>1, <5>2, <2>2
          <6>4. CASE i # n
            <7>1. i = k /\ E(i) = D(i)
              BY <6>4, <5>2, <1>1
            <7>2. QED
              BY <7>1, <6>1, <5>1
          <6>5. QED
            BY <6>3, <6>4
        <5>5. QED
          BY <5>2, <5>3, <5>4
      <4>3. QED
        BY <4>1, <4>2, <2>4, <1>1, LtTotal
    <3>2. QED
      BY <3>1, <2>1, <1>1, LtIsLess DEF Less
  <2>5. QED
    BY <2>3, <2>4 DEF t
<1>5. QED
  BY <1>1, <1>3, <1>4 DEF e

\* Places where the entries are cut, and the next ones.
LEMMA Quotient ==
  ASSUME NEW a \in Nat, NEW d \in Nat \ {0}
  PROVE  a \div d \in Nat /\ d * (a \div d) <= a /\ a < d * (a \div d) + d
OBVIOUS

LEMMA QuotientLess ==
  ASSUME NEW a \in Nat, NEW d \in Nat \ {0}, NEW b \in Nat, a < d * b
  PROVE  a \div d < b
<1> DEFINE q == a \div d
<1>1. q \in Nat /\ d * q <= a
  BY Quotient
<1> HIDE DEF q
<1>2. ASSUME b <= q PROVE FALSE
  <2>1. d * b <= d * q
    BY <1>1, <1>2
  <2>2. QED
    BY <2>1, <1>1
<1>3. QED
  BY <1>1, <1>2 DEF q

LEMMA QuotientNext ==
  ASSUME NEW a \in Nat, NEW d \in Nat \ {0}, NEW b \in Nat, d <= b
  PROVE  a \div d < (a + b) \div d
<1> DEFINE q == a \div d
           r == (a + b) \div d
<1>1. q \in Nat /\ d * q <= a
  BY Quotient
<1>2. r \in Nat /\ a + b < d * r + d
  <2>1. a + b \in Nat
    OBVIOUS
  <2>2. QED
    BY <2>1, Quotient
<1> HIDE DEF q, r
<1>3. ASSUME r <= q PROVE FALSE
  <2>1. d * r <= d * q
    BY <1>1, <1>2, <1>3
  <2>2. d * r \in Nat /\ d * q \in Nat
    BY <1>1, <1>2
  <2>3. QED
    BY <2>1, <2>2, <1>1, <1>2
<1>4. QED
  BY <1>1, <1>2, <1>3 DEF q, r

\* There are no more shards than entries.
LEMMA NumShardsRight ==
  ASSUME NEW size \in Nat, size > EntriesPerShard
  PROVE  NumShards(size) \in Nat \ {0} /\ NumShards(size) <= size
<1> DEFINE E == EntriesPerShard
           q == size \div E
           m == 2 * NumThreads
<1>1. E \in Nat \ {0} /\ E >= 2 /\ m \in Nat \ {0}
  <2>1. E \in Nat \ {0, 1} /\ NumThreads \in Nat \ {0}
    BY TreeAssumption
  <2>2. QED
    BY <2>1
<1>2. q \in Nat /\ E * q <= size
  BY <1>1, Quotient
<1>3. NumShards(size) = Min({q + 1, m})
  BY DEF NumShards
<1> HIDE DEF E, q, m
<1>4. 2 * q <= E * q
  BY <1>1, <1>2
<1>5. E * q \in Nat
  BY <1>1, <1>2
<1>6. q + 1 <= size
  BY <1>1, <1>2, <1>4, <1>5 DEF E
<1>7. \E x \in {q + 1, m} : \A y \in {q + 1, m} : x <= y
  BY <1>1, <1>2
<1>8. Min({q + 1, m}) \in {q + 1, m} /\ \A y \in {q + 1, m} : Min({q + 1, m}) <= y
  BY <1>7, Zenon DEF Min
<1>9. QED
  <2> DEFINE k == Min({q + 1, m})
  <2> HIDE DEF k
  <2>1. k \in {q + 1, m} /\ k <= q + 1
    BY <1>8 DEF k
  <2>2. QED
    BY <2>1, <1>1, <1>2, <1>3, <1>6 DEF k

LEMMA ShardStartRight ==
  ASSUME NEW paths \in Seq(Bytes), NEW n \in Nat \ {0}, n <= Len(paths), NEW i \in 0..(n - 1)
  PROVE  /\ ShardStart(paths, n, i) \in Nat /\ ShardStart(paths, n, i) < Len(paths)
         /\ i # 0 => ShardStart(paths, n, i - 1) < ShardStart(paths, n, i)
<1> DEFINE L == Len(paths)
<1>1. L \in Nat /\ n <= L /\ i \in Nat /\ i <= n - 1
  BY LenProperties
<1>2. ShardStart(paths, n, i) = (i * L) \div n /\ ShardStart(paths, n, i - 1) = ((i - 1) * L) \div n
  BY DEF ShardStart
<1> HIDE DEF L
<1>3. i * L \in Nat /\ i * L < n * L
  <2>1. i * L \in Nat /\ i < n /\ L > 0
    BY <1>1
  <2>2. (n - i) * L > 0
    <3>1. n - i \in Nat \ {0} /\ L \in Nat \ {0}
      BY <1>1, <2>1
    <3> DEFINE k == n - i
    <3> HIDE DEF k
    <3>2. k * L > 0
      BY <3>1 DEF k
    <3>3. QED
      BY <3>2 DEF k
  <2>3. (n - i) * L = n * L - i * L
    BY <1>1
  <2>4. n * L \in Nat
    BY <1>1
  <2>5. QED
    BY <2>1, <2>2, <2>3, <2>4
<1>4. (i * L) \div n \in Nat /\ (i * L) \div n < L
  BY <1>1, <1>3, Quotient, QuotientLess
<1>5. ASSUME i # 0 PROVE ((i - 1) * L) \div n < (i * L) \div n
  <2>1. i - 1 \in Nat
    BY <1>1, <1>5
  <2>2. (i - 1) * L \in Nat
    BY <1>1, <2>1
  <2>3. (i - 1) * L + L = i * L
    BY <1>1, <2>1
  <2>4. ((i - 1) * L) \div n < ((i - 1) * L + L) \div n
    BY <1>1, <2>2, QuotientNext
  <2>5. QED
    BY <2>3, <2>4
<1>6. QED
  BY <1>2, <1>4, <1>5 DEF L

Piece == [start_s : Bytes, end_s : Bytes, start_i : Nat, end_i : Nat]

\* Shards, each of which starts at a directory and ends just before the next.
Sharded(sh, paths, cs) ==
  /\ sh \in Seq(Piece) /\ Len(sh) \in Nat \ {0}
  /\ sh[1].start_s = <<>> /\ sh[1].start_i = 0
  /\ sh[Len(sh)].end_s = <<>> /\ sh[Len(sh)].end_i = Len(paths)
  /\ \A i \in 2..Len(sh) :
       /\ Slashed(sh[i].start_s) /\ sh[i - 1].end_s = BeforeDir(sh[i].start_s)
       /\ sh[i - 1].end_i = sh[i].start_i /\ sh[i - 1].start_i < sh[i].start_i
       /\ Lt(sh[i - 1].start_s, sh[i - 1].end_s, cs)
       /\ sh[i].start_i < Len(paths) /\ IsPrefix(sh[i].start_s, paths[sh[i].start_i + 1])

LEMMA DirIsPrefix ==
  ASSUME NEW x \in Bytes
  PROVE  DirOf(x) \in Bytes /\ IsPrefix(DirOf(x), x) /\ (DirOf(x) # <<>> => Slashed(DirOf(x)))
<1> DEFINE d == DirOf(x)
<1>1. PICK c \in {0} \cup SlashesIn(x) :
        d = SubSeq(x, 1, c) /\ c \in 0..Len(x) /\ d \in Bytes /\ Len(d) = c
  BY DirEnds
<1>2. /\ \A k \in 1..c : SubSeq(x, 1, c)[k] = x[k]
      /\ \A m \in 0..c : SubSeq(SubSeq(x, 1, c), 1, m) = SubSeq(x, 1, m)
  BY <1>1, FirstBytes
<1>3. Len(x) \in Nat
  BY Length
<1> HIDE DEF d
<1>4. IsPrefix(d, x)
  <2>1. c \in 0..c /\ c <= Len(x)
    BY <1>1, <1>3
  <2>2. SubSeq(d, 1, c) = SubSeq(x, 1, c)
    BY <2>1, <1>1, <1>2
  <2>3. QED
    BY <2>1, <2>2, <1>1 DEF IsPrefix
<1>5. ASSUME d # <<>> PROVE Slashed(d)
  <2>1. c # 0
    BY <1>1, <1>5, Length
  <2>2. c \in 1..c /\ x[c] = Slash /\ c \in Nat \ {0}
    BY <2>1, <1>1, <1>3 DEF SlashesIn
  <2>3. d[c] = Slash
    BY <2>2, <1>1, <1>2
  <2>4. QED
    BY <2>2, <2>3, <1>1 DEF Slashed
<1>6. QED
  BY <1>1, <1>4, <1>5 DEF d

LEMMA AddShardKeeps ==
  ASSUME NEW cs \in BOOLEAN, NEW paths \in Seq(Bytes), NEW idx \in Nat, idx < Len(paths),
         NEW s \in [last_s : Bytes, last_i : Nat, shards : Seq(Piece)], s.last_i < idx,
         Sharded(LastShard(s, Len(paths)), paths, cs)
  PROVE  LET t == AddShard(s, DirOf(paths[idx + 1]), idx, cs)
         IN  /\ t \in [last_s : Bytes, last_i : Nat, shards : Seq(Piece)] /\ t.last_i <= idx
             /\ Sharded(LastShard(t, Len(paths)), paths, cs)
<1> DEFINE size == Len(paths)
           x == paths[idx + 1]
           dir == DirOf(x)
           t == AddShard(s, dir, idx, cs)
<1>1. size \in Nat /\ x \in Bytes
  <2>1. idx + 1 \in 1..Len(paths) /\ Len(paths) \in Nat
    BY LenProperties
  <2>2. QED
    BY <2>1, ElementOfSeq
<1>2. dir \in Bytes /\ IsPrefix(dir, x) /\ (dir # <<>> => Slashed(dir))
  BY <1>1, DirIsPrefix
<1> HIDE DEF dir
<1>3. CASE dir = <<>> \/ ~Lt(s.last_s, BeforeDir(dir), cs)
  <2>1. t = s
    BY <1>3 DEF AddShard
  <2> HIDE DEF t
  <2>2. QED
    BY <2>1 DEF t, dir
<1>4. CASE ~ (dir = <<>> \/ ~Lt(s.last_s, BeforeDir(dir), cs))
  <2> DEFINE sh == s.shards
             k == Len(sh)
             a == Shard(s.last_s, <<>>, s.last_i, size)
             b == Shard(s.last_s, BeforeDir(dir), s.last_i, idx)
             c == Shard(dir, <<>>, idx, size)
             T == Append(sh, a)
             u == Append(sh, b)
             U == Append(u, c)
  <2>1. t = [last_s |-> dir, last_i |-> idx, shards |-> u]
    BY <1>4 DEF AddShard
  <2>2. LastShard(s, size) = T /\ LastShard(t, size) = U
    BY <2>1 DEF LastShard
  <2>3. Slashed(dir) /\ Lt(s.last_s, BeforeDir(dir), cs) /\ BeforeDir(dir) \in Bytes
    BY <1>2, <1>4, BeforeDirRight
  <2>4. /\ s.last_s \in Bytes /\ s.last_i \in Nat /\ sh \in Seq(Piece) /\ <<>> \in Bytes
    BY DEF Bytes
  <2>5. /\ a \in Piece /\ a.start_s = s.last_s /\ a.start_i = s.last_i
        /\ b \in Piece /\ b.start_s = s.last_s /\ b.start_i = s.last_i
        /\ b.end_s = BeforeDir(dir) /\ b.end_i = idx
        /\ c \in Piece /\ c.start_s = dir /\ c.start_i = idx /\ c.end_s = <<>> /\ c.end_i = size
    <3> DEFINE ls == s.last_s
               li == s.last_i
               be == BeforeDir(dir)
               no == <<>>
    <3>0. ls \in Bytes /\ li \in Nat /\ be \in Bytes /\ no \in Bytes /\ size \in Nat
      BY <1>1, <2>3, <2>4
    <3> HIDE DEF ls, li, be, no, size
    <3>1. a \in Piece /\ a.start_s = ls /\ a.start_i = li
      <4>1. a = Shard(ls, no, li, size)
        BY DEF ls, li, no, size
      <4> HIDE DEF a
      <4>2. QED
        BY <3>0, <4>1 DEF Shard, Piece
    <3>2. /\ b \in Piece /\ b.start_s = ls /\ b.start_i = li
          /\ b.end_s = be /\ b.end_i = idx
      <4>1. b = Shard(ls, be, li, idx)
        BY DEF ls, li, be
      <4> HIDE DEF b
      <4>2. QED
        BY <3>0, <4>1 DEF Shard, Piece
    <3>3. c \in Piece /\ c.start_s = dir /\ c.start_i = idx /\ c.end_s = no /\ c.end_i = size
      <4>1. c = Shard(dir, no, idx, size)
        BY DEF no, size
      <4> HIDE DEF c
      <4>2. QED
        BY <3>0, <4>1, <1>2 DEF Shard, Piece
    <3> HIDE DEF a, b, c
    <3>4. QED
      BY <3>1, <3>2, <3>3 DEF ls, li, be, no, size
  <2>6. Sharded(T, paths, cs)
    <3> HIDE DEF T
    <3> QED
      BY <2>2
  <2> HIDE DEF a, b, c, sh
  <2>7. T \in Seq(Piece) /\ Len(T) = k + 1 /\ T[k + 1] = a /\ \A i \in 1..k : T[i] = sh[i]
    BY <2>4, <2>5, AppendProperties
  <2>8. u \in Seq(Piece) /\ Len(u) = k + 1 /\ u[k + 1] = b /\ \A i \in 1..k : u[i] = sh[i]
    BY <2>4, <2>5, AppendProperties
  <2>9. k \in Nat
    BY <2>4, LenProperties
  <2> HIDE DEF T, u, k
  <2>10. U \in Seq(Piece) /\ Len(U) = k + 2 /\ U[k + 2] = c /\ \A i \in 1..(k + 1) : U[i] = u[i]
    <3>1. Len(u) + 1 = k + 2
      BY <2>8, <2>9
    <3>2. u \in Seq(Piece) /\ c \in Piece
      BY <2>5, <2>8
    <3>3. U \in Seq(Piece) /\ Len(U) = Len(u) + 1 /\ U[Len(u) + 1] = c /\ \A i \in 1..Len(u) : U[i] = u[i]
      BY <3>2, AppendProperties
    <3>4. QED
      BY <3>1, <3>3, <2>8
  <2> HIDE DEF U
  <2>11. /\ \A i \in 1..k : U[i] = T[i]
         /\ U[k + 1] = b
    BY <2>7, <2>8, <2>9, <2>10
  <2>12. \A i \in 1..(k + 1) : U[i].start_s = T[i].start_s /\ U[i].start_i = T[i].start_i
    <3> TAKE i \in 1..(k + 1)
    <3>1. i \in 1..k \/ i = k + 1
      BY <2>9
    <3>2. QED
      BY <3>1, <2>5, <2>7, <2>11
  <2>13. ASSUME NEW i \in 2..Len(U)
         PROVE  /\ Slashed(U[i].start_s) /\ U[i - 1].end_s = BeforeDir(U[i].start_s)
                /\ U[i - 1].end_i = U[i].start_i /\ U[i - 1].start_i < U[i].start_i
                /\ Lt(U[i - 1].start_s, U[i - 1].end_s, cs)
                /\ U[i].start_i < Len(paths) /\ IsPrefix(U[i].start_s, paths[U[i].start_i + 1])
    <3>1. CASE i = k + 2
      <4>1. i - 1 = k + 1
        BY <3>1, <2>9
      <4>2. U[i] = c /\ U[i - 1] = b
        BY <3>1, <4>1, <2>10, <2>11
      <4>3. paths[U[i].start_i + 1] = x
        BY <4>2, <2>5
      <4>4. QED
        BY <4>2, <4>3, <1>2, <2>3, <2>5
    <3>2. CASE i # k + 2
      <4>1. i \in 1..(k + 1) /\ i \in 2..Len(T) /\ i - 1 \in 1..k /\ i - 1 \in 1..(k + 1)
        BY <3>2, <2>7, <2>9, <2>10
      <4>2. U[i - 1] = T[i - 1] /\ U[i].start_s = T[i].start_s /\ U[i].start_i = T[i].start_i
        BY <4>1, <2>11, <2>12
      <4>3. QED
        BY <4>1, <4>2, <2>6 DEF Sharded
    <3>3. QED
      BY <3>1, <3>2
  <2>14. U[1].start_s = <<>> /\ U[1].start_i = 0
    <3>1. 1 \in 1..(k + 1)
      BY <2>9
    <3>2. QED
      BY <3>1, <2>6, <2>12 DEF Sharded
  <2>15. Len(U) \in Nat \ {0}
    BY <2>9, <2>10
  <2>16. U[Len(U)].end_s = <<>> /\ U[Len(U)].end_i = Len(paths)
    BY <2>5, <2>10
  <2>17. Sharded(U, paths, cs)
    BY <2>10, <2>13, <2>14, <2>15, <2>16 DEF Sharded
  <2>18. /\ t \in [last_s : Bytes, last_i : Nat, shards : Seq(Piece)] /\ t.last_i <= idx
    <3> HIDE DEF t
    <3> QED
      BY <2>1, <2>8, <1>2
  <2> HIDE DEF t
  <2>19. QED
    BY <2>2, <2>17, <2>18 DEF t, dir
<1>5. QED
  BY <1>3, <1>4

OneShard == [last_s |-> <<>>, last_i |-> 0, shards |-> <<>>]
ShardDir(paths, n, i) == DirOf(paths[ShardStart(paths, n, i) + 1])

LEMMA OneIsSharded ==
  ASSUME NEW paths \in Seq(Bytes), NEW cs \in BOOLEAN
  PROVE  /\ Sharded(<<Shard(<<>>, <<>>, 0, Len(paths))>>, paths, cs)
         /\ OneShard \in [last_s : Bytes, last_i : Nat, shards : Seq(Piece)]
         /\ OneShard.last_i = 0 /\ Sharded(LastShard(OneShard, Len(paths)), paths, cs)
<1> DEFINE p == Shard(<<>>, <<>>, 0, Len(paths))
           T == <<p>>
           no == <<>>
<1>1. Len(paths) \in Nat /\ no \in Bytes
  BY LenProperties DEF Bytes
<1>2. p \in Piece /\ p.start_s = <<>> /\ p.start_i = 0 /\ p.end_s = <<>> /\ p.end_i = Len(paths)
  <2> DEFINE size == Len(paths)
  <2>1. p = Shard(no, no, 0, size) /\ size \in Nat
    BY <1>1
  <2> HIDE DEF p, no, size
  <2>2. p \in Piece /\ p.start_s = no /\ p.start_i = 0 /\ p.end_s = no /\ p.end_i = size
    BY <1>1, <2>1 DEF Shard, Piece
  <2>3. QED
    BY <2>2 DEF no, size
<1> HIDE DEF p
<1>3. T \in Seq(Piece) /\ Len(T) = 1 /\ T[1] = p
  BY <1>2
<1> HIDE DEF T
<1>4. Sharded(T, paths, cs)
  BY <1>2, <1>3 DEF Sharded
<1>5. LastShard(OneShard, Len(paths)) = T
  <2>1. LastShard(OneShard, Len(paths)) = Append(<<>>, p)
    BY DEF LastShard, OneShard, p
  <2>2. Append(<<>>, p) = <<p>>
    OBVIOUS
  <2>3. QED
    BY <2>1, <2>2 DEF T
<1>6. OneShard \in [last_s : Bytes, last_i : Nat, shards : Seq(Piece)] /\ OneShard.last_i = 0
  <2> DEFINE none == <<>>
  <2>1. none \in Seq(Piece)
    OBVIOUS
  <2>2. OneShard = [last_s |-> no, last_i |-> 0, shards |-> none]
    BY DEF OneShard
  <2> HIDE DEF none, no
  <2>3. QED
    BY <1>1, <2>1, <2>2
<1>7. QED
  BY <1>4, <1>5, <1>6 DEF T, p

LEMMA CutShardsRight ==
  ASSUME NEW paths \in Seq(Bytes), NEW cs \in BOOLEAN, NEW n \in Nat \ {0}, n <= Len(paths)
  PROVE  Sharded(LastShard(CutShards(paths, n, cs), Len(paths)), paths, cs)
<1> DEFINE m == n - 1
           size == Len(paths)
           start == [i \in 0..m |-> ShardStart(paths, n, i)]
           dir == [i \in 0..m |-> ShardDir(paths, n, i)]
           R == [last_s : Bytes, last_i : Nat, shards : Seq(Piece)]
           I == [i \in 0..m |-> {s \in R : s.last_i <= start[i] /\ Sharded(LastShard(s, size), paths, cs)}]
           a == OneShard
           Step_(t, i) == AddShard(t, dir[i], start[i], cs)
           G == [i \in 0..m |-> [t \in I[i - 1] |-> Step_(t, i)]]
           P(f) == f = [i \in 0..m |-> IF i = 0 THEN OneShard
                                       ELSE AddShard(f[i - 1], ShardDir(paths, n, i), ShardStart(paths, n, i), cs)]
           u == CHOOSE f : P(f)
<1>1. m \in Nat /\ 0 \in 0..m /\ m \in 0..m
  OBVIOUS
<1>2. \A i \in 0..m : /\ start[i] \in Nat /\ start[i] < size
                      /\ i # 0 => start[i - 1] < start[i]
  <2> TAKE i \in 0..m
  <2>1. ShardStart(paths, n, i) \in Nat /\ ShardStart(paths, n, i) < Len(paths)
        /\ (i # 0 => ShardStart(paths, n, i - 1) < ShardStart(paths, n, i))
    BY ShardStartRight
  <2>2. i # 0 => i - 1 \in 0..m
    OBVIOUS
  <2>3. QED
    BY <2>1, <2>2
<1>3. \A i \in 0..m : dir[i] = DirOf(paths[start[i] + 1])
  BY DEF ShardDir
<1>4. a \in I[0]
  <2>1. start[0] >= 0
    <3> HIDE DEF start, m, size
    <3> QED
      BY <1>1, <1>2
  <2>2. a \in R /\ a.last_i = 0 /\ Sharded(LastShard(a, size), paths, cs)
    BY OneIsSharded
  <2> HIDE DEF a, R, start
  <2>3. QED
    BY <1>1, <2>1, <2>2
<1>5. ASSUME NEW i \in 0..m, i # 0, NEW t \in I[i - 1] PROVE Step_(t, i) \in I[i]
  <2>1. i - 1 \in 0..m
    BY <1>1, <1>5
  <2> HIDE DEF start, dir, R, size
  <2>2. t \in R /\ t.last_i <= start[i - 1] /\ Sharded(LastShard(t, size), paths, cs)
    BY <1>5, <2>1
  <2>3. t.last_i \in Nat
    BY <2>2 DEF R
  <2>4. start[i] \in Nat /\ start[i] < size /\ start[i - 1] < start[i] /\ start[i - 1] \in Nat
    BY <1>2, <1>5, <2>1
  <2>5. t.last_i < start[i]
    BY <2>2, <2>3, <2>4
  <2> DEFINE v == AddShard(t, DirOf(paths[start[i] + 1]), start[i], cs)
  <2>6. v \in R /\ v.last_i <= start[i] /\ Sharded(LastShard(v, size), paths, cs)
    <3> HIDE DEF v
    <3> QED
      BY <2>2, <2>4, <2>5, AddShardKeeps DEF R, size, v
  <2>7. Step_(t, i) = v
    BY <1>3, <1>5
  <2> HIDE DEF v, Step_
  <2>8. QED
    BY <1>5, <2>6, <2>7
<1>6. PICK f : Follows(f, 0, m, I, a, G)
  <2>1. \A i \in 0..m : i # 0 => G[i] \in [I[i - 1] -> I[i]]
    <3> TAKE i \in 0..m
    <3> HAVE i # 0
    <3>1. G[i] = [t \in I[i - 1] |-> Step_(t, i)]
      OBVIOUS
    <3> HIDE DEF I, G, Step_
    <3>2. QED
      BY <3>1, <1>5
  <2>2. 0 \in Int /\ m \in Int /\ 0 <= m
    BY <1>1
  <2> HIDE DEF I, G, a, m
  <2>3. QED
    BY <2>1, <2>2, <1>4, Recursion
<1>7. P(f)
  <2>1. f = [i \in 0..m |-> f[i]] /\ f[0] = OneShard
    BY <1>6 DEF Follows
  <2>2. ASSUME NEW i \in 0..m, i # 0 PROVE f[i] = Step_(f[i - 1], i)
    <3>1. f[i] = G[i][f[i - 1]]
      <4> HIDE DEF G, I, a, m
      <4> QED
        BY <2>2, <1>6 DEF Follows
    <3>2. f[i - 1] \in I[i - 1]
      <4>1. i - 1 \in 0..m
        BY <2>2, <1>1
      <4> HIDE DEF G, I, a, m
      <4>2. QED
        BY <4>1, <1>6 DEF Follows
    <3>3. G[i] = [t \in I[i - 1] |-> Step_(t, i)]
      OBVIOUS
    <3> HIDE DEF I, G, Step_
    <3>4. QED
      BY <3>1, <3>2, <3>3
  <2>3. \A i \in 0..m : dir[i] = ShardDir(paths, n, i) /\ start[i] = ShardStart(paths, n, i)
    OBVIOUS
  <2> HIDE DEF G, I, a, start, dir, m
  <2>4. QED
    BY <2>1, <2>2, <2>3
<1>8. CutShards(paths, n, cs) = u[m]
  BY Zenon DEF CutShards, ShardDir, OneShard
<1>9. P(u)
  <2> HIDE DEF P, u
  <2> QED
    BY <1>7 DEF u
<1>10. u[0] = a /\ \A i \in 0..m : i # 0 => u[i] = Step_(u[i - 1], i)
  <2>1. \A i \in 0..m : dir[i] = ShardDir(paths, n, i) /\ start[i] = ShardStart(paths, n, i)
    OBVIOUS
  <2> HIDE DEF u, start, dir, m
  <2>2. u = [i \in 0..m |-> IF i = 0 THEN OneShard
                           ELSE AddShard(u[i - 1], ShardDir(paths, n, i), ShardStart(paths, n, i), cs)]
    BY <1>9
  <2> HIDE DEF P
  <2>3. QED
    BY <2>1, <2>2, <1>1
<1> DEFINE T == {i \in 0..m : u[i] \in I[i]}
<1>11. 0 \in T
  <2> HIDE DEF u, I, a, m
  <2> QED
    BY <1>1, <1>4, <1>10
<1>12. ASSUME NEW i \in (0 + 1)..m, i - 1 \in T PROVE i \in T
  <2>1. i \in 0..m /\ i # 0
    BY <1>1
  <2> HIDE DEF u, I, Step_, m
  <2>2. u[i - 1] \in I[i - 1] /\ u[i] = Step_(u[i - 1], i)
    BY <1>12, <1>10, <2>1
  <2>3. QED
    BY <2>1, <2>2, <1>5
<1>13. \A i \in 0..m : i \in T
  <2>1. 0 \in Int /\ m \in Int /\ 0 <= m
    BY <1>1
  <2> HIDE DEF T, m
  <2> QED
    BY <1>11, <1>12, <2>1, Steps
<1>14. u[m] \in I[m]
  <2> HIDE DEF u, I, m
  <2> QED
    BY <1>1, <1>13
<1> HIDE DEF u
<1>15. Sharded(LastShard(u[m], size), paths, cs)
  <2> HIDE DEF start, R
  <2> QED
    BY <1>1, <1>14
<1>16. QED
  BY <1>8, <1>15

\* UpdateShards cuts every index so.
LEMMA UpdateShardsRight ==
  ASSUME NEW paths \in Seq(Bytes), NEW cs \in BOOLEAN
  PROVE  Sharded(UpdateShards(paths, cs), paths, cs)
<1>1. CASE Len(paths) <= EntriesPerShard \/ NumThreads < 2
  BY <1>1, OneIsSharded DEF UpdateShards
<1>2. CASE ~ (Len(paths) <= EntriesPerShard \/ NumThreads < 2)
  <2> DEFINE n == NumShards(Len(paths))
  <2>1. Len(paths) \in Nat /\ EntriesPerShard \in Nat
    BY LenProperties, TreeAssumption
  <2>2. n \in Nat \ {0} /\ n <= Len(paths)
    BY <1>2, <2>1, NumShardsRight
  <2> HIDE DEF n
  <2>3. Sharded(LastShard(CutShards(paths, n, cs), Len(paths)), paths, cs)
    BY <2>2, CutShardsRight
  <2>4. QED
    BY <1>2, <2>3 DEF UpdateShards, n
<1>3. QED
  BY <1>1, <1>2

-----------------------------------------------------------------------------
(* Paths and shards.                                                       *)

Begins(sh, i) == sh[i].start_s

\* A path is in the shard whose directory it is not before, but before the next.
LEMMA ContainsRight ==
  ASSUME NEW cs \in BOOLEAN, NEW paths \in Seq(Bytes), NEW sh, Sharded(sh, paths, cs),
         NEW p \in Bytes, NEW i \in 1..Len(sh)
  PROVE  /\ Begins(sh, i) \in Bytes
         /\ ShardContains(sh[i], p, cs) <=>
              ~Lt(p, Begins(sh, i), cs) /\ (i = Len(sh) \/ Lt(p, Begins(sh, i + 1), cs))
<1>1. Len(sh) \in Nat \ {0} /\ sh[i] \in Piece
  BY ElementOfSeq DEF Sharded
<1>2. Begins(sh, i) \in Bytes
  BY <1>1 DEF Piece, Begins
<1>3. CASE i = Len(sh)
  <2>1. sh[i].end_s = <<>>
    BY <1>3 DEF Sharded
  <2>2. QED
    BY <1>2, <1>3, <2>1 DEF ShardContains, Begins
<1>4. CASE i # Len(sh)
  <2>1. i + 1 \in 2..Len(sh) /\ (i + 1) - 1 = i
    BY <1>1, <1>4
  <2> DEFINE d == sh[i + 1].start_s
  <2>2. Slashed(d) /\ sh[i].end_s = BeforeDir(d)
    BY <2>1 DEF Sharded
  <2>3. d = Begins(sh, i + 1)
    BY DEF Begins
  <2> HIDE DEF d
  <2>4. BeforeDir(d) # <<>>
    <3>1. BeforeDir(d) \in Bytes /\ Len(BeforeDir(d)) = Len(d) /\ Len(d) # 0
      BY <2>2, BeforeDirRight DEF Slashed
    <3>2. QED
      BY <3>1, Length
  <2>5. ~Lt(BeforeDir(d), Truncate(p, Len(BeforeDir(d))), cs) <=> Lt(p, d, cs)
    BY <2>2, EndsBefore
  <2>6. ShardContains(sh[i], p, cs) <=> ~Lt(p, sh[i].start_s, cs) /\ Lt(p, d, cs)
    BY <2>2, <2>4, <2>5 DEF ShardContains
  <2>7. QED
    BY <1>2, <1>4, <2>3, <2>6 DEF Begins
<1>5. QED
  BY <1>3, <1>4

LEMMA NotBeforeEmpty ==
  ASSUME NEW p \in Bytes, NEW cs \in BOOLEAN PROVE <<>> \in Bytes /\ ~Lt(p, <<>>, cs)
<1> DEFINE e == <<>>
<1>1. e \in Bytes /\ Len(e) = 0
  BY DEF Bytes
<1> HIDE DEF e
<1>2. ASSUME NEW k \in Nat \ {0} PROVE ~ (Byte(p, k, cs) < Byte(e, k, cs))
  <2>1. Byte(e, k, cs) = 0 /\ Byte(p, k, cs) \in Nat
    BY <1>1, ByteRight
  <2>2. QED
    BY <2>1
<1>3. ~Lt(p, e, cs)
  BY <1>1, <1>2, LtIsLess DEF Less
<1>4. QED
  BY <1>1, <1>3 DEF e

\* What is before the start of a shard is before that of every later one.
LEMMA BeginsRise ==
  ASSUME NEW cs \in BOOLEAN, NEW paths \in Seq(Bytes), NEW sh, Sharded(sh, paths, cs),
         NEW p \in Bytes, NEW i \in 1..Len(sh), Lt(p, Begins(sh, i), cs),
         NEW j \in i..Len(sh)
  PROVE  Lt(p, Begins(sh, j), cs)
<1> DEFINE T == {k \in i..Len(sh) : Lt(p, Begins(sh, k), cs)}
           m == Len(sh)
<1>1. m \in Nat \ {0} /\ i \in Int /\ i <= m /\ i \in 1..m
  BY DEF Sharded
<1>2. i \in T
  BY <1>1
<1>3. ASSUME NEW k \in (i + 1)..m, k - 1 \in T PROVE k \in T
  <2>1. k \in 2..Len(sh) /\ k - 1 \in 1..Len(sh) /\ k \in 1..Len(sh) /\ k \in i..m
    BY <1>1
  <2>2. Begins(sh, k - 1) \in Bytes /\ Begins(sh, k) \in Bytes
    BY <2>1, ContainsRight
  <2> DEFINE d == Begins(sh, k)
             b == Begins(sh, k - 1)
  <2>3. Slashed(d) /\ Lt(b, BeforeDir(d), cs)
    BY <2>1 DEF Sharded, Begins
  <2> HIDE DEF b, d, m
  <2>4. BeforeDir(d) \in Bytes /\ Lt(BeforeDir(d), d, cs)
    BY <2>3, BeforeDirRight, EndsBefore
  <2>5. Lt(p, b, cs)
    BY <1>3 DEF b
  <2>6. Lt(b, d, cs)
    BY <2>2, <2>3, <2>4, LtTrans DEF b, d
  <2>7. Lt(p, d, cs)
    BY <2>2, <2>5, <2>6, LtTrans DEF b, d
  <2>8. QED
    BY <2>1, <2>7 DEF d
<1>4. \A k \in i..m : k \in T
  <2>1. m \in Int /\ i \in Int /\ i <= m
    BY <1>1
  <2> HIDE DEF T, m
  <2>2. \A k \in (i + 1)..m : k - 1 \in T => k \in T
    BY <1>3
  <2>3. QED
    BY <2>1, <2>2, <1>2, Steps
<1>5. QED
  BY <1>4

\* Every path is in exactly one shard.
LEMMA OneShardEach ==
  ASSUME NEW cs \in BOOLEAN, NEW paths \in Seq(Bytes), NEW sh, Sharded(sh, paths, cs),
         NEW p \in Bytes
  PROVE  \E i \in 1..Len(sh) : \A j \in 1..Len(sh) : ShardContains(sh[j], p, cs) <=> i = j
<1> DEFINE m == Len(sh)
           B(i) == Begins(sh, i)
           S == {i \in 1..m : ~Lt(p, B(i), cs)}
           i == Max(S)
<1>1. m \in Nat \ {0}
  BY DEF Sharded
<1>2. \A k \in 1..m : /\ B(k) \in Bytes
                      /\ ShardContains(sh[k], p, cs) <=>
                           ~Lt(p, B(k), cs) /\ (k = m \/ Lt(p, B(k + 1), cs))
  BY ContainsRight
<1>3. 1 \in S
  <2>1. B(1) = <<>>
    BY DEF Sharded, Begins
  <2>2. QED
    BY <2>1, <1>1, NotBeforeEmpty
<1>4. i \in S /\ \A y \in S : y <= i
  <2>1. S \in SUBSET (0..m)
    OBVIOUS
  <2> HIDE DEF S, m
  <2>2. QED
    BY <2>1, <1>1, <1>3, Greatest
<1> HIDE DEF i
<1>5. i \in 1..m /\ ~Lt(p, B(i), cs)
  BY <1>4
<1>6. ShardContains(sh[i], p, cs)
  <2>1. ASSUME i # m PROVE Lt(p, B(i + 1), cs)
    <3>1. i + 1 \in 1..m /\ ~ (i + 1 <= i)
      BY <1>1, <1>5, <2>1
    <3>2. i + 1 \notin S
      BY <3>1, <1>4
    <3>3. QED
      BY <3>1, <3>2
  <2>2. QED
    BY <1>2, <1>5, <2>1
<1>7. ASSUME NEW j \in 1..m, ShardContains(sh[j], p, cs) PROVE i = j
  <2>1. ~Lt(p, B(j), cs) /\ (j = m \/ Lt(p, B(j + 1), cs))
    BY <1>2, <1>7
  <2>2. j \in S
    BY <2>1
  <2>3. j <= i
    BY <2>2, <1>4
  <2>4. ASSUME j < i PROVE FALSE
    <3>1. j # m /\ j + 1 \in 1..m /\ i \in (j + 1)..m
      BY <1>1, <1>5, <2>4
    <3>2. Lt(p, B(j + 1), cs)
      BY <2>1, <3>1
    <3>3. Lt(p, B(i), cs)
      BY <3>1, <3>2, BeginsRise
    <3>4. QED
      BY <3>3, <1>5
  <2>5. QED
    BY <2>3, <2>4, <1>1, <1>5
<1>8. QED
  BY <1>5, <1>6, <1>7

\* A path that is not before another is not in an earlier shard.
LEMMA ShardsInOrder ==
  ASSUME NEW cs \in BOOLEAN, NEW paths \in Seq(Bytes), NEW sh, Sharded(sh, paths, cs),
         NEW p \in Bytes, NEW q \in Bytes, ~Lt(q, p, cs),
         NEW i \in 1..Len(sh), ShardContains(sh[i], p, cs),
         NEW j \in 1..Len(sh), ShardContains(sh[j], q, cs)
  PROVE  i <= j
<1>1. Len(sh) \in Nat \ {0}
  BY DEF Sharded
<1>2. Begins(sh, i) \in Bytes /\ ~Lt(p, Begins(sh, i), cs)
  BY ContainsRight
<1>3. j = Len(sh) \/ Lt(q, Begins(sh, j + 1), cs)
  BY ContainsRight
<1>4. ASSUME j < i PROVE FALSE
  <2>1. j # Len(sh) /\ j + 1 \in 1..Len(sh) /\ i \in (j + 1)..Len(sh)
    BY <1>1, <1>4
  <2>2. Lt(q, Begins(sh, i), cs)
    BY <2>1, <1>3, BeginsRise
  <2>3. QED
    BY <2>2, <1>2, LtSplit
<1>5. QED
  BY <1>1, <1>4

LEMMA AdvanceRight ==
  ASSUME NEW cs \in BOOLEAN, NEW paths \in Seq(Bytes), NEW sh, Sharded(sh, paths, cs),
         NEW p, NEW a \in Nat
  PROVE  /\ Advance(sh, a, p, cs) \in Nat
         /\ \A i \in 1..Len(sh) :
              a <= i /\ (\A j \in 1..Len(sh) : ShardContains(sh[j], p, cs) <=> i = j) /\ 1 <= a
              => Advance(sh, a, p, cs) = i
<1> DEFINE m == Len(sh)
           S == {i \in a..m : ShardContains(sh[i], p, cs)} \cup {m + 1}
           v == Min(S)
<1>1. m \in Nat \ {0}
  BY DEF Sharded
<1>2. S \in SUBSET Nat /\ m + 1 \in S
  BY <1>1
<1>3. v \in S /\ \A y \in S : v <= y
  <2> HIDE DEF S, m
  <2>1. \E x \in S : \A y \in S : x <= y
    BY <1>2, LeastNumber
  <2>2. QED
    BY <2>1, Zenon DEF Min
<1>4. Advance(sh, a, p, cs) = v
  BY Zenon DEF Advance
<1> HIDE DEF v
<1>5. ASSUME NEW i \in 1..m, a <= i, 1 <= a, \A j \in 1..m : ShardContains(sh[j], p, cs) <=> i = j
      PROVE  v = i
  <2>1. i \in S
    BY <1>1, <1>5
  <2>2. v \in S /\ v <= i /\ v # m + 1
    BY <1>1, <1>3, <1>5, <2>1
  <2>3. v \in a..m /\ ShardContains(sh[v], p, cs) /\ v \in 1..m
    BY <1>1, <1>5, <2>2
  <2>4. QED
    BY <1>5, <2>3
<1>6. QED
  BY <1>2, <1>3, <1>4, <1>5

\* Sorted candidates are dealt to the shards that contain them.
LEMMA DealtToRight ==
  ASSUME NEW cs \in BOOLEAN, NEW paths \in Seq(Bytes), NEW sh, Sharded(sh, paths, cs),
         NEW ps \in Seq(Bytes), \A i \in 2..Len(ps) : ~Lt(ps[i], ps[i - 1], cs)
  PROVE  \A i \in DOMAIN ps : /\ DealtTo(sh, ps, cs)[i] <= Len(sh)
                              /\ ShardContains(sh[DealtTo(sh, ps, cs)[i]], ps[i], cs)
<1> DEFINE n == Len(ps)
           m == Len(sh)
           I == [i \in Int |-> Nat]
           Step_(t, i) == Advance(sh, t, ps[i], cs)
           G == [i \in 0..n |-> [t \in Nat |-> Step_(t, i)]]
           P(f) == f = [i \in 0..n |-> IF i = 0 THEN 1 ELSE Advance(sh, f[i - 1], ps[i], cs)]
           u == CHOOSE f : P(f)
<1>1. n \in Nat /\ m \in Nat \ {0} /\ DOMAIN ps = 1..n /\ \A i \in 1..n : ps[i] \in Bytes
  BY LenProperties, ElementOfSeq DEF Sharded
<1>2. \A i \in 0..n : i # 0 => G[i] \in [I[i - 1] -> I[i]]
  <2> TAKE i \in 0..n
  <2> HAVE i # 0
  <2>1. I[i - 1] = Nat /\ I[i] = Nat
    BY <1>1
  <2>2. \A t \in Nat : Step_(t, i) \in Nat
    BY AdvanceRight
  <2>3. G[i] = [t \in Nat |-> Step_(t, i)]
    OBVIOUS
  <2> HIDE DEF G, I, Step_
  <2>4. QED
    BY <2>1, <2>2, <2>3
<1>3. PICK f : Follows(f, 0, n, I, 1, G)
  <2>1. 0 \in Int /\ n \in Int /\ 0 <= n /\ 1 \in I[0]
    BY <1>1
  <2> HIDE DEF I, G, n
  <2>2. QED
    BY <1>2, <2>1, Recursion
<1>4. P(f)
  <2>1. f = [i \in 0..n |-> f[i]] /\ f[0] = 1
    BY <1>3 DEF Follows
  <2>2. ASSUME NEW i \in 0..n, i # 0 PROVE f[i] = Step_(f[i - 1], i)
    <3>1. f[i] = G[i][f[i - 1]]
      <4> HIDE DEF G, I, n
      <4> QED
        BY <2>2, <1>3 DEF Follows
    <3>2. f[i - 1] \in Nat
      <4>1. i - 1 \in 0..n /\ I[i - 1] = Nat
        BY <2>2, <1>1
      <4> HIDE DEF G, I, n
      <4>2. f[i - 1] \in I[i - 1]
        BY <4>1, <1>3 DEF Follows
      <4>3. QED
        BY <4>1, <4>2
    <3>3. G[i] = [t \in Nat |-> Step_(t, i)]
      OBVIOUS
    <3> HIDE DEF G, Step_
    <3>4. QED
      BY <3>1, <3>2, <3>3
  <2> HIDE DEF G, I, n
  <2>3. QED
    BY <2>1, <2>2
<1>5. DealtTo(sh, ps, cs) = [i \in DOMAIN ps |-> u[i]]
  BY Zenon DEF DealtTo
<1>6. P(u)
  <2> HIDE DEF P, u
  <2> QED
    BY <1>4 DEF u
<1>7. u[0] = 1 /\ \A i \in 0..n : i # 0 => u[i] = Advance(sh, u[i - 1], ps[i], cs)
  <2> HIDE DEF u, n
  <2>1. u = [i \in 0..n |-> IF i = 0 THEN 1 ELSE Advance(sh, u[i - 1], ps[i], cs)]
    BY <1>6
  <2> HIDE DEF P
  <2>2. QED
    BY <2>1, <1>1
<1> HIDE DEF u, P, G, I, Step_
<1> DEFINE T == {i \in 1..n : u[i] \in 1..m /\ ShardContains(sh[u[i]], ps[i], cs)}
<1>8. ASSUME NEW i \in 1..n, i = 1 \/ i - 1 \in T PROVE i \in T
  <2>1. PICK c \in 1..m : \A j \in 1..m : ShardContains(sh[j], ps[i], cs) <=> c = j
    BY <1>1, OneShardEach
  <2>2. u[i - 1] \in 1..c
    <3>1. CASE i = 1
      BY <3>1, <1>1, <1>7, <2>1
    <3>2. CASE i # 1
      <4>1. i - 1 \in T /\ i \in 2..n /\ i - 1 \in 1..n
        BY <3>2, <1>1, <1>8
      <4>2. u[i - 1] \in 1..m /\ ShardContains(sh[u[i - 1]], ps[i - 1], cs)
        BY <4>1
      <4>3. ~Lt(ps[i], ps[i - 1], cs) /\ ps[i] \in Bytes /\ ps[i - 1] \in Bytes
        BY <4>1, <1>1
      <4>4. u[i - 1] <= c
        BY <2>1, <4>2, <4>3, ShardsInOrder
      <4>5. QED
        BY <4>2, <4>4, <2>1, <1>1
    <3>3. QED
      BY <3>1, <3>2
  <2>3. i \in 0..n /\ i # 0
    BY <1>1
  <2>4. u[i] = Advance(sh, u[i - 1], ps[i], cs)
    BY <1>7, <2>3
  <2>5. u[i - 1] \in Nat /\ 1 <= u[i - 1] /\ u[i - 1] <= c
    BY <2>1, <2>2, <1>1
  <2>6. Advance(sh, u[i - 1], ps[i], cs) = c
    BY <2>1, <2>5, AdvanceRight
  <2>7. QED
    BY <2>1, <2>4, <2>6
<1>9. \A i \in 1..n : i \in T
  <2>1. CASE n = 0
    BY <2>1
  <2>2. CASE n # 0
    <3>1. 1 \in T
      BY <1>1, <1>8, <2>2
    <3>2. \A i \in (1 + 1)..n : i - 1 \in T => i \in T
      <4> TAKE i \in (1 + 1)..n
      <4>1. i \in 1..n
        BY <1>1
      <4> HIDE DEF T, n
      <4>2. QED
        BY <4>1, <1>8
    <3>3. 1 \in Int /\ n \in Int /\ 1 <= n
      BY <1>1, <2>2
    <3> HIDE DEF T, n
    <3>4. QED
      BY <3>1, <3>2, <3>3, Steps
  <2>3. QED
    BY <2>1, <2>2
<1>10. ASSUME NEW i \in DOMAIN ps
       PROVE  /\ DealtTo(sh, ps, cs)[i] <= Len(sh)
              /\ ShardContains(sh[DealtTo(sh, ps, cs)[i]], ps[i], cs)
  <2>1. DealtTo(sh, ps, cs)[i] = u[i] /\ i \in 1..n
    BY <1>1, <1>5, <1>10
  <2>2. u[i] \in 1..m /\ ShardContains(sh[u[i]], ps[i], cs)
    BY <1>9, <2>1
  <2>3. QED
    BY <2>1, <2>2, <1>1
<1>11. QED
  BY <1>10

-----------------------------------------------------------------------------
(* The order of a set of strings.                                          *)

LEMMA EqualExactly ==
  ASSUME NEW x \in Bytes, NEW y \in Bytes, Eq(x, y, TRUE) PROVE x = y
<1>1. Len(x) = Len(y) /\ \A k \in 1..Len(x) : Value(x[k], TRUE) = Value(y[k], TRUE)
  BY Equal
<1>2. \A k \in 1..Len(x) : x[k] = y[k]
  BY <1>1 DEF Value
<1>3. x \in Seq(1..255) /\ y \in Seq(1..255)
  BY DEF Bytes
<1>4. QED
  BY <1>1, <1>2, <1>3, SeqEqual

LEMMA BeforeOrder ==
  ASSUME NEW x \in Bytes, NEW y \in Bytes, NEW cs \in BOOLEAN
  PROVE  /\ ~ (Before(x, y, cs) /\ Before(y, x, cs)) /\ ~Before(x, x, cs)
         /\ Before(x, y, cs) \/ Before(y, x, cs) \/ x = y
         /\ Before(x, y, cs) => ~Lt(y, x, cs)
<1>1. /\ Lt(x, y, cs) => ~Lt(y, x, cs) /\ ~Eq(x, y, cs) /\ ~Eq(y, x, cs)
      /\ Lt(y, x, cs) => ~Lt(x, y, cs) /\ ~Eq(x, y, cs) /\ ~Eq(y, x, cs)
  BY LtAsym
<1>2. Lt(x, y, TRUE) => ~Lt(y, x, TRUE)
  BY LtAsym
<1>3. ~Lt(x, x, cs) /\ ~Lt(x, x, TRUE)
  BY LtAsym
<1>4. Lt(x, y, cs) \/ Eq(x, y, cs) \/ Lt(y, x, cs)
  BY LtTotal
<1>5. Eq(x, y, cs) => Eq(y, x, cs)
  BY EqualSym
<1>6. Lt(x, y, TRUE) \/ x = y \/ Lt(y, x, TRUE)
  BY LtTotal, EqualExactly
<1>7. QED
  BY <1>1, <1>2, <1>3, <1>4, <1>5, <1>6 DEF Before

LEMMA BeforeTrans ==
  ASSUME NEW x \in Bytes, NEW y \in Bytes, NEW z \in Bytes, NEW cs \in BOOLEAN,
         Before(x, y, cs), Before(y, z, cs)
  PROVE  Before(x, z, cs)
<1>1. Lt(x, y, cs) \/ (Eq(x, y, cs) /\ Lt(x, y, TRUE))
  BY DEF Before
<1>2. Lt(y, z, cs) \/ (Eq(y, z, cs) /\ Lt(y, z, TRUE))
  BY DEF Before
<1>3. CASE Lt(x, y, cs)
  <2>1. Lt(x, z, cs) \/ Lt(z, y, cs)
    BY <1>3, LtSplit
  <2>2. Lt(y, z, cs) => ~Lt(z, y, cs)
    BY LtAsym
  <2>3. Eq(y, z, cs) => ~Lt(z, y, cs)
    BY LtAsym
  <2>4. QED
    BY <2>1, <2>2, <2>3, <1>2 DEF Before
<1>4. CASE Eq(x, y, cs) /\ Lt(x, y, TRUE)
  <2>1. CASE Lt(y, z, cs)
    <3>1. Lt(y, x, cs) \/ Lt(x, z, cs)
      BY <2>1, LtSplit
    <3>2. Eq(x, y, cs) => ~Lt(y, x, cs)
      BY LtAsym
    <3>3. QED
      BY <3>1, <3>2, <1>4 DEF Before
  <2>2. CASE Eq(y, z, cs) /\ Lt(y, z, TRUE)
    <3>1. Eq(x, z, cs)
      BY <1>4, <2>2, EqualTrans
    <3>2. Lt(x, z, TRUE)
      BY <1>4, <2>2, LtTrans
    <3>3. QED
      BY <3>1, <3>2 DEF Before
  <2>3. QED
    BY <2>1, <2>2, <1>2
<1>5. QED
  BY <1>1, <1>3, <1>4

\* A finite set of strings sorted: every one has a rank of its own.
LEMMA SortSetRight ==
  ASSUME NEW S \in SUBSET Bytes, IsFiniteSet(S), NEW cs \in BOOLEAN
  PROVE  /\ SortSet(S, cs) \in Seq(Bytes)
         /\ Len(SortSet(S, cs)) = Cardinality(S)
         /\ \A i \in 1..Cardinality(S) : SortSet(S, cs)[i] \in S
         /\ \A i \in 2..Cardinality(S) : ~Lt(SortSet(S, cs)[i], SortSet(S, cs)[i - 1], cs)
<1> DEFINE n == Cardinality(S)
           D(x) == {y \in S : Before(y, x, cs)}
           r == [x \in S |-> Cardinality(D(x))]
           sorted == SortSet(S, cs)
           Of(i) == CHOOSE x \in S : r[x] = i - 1
<1>1. n \in Nat
  BY FS_CardinalityType
<1>2. \A x \in S : IsFiniteSet(D(x)) /\ r[x] \in 0..(n - 1)
  <2> TAKE x \in S
  <2>1. D(x) \subseteq S \ {x}
    BY BeforeOrder
  <2>2. IsFiniteSet(S \ {x}) /\ Cardinality(S \ {x}) = n - 1
    BY FS_RemoveElement
  <2> DEFINE d == D(x)
  <2>3. IsFiniteSet(d) /\ Cardinality(d) <= n - 1
    <3> HIDE DEF d, n
    <3> QED
      BY <2>1, <2>2, FS_Subset DEF d
  <2>4. Cardinality(d) \in Nat
    <3> HIDE DEF d
    <3> QED
      BY <2>3, FS_CardinalityType
  <2>5. r[x] = Cardinality(d)
    OBVIOUS
  <2> HIDE DEF d, r, n
  <2>6. QED
    BY <2>3, <2>4, <2>5, <1>1 DEF d
<1>3. ASSUME NEW x \in S, NEW y \in S, Before(x, y, cs) PROVE r[x] < r[y]
  <2> DEFINE d == D(x)
             e == D(y)
  <2>1. d \subseteq e
    BY <1>3, BeforeTrans
  <2>2. x \in e /\ x \notin d
    BY <1>3, BeforeOrder
  <2>3. IsFiniteSet(e) /\ IsFiniteSet(d)
    BY <1>2
  <2>4. r[x] = Cardinality(d) /\ r[y] = Cardinality(e)
    OBVIOUS
  <2>5. Cardinality(d) <= Cardinality(e) /\ (Cardinality(d) = Cardinality(e) => d = e)
    <3> HIDE DEF d, e
    <3> QED
      BY <2>1, <2>3, FS_Subset
  <2>6. Cardinality(d) \in Nat /\ Cardinality(e) \in Nat
    <3> HIDE DEF d, e
    <3> QED
      BY <2>3, FS_CardinalityType
  <2> HIDE DEF d, e, r
  <2>7. QED
    BY <2>2, <2>4, <2>5, <2>6
<1>4. \A x, y \in S : r[x] = r[y] => x = y
  <2> SUFFICES ASSUME NEW x \in S, NEW y \in S, x # y PROVE r[x] # r[y]
    OBVIOUS
  <2>1. Before(x, y, cs) \/ Before(y, x, cs)
    BY BeforeOrder
  <2>2. r[x] < r[y] \/ r[y] < r[x]
    <3> HIDE DEF r
    <3> QED
      BY <2>1, <1>3
  <2>3. r[x] \in Int /\ r[y] \in Int
    <3>1. r[x] \in 0..(n - 1) /\ r[y] \in 0..(n - 1)
      BY <1>2
    <3> HIDE DEF r, n
    <3>2. QED
      BY <3>1
  <2> HIDE DEF r
  <2>4. QED
    BY <2>2, <2>3
<1>5. \A i \in 1..n : \E x \in S : r[x] = i - 1
  <2> DEFINE N == 0..(n - 1)
  <2>1. r \in [S -> N]
    BY <1>2
  <2>3. IsFiniteSet(N) /\ Cardinality(N) = n
    <3>1. 0 \in Int /\ n - 1 \in Int /\ n - 1 - 0 + 1 = n
      BY <1>1
    <3> DEFINE k == n - 1
    <3>2. IsFiniteSet(0..k) /\ Cardinality(0..k) = IF 0 > k THEN 0 ELSE k - 0 + 1
      <4>1. k \in Int
        BY <3>1
      <4> HIDE DEF k
      <4>2. QED
        BY <4>1, FS_Interval
    <3>3. QED
      BY <3>1, <3>2, <1>1
  <2> HIDE DEF N, r, n
  <2>4. r \in Injection(S, N)
    BY <2>1, <1>4 DEF Injection, IsInjective
  <2>5. r \in Surjection(S, N)
    BY <2>3, <2>4, FS_Injection DEF n
  <2> TAKE i \in 1..n
  <2>6. i - 1 \in N
    BY <1>1 DEF N
  <2>7. QED
    BY <2>5, <2>6 DEF Surjection
<1>6. sorted = [i \in 1..n |-> Of(i)]
  BY Zenon DEF SortSet
<1>7. \A i \in 1..n : sorted[i] \in S /\ r[sorted[i]] = i - 1
  <2> TAKE i \in 1..n
  <2>1. \E x \in S : r[x] = i - 1
    BY <1>5
  <2>2. Of(i) \in S /\ r[Of(i)] = i - 1
    <3> HIDE DEF r
    <3> QED
      BY <2>1
  <2>3. sorted[i] = Of(i)
    <3> HIDE DEF sorted, Of, n
    <3> QED
      BY <1>6
  <2> HIDE DEF sorted, Of, r
  <2>4. QED
    BY <2>2, <2>3
<1> HIDE DEF sorted, r
<1>8. sorted \in Seq(Bytes) /\ Len(sorted) = n
  <2>1. sorted \in [1..n -> Bytes]
    <3> HIDE DEF Of, n
    <3>1. \A i \in 1..n : sorted[i] \in Bytes
      BY <1>7
    <3>2. \A i \in 1..n : sorted[i] = Of(i)
      BY <1>6
    <3>3. QED
      BY <1>6, <3>1, <3>2
  <2> DEFINE k == n
             B == Bytes
  <2>2. sorted \in Seq(Bytes)
    <3>1. sorted \in [1..k -> B] /\ k \in Nat
      BY <2>1, <1>1
    <3> HIDE DEF k, B
    <3>2. sorted \in Seq(B)
      BY <3>1, FunctionIsSeq
    <3>3. QED
      BY <3>2 DEF B
  <2>3. QED
    BY <2>1, <2>2, <1>1, LenProperties
<1>9. ASSUME NEW i \in 2..n PROVE ~Lt(sorted[i], sorted[i - 1], cs)
  <2>1. i \in 1..n /\ i - 1 \in 1..n
    BY <1>1
  <2> DEFINE x == sorted[i - 1]
             y == sorted[i]
  <2>2. x \in S /\ y \in S /\ r[x] = (i - 1) - 1 /\ r[y] = i - 1
    BY <1>7, <2>1
  <2>3. x \in Bytes /\ y \in Bytes
    BY <2>2
  <2> HIDE DEF x, y
  <2>4. ~Before(y, x, cs)
    <3> SUFFICES ASSUME Before(y, x, cs) PROVE FALSE
      OBVIOUS
    <3>1. r[y] < r[x]
      BY <1>3, <2>2
    <3>2. QED
      BY <3>1, <2>1, <2>2, <1>1
  <2>5. ~Lt(y, x, cs)
    BY <2>4 DEF Before
  <2>6. QED
    BY <2>5 DEF x, y
<1>10. QED
  BY <1>7, <1>8, <1>9 DEF sorted

LEMMA IndexIsSharded ==
  ASSUME IndexInv
  PROVE  ShardsArePartition
<1> DEFINE ps == PathsOf(index)
           sh == Shards
           cs == CS
           C == Candidates
<1>1. cs \in BOOLEAN /\ index \in Seq(Entry)
  BY DEF IndexInv, Constructed, CS, Caps
<1>2. ps \in Seq(Bytes) /\ Len(ps) = Len(index) /\ \A i \in 1..Len(index) : ps[i] = index[i].path
  <2> DEFINE n == Len(index)
             B == Bytes
  <2>1. n \in Nat /\ DOMAIN index = 1..n /\ \A i \in 1..n : index[i] \in Entry
    BY <1>1, LenProperties, ElementOfSeq
  <2>2. \A i \in 1..n : index[i].path \in Bytes
    BY <2>1 DEF Entry
  <2>3. ps = [i \in 1..n |-> index[i].path]
    BY <2>1 DEF PathsOf
  <2> HIDE DEF ps, n
  <2>4. ps \in [1..n -> B]
    BY <2>2, <2>3
  <2>5. ps \in Seq(B)
    <3>1. n \in Nat
      BY <2>1 DEF n
    <3> HIDE DEF B
    <3>2. QED
      BY <2>4, <3>1, FunctionIsSeq
  <2>6. Len(ps) = n /\ \A i \in 1..n : ps[i] = index[i].path
    BY <2>1, <2>3, <2>4, <2>5, LenProperties
  <2>7. QED
    BY <2>5, <2>6 DEF n
<1>3. Sharded(sh, ps, cs)
  <2>1. sh = UpdateShards(ps, cs)
    BY DEF Shards
  <2> HIDE DEF sh, ps, cs
  <2>2. QED
    BY <2>1, <1>1, <1>2, UpdateShardsRight
<1>4. C \in SUBSET Bytes /\ IsFiniteSet(C)
  <2>1. DOMAIN ps = 1..Len(index) /\ Len(index) \in Nat
    BY <1>1, <1>2, LenProperties
  <2>2. Range(ps) = {ps[i] : i \in 1..Len(index)}
    BY <2>1 DEF Range
  <2> DEFINE N == 1..Len(index)
             R == {ps[i] : i \in N}
  <2>3. IsFiniteSet(N)
    BY <2>1, FS_Interval
  <2>4. IsFiniteSet(R)
    <3>1. ps \in Surjection(N, R)
      <4>1. ps = [i \in N |-> ps[i]]
        BY <2>1 DEF PathsOf
      <4> HIDE DEF N, ps
      <4>2. QED
        BY <4>1 DEF Surjection
    <3> HIDE DEF R, N, ps
    <3>2. QED
      BY <2>3, <3>1, FS_Surjection
  <2>5. R \subseteq Bytes
    <3> HIDE DEF ps
    <3>1. \A i \in 1..Len(index) : ps[i] \in Bytes
      BY <1>2, ElementOfSeq
    <3>2. QED
      BY <3>1
  <2>6. C = Probes \cup R
    BY <2>2 DEF Candidates
  <2>7. IsFiniteSet(Probes) /\ Probes \subseteq Bytes
    BY IndexAssumption
  <2> HIDE DEF R, C
  <2>8. QED
    BY <2>4, <2>5, <2>6, <2>7, FS_Union
<1>5. sh \in Seq(Piece) /\ Len(sh) \in Nat \ {0} /\ DOMAIN sh = 1..Len(sh)
  <2>1. sh \in Seq(Piece) /\ Len(sh) \in Nat \ {0}
    <3> HIDE DEF sh, ps, cs
    <3> QED
      BY <1>3 DEF Sharded
  <2> HIDE DEF sh
  <2>2. QED
    BY <2>1, LenProperties
<1> HIDE DEF ps, sh, cs, C
<1>6. \A p \in C : \E i \in DOMAIN sh : \A j \in DOMAIN sh : ShardContains(sh[j], p, cs) <=> i = j
  <2> TAKE p \in C
  <2>1. p \in Bytes
    BY <1>4
  <2>2. ps \in Seq(Bytes) /\ cs \in BOOLEAN
    BY <1>1, <1>2
  <2>3. \E i \in 1..Len(sh) : \A j \in 1..Len(sh) : ShardContains(sh[j], p, cs) <=> i = j
    BY <2>1, <2>2, <1>3, OneShardEach
  <2>4. QED
    BY <2>3, <1>5
<1>7. ASSUME NEW i \in DOMAIN sh \ {1}
      PROVE  /\ sh[i].start_i = sh[i - 1].end_i /\ sh[i - 1].start_i < sh[i].start_i
             /\ Lt(sh[i - 1].start_s, sh[i - 1].end_s, cs)
             /\ Lt(sh[i - 1].end_s, sh[i].start_s, cs)
             /\ IsPrefix(sh[i].start_s, index[sh[i].start_i + 1].path)
  <2>1. i \in 2..Len(sh) /\ i - 1 \in 1..Len(sh)
    BY <1>5
  <2>2. /\ Slashed(sh[i].start_s) /\ sh[i - 1].end_s = BeforeDir(sh[i].start_s)
        /\ sh[i - 1].end_i = sh[i].start_i /\ sh[i - 1].start_i < sh[i].start_i
        /\ Lt(sh[i - 1].start_s, sh[i - 1].end_s, cs)
        /\ sh[i].start_i < Len(ps) /\ IsPrefix(sh[i].start_s, ps[sh[i].start_i + 1])
    BY <2>1, <1>3 DEF Sharded
  <2> DEFINE d == sh[i].start_s
  <2>3. Lt(sh[i - 1].end_s, sh[i].start_s, cs)
    <3>1. Slashed(d) /\ sh[i - 1].end_s = BeforeDir(d)
      BY <2>2
    <3> HIDE DEF d
    <3>2. Lt(BeforeDir(d), d, cs)
      BY <3>1, <1>1, EndsBefore
    <3>3. QED
      BY <3>1, <3>2 DEF d
  <2>4. ps[sh[i].start_i + 1] = index[sh[i].start_i + 1].path
    <3>1. sh[i].start_i + 1 \in 1..Len(index)
      <4>1. sh[i] \in Piece
        BY <2>1, <1>5, ElementOfSeq
      <4>2. sh[i].start_i \in Nat
        BY <4>1 DEF Piece
      <4>3. QED
        BY <4>2, <2>2, <1>1, <1>2, LenProperties
    <3>2. QED
      BY <3>1, <1>2
  <2>5. QED
    BY <2>2, <2>3, <2>4
<1>8. sh[1].start_i = 0 /\ Last(sh).end_i = Len(index)
  BY <1>2, <1>3, <1>5 DEF Sharded, Last
<1>9. DealtRight(SortSet(C, cs))
  <2> DEFINE q == SortSet(C, cs)
  <2>1. q \in Seq(Bytes) /\ \A i \in 2..Len(q) : ~Lt(q[i], q[i - 1], cs)
    BY <1>1, <1>4, SortSetRight
  <2> HIDE DEF q
  <2>2. \A i \in DOMAIN q : /\ DealtTo(sh, q, cs)[i] <= Len(sh)
                            /\ ShardContains(sh[DealtTo(sh, q, cs)[i]], q[i], cs)
    BY <2>1, <1>1, <1>2, <1>3, DealtToRight
  <2>3. QED
    BY <2>2 DEF DealtRight, q, sh, cs
<1>10. QED
  BY <1>6, <1>7, <1>8, <1>9 DEF ShardsArePartition, sh, cs, C

\* However an index is cut, a path is in exactly one shard, the shards are
\* ranges of its entries that split no directory, and the pointer with which
\* StartDirtyScan deals sorted candidates stops at the shard of each.
THEOREM ShardsStayPartition == Spec => []ShardsArePartition
BY IndexIsSharded, IndexInvariance, PTL

\* So too for the indices whose shards a run computes.
THEOREM ShardsAreRight == Spec => []ShardsPartition
<1>1. ShardsArePartition => ShardsPartition
  BY DEF ShardsPartition
<1>2. QED
  BY <1>1, ShardsStayPartition, PTL

\* The first bytes of two paths are equal if each of them is.
LEMMA FirstEqual ==
  ASSUME NEW x \in Bytes, NEW y \in Bytes, NEW cs \in BOOLEAN, NEW c \in Nat, c <= Len(x), c <= Len(y)
  PROVE  Eq(SubSeq(x, 1, c), SubSeq(y, 1, c), cs) <=>
           \A k \in 1..c : Byte(x, k, cs) = Byte(y, k, cs)
<1> DEFINE u == SubSeq(x, 1, c)
           v == SubSeq(y, 1, c)
<1>1. Len(x) \in Nat /\ Len(y) \in Nat
  BY Length
<1>2. c \in 0..Len(x) /\ c \in 0..Len(y)
  BY <1>1
<1>3. /\ u \in Bytes /\ Len(u) = c /\ \A k \in 1..c : u[k] = x[k]
      /\ v \in Bytes /\ Len(v) = c /\ \A k \in 1..c : v[k] = y[k]
  BY <1>2, FirstBytes
<1> HIDE DEF u, v
<1>4. Eq(u, v, cs) <=> \A k \in 1..c : Value(u[k], cs) = Value(v[k], cs)
  BY <1>3, Equal
<1>5. \A k \in 1..c : Byte(x, k, cs) = Value(x[k], cs) /\ Byte(y, k, cs) = Value(y[k], cs)
  BY <1>1 DEF Byte, At
<1>6. QED
  BY <1>3, <1>4, <1>5 DEF u, v

\* A directory that two paths lie in holds what is between them in order.
LEMMA Between ==
  ASSUME NEW cs \in BOOLEAN, NEW x \in Bytes, NEW y \in Bytes, NEW z \in Bytes,
         ~Lt(y, x, cs), ~Lt(z, y, cs), NEW c \in SlashesIn(x), c \in SlashesIn(z),
         Eq(SubSeq(x, 1, c), SubSeq(z, 1, c), cs)
  PROVE  c \in SlashesIn(y) /\ Eq(SubSeq(y, 1, c), SubSeq(x, 1, c), cs)
<1> DEFINE X(k) == Byte(x, k, cs)
           Y(k) == Byte(y, k, cs)
           Z(k) == Byte(z, k, cs)
           D == {k \in 1..c : X(k) # Y(k)}
<1>1. /\ Len(x) \in Nat /\ Len(y) \in Nat /\ Len(z) \in Nat
      /\ c \in Nat \ {0} /\ c <= Len(x) /\ c <= Len(z) /\ x[c] = Slash
  BY Length DEF SlashesIn
<1>2. \A k \in Nat \ {0} : /\ X(k) \in Nat /\ Y(k) \in Nat /\ Z(k) \in Nat
                           /\ (X(k) = 0 <=> k > Len(x)) /\ (Y(k) = 0 <=> k > Len(y))
  BY ByteRight
<1>3. \A k \in 1..c : X(k) = Z(k)
  BY <1>1, FirstEqual
<1>4. ~Less(y, x, cs) /\ ~Less(z, y, cs)
  BY LtIsLess
<1>5. D = {}
  <2> SUFFICES ASSUME D # {} PROVE FALSE
    OBVIOUS
  <2>1. D \in SUBSET Nat
    OBVIOUS
  <2>2. PICK i \in D : \A j \in D : i <= j
    <3> HIDE DEF D
    <3> QED
      BY <2>1, LeastNumber
  <2>3. i \in 1..c /\ X(i) # Y(i) /\ i \in Nat \ {0}
    BY <2>2
  <2>4. \A j \in 1..(i - 1) : j \in 1..c /\ X(j) = Y(j)
    <3> TAKE j \in 1..(i - 1)
    <3>1. j \in 1..c /\ ~ (i <= j)
      BY <2>3, <1>1
    <3>2. j \notin D
      BY <3>1, <2>2
    <3>3. QED
      BY <3>1, <3>2
  <2> HIDE DEF D
  <2>5. CASE Y(i) < X(i)
    <3>1. \A j \in 1..(i - 1) : Y(j) = X(j)
      <4> HIDE DEF X, Y
      <4> QED
        BY <2>4
    <3>2. Less(y, x, cs)
      BY <2>3, <2>5, <3>1 DEF Less
    <3>3. QED
      BY <3>2, <1>4
  <2>6. CASE X(i) < Y(i)
    <3>1. Z(i) < Y(i) /\ \A j \in 1..(i - 1) : Z(j) = Y(j)
      <4> HIDE DEF X, Y, Z
      <4> QED
        BY <2>3, <2>4, <2>6, <1>3
    <3>2. Less(z, y, cs)
      BY <2>3, <3>1 DEF Less
    <3>3. QED
      BY <3>2, <1>4
  <2>7. X(i) \in Nat /\ Y(i) \in Nat
    BY <2>3, <1>2
  <2> HIDE DEF X, Y
  <2>8. QED
    BY <2>3, <2>5, <2>6, <2>7
<1>6. \A k \in 1..c : Y(k) = X(k)
  BY <1>5
<1>7. c <= Len(y)
  <2>1. Y(c) = X(c) /\ X(c) # 0
    <3> HIDE DEF X, Y
    <3> QED
      BY <1>1, <1>2, <1>6
  <2> HIDE DEF X, Y
  <2>2. QED
    BY <2>1, <1>1, <1>2
<1>8. Eq(SubSeq(y, 1, c), SubSeq(x, 1, c), cs)
  BY <1>1, <1>6, <1>7, FirstEqual
<1>9. y[c] = Slash
  <2>1. Value(y[c], cs) = Value(x[c], cs)
    <3>1. Y(c) = X(c)
      BY <1>1, <1>6
    <3>2. Y(c) = Value(y[c], cs) /\ X(c) = Value(x[c], cs)
      BY <1>1, <1>7 DEF Byte, At
    <3>3. QED
      BY <3>1, <3>2
  <2>2. c \in 1..Len(x) /\ c \in 1..Len(y)
    BY <1>1, <1>7
  <2>3. x[c] \in Nat /\ y[c] \in Nat
    BY <2>2, Length
  <2>4. QED
    BY <2>1, <2>3, <1>1, Values
<1>10. QED
  BY <1>1, <1>7, <1>8, <1>9 DEF SlashesIn

-----------------------------------------------------------------------------
(* StrSort.                                                                *)

NoTwins(xs, cs) == \A i, j \in 1..Len(xs) : Eq(xs[i], xs[j], cs) => i = j

\* Places in a sequence in the order of their strings, then of the places.
Ahead(xs, i, j, cs) == Lt(xs[i], xs[j], cs) \/ (Eq(xs[i], xs[j], cs) /\ i < j)

LEMMA AheadOrder ==
  ASSUME NEW cs \in BOOLEAN, NEW xs, NEW n \in Nat, \A k \in 1..n : xs[k] \in Bytes,
         NEW i \in 1..n, NEW j \in 1..n
  PROVE  /\ ~ (Ahead(xs, i, j, cs) /\ Ahead(xs, j, i, cs)) /\ ~Ahead(xs, i, i, cs)
         /\ Ahead(xs, i, j, cs) \/ Ahead(xs, j, i, cs) \/ i = j
         /\ \A k \in 1..n : Ahead(xs, i, j, cs) /\ Ahead(xs, j, k, cs) => Ahead(xs, i, k, cs)
<1> DEFINE x == xs[i]
           y == xs[j]
<1>1. x \in Bytes /\ y \in Bytes
  OBVIOUS
<1>2. /\ Lt(x, y, cs) => ~Lt(y, x, cs) /\ ~Eq(x, y, cs) /\ ~Eq(y, x, cs)
      /\ Lt(y, x, cs) => ~Lt(x, y, cs) /\ ~Eq(x, y, cs) /\ ~Eq(y, x, cs)
      /\ ~Lt(x, x, cs)
  BY <1>1, LtAsym
<1>3. Lt(x, y, cs) \/ Eq(x, y, cs) \/ Lt(y, x, cs)
  BY <1>1, LtTotal
<1>4. Eq(x, y, cs) => Eq(y, x, cs)
  BY <1>1, EqualSym
<1>5. ~ (i < j /\ j < i) /\ ~ (i < i) /\ (i < j \/ j < i \/ i = j)
  OBVIOUS
<1>6. ASSUME NEW k \in 1..n, Ahead(xs, i, j, cs), Ahead(xs, j, k, cs) PROVE Ahead(xs, i, k, cs)
  <2> DEFINE z == xs[k]
  <2>1. z \in Bytes
    OBVIOUS
  <2>2. /\ Lt(x, y, cs) \/ (Eq(x, y, cs) /\ i < j)
        /\ Lt(y, z, cs) \/ (Eq(y, z, cs) /\ j < k)
    BY <1>6 DEF Ahead
  <2>3. i < j /\ j < k => i < k
    OBVIOUS
  <2> HIDE DEF x, y, z
  <2>4. Eq(x, y, cs) /\ Eq(y, z, cs) => Eq(x, z, cs)
    BY <1>1, <2>1, EqualTrans
  <2>5. Lt(x, y, cs) /\ Lt(y, z, cs) => Lt(x, z, cs)
    BY <1>1, <2>1, LtTrans
  <2>6. Lt(x, y, cs) /\ Eq(y, z, cs) => Lt(x, z, cs)
    <3>1. Lt(x, y, cs) => Lt(x, z, cs) \/ Lt(z, y, cs)
      BY <1>1, <2>1, LtSplit
    <3>2. Lt(z, y, cs) => ~Eq(y, z, cs)
      BY <1>1, <2>1, LtAsym
    <3>3. QED
      BY <3>1, <3>2
  <2>7. Eq(x, y, cs) /\ Lt(y, z, cs) => Lt(x, z, cs)
    <3>1. Lt(y, z, cs) => Lt(y, x, cs) \/ Lt(x, z, cs)
      BY <1>1, <2>1, LtSplit
    <3>2. Lt(y, x, cs) => ~Eq(x, y, cs)
      BY <1>2 DEF x, y
    <3>3. QED
      BY <3>1, <3>2
  <2>8. QED
    BY <2>2, <2>3, <2>4, <2>5, <2>6, <2>7 DEF Ahead, x, z
<1>7. QED
  BY <1>2, <1>3, <1>4, <1>5, <1>6 DEF Ahead

LEMMA StrSortRight ==
  ASSUME NEW cs \in BOOLEAN, NEW xs \in Seq(Bytes)
  PROVE  LET ys == StrSort(xs, cs)
         IN  /\ ys \in Seq(Bytes) /\ Len(ys) = Len(xs)
             /\ \A i \in 1..Len(xs) : \E j \in 1..Len(xs) : ys[i] = xs[j]
             /\ \A j \in 1..Len(xs) : \E i \in 1..Len(xs) : ys[i] = xs[j]
             /\ NoTwins(xs, cs) => \A i, j \in 1..Len(xs) : i < j => Lt(ys[i], ys[j], cs)
<1> DEFINE n == Len(xs)
           S == 1..n
           D(j) == {i \in S : Ahead(xs, i, j, cs)}
           r == [j \in S |-> Cardinality(D(j))]
           Of(i) == CHOOSE j \in S : r[j] = i - 1
           ys == StrSort(xs, cs)
<1>1. n \in Nat /\ DOMAIN xs = S /\ \A k \in 1..n : xs[k] \in Bytes
  BY LenProperties, ElementOfSeq
<1>2. IsFiniteSet(S) /\ Cardinality(S) = n
  <2> HIDE DEF n
  <2>1. QED
    BY <1>1, FS_Interval
<1>3. \A j \in S : IsFiniteSet(D(j)) /\ r[j] \in 0..(n - 1)
  <2> TAKE j \in S
  <2>1. D(j) \subseteq S \ {j}
    <3> HIDE DEF n
    <3> QED
      BY <1>1, AheadOrder
  <2>2. IsFiniteSet(S \ {j}) /\ Cardinality(S \ {j}) = n - 1
    <3> HIDE DEF n
    <3> QED
      BY <1>2, FS_RemoveElement
  <2> DEFINE d == D(j)
  <2>3. IsFiniteSet(d) /\ Cardinality(d) <= n - 1
    <3> HIDE DEF d, n
    <3> QED
      BY <2>1, <2>2, FS_Subset DEF d
  <2>4. Cardinality(d) \in Nat
    <3> HIDE DEF d
    <3> QED
      BY <2>3, FS_CardinalityType
  <2>5. r[j] = Cardinality(d)
    OBVIOUS
  <2> HIDE DEF d, r, n
  <2>6. QED
    BY <2>3, <2>4, <2>5, <1>1 DEF d
<1>4. ASSUME NEW i \in S, NEW j \in S, Ahead(xs, i, j, cs) PROVE r[i] < r[j]
  <2> DEFINE d == D(i)
             e == D(j)
  <2>1. d \subseteq e
    <3> SUFFICES ASSUME NEW k \in S, Ahead(xs, k, i, cs) PROVE Ahead(xs, k, j, cs)
      OBVIOUS
    <3> HIDE DEF n
    <3>1. QED
      BY <1>1, <1>4, AheadOrder
  <2>2. i \in e /\ i \notin d
    <3>1. ~Ahead(xs, i, i, cs)
      <4> HIDE DEF n
      <4> QED
        BY <1>1, AheadOrder
    <3>2. QED
      BY <3>1, <1>4
  <2>3. IsFiniteSet(e) /\ IsFiniteSet(d)
    BY <1>3
  <2>4. r[i] = Cardinality(d) /\ r[j] = Cardinality(e)
    OBVIOUS
  <2>5. Cardinality(d) <= Cardinality(e) /\ (Cardinality(d) = Cardinality(e) => d = e)
    <3> HIDE DEF d, e
    <3> QED
      BY <2>1, <2>3, FS_Subset
  <2>6. Cardinality(d) \in Nat /\ Cardinality(e) \in Nat
    <3> HIDE DEF d, e
    <3> QED
      BY <2>3, FS_CardinalityType
  <2> HIDE DEF d, e, r
  <2>7. QED
    BY <2>2, <2>4, <2>5, <2>6
<1>5. \A i, j \in S : r[i] = r[j] => i = j
  <2> SUFFICES ASSUME NEW i \in S, NEW j \in S, i # j PROVE r[i] # r[j]
    OBVIOUS
  <2>1. Ahead(xs, i, j, cs) \/ Ahead(xs, j, i, cs)
    <3> HIDE DEF n
    <3> QED
      BY <1>1, AheadOrder
  <2>2. r[i] < r[j] \/ r[j] < r[i]
    <3> HIDE DEF r, S
    <3> QED
      BY <2>1, <1>4
  <2>3. r[i] \in Int /\ r[j] \in Int
    <3>1. r[i] \in 0..(n - 1) /\ r[j] \in 0..(n - 1)
      BY <1>3
    <3> HIDE DEF r, n
    <3>2. QED
      BY <3>1
  <2> HIDE DEF r
  <2>4. QED
    BY <2>2, <2>3
<1>6. \A i \in 1..n : \E j \in S : r[j] = i - 1
  <2> DEFINE N == 0..(n - 1)
  <2>1. r \in [S -> N]
    BY <1>3
  <2>2. IsFiniteSet(N) /\ Cardinality(N) = n
    <3>1. 0 \in Int /\ n - 1 \in Int /\ n - 1 - 0 + 1 = n
      BY <1>1
    <3> DEFINE k == n - 1
    <3>2. IsFiniteSet(0..k) /\ Cardinality(0..k) = IF 0 > k THEN 0 ELSE k - 0 + 1
      <4>1. k \in Int
        BY <3>1
      <4> HIDE DEF k
      <4>2. QED
        BY <4>1, FS_Interval
    <3>3. QED
      BY <3>1, <3>2, <1>1
  <2> HIDE DEF N, r, n, S
  <2>3. r \in Injection(S, N)
    BY <2>1, <1>5 DEF Injection, IsInjective
  <2>4. r \in Surjection(S, N)
    BY <2>2, <2>3, <1>2, FS_Injection
  <2> TAKE i \in 1..n
  <2>5. i - 1 \in N
    BY <1>1 DEF N
  <2>6. QED
    BY <2>4, <2>5 DEF Surjection
<1>7. ys = [i \in 1..n |-> xs[Of(i)]]
  <2>1. DOMAIN xs = S
    BY <1>1
  <2> DEFINE G(T) == LET before == [j \in T |-> Cardinality({i \in T : Ahead(xs, i, j, cs)})]
                     IN  [m \in 1..Len(xs) |-> xs[CHOOSE j \in T : before[j] = m - 1]]
  <2>2. ys = G(DOMAIN xs)
    BY Zenon DEF StrSort, Ahead
  <2>3. G(S) = [i \in 1..n |-> xs[Of(i)]]
    BY Zenon
  <2> HIDE DEF ys, S, G, Of
  <2>4. QED
    BY <2>1, <2>2, <2>3
<1>8. \A i \in 1..n : Of(i) \in S /\ r[Of(i)] = i - 1
  <2> TAKE i \in 1..n
  <2>1. \E j \in S : r[j] = i - 1
    BY <1>6
  <2> HIDE DEF r, S
  <2>2. QED
    BY <2>1
<1> HIDE DEF ys, r, Of
<1>9. \A i \in 1..n : ys[i] = xs[Of(i)] /\ ys[i] \in Bytes
  <2> HIDE DEF n
  <2> QED
    BY <1>1, <1>7, <1>8
<1>10. ys \in Seq(Bytes) /\ Len(ys) = n
  <2> DEFINE B == Bytes
             k == n
  <2>1. ys \in [1..k -> B] /\ k \in Nat
    <3>1. \A i \in 1..n : xs[Of(i)] \in Bytes
      <4> HIDE DEF n
      <4> QED
        BY <1>1, <1>8
    <3> HIDE DEF n
    <3>2. QED
      BY <3>1, <1>1, <1>7
  <2> HIDE DEF k, B
  <2>2. ys \in Seq(B) /\ Len(ys) = k
    BY <2>1, FunctionIsSeq
  <2>3. QED
    BY <2>2 DEF k, B
<1>11. \A i \in 1..n : \E j \in 1..n : ys[i] = xs[j]
  BY <1>8, <1>9
<1>12. ASSUME NEW j \in 1..n PROVE \E i \in 1..n : ys[i] = xs[j]
  <2>1. r[j] \in 0..(n - 1)
    BY <1>3
  <2> DEFINE i == r[j] + 1
  <2>2. i \in 1..n /\ i - 1 = r[j]
    <3> HIDE DEF n
    <3> QED
      BY <2>1, <1>1
  <2> HIDE DEF i
  <2>3. Of(i) = j
    BY <2>2, <1>5, <1>8
  <2>4. QED
    BY <2>2, <2>3, <1>9
<1>13. ASSUME NoTwins(xs, cs), NEW i \in 1..n, NEW j \in 1..n, i < j PROVE Lt(ys[i], ys[j], cs)
  <2> DEFINE a == Of(i)
             b == Of(j)
  <2>1. a \in S /\ b \in S /\ r[a] = i - 1 /\ r[b] = j - 1 /\ ys[i] = xs[a] /\ ys[j] = xs[b]
    BY <1>8, <1>9
  <2> HIDE DEF a, b
  <2>2. a # b
    <3>1. i - 1 # j - 1
      BY <1>13, <1>1
    <3>2. QED
      BY <3>1, <2>1
  <2>3. ~Ahead(xs, b, a, cs)
    <3> SUFFICES ASSUME Ahead(xs, b, a, cs) PROVE FALSE
      OBVIOUS
    <3>1. r[b] < r[a]
      BY <2>1, <1>4
    <3>2. j - 1 < i - 1
      BY <3>1, <2>1
    <3>3. QED
      BY <3>2, <1>1, <1>13
  <2>4. Ahead(xs, a, b, cs)
    <3> HIDE DEF n
    <3> QED
      BY <2>1, <2>2, <2>3, <1>1, AheadOrder
  <2>5. ~Eq(xs[a], xs[b], cs)
    BY <2>1, <2>2, <1>13 DEF NoTwins
  <2>6. QED
    BY <2>1, <2>4, <2>5 DEF Ahead
<1>14. QED
  BY <1>10, <1>11, <1>12, <1>13 DEF ys

-----------------------------------------------------------------------------
(* A set of directories, whatever the order of their names and files.      *)

View == [path : Bytes, basename : Bytes, files : SUBSET Nat, subdirs : SUBSET Bytes]
Below(y, x, cs) == y.path # Root /\ Eq(Up(y.path, 1), x.path, cs)
Named(y) == y.path = Up(y.path, 1) \o y.basename \o <<Slash>>

\* Every directory is there once, with that which it lies in; and the names
\* that one has are those of the directories in it.
Family(F, cs) ==
  /\ F \subseteq View
  /\ \A x, y \in F : Eq(x.path, y.path, cs) => x = y
  /\ \A y \in F : y.path # Root => Named(y) /\ \E x \in F : Below(y, x, cs)
  /\ \A x, y \in F : Below(y, x, cs) => y.basename \in x.subdirs
  /\ \A x \in F : \A b \in x.subdirs : \E y \in F : Below(y, x, cs) /\ y.basename = b

Covers(F, H, cs) == \A d \in H : \E x \in F : Eq(x.path, d, cs)
FilesRight(F, paths, n, cs) ==
  \A x \in F : x.files = {i \in 1..n : Eq(DirOf(paths[i]), x.path, cs)}

LEMMA Join ==
  ASSUME NEW x \in Bytes, NEW b \in Bytes
  PROVE  LET z == x \o b \o <<Slash>>
         IN  /\ z \in Bytes /\ Len(z) = Len(x) + Len(b) + 1
             /\ \A k \in 1..Len(x) : z[k] = x[k]
             /\ \A k \in 1..Len(b) : z[Len(x) + k] = b[k]
             /\ z[Len(x) + Len(b) + 1] = Slash
<1> DEFINE y == x \o b
           z == y \o <<Slash>>
<1>1. x \in Seq(1..255) /\ b \in Seq(1..255) /\ <<Slash>> \in Seq(1..255)
  BY DEF Bytes, Slash
<1>2. Len(x) \in Nat /\ Len(b) \in Nat /\ Len(<<Slash>>) = 1 /\ <<Slash>>[1] = Slash
  BY <1>1, LenProperties
<1>3. /\ y \in Seq(1..255) /\ Len(y) = Len(x) + Len(b)
      /\ \A k \in 1..(Len(x) + Len(b)) : y[k] = IF k <= Len(x) THEN x[k] ELSE b[k - Len(x)]
  BY <1>1, ConcatProperties
<1> HIDE DEF y
<1>4. /\ z \in Seq(1..255) /\ Len(z) = Len(y) + 1
      /\ \A k \in 1..(Len(y) + 1) : z[k] = IF k <= Len(y) THEN y[k] ELSE <<Slash>>[k - Len(y)]
  <2> DEFINE s == <<Slash>>
             B == 1..255
  <2>0. s \in Seq(B) /\ y \in Seq(B)
    BY <1>1, <1>3
  <2> HIDE DEF s, B
  <2>1. /\ y \o s \in Seq(B) /\ Len(y \o s) = Len(y) + Len(s)
        /\ \A k \in 1..(Len(y) + Len(s)) : (y \o s)[k] = IF k <= Len(y) THEN y[k] ELSE s[k - Len(y)]
    BY <2>0, ConcatProperties
  <2>2. Len(s) = 1
    BY <1>2 DEF s
  <2>3. QED
    BY <2>1, <2>2 DEF s, B
<1> HIDE DEF z
<1>5. \A k \in 1..(Len(x) + Len(b)) : z[k] = y[k]
  BY <1>2, <1>3, <1>4
<1>6. \A k \in 1..Len(x) : z[k] = x[k]
  BY <1>2, <1>3, <1>5
<1>7. \A k \in 1..Len(b) : z[Len(x) + k] = b[k]
  <2> TAKE k \in 1..Len(b)
  <2>1. Len(x) + k \in 1..(Len(x) + Len(b)) /\ ~ (Len(x) + k <= Len(x)) /\ (Len(x) + k) - Len(x) = k
    BY <1>2
  <2>2. QED
    BY <2>1, <1>3, <1>5
<1>8. z[Len(x) + Len(b) + 1] = Slash
  <2>1. /\ Len(y) + 1 \in 1..(Len(y) + 1) /\ ~ (Len(y) + 1 <= Len(y)) /\ (Len(y) + 1) - Len(y) = 1
    BY <1>2, <1>3
  <2>2. QED
    BY <2>1, <1>2, <1>3, <1>4
<1>9. QED
  BY <1>3, <1>4, <1>6, <1>7, <1>8 DEF y, z, Bytes

LEMMA JoinEqual ==
  ASSUME NEW cs \in BOOLEAN, NEW x \in Bytes, NEW y \in Bytes, NEW b \in Bytes, NEW c \in Bytes,
         Eq(x, y, cs), Eq(b, c, cs)
  PROVE  Eq(x \o b \o <<Slash>>, y \o c \o <<Slash>>, cs)
<1> DEFINE u == x \o b \o <<Slash>>
           v == y \o c \o <<Slash>>
<1>1. /\ Len(x) = Len(y) /\ \A k \in 1..Len(x) : Value(x[k], cs) = Value(y[k], cs)
      /\ Len(b) = Len(c) /\ \A k \in 1..Len(b) : Value(b[k], cs) = Value(c[k], cs)
  BY Equal
<1>2. Len(x) \in Nat /\ Len(b) \in Nat
  BY Length
<1>3. /\ u \in Bytes /\ Len(u) = Len(x) + Len(b) + 1
      /\ \A k \in 1..Len(x) : u[k] = x[k]
      /\ \A k \in 1..Len(b) : u[Len(x) + k] = b[k]
      /\ u[Len(x) + Len(b) + 1] = Slash
  BY Join
<1>4. /\ v \in Bytes /\ Len(v) = Len(y) + Len(c) + 1
      /\ \A k \in 1..Len(y) : v[k] = y[k]
      /\ \A k \in 1..Len(c) : v[Len(y) + k] = c[k]
      /\ v[Len(y) + Len(c) + 1] = Slash
  BY Join
<1> HIDE DEF u, v
<1>5. ASSUME NEW k \in 1..Len(u) PROVE Value(u[k], cs) = Value(v[k], cs)
  <2>1. CASE k \in 1..Len(x)
    BY <2>1, <1>1, <1>3, <1>4
  <2>2. CASE k = Len(x) + Len(b) + 1
    BY <2>2, <1>1, <1>3, <1>4
  <2>3. CASE k > Len(x) /\ k <= Len(x) + Len(b)
    <3> DEFINE j == k - Len(x)
    <3>1. j \in 1..Len(b) /\ k = Len(x) + j
      BY <2>3, <1>2
    <3> HIDE DEF j
    <3>2. QED
      BY <3>1, <1>1, <1>3, <1>4
  <2>4. k \in 1..(Len(x) + Len(b) + 1)
    BY <1>3
  <2>5. QED
    BY <2>1, <2>2, <2>3, <2>4, <1>2
<1>6. Len(u) = Len(v)
  BY <1>1, <1>3, <1>4
<1>7. Eq(u, v, cs)
  BY <1>3, <1>4, <1>5, <1>6, Equal
<1>8. QED
  BY <1>7 DEF u, v

\* A directory in x is x with a name and a slash, and the other way round.
LEMMA BelowJoin ==
  ASSUME NEW cs \in BOOLEAN, NEW y \in View, Named(y), NEW x \in View
  PROVE  /\ Up(y.path, 1) \in Bytes
         /\ Below(y, x, cs) => Eq(y.path, x.path \o y.basename \o <<Slash>>, cs)
         /\ Eq(y.path, x.path \o y.basename \o <<Slash>>, cs) => Below(y, x, cs)
<1> DEFINE p == y.path
           b == y.basename
           q == x.path
           u == Up(p, 1)
           z == q \o b \o <<Slash>>
<1>1. p \in Bytes /\ b \in Bytes /\ q \in Bytes /\ u \in Bytes
  <2>1. p \in Bytes /\ b \in Bytes /\ q \in Bytes
    BY DEF View
  <2> HIDE DEF p
  <2>2. QED
    BY <2>1, UpRecursion
<1>2. p = u \o b \o <<Slash>>
  BY DEF Named
<1> HIDE DEF p, b, q, u
<1>3. Eq(u, q, cs) => Eq(p, z, cs)
  BY <1>1, <1>2, EqualRefl, JoinEqual
<1>4. ASSUME Eq(p, z, cs) PROVE p # Root /\ Eq(u, q, cs)
  <2>1. /\ p \in Bytes /\ Len(p) = Len(u) + Len(b) + 1 /\ \A k \in 1..Len(u) : p[k] = u[k]
    BY <1>1, <1>2, Join
  <2>2. z \in Bytes /\ Len(z) = Len(q) + Len(b) + 1 /\ \A k \in 1..Len(q) : z[k] = q[k]
    BY <1>1, Join
  <2>3. Len(u) \in Nat /\ Len(q) \in Nat /\ Len(b) \in Nat
    BY <1>1, Length
  <2> HIDE DEF z
  <2>4. Len(p) = Len(z) /\ \A k \in 1..Len(p) : Value(p[k], cs) = Value(z[k], cs)
    BY <1>4, <2>1, <2>2, Equal
  <2>5. Len(u) = Len(q) /\ \A k \in 1..Len(u) : k \in 1..Len(p)
    BY <2>1, <2>2, <2>3, <2>4
  <2>6. \A k \in 1..Len(u) : Value(u[k], cs) = Value(q[k], cs)
    BY <2>1, <2>2, <2>4, <2>5
  <2>7. Eq(u, q, cs)
    BY <1>1, <2>5, <2>6, Equal
  <2>8. p # Root
    <3>1. Len(p) # 0
      BY <2>1, <2>3
    <3>2. QED
      BY <3>1, <1>1, Length DEF Root
  <2>9. QED
    BY <2>7, <2>8
<1>5. Below(y, x, cs) <=> p # Root /\ Eq(u, q, cs)
  BY DEF Below, p, q, u
<1>6. QED
  BY <1>1, <1>3, <1>4, <1>5 DEF p, b, q, u, z

LEMMA ViewOf ==
  ASSUME NEW x \in View
  PROVE  /\ x.path \in Bytes /\ x.basename \in Bytes /\ x.files \subseteq Nat /\ x.subdirs \subseteq Bytes
         /\ Up(x.path, 1) \in Bytes
<1>1. x.path \in Bytes /\ x.basename \in Bytes /\ x.files \subseteq Nat /\ x.subdirs \subseteq Bytes
  BY DEF View
<1> DEFINE p == x.path
<1>2. p \in Bytes
  BY <1>1
<1> HIDE DEF p
<1>3. Up(p, 1) \in Bytes
  BY <1>2, UpRecursion
<1>4. QED
  BY <1>1, <1>3 DEF p

\* A file more in one of them.
LEMMA FileFamily ==
  ASSUME NEW cs \in BOOLEAN, NEW A, NEW x, Family(A \cup {x}, cs), \A g \in A : ~Eq(g.path, x.path, cs),
         NEW z \in View, z.path = x.path, z.basename = x.basename, z.subdirs = x.subdirs
  PROVE  Family(A \cup {z}, cs)
<1> DEFINE F == A \cup {x}
           H == A \cup {z}
<1>1. F \subseteq View /\ x \in F
  BY DEF Family
<1>2. H \subseteq View
  BY <1>1
<1>3. ASSUME NEW a \in H, NEW b \in H, Eq(a.path, b.path, cs) PROVE a = b
  <2>1. a.path \in Bytes /\ b.path \in Bytes
    BY <1>2, ViewOf
  <2>2. Eq(b.path, a.path, cs)
    BY <1>3, <2>1, EqualSym
  <2>3. CASE a \in A /\ b \in A
    BY <1>3, <2>3 DEF Family
  <2>4. CASE a = z /\ b \in A
    BY <2>2, <2>4
  <2>5. CASE a \in A /\ b = z
    BY <1>3, <2>5
  <2>6. QED
    BY <2>3, <2>4, <2>5
<1>4. ASSUME NEW a \in H, a.path # Root PROVE Named(a) /\ \E b \in H : Below(a, b, cs)
  <2>1. PICK c \in F : c.path = a.path /\ c.basename = a.basename
    OBVIOUS
  <2>2. Named(c) /\ \E b \in F : Below(c, b, cs)
    BY <1>4, <2>1 DEF Family
  <2>3. PICK b \in F : Below(c, b, cs)
    BY <2>2
  <2>4. PICK d \in H : d.path = b.path
    OBVIOUS
  <2>5. Named(a)
    BY <2>1, <2>2 DEF Named
  <2>6. Below(a, d, cs)
    BY <2>1, <2>3, <2>4 DEF Below
  <2>7. QED
    BY <2>5, <2>6
<1>5. ASSUME NEW a \in H, NEW b \in H, Below(b, a, cs) PROVE b.basename \in a.subdirs
  <2>1. PICK c \in F : c.path = a.path /\ c.subdirs = a.subdirs
    OBVIOUS
  <2>2. PICK d \in F : d.path = b.path /\ d.basename = b.basename
    OBVIOUS
  <2>3. Below(d, c, cs)
    BY <1>5, <2>1, <2>2 DEF Below
  <2>4. QED
    BY <2>1, <2>2, <2>3 DEF Family
<1>6. ASSUME NEW a \in H, NEW b \in a.subdirs PROVE \E y \in H : Below(y, a, cs) /\ y.basename = b
  <2>1. PICK c \in F : c.path = a.path /\ c.subdirs = a.subdirs
    OBVIOUS
  <2>2. PICK y \in F : Below(y, c, cs) /\ y.basename = b
    BY <2>1 DEF Family
  <2>3. PICK d \in H : d.path = y.path /\ d.basename = y.basename
    OBVIOUS
  <2>4. Below(d, a, cs)
    BY <2>1, <2>2, <2>3 DEF Below
  <2>5. QED
    BY <2>2, <2>3, <2>4
<1> HIDE DEF H
<1>7. Family(H, cs)
  BY <1>2, <1>3, <1>4, <1>5, <1>6 DEF Family
<1>8. QED
  BY <1>7 DEF H

\* A new directory in one of them.
LEMMA PushFamily ==
  ASSUME NEW cs \in BOOLEAN, NEW A, NEW x, Family(A \cup {x}, cs), \A g \in A : ~Eq(g.path, x.path, cs),
         NEW y \in View, Named(y), Below(y, x, cs), y.subdirs = {},
         \A g \in A \cup {x} : ~Eq(g.path, y.path, cs),
         NEW z \in View, z.path = x.path, z.basename = x.basename, z.subdirs = x.subdirs \cup {y.basename}
  PROVE  Family(A \cup {z, y}, cs)
<1> DEFINE F == A \cup {x}
           E == A \cup {z}
           H == A \cup {z, y}
<1>1. F \subseteq View /\ x \in F
  BY DEF Family
<1>2. H \subseteq View /\ E \subseteq H /\ y \in H /\ z \in H
  BY <1>1
<1>3. \A a \in E : ~Eq(a.path, y.path, cs) /\ ~Eq(y.path, a.path, cs)
  <2> TAKE a \in E
  <2>1. ~Eq(a.path, y.path, cs)
    OBVIOUS
  <2>2. a.path \in Bytes /\ y.path \in Bytes
    BY <1>2, ViewOf
  <2>3. QED
    BY <2>1, <2>2, EqualSym
<1>4. ASSUME NEW a \in H, NEW b \in H, Eq(a.path, b.path, cs) PROVE a = b
  <2>1. a.path \in Bytes /\ b.path \in Bytes
    BY <1>2, ViewOf
  <2>2. Eq(b.path, a.path, cs)
    BY <1>4, <2>1, EqualSym
  <2>3. CASE a \in A /\ b \in A
    BY <1>4, <2>3 DEF Family
  <2>4. CASE a = z /\ b \in A
    BY <2>2, <2>4
  <2>5. CASE a \in A /\ b = z
    BY <1>4, <2>5
  <2>6. CASE a = y \/ b = y
    BY <1>3, <1>4, <2>6
  <2>7. QED
    BY <2>3, <2>4, <2>5, <2>6
\* Nothing was in the new one before.
<1>5. ASSUME NEW a \in H, Below(a, y, cs) PROVE FALSE
  <2>1. a.path # Root /\ Eq(Up(a.path, 1), y.path, cs) /\ Up(a.path, 1) \in Bytes /\ y.path \in Bytes
    BY <1>2, <1>5, ViewOf DEF Below
  <2>2. Eq(y.path, Up(a.path, 1), cs)
    BY <2>1, EqualSym
  <2>3. PICK b \in F : Eq(Up(a.path, 1), b.path, cs)
    <3>1. CASE a = y
      BY <3>1, <1>1 DEF Below
    <3>2. CASE a \in E
      <4>1. PICK c \in F : c.path = a.path
        BY <3>2
      <4>2. \E b \in F : Below(c, b, cs)
        BY <2>1, <4>1 DEF Family
      <4>3. QED
        BY <4>1, <4>2 DEF Below
    <3>3. QED
      BY <3>1, <3>2
  <2>4. b.path \in Bytes
    BY <1>1, ViewOf
  <2>5. Eq(y.path, b.path, cs)
    BY <2>1, <2>2, <2>3, <2>4, EqualTrans
  <2>6. Eq(b.path, y.path, cs)
    BY <2>1, <2>4, <2>5, EqualSym
  <2>7. QED
    BY <2>6
<1>6. ASSUME NEW a \in H, a.path # Root PROVE Named(a) /\ \E b \in H : Below(a, b, cs)
  <2>1. CASE a = y
    BY <2>1, <1>2 DEF Below
  <2>2. CASE a \in E
    <3>1. PICK c \in F : c.path = a.path /\ c.basename = a.basename
      BY <2>2
    <3>2. Named(c) /\ \E b \in F : Below(c, b, cs)
      BY <1>6, <3>1 DEF Family
    <3>3. PICK b \in F : Below(c, b, cs)
      BY <3>2
    <3>4. PICK d \in H : d.path = b.path
      OBVIOUS
    <3>5. Named(a)
      BY <3>1, <3>2 DEF Named
    <3>6. Below(a, d, cs)
      BY <3>1, <3>3, <3>4 DEF Below
    <3>7. QED
      BY <3>5, <3>6
  <2>3. QED
    BY <2>1, <2>2
<1>7. ASSUME NEW a \in H, NEW b \in H, Below(b, a, cs) PROVE b.basename \in a.subdirs
  <2>1. CASE a = y
    BY <2>1, <1>5, <1>7
  <2>2. CASE a \in E /\ b \in E
    <3>1. PICK c \in F : c.path = a.path /\ c.subdirs \subseteq a.subdirs
      BY <2>2
    <3>2. PICK d \in F : d.path = b.path /\ d.basename = b.basename
      BY <2>2
    <3>3. Below(d, c, cs)
      BY <1>7, <3>1, <3>2 DEF Below
    <3>4. d.basename \in c.subdirs
      BY <3>3 DEF Family
    <3>5. QED
      BY <3>1, <3>2, <3>4
  <2>3. CASE a = z /\ b = y
    BY <2>3
  <2>4. CASE a \in A /\ b = y
    <3>1. Eq(Up(y.path, 1), x.path, cs) /\ Eq(Up(y.path, 1), a.path, cs)
      BY <1>7, <2>4 DEF Below
    <3>2. Up(y.path, 1) \in Bytes /\ x.path \in Bytes /\ a.path \in Bytes
      BY <1>1, <1>2, ViewOf
    <3>3. Eq(a.path, Up(y.path, 1), cs)
      BY <3>1, <3>2, EqualSym
    <3>4. Eq(a.path, x.path, cs)
      BY <3>1, <3>2, <3>3, EqualTrans
    <3>5. QED
      BY <2>4, <3>4
  <2>5. QED
    BY <2>1, <2>2, <2>3, <2>4
<1>8. ASSUME NEW a \in H, NEW b \in a.subdirs PROVE \E w \in H : Below(w, a, cs) /\ w.basename = b
  <2>1. CASE a = z /\ b = y.basename
    <3>1. Below(y, a, cs)
      BY <2>1 DEF Below
    <3>2. QED
      BY <2>1, <3>1
  <2>2. CASE a \in E /\ ~ (a = z /\ b = y.basename)
    <3>1. PICK c \in F : c.path = a.path /\ b \in c.subdirs
      BY <2>2
    <3>2. PICK w \in F : Below(w, c, cs) /\ w.basename = b
      BY <3>1 DEF Family
    <3>3. PICK d \in H : d.path = w.path /\ d.basename = w.basename
      OBVIOUS
    <3>4. Below(d, a, cs)
      BY <3>1, <3>2, <3>3 DEF Below
    <3>5. QED
      BY <3>2, <3>3, <3>4
  <2>3. CASE a = y
    BY <2>3
  <2>4. QED
    BY <2>1, <2>2, <2>3
<1> HIDE DEF H
<1>9. Family(H, cs)
  BY <1>2, <1>4, <1>6, <1>7, <1>8 DEF Family
<1>10. QED
  BY <1>9 DEF H

\* The name of a new directory is none of those that the one it is in has.
LEMMA NewName ==
  ASSUME NEW cs \in BOOLEAN, NEW F, Family(F, cs), NEW x \in F,
         NEW y \in View, Named(y), Below(y, x, cs), \A g \in F : ~Eq(g.path, y.path, cs)
  PROVE  \A b \in x.subdirs : ~Eq(b, y.basename, cs)
<1> SUFFICES ASSUME NEW b \in x.subdirs, Eq(b, y.basename, cs) PROVE FALSE
  OBVIOUS
<1>1. F \subseteq View
  BY DEF Family
<1>2. PICK w \in F : Below(w, x, cs) /\ w.basename = b
  BY DEF Family
<1>3. Named(w)
  <2>1. w.path # Root
    BY <1>2 DEF Below
  <2>2. QED
    BY <2>1 DEF Family
<1>4. Eq(y.path, x.path \o y.basename \o <<Slash>>, cs)
  BY <1>1, BelowJoin
<1>5. Eq(w.path, x.path \o b \o <<Slash>>, cs)
  BY <1>1, <1>2, <1>3, BelowJoin
<1> DEFINE u == x.path \o b \o <<Slash>>
           v == x.path \o y.basename \o <<Slash>>
<1>6. x.path \in Bytes /\ b \in Bytes /\ y.basename \in Bytes /\ w.path \in Bytes /\ y.path \in Bytes
  BY <1>1, <1>2, ViewOf
<1>7. u \in Bytes /\ v \in Bytes
  BY <1>6, Join
<1>8. Eq(u, v, cs)
  BY <1>6, EqualRefl, JoinEqual
<1> HIDE DEF u, v
<1>9. Eq(w.path, v, cs)
  BY <1>5, <1>6, <1>7, <1>8, EqualTrans DEF u
<1>10. Eq(v, y.path, cs)
  BY <1>4, <1>6, <1>7, EqualSym DEF v
<1>11. Eq(w.path, y.path, cs)
  BY <1>6, <1>7, <1>9, <1>10, EqualTrans
<1>12. QED
  BY <1>11

-----------------------------------------------------------------------------
(* The directories of a stack and those that are done.                     *)

Seen(d) == [path |-> d.path, basename |-> d.basename, files |-> Range(d.files), subdirs |-> Range(d.subdirs)]
Views(t) == {Seen(t.stack[k]) : k \in 1..Len(t.stack)} \cup {Seen(t.dirs[m]) : m \in 1..Len(t.dirs)}

Rising(xs, cs) == \A i, j \in 1..Len(xs) : i < j => Lt(xs[i], xs[j], cs)
Apart(t, cs) ==
  /\ \A i, j \in 1..Len(t.dirs) : Eq(t.dirs[i].path, t.dirs[j].path, cs) => i = j
  /\ \A i \in 1..Len(t.dirs), k \in 1..Len(t.stack) : ~Eq(t.dirs[i].path, t.stack[k].path, cs)
NamesRight(t, cs) ==
  /\ \A k \in 1..Len(t.stack) : NoTwins(t.stack[k].subdirs, cs)
  /\ \A m \in 1..Len(t.dirs) : Rising(t.dirs[m].subdirs, cs)

\* No path from the one at e lies in the directory.
Past(d, paths, e, cs) ==
  \A m \in e..Len(paths) : \A c \in SlashesIn(paths[m]) : ~Eq(SubSeq(paths[m], 1, c), d, cs)
Closed(t, paths, e, cs) == \A m \in 1..Len(t.dirs) : Past(t.dirs[m].path, paths, e, cs)

\* The directories are those of n paths, and what is done is so for those from e.
Whole(t, paths, n, e, cs) ==
  /\ Family(Views(t), cs) /\ Apart(t, cs) /\ NamesRight(t, cs)
  /\ FilesRight(Views(t), paths, n, cs) /\ Closed(t, paths, e, cs)

LEMMA RangeOf ==
  ASSUME NEW S, NEW xs \in Seq(S)
  PROVE  Range(xs) = {xs[i] : i \in 1..Len(xs)} /\ Range(xs) \subseteq S
<1>1. DOMAIN xs = 1..Len(xs) /\ \A i \in 1..Len(xs) : xs[i] \in S
  BY LenProperties, ElementOfSeq
<1>2. QED
  BY <1>1 DEF Range

LEMMA SeenType ==
  ASSUME NEW d \in Building \cup Built
  PROVE  /\ Seen(d) \in View /\ d.subdirs \in Seq(Bytes) /\ d.files \in Seq(Nat)
         /\ d.path \in Bytes /\ d.basename \in Bytes
<1>1. d.subdirs \in Seq(Bytes)
  <2>1. CASE d \in Building
    BY <2>1 DEF Building
  <2>2. CASE d \in Built
    <3>1. PICK xs \in Seq(Bytes), cs \in BOOLEAN : d.subdirs = StrSort(xs, cs)
      BY <2>2 DEF Built, SubdirsSorted
    <3>2. QED
      BY <3>1, StrSortRight
  <2>3. QED
    BY <2>1, <2>2
<1>2. d.files \in Seq(Nat) /\ d.path \in Bytes /\ d.basename \in Bytes
  BY DEF Building, Built
<1>3. Range(d.subdirs) \subseteq Bytes /\ Range(d.files) \subseteq Nat
  <2>1. Range(d.subdirs) \subseteq Bytes
    BY <1>1, RangeOf
  <2>2. Range(d.files) \subseteq Nat
    BY <1>2, RangeOf
  <2>3. QED
    BY <2>1, <2>2
<1>4. QED
  BY <1>1, <1>2, <1>3 DEF Seen, View

\* Sorting names keeps them.
LEMMA SortedNames ==
  ASSUME NEW cs \in BOOLEAN, NEW xs \in Seq(Bytes)
  PROVE  /\ Range(StrSort(xs, cs)) = Range(xs)
         /\ NoTwins(xs, cs) => Rising(StrSort(xs, cs), cs)
<1> DEFINE ys == StrSort(xs, cs)
           n == Len(xs)
<1>1. /\ ys \in Seq(Bytes) /\ Len(ys) = n
      /\ \A i \in 1..n : \E j \in 1..n : ys[i] = xs[j]
      /\ \A j \in 1..n : \E i \in 1..n : ys[i] = xs[j]
      /\ NoTwins(xs, cs) => \A i, j \in 1..n : i < j => Lt(ys[i], ys[j], cs)
  BY StrSortRight
<1> HIDE DEF ys
<1>2. Range(ys) = {ys[i] : i \in 1..n} /\ Range(xs) = {xs[i] : i \in 1..n}
  BY <1>1, RangeOf
<1> HIDE DEF n
<1>3. Range(ys) = Range(xs)
  <2>1. \A v \in Range(ys) : v \in Range(xs)
    BY <1>1, <1>2
  <2>2. \A v \in Range(xs) : v \in Range(ys)
    BY <1>1, <1>2
  <2>3. QED
    BY <2>1, <2>2
<1>4. NoTwins(xs, cs) => Rising(ys, cs)
  BY <1>1 DEF Rising
<1>5. QED
  BY <1>3, <1>4 DEF ys

LEMMA StackApart ==
  ASSUME NEW cs \in BOOLEAN, NEW st \in Seq(Building), Chain(st, cs),
         NEW i \in 1..Len(st), NEW j \in 1..Len(st), Eq(st[i].path, st[j].path, cs)
  PROVE  i = j
<1>1. st[i].path \in Bytes /\ st[j].path \in Bytes /\ Len(st) \in Nat
  BY StackTypes
<1>2. SlashesIn(st[i].path) = SlashesIn(st[j].path)
  BY <1>1, EqualFirst
<1>3. Cardinality(SlashesIn(st[i].path)) = i - 1 /\ Cardinality(SlashesIn(st[j].path)) = j - 1
  BY DEF Chain, Deep
<1>4. i - 1 = j - 1
  BY <1>2, <1>3
<1>5. QED
  BY <1>1, <1>4

\* What popping does to the directories: nothing but the order of names.
LEMMA PopSame ==
  ASSUME NEW cs \in BOOLEAN, NEW D, NEW t, Right(t, cs, D), t.stack # <<>>
  PROVE  LET L == Len(t.stack)
             M == Len(t.dirs)
             u == PopDir(t, cs)
         IN  /\ L \in Nat \ {0} /\ M \in Nat /\ Len(u.stack) = L - 1 /\ Len(u.dirs) = M + 1
             /\ \A k \in 1..(L - 1) : u.stack[k] = t.stack[k]
             /\ \A m \in 1..M : u.dirs[m] = t.dirs[m]
             /\ Seen(u.dirs[M + 1]) = Seen(t.stack[L]) /\ u.dirs[M + 1].path = t.stack[L].path
             /\ NoTwins(t.stack[L].subdirs, cs) => Rising(u.dirs[M + 1].subdirs, cs)
<1> DEFINE st == t.stack
           ds == t.dirs
           L == Len(st)
           M == Len(ds)
           top == st[L]
           new == [top EXCEPT !.subdirs = StrSort(@, cs)]
           u == PopDir(t, cs)
<1>1. t \in Stacks /\ st \in Seq(Building) /\ ds \in Seq(Built)
  BY DEF Right, Stacks
<1>2. L \in Nat \ {0} /\ M \in Nat /\ top \in Building
  <2>1. L # 0
    BY <1>1, EmptySeq
  <2>2. L \in Nat /\ M \in Nat
    BY <1>1, StackTypes, BuiltTypes
  <2>3. L \in 1..L
    BY <2>1, <2>2
  <2>4. QED
    BY <1>1, <2>1, <2>2, <2>3, StackTypes
<1>3. top.subdirs \in Seq(Bytes) /\ top.path \in Bytes
  BY <1>2, SeenType
<1>4. /\ new.path = top.path /\ new.basename = top.basename /\ new.files = top.files
      /\ new.subdirs = StrSort(top.subdirs, cs)
  <2> HIDE DEF top
  <2> QED
    BY <1>2 DEF Building
<1>5. new \in Built
  <2>1. StrSort(top.subdirs, cs) \in SubdirsSorted
    BY <1>3 DEF SubdirsSorted
  <2> HIDE DEF top
  <2>2. QED
    BY <2>1, <1>2 DEF Building, Built
<1>6. u = [stack |-> SubSeq(st, 1, L - 1), dirs |-> Append(ds, new)]
  BY DEF PopDir, Front, Last
<1> HIDE DEF new, u, top
<1>7. /\ Len(SubSeq(st, 1, L - 1)) = L - 1 /\ \A k \in 1..(L - 1) : SubSeq(st, 1, L - 1)[k] = st[k]
  <2>1. L - 1 \in 0..L
    BY <1>2
  <2>2. QED
    BY <1>1, <2>1, Prefix
<1>8. Len(Append(ds, new)) = M + 1 /\ Append(ds, new)[M + 1] = new /\ \A m \in 1..M : Append(ds, new)[m] = ds[m]
  BY <1>1, <1>5, AppendProperties
<1>9. u.stack = SubSeq(st, 1, L - 1) /\ u.dirs = Append(ds, new)
  BY <1>6
<1>10. Range(new.subdirs) = Range(top.subdirs) /\ (NoTwins(top.subdirs, cs) => Rising(new.subdirs, cs))
  BY <1>3, <1>4, SortedNames
<1>11. Seen(new) = Seen(top)
  BY <1>4, <1>10 DEF Seen
<1>12. /\ Len(u.stack) = L - 1 /\ Len(u.dirs) = M + 1
       /\ \A k \in 1..(L - 1) : u.stack[k] = st[k]
       /\ \A m \in 1..M : u.dirs[m] = ds[m]
       /\ u.dirs[M + 1] = new
  BY <1>7, <1>8, <1>9
<1>13. QED
  BY <1>2, <1>4, <1>10, <1>11, <1>12 DEF u, top, new

LEMMA PopWhole ==
  ASSUME NEW cs \in BOOLEAN, NEW D, NEW t, Right(t, cs, D), t.stack # <<>>,
         NEW paths, NEW n, NEW e, Whole(t, paths, n, e, cs), Past(Last(t.stack).path, paths, e, cs)
  PROVE  Whole(PopDir(t, cs), paths, n, e, cs) /\ Views(PopDir(t, cs)) = Views(t)
<1> DEFINE L == Len(t.stack)
           M == Len(t.dirs)
           u == PopDir(t, cs)
<1>1. /\ L \in Nat \ {0} /\ M \in Nat /\ Len(u.stack) = L - 1 /\ Len(u.dirs) = M + 1
      /\ \A k \in 1..(L - 1) : u.stack[k] = t.stack[k]
      /\ \A m \in 1..M : u.dirs[m] = t.dirs[m]
      /\ Seen(u.dirs[M + 1]) = Seen(t.stack[L]) /\ u.dirs[M + 1].path = t.stack[L].path
      /\ NoTwins(t.stack[L].subdirs, cs) => Rising(u.dirs[M + 1].subdirs, cs)
  BY PopSame, Zenon
<1>2. t.stack \in Seq(Building) /\ Chain(t.stack, cs) /\ t.dirs \in Seq(Built)
  BY DEF Right, Stacks
<1> HIDE DEF u
<1>3. L \in 1..L /\ (\A k \in 1..(L - 1) : k \in 1..L /\ k # L) /\ (\A k \in 1..L : k \in 1..(L - 1) \/ k = L)
      /\ M + 1 \in 1..(M + 1) /\ (\A m \in 1..(M + 1) : m \in 1..M \/ m = M + 1) /\ (\A m \in 1..M : m \in 1..(M + 1))
  <2> HIDE DEF L, M
  <2> QED
    BY <1>1
<1>4. Views(u) = Views(t)
  <2> DEFINE A == {Seen(t.stack[k]) : k \in 1..(L - 1)}
             B == {Seen(t.dirs[m]) : m \in 1..M}
             x == Seen(t.stack[L])
  <2>1. {Seen(t.stack[k]) : k \in 1..L} = A \cup {x}
    <3> HIDE DEF L, M
    <3> QED
      BY <1>3
  <2>2. {Seen(u.stack[k]) : k \in 1..(L - 1)} = A
    <3> HIDE DEF L, M
    <3> QED
      BY <1>1
  <2>3. {Seen(u.dirs[m]) : m \in 1..(M + 1)} = B \cup {x}
    <3>1. \A m \in 1..M : Seen(u.dirs[m]) = Seen(t.dirs[m])
      BY <1>1
    <3> HIDE DEF L, M
    <3>2. QED
      BY <3>1, <1>1, <1>3
  <2>4. Views(t) = {Seen(t.stack[k]) : k \in 1..L} \cup B
    BY DEF Views
  <2>5. Views(u) = {Seen(u.stack[k]) : k \in 1..(L - 1)} \cup {Seen(u.dirs[m]) : m \in 1..(M + 1)}
    BY <1>1 DEF Views
  <2> HIDE DEF A, B, x
  <2>6. QED
    BY <2>1, <2>2, <2>3, <2>4, <2>5
<1>5. \A k \in 1..L : t.stack[k].path \in Bytes
  BY <1>2, StackTypes
<1>6. \A m \in 1..M : t.dirs[m].path \in Bytes
  BY <1>2, BuiltTypes
<1>7. Apart(u, cs)
  <2>1. ASSUME NEW i \in 1..(M + 1), NEW j \in 1..(M + 1), Eq(u.dirs[i].path, u.dirs[j].path, cs) PROVE i = j
    <3>1. \A m \in 1..M : ~Eq(t.dirs[m].path, t.stack[L].path, cs) /\ ~Eq(t.stack[L].path, t.dirs[m].path, cs)
      <4> TAKE m \in 1..M
      <4>1. ~Eq(t.dirs[m].path, t.stack[L].path, cs)
        BY <1>3 DEF Whole, Apart
      <4>2. QED
        BY <4>1, <1>3, <1>5, <1>6, EqualSym
    <3>2. CASE i \in 1..M /\ j \in 1..M
      BY <3>2, <2>1, <1>1 DEF Whole, Apart
    <3>3. CASE i \in 1..M /\ j = M + 1
      BY <3>1, <3>3, <2>1, <1>1
    <3>4. CASE i = M + 1 /\ j \in 1..M
      BY <3>1, <3>4, <2>1, <1>1
    <3>5. QED
      BY <3>2, <3>3, <3>4, <1>3
  <2>2. ASSUME NEW i \in 1..(M + 1), NEW k \in 1..(L - 1) PROVE ~Eq(u.dirs[i].path, u.stack[k].path, cs)
    <3>1. u.stack[k] = t.stack[k] /\ k \in 1..L /\ k # L
      BY <1>1, <1>3
    <3>2. CASE i \in 1..M
      BY <3>1, <3>2, <1>1 DEF Whole, Apart
    <3>3. CASE i = M + 1
      BY <3>1, <3>3, <1>1, <1>2, <1>3, StackApart
    <3>4. QED
      BY <3>2, <3>3, <1>3
  <2>3. QED
    BY <2>1, <2>2, <1>1 DEF Apart
<1>8. NamesRight(u, cs)
  <2>1. \A k \in 1..(L - 1) : NoTwins(u.stack[k].subdirs, cs)
    BY <1>1, <1>3 DEF Whole, NamesRight
  <2>2. \A m \in 1..M : Rising(u.dirs[m].subdirs, cs)
    BY <1>1 DEF Whole, NamesRight
  <2>3. Rising(u.dirs[M + 1].subdirs, cs)
    BY <1>1, <1>3 DEF Whole, NamesRight
  <2>4. QED
    BY <2>1, <2>2, <2>3, <1>1, <1>3 DEF NamesRight
<1>9. Closed(u, paths, e, cs)
  <2>1. \A m \in 1..M : Past(u.dirs[m].path, paths, e, cs)
    BY <1>1 DEF Whole, Closed
  <2>2. Past(u.dirs[M + 1].path, paths, e, cs)
    BY <1>1 DEF Last
  <2>3. QED
    BY <2>1, <2>2, <1>1, <1>3 DEF Closed
<1>10. Whole(u, paths, n, e, cs)
  BY <1>4, <1>7, <1>8, <1>9 DEF Whole
<1>11. QED
  BY <1>4, <1>10 DEF u

\* Popping down to a level is popping so many.
LEMMA PopToPopping ==
  ASSUME NEW s, NEW cs, s.stack \in Seq(Building), NEW depth \in (-1)..(Len(s.stack) - 1)
  PROVE  LET n == Len(s.stack) - 1 - depth
         IN  n \in 0..Len(s.stack) /\ n \in Nat /\ PopTo(s, depth, cs) = Popping(s, n, cs)[n]
<1> DEFINE L == Len(s.stack)
           n == L - 1 - depth
<1>1. L \in Nat
  BY StackTypes
<1>2. n \in 0..L /\ n \in Nat
  <2>1. depth \in Int /\ -1 <= depth /\ depth <= L - 1
    BY <1>1
  <2> HIDE DEF L
  <2>2. QED
    BY <1>1, <2>1
<1>3. Max({0, n}) = n
  <2> HIDE DEF n
  <2>1. {0, n} \in SUBSET (0..n) /\ {0, n} # {}
    BY <1>2
  <2>2. Max({0, n}) \in {0, n} /\ \A y \in {0, n} : y <= Max({0, n})
    BY <1>2, <2>1, Greatest
  <2>3. QED
    BY <1>2, <2>2
<1>4. PopTo(s, depth, cs) = Popping(s, n, cs)[n]
  BY <1>3 DEF PopTo
<1>5. QED
  BY <1>2, <1>4

\* What is popped stays, if no path to come lies in it.
LEMMA PopToWhole ==
  ASSUME NEW cs \in BOOLEAN, NEW D, NEW s, Right(s, cs, D), NEW depth \in (-1)..(Len(s.stack) - 1),
         NEW paths, NEW n, NEW e, Whole(s, paths, n, e, cs),
         \A k \in 1..Len(s.stack) : k > depth + 1 => Past(s.stack[k].path, paths, e, cs)
  PROVE  Whole(PopTo(s, depth, cs), paths, n, e, cs) /\ Views(PopTo(s, depth, cs)) = Views(s)
<1> DEFINE st == s.stack
           L == Len(st)
           N == L - 1 - depth
           u == Popping(s, N, cs)
           T == {i \in 0..N : Whole(u[i], paths, n, e, cs) /\ Views(u[i]) = Views(s)}
<1>1. st \in Seq(Building) /\ L \in Nat
  <2>1. st \in Seq(Building)
    BY DEF Right, Stacks
  <2>2. QED
    BY <2>1, StackTypes
<1>2. N \in 0..L /\ N \in Nat /\ PopTo(s, depth, cs) = u[N]
  BY <1>1, PopToPopping
<1>3. depth \in Int
  <2> HIDE DEF L
  <2> QED
    BY <1>1
<1>4. /\ u[0] = s /\ \A i \in 0..N : i # 0 => u[i] = PopDir(u[i - 1], cs)
      /\ \A i \in 0..N : Right(u[i], cs, D) /\ u[i].stack = SubSeq(st, 1, L - i)
  <2> HIDE DEF N
  <2> QED
    BY <1>2, PoppingSteps
<1> HIDE DEF u
<1>5. 0 \in T
  <2> HIDE DEF N
  <2> QED
    BY <1>2, <1>4
<1>6. ASSUME NEW i \in (0 + 1)..N, i - 1 \in T PROVE i \in T
  <2>1. /\ i \in 0..N /\ i # 0 /\ i - 1 \in 0..N /\ i \in Nat
        /\ L - (i - 1) \in 0..L /\ L - (i - 1) \in 1..L /\ L - (i - 1) > depth + 1
    <3>1. i <= N /\ N = L - 1 - depth /\ N <= L /\ 1 <= i /\ i \in Int
      <4> HIDE DEF N
      <4>1. 1 <= i /\ i <= N /\ N <= L /\ i \in Int
        BY <1>1, <1>2
      <4>2. QED
        BY <4>1 DEF N
    <3> HIDE DEF N, L
    <3>2. QED
      BY <3>1, <1>1, <1>2, <1>3
  <2> DEFINE t == u[i - 1]
             m == L - (i - 1)
  <2>2. Whole(t, paths, n, e, cs) /\ Views(t) = Views(s)
    BY <1>6
  <2>3. Right(t, cs, D) /\ t.stack = SubSeq(st, 1, m) /\ u[i] = PopDir(t, cs)
    <3> HIDE DEF N
    <3> QED
      BY <2>1, <1>4
  <2>4. m \in 0..L /\ m \in 1..m /\ m \in 1..L /\ m > depth + 1
    BY <2>1
  <2> HIDE DEF t, m, L
  <2>5. Len(t.stack) = m /\ t.stack[m] = st[m]
    BY <1>1, <2>3, <2>4, Prefix DEF L
  <2>6. t.stack # <<>> /\ Last(t.stack) = st[m]
    <3> DEFINE ts == t.stack
    <3>1. Len(ts) = m /\ m # 0 /\ ts[m] = st[m]
      BY <2>4, <2>5
    <3> HIDE DEF ts
    <3>2. ts # <<>> /\ Last(ts) = st[m]
      BY <3>1, EmptySeq DEF Last
    <3>3. QED
      BY <3>2 DEF ts
  <2>7. Past(Last(t.stack).path, paths, e, cs)
    BY <2>4, <2>6 DEF L
  <2>8. Whole(PopDir(t, cs), paths, n, e, cs) /\ Views(PopDir(t, cs)) = Views(t)
    BY <2>2, <2>3, <2>6, <2>7, PopWhole
  <2> HIDE DEF N
  <2>9. QED
    BY <2>1, <2>2, <2>3, <2>8
<1>7. \A i \in 0..N : i \in T
  <2>1. 0 \in Int /\ N \in Int /\ 0 <= N
    BY <1>2
  <2> HIDE DEF T, N
  <2> QED
    BY <1>5, <1>6, <2>1, Steps
<1>8. N \in T
  <2>1. N \in 0..N
    BY <1>2
  <2> HIDE DEF T, N
  <2>2. QED
    BY <2>1, <1>7
<1> HIDE DEF N
<1>9. QED
  BY <1>2, <1>8

\* What a path is up to a slash: a directory, a name and the slash.
LEMMA Parts ==
  ASSUME NEW x \in Bytes, NEW i \in 1..Len(x), x[i] = Slash, NEW c \in 0..(i - 1)
  PROVE  /\ SubSeq(x, c + 1, i - 1) \in Bytes
         /\ SubSeq(x, 1, i) = SubSeq(x, 1, c) \o SubSeq(x, c + 1, i - 1) \o <<Slash>>
<1> DEFINE a == SubSeq(x, 1, c)
           b == SubSeq(x, c + 1, i - 1)
           p == SubSeq(x, 1, i)
           z == a \o b \o <<Slash>>
<1>1. Len(x) \in Nat /\ i \in Nat \ {0} /\ c \in Nat /\ c \in 0..Len(x) /\ i \in 0..Len(x)
  BY Length
<1>2. a \in Bytes /\ Len(a) = c /\ \A k \in 1..c : a[k] = x[k]
  BY <1>1, FirstBytes
<1>3. p \in Bytes /\ Len(p) = i /\ \A k \in 1..i : p[k] = x[k]
  BY <1>1, FirstBytes
<1>4. b \in Bytes /\ Len(b) = i - 1 - c /\ \A k \in 1..(i - 1 - c) : b[k] = x[c + k]
  <2>1. \A k \in (c + 1)..(i - 1) : x[k] \in 1..255
    <3>1. \A k \in (c + 1)..(i - 1) : k \in 1..Len(x)
      BY <1>1
    <3>2. QED
      BY <3>1, Length
  <2> DEFINE m == c + 1
             n == i - 1
  <2>2. m \in Int /\ n \in Int /\ n - m + 1 = i - 1 - c /\ (m <= n \/ n - m + 1 = 0)
    BY <1>1
  <2> DEFINE B == 1..255
  <2>3. \A k \in m..n : x[k] \in B
    BY <2>1
  <2> HIDE DEF m, n, B
  <2>4. /\ SubSeq(x, m, n) \in Seq(B) /\ Len(SubSeq(x, m, n)) = IF m <= n THEN n - m + 1 ELSE 0
        /\ \A k \in 1..(n - m + 1) : SubSeq(x, m, n)[k] = x[m + k - 1]
    BY <2>2, <2>3, SubSeqProperties
  <2>5. Len(SubSeq(x, m, n)) = n - m + 1
    BY <2>2, <2>4
  <2>6. \A k \in 1..(i - 1 - c) : m + k - 1 = c + k
    BY <1>1 DEF m
  <2>7. \A k \in 1..(i - 1 - c) : SubSeq(x, m, n)[k] = x[c + k]
    BY <2>2, <2>4, <2>6
  <2>8. Len(SubSeq(x, m, n)) = i - 1 - c /\ SubSeq(x, m, n) \in Bytes
    BY <2>2, <2>4, <2>5 DEF B, Bytes
  <2>9. QED
    BY <2>7, <2>8 DEF m, n
<1> HIDE DEF a, b, p
<1>5. /\ z \in Bytes /\ Len(z) = Len(a) + Len(b) + 1
      /\ \A k \in 1..Len(a) : z[k] = a[k]
      /\ \A k \in 1..Len(b) : z[Len(a) + k] = b[k]
      /\ z[Len(a) + Len(b) + 1] = Slash
  BY <1>2, <1>4, Join
<1>6. Len(z) = i
  BY <1>1, <1>2, <1>4, <1>5
<1> HIDE DEF z
<1>7. ASSUME NEW k \in 1..i PROVE z[k] = p[k]
  <2>1. CASE k <= c
    BY <2>1, <1>1, <1>2, <1>3, <1>5
  <2>2. CASE k = i
    <3>1. Len(a) + Len(b) + 1 = i
      BY <1>1, <1>2, <1>4
    <3>2. QED
      BY <2>2, <3>1, <1>3, <1>5
  <2>3. CASE k > c /\ k < i
    <3> DEFINE j == k - c
    <3>1. j \in 1..(i - 1 - c) /\ k = c + j
      BY <2>3, <1>1
    <3> HIDE DEF j
    <3>2. z[k] = b[j]
      BY <3>1, <1>2, <1>4, <1>5
    <3>3. QED
      BY <3>1, <3>2, <1>3, <1>4
  <2>4. QED
    BY <2>1, <2>2, <2>3, <1>1
<1>8. z = p
  <2> DEFINE B == 1..255
  <2>1. z \in Seq(B) /\ p \in Seq(B)
    BY <1>3, <1>5 DEF Bytes
  <2> HIDE DEF B
  <2>2. QED
    BY <2>1, <1>3, <1>6, <1>7, SeqEqual
<1>9. QED
  BY <1>4, <1>8 DEF a, b, p, z

LEMMA RangeAppend ==
  ASSUME NEW S, NEW xs \in Seq(S), NEW v \in S
  PROVE  Range(Append(xs, v)) = Range(xs) \cup {v}
<1> DEFINE ys == Append(xs, v)
           n == Len(xs)
<1>1. n \in Nat /\ ys \in Seq(S) /\ Len(ys) = n + 1 /\ ys[n + 1] = v /\ \A i \in 1..n : ys[i] = xs[i]
  BY LenProperties, AppendProperties
<1> HIDE DEF ys
<1>2. Range(ys) = {ys[i] : i \in 1..(n + 1)} /\ Range(xs) = {xs[i] : i \in 1..n}
  BY <1>1, RangeOf
<1>3. \A i \in 1..(n + 1) : i \in 1..n \/ i = n + 1
  BY <1>1
<1>4. n + 1 \in 1..(n + 1) /\ \A i \in 1..n : i \in 1..(n + 1)
  BY <1>1
<1> HIDE DEF n
<1>5. \A w \in Range(ys) : w \in Range(xs) \cup {v}
  BY <1>1, <1>2, <1>3
<1>6. \A w \in Range(xs) \cup {v} : w \in Range(ys)
  BY <1>1, <1>2, <1>4
<1>7. QED
  BY <1>5, <1>6 DEF ys

-----------------------------------------------------------------------------
(* The directory on top, and the others.                                   *)

Others(t) ==
  {Seen(t.stack[k]) : k \in 1..(Len(t.stack) - 1)} \cup {Seen(t.dirs[m]) : m \in 1..Len(t.dirs)}

LEMMA TopView ==
  ASSUME NEW cs \in BOOLEAN, NEW D, NEW t, Right(t, cs, D), t.stack # <<>>
  PROVE  /\ Len(t.stack) \in Nat \ {0} /\ Last(t.stack) = t.stack[Len(t.stack)]
         /\ Last(t.stack) \in Building
         /\ Views(t) = Others(t) \cup {Seen(Last(t.stack))}
         /\ Apart(t, cs) => \A g \in Others(t) : ~Eq(g.path, Last(t.stack).path, cs)
<1> DEFINE L == Len(t.stack)
           st == t.stack
<1>1. st \in Seq(Building) /\ t.dirs \in Seq(Built) /\ Chain(st, cs)
  BY DEF Right, Stacks
<1>2. L \in Nat \ {0} /\ L \in 1..L /\ Last(st) = st[L] /\ st[L] \in Building
  <2>1. L # 0
    BY <1>1, EmptySeq
  <2>2. L \in Nat
    BY <1>1, StackTypes
  <2>3. L \in 1..L
    BY <2>1, <2>2
  <2>4. QED
    BY <1>1, <2>1, <2>2, <2>3, StackTypes DEF Last
<1>3. Views(t) = Others(t) \cup {Seen(st[L])}
  <2>1. (\A k \in 1..(L - 1) : k \in 1..L) /\ (\A k \in 1..L : k \in 1..(L - 1) \/ k = L)
    BY <1>2
  <2>2. {Seen(st[k]) : k \in 1..L} = {Seen(st[k]) : k \in 1..(L - 1)} \cup {Seen(st[L])}
    <3> HIDE DEF L
    <3> QED
      BY <1>2, <2>1
  <2>3. QED
    BY <2>2 DEF Views, Others
<1>4. ASSUME Apart(t, cs), NEW g \in Others(t) PROVE ~Eq(g.path, st[L].path, cs)
  <2>1. CASE \E k \in 1..(L - 1) : g = Seen(st[k])
    <3>1. PICK k \in 1..(L - 1) : g = Seen(st[k])
      BY <2>1
    <3>2. k \in 1..L /\ k # L /\ g.path = st[k].path
      BY <1>2, <3>1 DEF Seen
    <3>3. QED
      BY <1>1, <1>2, <3>2, StackApart
  <2>2. CASE \E m \in 1..Len(t.dirs) : g = Seen(t.dirs[m])
    <3>1. PICK m \in 1..Len(t.dirs) : g = Seen(t.dirs[m])
      BY <2>2
    <3>2. g.path = t.dirs[m].path
      BY <3>1 DEF Seen
    <3>3. QED
      BY <1>2, <1>4, <3>2 DEF Apart
  <2>3. QED
    BY <2>1, <2>2 DEF Others
<1>5. QED
  BY <1>2, <1>3, <1>4

\* The stack with another directory on top.
LEMMA OnTopIs ==
  ASSUME NEW cs \in BOOLEAN, NEW D, NEW t, Right(t, cs, D), t.stack # <<>>, NEW d \in Building
  PROVE  LET L == Len(t.stack)
             u == OnTop(t, d)
         IN  /\ Len(u.stack) = L /\ u.stack[L] = d /\ u.dirs = t.dirs
             /\ \A k \in 1..(L - 1) : u.stack[k] = t.stack[k]
             /\ Views(u) = Others(t) \cup {Seen(d)}
<1> DEFINE L == Len(t.stack)
           st == t.stack
           st2 == Append(SubSeq(st, 1, L - 1), d)
           u == OnTop(t, d)
<1>1. st \in Seq(Building) /\ t \in Stacks /\ L \in Nat \ {0}
  BY TopView DEF Right, Stacks
<1>2. /\ SubSeq(st, 1, L - 1) \in Seq(Building) /\ Len(SubSeq(st, 1, L - 1)) = L - 1
      /\ \A k \in 1..(L - 1) : SubSeq(st, 1, L - 1)[k] = st[k]
  <2>1. L - 1 \in 0..L
    BY <1>1
  <2>2. QED
    BY <1>1, <2>1, Prefix
<1>3. /\ Len(st2) = L /\ st2[L] = d /\ \A k \in 1..(L - 1) : st2[k] = st[k]
  <2>1. (L - 1) + 1 = L
    BY <1>1
  <2>2. QED
    BY <1>2, <2>1, AppendProperties
<1>4. u.stack = st2 /\ u.dirs = t.dirs
  <2>1. u = [t EXCEPT !.stack = st2]
    BY DEF OnTop, Front
  <2> HIDE DEF st2, u
  <2>2. QED
    BY <2>1, <1>1 DEF Stacks
<1> HIDE DEF st2, u
<1>5. Views(u) = Others(t) \cup {Seen(d)}
  <2>1. (\A k \in 1..(L - 1) : k \in 1..L) /\ (\A k \in 1..L : k \in 1..(L - 1) \/ k = L) /\ L \in 1..L
    BY <1>1
  <2>2. \A k \in 1..(L - 1) : Seen(u.stack[k]) = Seen(st[k])
    BY <1>3, <1>4
  <2>3. Seen(u.stack[L]) = Seen(d)
    BY <1>3, <1>4
  <2>4. Len(u.stack) = L
    BY <1>3, <1>4
  <2>5. {Seen(u.stack[k]) : k \in 1..L} = {Seen(st[k]) : k \in 1..(L - 1)} \cup {Seen(d)}
    <3> HIDE DEF L
    <3> QED
      BY <2>1, <2>2, <2>3
  <2>6. QED
    BY <2>4, <2>5, <1>4 DEF Views, Others
<1>6. QED
  BY <1>3, <1>4, <1>5 DEF u

\* The first n paths have their directories among those of the stack.
Housed(t, paths, n, cs) ==
  \A k \in 1..n : paths[k] \in Bytes /\ \E x \in Views(t) : Eq(x.path, DirOf(paths[k]), cs)
Stays(t, u) == \A x \in Views(t) : \E y \in Views(u) : y.path = x.path

\* The file of the next path in the directory on top.
LEMMA AddFileWhole ==
  ASSUME NEW cs \in BOOLEAN, NEW D, NEW t, Right(t, cs, D), t.stack # <<>>,
         NEW paths, NEW n \in Nat, NEW e, Whole(t, paths, n, e, cs), paths[n + 1] \in Bytes,
         Eq(DirOf(paths[n + 1]), Last(t.stack).path, cs)
  PROVE  Whole(AddFile(t, n + 1), paths, n + 1, e, cs) /\ Stays(t, AddFile(t, n + 1))
<1> DEFINE i == n + 1
           L == Len(t.stack)
           top == Last(t.stack)
           d == [top EXCEPT !.files = Append(@, i)]
           u == OnTop(t, d)
           A == Others(t)
           x == Seen(top)
           z == Seen(d)
           dir == DirOf(paths[i])
<1>1. /\ L \in Nat \ {0} /\ top = t.stack[L] /\ top \in Building
      /\ Views(t) = A \cup {x} /\ \A g \in A : ~Eq(g.path, top.path, cs)
  <2>1. Apart(t, cs)
    BY DEF Whole
  <2>2. QED
    BY <2>1, TopView
<1>2. i \in Nat /\ (\A k \in 1..i : k \in 1..n \/ k = i) /\ (\A k \in 1..n : k \in 1..i) /\ i \in 1..i
  OBVIOUS
<1> HIDE DEF i, top
<1>3. Append(top.files, i) \in Seq(Nat) /\ Range(Append(top.files, i)) = Range(top.files) \cup {i}
  <2>1. top.files \in Seq(Nat)
    BY <1>1, SeenType
  <2>2. QED
    BY <2>1, <1>2, AppendProperties, RangeAppend
<1>4. /\ d \in Building /\ d.path = top.path /\ d.basename = top.basename /\ d.subdirs = top.subdirs
      /\ d.files = Append(top.files, i)
  BY <1>1, <1>3 DEF Building
<1>5. AddFile(t, i) = u
  BY DEF AddFile, top
<1> HIDE DEF d
<1>6. /\ Len(u.stack) = L /\ u.stack[L] = d /\ u.dirs = t.dirs
      /\ \A k \in 1..(L - 1) : u.stack[k] = t.stack[k]
      /\ Views(u) = A \cup {z}
  BY <1>4, OnTopIs
<1> HIDE DEF u, A
<1>7. /\ z \in View /\ z.path = x.path /\ z.basename = x.basename /\ z.subdirs = x.subdirs
      /\ z.files = x.files \cup {i} /\ x.path = top.path /\ z.path = top.path
  <2>1. z \in View
    BY <1>4, SeenType
  <2>2. QED
    BY <2>1, <1>3, <1>4 DEF Seen
<1> HIDE DEF x, z
<1>8. Family(Views(t), cs) /\ Views(t) \subseteq View
  BY DEF Whole, Family
<1>9. Family(Views(u), cs)
  <2>1. Family(A \cup {x}, cs) /\ \A g \in A : ~Eq(g.path, x.path, cs)
    BY <1>1, <1>7, <1>8
  <2>2. Family(A \cup {z}, cs)
    BY <2>1, <1>7, FileFamily
  <2>3. QED
    BY <2>2, <1>6
<1>10. \A k \in 1..L : u.stack[k].path = t.stack[k].path /\ u.stack[k].subdirs = t.stack[k].subdirs
  <2>1. \A k \in 1..L : k \in 1..(L - 1) \/ k = L
    BY <1>1
  <2> HIDE DEF L
  <2>2. QED
    BY <2>1, <1>1, <1>4, <1>6
<1>11. Apart(u, cs) /\ NamesRight(u, cs) /\ Closed(u, paths, e, cs)
  BY <1>6, <1>10 DEF Whole, Apart, NamesRight, Closed
<1>12. dir \in Bytes /\ top.path \in Bytes /\ Eq(dir, top.path, cs)
  BY <1>1, DirEnds, SeenType DEF i, top
<1>13. FilesRight(Views(u), paths, i, cs)
  <2>1. ASSUME NEW g \in A PROVE g.files = {k \in 1..i : Eq(DirOf(paths[k]), g.path, cs)}
    <3>1. g \in Views(t) /\ g.path \in Bytes /\ ~Eq(g.path, top.path, cs)
      BY <1>1, <1>8, ViewOf
    <3>2. g.files = {k \in 1..n : Eq(DirOf(paths[k]), g.path, cs)}
      BY <3>1 DEF Whole, FilesRight
    <3>3. ~Eq(dir, g.path, cs)
      <4> SUFFICES ASSUME Eq(dir, g.path, cs) PROVE FALSE
        OBVIOUS
      <4>1. Eq(g.path, dir, cs)
        BY <3>1, <1>12, EqualSym
      <4>2. Eq(g.path, top.path, cs)
        BY <4>1, <3>1, <1>12, EqualTrans
      <4>3. QED
        BY <4>2, <3>1
    <3>4. QED
      BY <3>2, <3>3, <1>2
  <2>2. z.files = {k \in 1..i : Eq(DirOf(paths[k]), z.path, cs)}
    <3>1. x.files = {k \in 1..n : Eq(DirOf(paths[k]), x.path, cs)}
      BY <1>1 DEF Whole, FilesRight
    <3>2. QED
      BY <3>1, <1>2, <1>7, <1>12
  <2>3. QED
    BY <2>1, <2>2, <1>6 DEF FilesRight
<1>14. Stays(t, u)
  BY <1>1, <1>6, <1>7 DEF Stays
<1>15. Whole(u, paths, i, e, cs)
  BY <1>9, <1>11, <1>13 DEF Whole
<1>16. QED
  BY <1>5, <1>14, <1>15 DEF i

\* What PushDir makes of the stack.
NewName_(t, path, i) == SubSeq(path, Len(Last(t.stack).path) + 1, i - 1)
Entered(t, path, i) == [Last(t.stack) EXCEPT !.subdirs = Append(@, NewName_(t, path, i))]
NewDir(t, path, i) == IndexDir(SubSeq(path, 1, i), NewName_(t, path, i), Len(t.stack))

LEMMA PushIs ==
  ASSUME NEW cs \in BOOLEAN, NEW D, NEW t, Right(t, cs, D), t.stack # <<>>,
         NEW path \in Bytes, NEW i \in 1..Len(path), path[i] = Slash,
         Eq(DirOf(SubSeq(path, 1, i - 1)), Last(t.stack).path, cs)
  PROVE  LET L == Len(t.stack)
             d == Entered(t, path, i)
             new == NewDir(t, path, i)
             u == PushDir(t, path, i)
         IN  /\ NewName_(t, path, i) \in Bytes /\ d \in Building /\ new \in Building /\ Named(Seen(new))
             /\ Below(Seen(new), Seen(Last(t.stack)), cs)
             /\ Len(u.stack) = L + 1 /\ u.dirs = t.dirs
             /\ u.stack[L] = d /\ u.stack[L + 1] = new
             /\ \A k \in 1..(L - 1) : u.stack[k] = t.stack[k]
             /\ Views(u) = Others(t) \cup {Seen(d), Seen(new)}
<1> DEFINE L == Len(t.stack)
           top == Last(t.stack)
           x == SubSeq(path, 1, i - 1)
           dir == SubSeq(path, 1, i)
           sub == SubSeq(path, Len(top.path) + 1, i - 1)
           d == [top EXCEPT !.subdirs = Append(@, sub)]
           new == IndexDir(dir, sub, L)
           v == OnTop(t, d)
           u == PushDir(t, path, i)
<1>1. L \in Nat \ {0} /\ top \in Building /\ top.path \in Bytes
  <2>1. L \in Nat \ {0} /\ top \in Building
    BY TopView
  <2>2. QED
    BY <2>1, SeenType
<1>2. Len(path) \in Nat /\ i \in Nat \ {0} /\ i \in 0..Len(path) /\ i - 1 \in 0..Len(path) /\ i - 1 \in 0..i
  BY Length
<1>3. /\ x \in Bytes /\ Len(x) = i - 1 /\ dir \in Bytes /\ Len(dir) = i /\ SubSeq(dir, 1, i - 1) = x
      /\ \A m \in 0..(i - 1) : SubSeq(x, 1, m) = SubSeq(path, 1, m)
  BY <1>2, FirstBytes
<1>4. PICK c \in {0} \cup SlashesIn(x) : DirOf(x) = SubSeq(x, 1, c) /\ c \in 0..Len(x) /\ Len(DirOf(x)) = c
                                         /\ DirOf(x) \in Bytes
  BY <1>3, DirEnds
<1>5. c \in 0..(i - 1) /\ DirOf(x) = SubSeq(path, 1, c) /\ Len(top.path) = c
  <2>1. Len(top.path) = c
    BY <1>1, <1>4, EqualFirst
  <2>2. QED
    BY <2>1, <1>3, <1>4
<1>6. sub \in Bytes /\ dir = SubSeq(path, 1, c) \o sub \o <<Slash>>
  BY <1>5, Parts
<1>7. Up(dir, 1) = DirOf(x)
  <2>1. dir # <<>>
    <3>1. Len(dir) # 0
      BY <1>2, <1>3
    <3> HIDE DEF dir
    <3>2. QED
      BY <3>1, <1>3, Length
  <2> HIDE DEF dir, x
  <2>2. Unslashed(dir) = x
    BY <2>1, <1>3, UnslashedOf
  <2>3. QED
    BY <2>2, <1>3, UpOne DEF DirAbove
<1>8. dir # <<>>
  <2>1. Len(dir) # 0
    BY <1>2, <1>3
  <2> HIDE DEF dir
  <2>2. QED
    BY <2>1, <1>3, Length
<1>9. Append(top.subdirs, sub) \in Seq(Bytes)
  <2>1. top.subdirs \in Seq(Bytes)
    BY <1>1, SeenType
  <2> HIDE DEF top, sub
  <2>2. QED
    BY <2>1, <1>6, AppendProperties
<1>10. Eq(DirOf(x), top.path, cs)
  OBVIOUS
<1>11. u = [v EXCEPT !.stack = Append(@, new)]
  BY Zenon DEF PushDir
<1> HIDE DEF x, dir, sub, top
<1>12. d \in Building /\ d.path = top.path /\ d.depth = top.depth
  BY <1>1, <1>9 DEF Building
<1>13. new \in Building /\ new.path = dir /\ new.basename = sub
  <2>1. <<>> \in Seq(Nat) /\ <<>> \in Seq(Bytes)
    BY EmptySeq
  <2>2. QED
    BY <2>1, <1>1, <1>3, <1>6 DEF IndexDir, Building
<1> HIDE DEF d, new
<1>14. Seen(new).path = dir /\ Seen(new).basename = sub /\ Seen(top).path = top.path
  BY <1>13 DEF Seen
<1>15. Named(Seen(new)) /\ Below(Seen(new), Seen(top), cs)
  BY <1>5, <1>6, <1>7, <1>8, <1>10, <1>14 DEF Named, Below, Root
<1>16. /\ Len(v.stack) = L /\ v.stack[L] = d /\ v.dirs = t.dirs
       /\ \A k \in 1..(L - 1) : v.stack[k] = t.stack[k]
       /\ Views(v) = Others(t) \cup {Seen(d)}
  BY <1>12, OnTopIs
<1>17. v \in Stacks /\ v.stack \in Seq(Building)
  <2>1. Right(v, cs, D)
    BY <1>12, OnTopKeeps DEF top
  <2>2. QED
    BY <2>1 DEF Right, Stacks
<1> HIDE DEF v, u
<1>18. u.stack = Append(v.stack, new) /\ u.dirs = v.dirs
  BY <1>11, <1>17 DEF Stacks
<1>19. Len(u.stack) = L + 1 /\ u.stack[L + 1] = new /\ \A k \in 1..L : u.stack[k] = v.stack[k]
  BY <1>13, <1>16, <1>17, <1>18, AppendProperties
<1>20. u.stack[L] = d /\ \A k \in 1..(L - 1) : u.stack[k] = t.stack[k]
  <2>1. L \in 1..L /\ \A k \in 1..(L - 1) : k \in 1..L
    BY <1>1
  <2>2. QED
    BY <2>1, <1>16, <1>19
<1>21. Views(u) = Views(v) \cup {Seen(new)}
  <2>1. (\A k \in 1..L : k \in 1..(L + 1)) /\ (\A k \in 1..(L + 1) : k \in 1..L \/ k = L + 1) /\ L + 1 \in 1..(L + 1)
    BY <1>1
  <2> HIDE DEF L
  <2>2. {Seen(u.stack[k]) : k \in 1..(L + 1)} = {Seen(v.stack[k]) : k \in 1..L} \cup {Seen(new)}
    <3>1. \A k \in 1..L : Seen(u.stack[k]) = Seen(v.stack[k])
      BY <1>19
    <3>2. QED
      BY <3>1, <2>1, <1>19
  <2>3. QED
    BY <2>2, <1>16, <1>18, <1>19 DEF Views
<1>22. Views(u) = Others(t) \cup {Seen(d), Seen(new)}
  BY <1>16, <1>21
<1>23. sub = NewName_(t, path, i) /\ d = Entered(t, path, i) /\ new = NewDir(t, path, i)
  BY Zenon DEF d, new, sub, top, dir, NewName_, Entered, NewDir
<1>24. u.dirs = t.dirs
  BY <1>16, <1>18
<1>25. QED
  BY <1>6, <1>12, <1>13, <1>15, <1>19, <1>20, <1>22, <1>23, <1>24 DEF u, top

\* A directory of the path at e in the one on top.
LEMMA PushWhole ==
  ASSUME NEW cs \in BOOLEAN, NEW D, NEW t, Right(t, cs, D), t.stack # <<>>,
         NEW paths, NEW n \in Nat, NEW e \in 1..Len(paths), Whole(t, paths, n, e, cs),
         NEW path \in Bytes, path = paths[e], NEW i \in 1..Len(path), path[i] = Slash,
         Eq(DirOf(SubSeq(path, 1, i - 1)), Last(t.stack).path, cs),
         Cardinality(SlashesIn(SubSeq(path, 1, i))) = Len(t.stack),
         Housed(t, paths, n, cs)
  PROVE  Whole(PushDir(t, path, i), paths, n, e, cs) /\ Stays(t, PushDir(t, path, i))
<1> DEFINE L == Len(t.stack)
           top == Last(t.stack)
           dir == SubSeq(path, 1, i)
           sub == NewName_(t, path, i)
           d == Entered(t, path, i)
           new == NewDir(t, path, i)
           u == PushDir(t, path, i)
           A == Others(t)
           x == Seen(top)
           y == Seen(new)
           z == Seen(d)
<1>1. /\ L \in Nat \ {0} /\ top = t.stack[L] /\ top \in Building
      /\ Views(t) = A \cup {x} /\ \A g \in A : ~Eq(g.path, top.path, cs)
  <2>1. Apart(t, cs)
    BY DEF Whole
  <2>2. QED
    BY <2>1, TopView
<1>2. /\ sub \in Bytes /\ d \in Building /\ new \in Building /\ Named(y) /\ Below(y, x, cs)
      /\ Len(u.stack) = L + 1 /\ u.dirs = t.dirs
      /\ u.stack[L] = d /\ u.stack[L + 1] = new
      /\ \A k \in 1..(L - 1) : u.stack[k] = t.stack[k]
      /\ Views(u) = A \cup {z, y}
  BY PushIs
<1>3. dir \in Bytes /\ i \in Nat /\ Len(path) \in Nat
  <2>1. i \in 0..Len(path) /\ i \in Nat /\ Len(path) \in Nat
    BY Length
  <2>2. QED
    BY <2>1, FirstBytes
<1>4. Cardinality(SlashesIn(dir)) = L
  OBVIOUS
<1>5. i \in SlashesIn(path)
  BY DEF SlashesIn
<1>6. top.subdirs \in Seq(Bytes) /\ top.path \in Bytes /\ Append(top.subdirs, sub) \in Seq(Bytes)
      /\ Range(Append(top.subdirs, sub)) = Range(top.subdirs) \cup {sub}
  <2>1. top.subdirs \in Seq(Bytes) /\ top.path \in Bytes
    BY <1>1, SeenType
  <2> HIDE DEF top, sub
  <2>2. QED
    BY <2>1, <1>2, AppendProperties, RangeAppend
<1> HIDE DEF u, A, sub, top, dir, d, new
<1>7. /\ d.path = top.path /\ d.basename = top.basename /\ d.files = top.files
      /\ d.subdirs = Append(top.subdirs, sub)
  BY <1>1 DEF Building, Entered, d, sub, top
<1>8. /\ new.path = dir /\ new.basename = sub /\ new.files = <<>> /\ new.subdirs = <<>>
  BY DEF IndexDir, NewDir, new, sub, dir
<1>9. /\ x \in View /\ y \in View /\ z \in View
      /\ z.path = x.path /\ z.basename = x.basename /\ z.files = x.files /\ z.subdirs = x.subdirs \cup {y.basename}
      /\ y.path = dir /\ y.files = {} /\ y.subdirs = {} /\ x.path = top.path /\ y.basename = sub
      /\ x.subdirs = Range(top.subdirs)
  <2>1. x \in View /\ y \in View /\ z \in View
    BY <1>1, <1>2, SeenType
  <2>2. Range(<<>>) = {}
    BY DEF Range
  <2>3. z.path = x.path /\ z.basename = x.basename /\ z.files = x.files /\ x.path = top.path
        /\ y.path = dir /\ y.basename = sub /\ x.subdirs = Range(top.subdirs)
    BY <1>7, <1>8 DEF Seen
  <2>4. y.files = {} /\ y.subdirs = {}
    BY <1>8, <2>2 DEF Seen
  <2>5. z.subdirs = Range(top.subdirs) \cup {sub}
    BY <1>6, <1>7 DEF Seen
  <2>6. QED
    BY <2>1, <2>3, <2>4, <2>5
<1> HIDE DEF x, y, z
<1>10. Family(Views(t), cs) /\ Views(t) \subseteq View
  BY DEF Whole, Family
\* The new one is none of the old ones.
<1>11. \A m \in 1..Len(t.dirs) : ~Eq(t.dirs[m].path, dir, cs)
  <2> TAKE m \in 1..Len(t.dirs)
  <2>1. Past(t.dirs[m].path, paths, e, cs)
    BY DEF Whole, Closed
  <2>2. e \in e..Len(paths)
    OBVIOUS
  <2>3. ~Eq(SubSeq(path, 1, i), t.dirs[m].path, cs)
    BY <2>1, <2>2, <1>5 DEF Past
  <2>4. t.dirs[m].path \in Bytes
    <3>1. t.dirs \in Seq(Built)
      BY DEF Right, Stacks
    <3>2. QED
      BY <3>1, BuiltTypes
  <2>5. ~Eq(dir, t.dirs[m].path, cs)
    BY <2>3 DEF dir
  <2>6. QED
    BY <2>4, <2>5, <1>3, EqualSym
<1>12. \A k \in 1..L : ~Eq(t.stack[k].path, dir, cs)
  <2> SUFFICES ASSUME NEW k \in 1..L, Eq(t.stack[k].path, dir, cs) PROVE FALSE
    OBVIOUS
  <2>1. t.stack \in Seq(Building) /\ Chain(t.stack, cs)
    BY DEF Right, Stacks
  <2>2. t.stack[k].path \in Bytes /\ Cardinality(SlashesIn(t.stack[k].path)) = k - 1
    BY <2>1, StackTypes DEF Chain, Deep
  <2>3. SlashesIn(t.stack[k].path) = SlashesIn(dir)
    BY <2>2, <1>3, EqualFirst
  <2>4. k - 1 = L
    BY <2>2, <2>3, <1>4
  <2> HIDE DEF L
  <2>5. QED
    BY <2>4, <1>1
<1>13. \A g \in A \cup {x} : ~Eq(g.path, y.path, cs)
  <2> SUFFICES ASSUME NEW g \in Views(t) PROVE ~Eq(g.path, dir, cs)
    BY <1>1, <1>9
  <2>1. CASE \E k \in 1..L : g = Seen(t.stack[k])
    BY <2>1, <1>12 DEF Seen
  <2>2. CASE \E m \in 1..Len(t.dirs) : g = Seen(t.dirs[m])
    BY <2>2, <1>11 DEF Seen
  <2>3. QED
    BY <2>1, <2>2 DEF Views
<1>14. Family(A \cup {x}, cs) /\ \A g \in A : ~Eq(g.path, x.path, cs)
  BY <1>1, <1>9, <1>10
<1>15. Family(Views(u), cs)
  <2>1. Family(A \cup {z, y}, cs)
    BY <1>2, <1>9, <1>13, <1>14, PushFamily
  <2>2. QED
    BY <2>1, <1>2
<1>16. \A b \in Range(top.subdirs) : ~Eq(b, sub, cs)
  <2>1. \A b \in x.subdirs : ~Eq(b, y.basename, cs)
    <3> DEFINE F == A \cup {x}
    <3>1. Family(F, cs) /\ x \in F /\ \A g \in F : ~Eq(g.path, y.path, cs)
      BY <1>13, <1>14
    <3> HIDE DEF F
    <3>2. QED
      BY <3>1, <1>2, <1>9, NewName
  <2>2. QED
    BY <2>1, <1>9
<1>17. NoTwins(Append(top.subdirs, sub), cs)
  <2> DEFINE xs == top.subdirs
             ys == Append(xs, sub)
             m == Len(xs)
  <2>1. m \in Nat /\ Len(ys) = m + 1 /\ ys[m + 1] = sub /\ (\A k \in 1..m : ys[k] = xs[k]) /\ xs \in Seq(Bytes)
    BY <1>2, <1>6, AppendProperties, LenProperties
  <2>2. NoTwins(xs, cs)
    <3>1. L \in 1..L
      BY <1>1
    <3>2. QED
      BY <3>1, <1>1 DEF Whole, NamesRight
  <2>3. \A k \in 1..m : ~Eq(xs[k], sub, cs) /\ ~Eq(sub, xs[k], cs)
    <3> TAKE k \in 1..m
    <3>1. xs[k] \in Range(xs) /\ xs[k] \in Bytes
      <4> HIDE DEF xs
      <4> QED
        BY <2>1, RangeOf, ElementOfSeq
    <3>2. ~Eq(xs[k], sub, cs)
      BY <3>1, <1>16
    <3>3. QED
      BY <3>1, <3>2, <1>2, EqualSym
  <2> HIDE DEF xs, ys, m
  <2>4. ASSUME NEW j \in 1..(m + 1), NEW k \in 1..(m + 1), Eq(ys[j], ys[k], cs) PROVE j = k
    <3>1. CASE j \in 1..m /\ k \in 1..m
      BY <3>1, <2>1, <2>2, <2>4 DEF NoTwins, m
    <3>2. CASE j \in 1..m /\ k = m + 1
      BY <3>2, <2>1, <2>3, <2>4
    <3>3. CASE j = m + 1 /\ k \in 1..m
      BY <3>3, <2>1, <2>3, <2>4
    <3>4. CASE j = m + 1 /\ k = m + 1
      BY <3>4
    <3>5. QED
      BY <3>1, <3>2, <3>3, <3>4, <2>1
  <2>5. NoTwins(ys, cs)
    BY <2>1, <2>4 DEF NoTwins
  <2>6. QED
    BY <2>5 DEF ys, xs
<1>18. \A k \in 1..(L + 1) : k \in 1..(L - 1) \/ k = L \/ k = L + 1
  <2> HIDE DEF L
  <2> QED
    BY <1>1
<1>19. \A k \in 1..(L - 1) : k \in 1..L
  <2> HIDE DEF L
  <2> QED
    BY <1>1
<1>20. NamesRight(u, cs)
  <2>1. ASSUME NEW k \in 1..(L + 1) PROVE NoTwins(u.stack[k].subdirs, cs)
    <3>1. CASE k \in 1..(L - 1)
      BY <3>1, <1>2, <1>19 DEF Whole, NamesRight
    <3>2. CASE k = L
      BY <3>2, <1>2, <1>7, <1>17
    <3>3. CASE k = L + 1
      <4>1. NoTwins(<<>>, cs)
        <5>1. Len(<<>>) = 0 /\ \A j \in 1..0 : FALSE
          OBVIOUS
        <5>2. QED
          BY <5>1 DEF NoTwins
      <4>2. QED
        BY <3>3, <4>1, <1>2, <1>8
    <3>4. QED
      BY <3>1, <3>2, <3>3, <1>18
  <2>2. \A m \in 1..Len(u.dirs) : Rising(u.dirs[m].subdirs, cs)
    BY <1>2 DEF Whole, NamesRight
  <2>3. QED
    BY <2>1, <2>2, <1>2 DEF NamesRight
<1>21. Apart(u, cs)
  <2>1. ASSUME NEW m \in 1..Len(t.dirs), NEW k \in 1..(L + 1) PROVE ~Eq(t.dirs[m].path, u.stack[k].path, cs)
    <3>1. CASE k \in 1..(L - 1)
      BY <3>1, <1>2, <1>19 DEF Whole, Apart
    <3>2. CASE k = L
      <4>1. L \in 1..L /\ u.stack[k].path = t.stack[L].path
        BY <3>2, <1>1, <1>2, <1>7
      <4>2. QED
        BY <4>1 DEF Whole, Apart
    <3>3. CASE k = L + 1
      BY <3>3, <1>2, <1>8, <1>11
    <3>4. QED
      BY <3>1, <3>2, <3>3, <1>18
  <2>2. QED
    BY <2>1, <1>2 DEF Whole, Apart
<1>22. Closed(u, paths, e, cs)
  BY <1>2 DEF Whole, Closed
<1>23. FilesRight(Views(u), paths, n, cs)
  <2>1. \A g \in A \cup {x} : g.files = {k \in 1..n : Eq(DirOf(paths[k]), g.path, cs)}
    BY <1>1 DEF Whole, FilesRight
  <2>2. \A k \in 1..n : ~Eq(DirOf(paths[k]), y.path, cs)
    <3> SUFFICES ASSUME NEW k \in 1..n, Eq(DirOf(paths[k]), y.path, cs) PROVE FALSE
      OBVIOUS
    <3>1. PICK g \in A \cup {x} : Eq(g.path, DirOf(paths[k]), cs)
      BY <1>1 DEF Housed
    <3>2. paths[k] \in Bytes
      BY DEF Housed
    <3>3. DirOf(paths[k]) \in Bytes /\ g.path \in Bytes /\ y.path \in Bytes
      BY <3>2, <1>1, <1>9, <1>10, DirEnds, ViewOf
    <3>4. Eq(g.path, y.path, cs)
      BY <3>1, <3>3, EqualTrans
    <3>5. QED
      BY <3>4, <1>13
  <2>3. z.files = {k \in 1..n : Eq(DirOf(paths[k]), z.path, cs)}
    BY <2>1, <1>9
  <2>4. y.files = {k \in 1..n : Eq(DirOf(paths[k]), y.path, cs)}
    BY <2>2, <1>9
  <2>5. QED
    BY <2>1, <2>3, <2>4, <1>2 DEF FilesRight
<1>24. \A g \in Views(t) : \E w \in Views(u) : w.path = g.path
  BY <1>1, <1>2, <1>9
<1>25. Whole(u, paths, n, e, cs)
  BY <1>15, <1>20, <1>21, <1>22, <1>23 DEF Whole
<1>26. Stays(t, u)
  BY <1>24 DEF Stays
<1>27. QED
  BY <1>25, <1>26 DEF u

LEMMA SlashMore ==
  ASSUME NEW x \in Bytes, NEW i \in 1..Len(x), x[i] = Slash
  PROVE  Cardinality(SlashesIn(SubSeq(x, 1, i))) = Cardinality(SlashesIn(SubSeq(x, 1, i - 1))) + 1
<1> DEFINE u == SubSeq(x, 1, i - 1)
           v == SubSeq(x, 1, i)
<1>1. Len(x) \in Nat /\ i \in Nat /\ i \in 0..Len(x) /\ i - 1 \in 0..Len(x)
  BY Length
<1>2. u \in Bytes /\ SlashesIn(u) = {k \in SlashesIn(x) : k <= i - 1} /\ SlashesIn(v) = {k \in SlashesIn(x) : k <= i}
  BY <1>1, FirstBytes
<1>3. IsFiniteSet(SlashesIn(u)) /\ SlashesIn(x) \subseteq Nat
  <2> HIDE DEF u
  <2> QED
    BY <1>2, SlashesCount
<1>4. i \in SlashesIn(x)
  BY DEF SlashesIn
<1> HIDE DEF u, v
<1>5. SlashesIn(v) = SlashesIn(u) \cup {i} /\ i \notin SlashesIn(u)
  BY <1>1, <1>2, <1>3, <1>4
<1> DEFINE S == SlashesIn(u)
<1>6. Cardinality(S \cup {i}) = Cardinality(S) + 1
  <2>1. IsFiniteSet(S) /\ i \notin S
    BY <1>3, <1>5
  <2> HIDE DEF S
  <2>2. QED
    BY <2>1, FS_AddElement
<1>7. QED
  BY <1>5, <1>6 DEF u, v

LEMMA StaysHoused ==
  ASSUME NEW cs, NEW t, NEW u, NEW paths, NEW n, Housed(t, paths, n, cs), Stays(t, u)
  PROVE  Housed(u, paths, n, cs)
<1> SUFFICES ASSUME NEW k \in 1..n
             PROVE  paths[k] \in Bytes /\ \E y \in Views(u) : Eq(y.path, DirOf(paths[k]), cs)
  BY DEF Housed
<1>1. PICK x \in Views(t) : Eq(x.path, DirOf(paths[k]), cs)
  BY DEF Housed
<1>2. PICK y \in Views(u) : y.path = x.path
  BY DEF Stays
<1>3. QED
  BY <1>1, <1>2 DEF Housed

LEMMA StaysTrans ==
  ASSUME NEW s, NEW t, NEW u, Stays(s, t), Stays(t, u)
  PROVE  Stays(s, u)
<1> SUFFICES ASSUME NEW x \in Views(s) PROVE \E z \in Views(u) : z.path = x.path
  BY DEF Stays
<1>1. PICK y \in Views(t) : y.path = x.path
  BY DEF Stays
<1>2. QED
  BY <1>1 DEF Stays

LEMMA StaysRefl ==
  ASSUME NEW s
  PROVE  Stays(s, s)
BY DEF Stays

\* All that the path at e lies in below the one on top.
LEMMA PushingWhole ==
  ASSUME NEW cs \in BOOLEAN, NEW D, NEW s, Right(s, cs, D), s.stack # <<>>,
         NEW paths, NEW n \in Nat, NEW e \in 1..Len(paths), Whole(s, paths, n, e, cs),
         NEW path \in Bytes, path = paths[e], NEW from \in {0} \cup SlashesIn(path),
         \A i \in SlashesIn(path) : SubSeq(path, 1, i) \in D,
         Len(s.stack) = Cardinality(SlashesIn(SubSeq(path, 1, from))) + 1,
         Eq(SubSeq(path, 1, from), Last(s.stack).path, cs),
         Housed(s, paths, n, cs)
  PROVE  Whole(PushDirs(s, path, from), paths, n, e, cs) /\ Stays(s, PushDirs(s, path, from))
<1> DEFINE N == Len(path)
           u == Pushing(s, path, from)
           T == {i \in from..N : Whole(u[i], paths, n, e, cs) /\ Stays(s, u[i])}
<1>1. N \in Nat /\ from \in Nat /\ from <= N
  BY Length, SlashesCount
<1>2. /\ u[from] = s
      /\ \A i \in from..N : i # from /\ path[i] = Slash => u[i] = PushDir(u[i - 1], path, i)
      /\ \A i \in from..N : i # from /\ path[i] # Slash => u[i] = u[i - 1]
      /\ \A i \in from..N :
           /\ Right(u[i], cs, D)
           /\ Len(u[i].stack) = Cardinality(SlashesIn(SubSeq(path, 1, i))) + 1
           /\ Eq(DirOf(SubSeq(path, 1, i)), Last(u[i].stack).path, cs)
  BY PushingSteps
<1> HIDE DEF u
<1>3. from \in T
  <2> HIDE DEF N
  <2> QED
    BY <1>1, <1>2, StaysRefl
<1>4. ASSUME NEW i \in (from + 1)..N, i - 1 \in T PROVE i \in T
  <2> DEFINE t == u[i - 1]
  <2>1. i \in from..N /\ i # from /\ i - 1 \in from..N /\ i \in 1..N /\ i - 1 \in 0..N
    BY <1>1
  <2>2. Whole(t, paths, n, e, cs) /\ Stays(s, t)
    BY <1>4
  <2>3. /\ Right(t, cs, D) /\ Len(t.stack) = Cardinality(SlashesIn(SubSeq(path, 1, i - 1))) + 1
        /\ Eq(DirOf(SubSeq(path, 1, i - 1)), Last(t.stack).path, cs)
        /\ path[i] = Slash => u[i] = PushDir(t, path, i)
        /\ path[i] # Slash => u[i] = t
    BY <2>1, <1>2
  <2> HIDE DEF t
  <2>4. CASE path[i] # Slash
    BY <2>1, <2>2, <2>3, <2>4
  <2>5. CASE path[i] = Slash
    <3>1. t.stack # <<>> /\ Cardinality(SlashesIn(SubSeq(path, 1, i))) = Len(t.stack)
      <4>1. Cardinality(SlashesIn(SubSeq(path, 1, i))) = Len(t.stack)
        BY <2>1, <2>3, <2>5, SlashMore
      <4>2. SubSeq(path, 1, i - 1) \in Bytes
        BY <2>1, FirstBytes
      <4>3. Cardinality(SlashesIn(SubSeq(path, 1, i - 1))) \in Nat
        BY <4>2, SlashesCount
      <4>4. Len(t.stack) # 0
        BY <4>3, <2>3
      <4>5. t.stack # <<>>
        BY <4>4, EmptySeq
      <4>6. QED
        BY <4>1, <4>5
    <3>2. Housed(t, paths, n, cs)
      BY <2>2, StaysHoused
    <3>3. Whole(PushDir(t, path, i), paths, n, e, cs) /\ Stays(t, PushDir(t, path, i))
      <4>1. i \in 1..Len(path) /\ Whole(t, paths, n, e, cs)
        BY <2>1, <2>2
      <4> HIDE DEF N, T
      <4>2. QED
        BY <4>1, <2>3, <2>5, <3>1, <3>2, PushWhole
    <3>4. Stays(s, PushDir(t, path, i))
      BY <2>2, <3>3, StaysTrans
    <3>5. QED
      BY <2>1, <2>3, <2>5, <3>3, <3>4
  <2>6. QED
    BY <2>4, <2>5
<1>5. \A i \in from..N : i \in T
  <2>1. from \in Int /\ N \in Int /\ from <= N
    BY <1>1
  <2> HIDE DEF T, N
  <2> QED
    BY <1>3, <1>4, <2>1, Steps
<1>6. N \in T
  <2>1. N \in from..N
    BY <1>1
  <2> HIDE DEF T, N
  <2>2. QED
    BY <2>1, <1>5
<1>7. PushDirs(s, path, from) = u[N]
  BY DEF PushDirs, u
<1> HIDE DEF N
<1>8. QED
  BY <1>6, <1>7

\* The directories of the first n paths.
HeldBy(paths, n) == {Root} \cup UNION {Holds(paths[k]) : k \in 1..n}
InOrder(paths, cs) == \A i, j \in 1..Len(paths) : i < j => ~Lt(paths[j], paths[i], cs)

\* A directory above another is a part of it.
LEMMA UpPart ==
  ASSUME NEW x \in Bytes, Len(x) \in {0} \cup SlashesIn(x), NEW j \in Nat
  PROVE  \E c \in {0} \cup SlashesIn(x) : Up(x, j) = SubSeq(x, 1, c)
<1> DEFINE C == {0} \cup SlashesIn(x)
           T == {i \in 0..j : \E c \in C : Up(x, i) = SubSeq(x, 1, c)}
<1>1. SubSeq(x, 1, Len(x)) = x
  BY SubSeqFull DEF Bytes
<1>2. 0 \in T
  <2>1. 0 \in 0..j /\ Up(x, 0) = x
    BY UpRecursion
  <2>2. QED
    BY <1>1, <2>1
<1>3. ASSUME NEW i \in (0 + 1)..j, i - 1 \in T PROVE i \in T
  <2>1. i \in Nat \ {0} /\ i \in 0..j
    OBVIOUS
  <2>2. PICK c \in C : Up(x, i - 1) = SubSeq(x, 1, c)
    BY <1>3
  <2>3. Up(x, i) = DirAbove(SubSeq(x, 1, c))
    BY <2>1, <2>2, UpRecursion
  <2>4. Len(x) \in Nat /\ c \in 0..Len(x) /\ c \in Nat
    BY Length, SlashesCount
  <2> DEFINE y == SubSeq(x, 1, c)
  <2>5. y \in Bytes /\ Len(y) = c /\ \A m \in 0..c : SubSeq(y, 1, m) = SubSeq(x, 1, m)
    BY <2>4, FirstBytes
  <2>6. \E m \in 0..Len(x) : Unslashed(y) = SubSeq(x, 1, m)
    <3> HIDE DEF y
    <3>1. CASE y = <<>>
      <4>1. c = 0
        BY <3>1, <2>5, Length
      <4>2. 0 \in 0..c
        BY <4>1
      <4>3. SubSeq(x, 1, 0) = SubSeq(y, 1, 0)
        BY <4>2, <2>5
      <4>4. SubSeq(y, 1, 0) = y
        BY <4>1, <2>5, SubSeqFull DEF Bytes
      <4>5. Unslashed(y) = y /\ 0 \in 0..Len(x)
        BY <3>1, <2>5, <2>4, UnslashedOf
      <4>6. QED
        BY <4>3, <4>4, <4>5
    <3>2. CASE y # <<>>
      <4>1. Unslashed(y) = SubSeq(y, 1, c - 1) /\ c - 1 \in 0..c
        BY <3>2, <2>5, UnslashedOf
      <4>2. SubSeq(y, 1, c - 1) = SubSeq(x, 1, c - 1) /\ c - 1 \in 0..Len(x)
        BY <4>1, <2>4, <2>5
      <4>3. QED
        BY <4>1, <4>2
    <3>3. QED
      BY <3>1, <3>2
  <2>7. PICK m \in 0..Len(x) : Unslashed(y) = SubSeq(x, 1, m)
    BY <2>6
  <2> DEFINE z == SubSeq(x, 1, m)
  <2>8. z \in Bytes /\ SlashesIn(z) = {k \in SlashesIn(x) : k <= m}
        /\ \A l \in 0..m : SubSeq(z, 1, l) = SubSeq(x, 1, l)
    BY FirstBytes
  <2>9. PICK l \in {0} \cup SlashesIn(z) : DirOf(z) = SubSeq(z, 1, l)
    <3> HIDE DEF z
    <3> QED
      BY <2>8, DirEnds
  <2>10. l \in C /\ l \in 0..m
    <3> HIDE DEF z
    <3>1. l \in {0} \cup {k \in SlashesIn(x) : k <= m}
      BY <2>8
    <3>2. SlashesIn(x) \subseteq Nat /\ m \in Nat
      BY SlashesCount, <2>4
    <3>3. QED
      BY <3>1, <3>2
  <2>11. DirAbove(y) = DirOf(z)
    BY <2>7 DEF DirAbove
  <2>12. Up(x, i) = SubSeq(x, 1, l)
    BY <2>3, <2>8, <2>9, <2>10, <2>11
  <2>13. QED
    BY <2>1, <2>10, <2>12
<1>4. \A i \in 0..j : i \in T
  <2>1. 0 \in Int /\ j \in Int /\ 0 <= j
    OBVIOUS
  <2> HIDE DEF T
  <2> QED
    BY <1>2, <1>3, <2>1, Steps
<1>5. j \in T
  <2> HIDE DEF T
  <2> QED
    BY <1>4
<1>6. QED
  BY <1>5

\* What the next path does not lie in, no later one does.
LEMMA Gone ==
  ASSUME NEW cs \in BOOLEAN, NEW paths \in Seq(Bytes), InOrder(paths, cs),
         NEW n \in Nat, n < Len(paths),
         NEW s, Right(s, cs, HeldBy(paths, n)), s.stack # <<>>,
         NEW k \in 1..Len(s.stack), k > CommonDepth(Last(s.stack).path, paths[n + 1], cs) + 1
  PROVE  Past(s.stack[k].path, paths, n + 1, cs)
<1> DEFINE st == s.stack
           L == Len(st)
           prev == Last(st).path
           path == paths[n + 1]
           d == st[k].path
<1>1. st \in Seq(Building) /\ Chain(st, cs)
  BY DEF Right, Stacks
<1>2. L \in Nat \ {0} /\ prev = st[L].path /\ prev \in Bytes /\ d \in Bytes /\ d \in HeldBy(paths, n)
      /\ Deep(prev, L - 1) /\ Deep(d, k - 1)
  <2>1. L \in Nat \ {0} /\ L \in 1..L
    BY <1>1, StackTypes
  <2>2. Last(st) = st[L]
    BY DEF Last
  <2>3. Deep(st[L].path, L - 1) /\ Deep(st[k].path, k - 1) /\ st[L].path \in Bytes /\ st[k].path \in Bytes
    BY <1>1, <2>1, StackTypes DEF Chain
  <2>4. d \in HeldBy(paths, n)
    BY DEF Right, Known
  <2>5. QED
    BY <2>1, <2>2, <2>3, <2>4
<1>3. Len(paths) \in Nat /\ n + 1 \in 1..Len(paths) /\ path \in Bytes /\ \A i \in 1..Len(paths) : paths[i] \in Bytes
  BY LenProperties, ElementOfSeq
<1> SUFFICES ASSUME NEW m \in (n + 1)..Len(paths), NEW c \in SlashesIn(paths[m]),
                    Eq(SubSeq(paths[m], 1, c), d, cs)
             PROVE  FALSE
  BY DEF Past
<1> HIDE DEF prev, path, d
<1>4. m \in 1..Len(paths) /\ paths[m] \in Bytes /\ c \in 1..Len(paths[m]) /\ c \in Nat \ {0} /\ c \in 0..Len(paths[m])
  <2>1. m \in 1..Len(paths) /\ paths[m] \in Bytes
    BY <1>3
  <2>2. c \in 1..Len(paths[m]) /\ Len(paths[m]) \in Nat
    BY <2>1, SlashesCount, Length
  <2>3. QED
    BY <2>1, <2>2
<1> DEFINE z == SubSeq(paths[m], 1, c)
<1>5. z \in Bytes /\ Len(z) = c /\ Len(d) = c /\ Eq(z, d, cs)
  <2>1. z \in Bytes /\ Len(z) = c /\ Eq(z, d, cs)
    BY <1>4, FirstBytes
  <2> HIDE DEF z
  <2>2. QED
    BY <2>1, <1>2, EqualFirst
<1>6. PICK j \in 1..n : \E b \in {0} \cup SlashesIn(paths[j]) : d = SubSeq(paths[j], 1, b)
  <2>1. d # Root
    <3>1. Len(d) # 0
      BY <1>4, <1>5
    <3>2. QED
      BY <3>1, <1>2, Length DEF Root
  <2>2. QED
    BY <2>1, <1>2 DEF HeldBy, Holds
<1> PICK b \in {0} \cup SlashesIn(paths[j]) : d = SubSeq(paths[j], 1, b)
  BY <1>6
<1>7. j \in 1..Len(paths) /\ paths[j] \in Bytes /\ j < n + 1 /\ b = c /\ c \in SlashesIn(paths[j])
  <2>1. j \in 1..Len(paths) /\ paths[j] \in Bytes /\ j < n + 1
    BY <1>3
  <2>2. b \in 0..Len(paths[j])
    BY <2>1, SlashesCount, Length
  <2>3. Len(d) = b
    BY <2>1, <2>2, FirstBytes
  <2>4. QED
    BY <2>1, <2>3, <1>4, <1>5
<1>8. ~Lt(path, paths[j], cs)
  BY <1>3, <1>7 DEF InOrder, path
<1>9. ~Lt(paths[m], path, cs)
  <2>1. CASE m = n + 1
    <3>1. Eq(path, path, cs)
      BY <1>3, EqualRefl DEF path
    <3>2. ~Lt(path, path, cs)
      BY <3>1 DEF Eq, Lt
    <3>3. QED
      BY <2>1, <3>2 DEF path
  <2>2. CASE m # n + 1
    <3>1. n + 1 < m
      BY <2>2
    <3>2. QED
      BY <3>1, <1>3, <1>4 DEF InOrder, path
  <2>3. QED
    BY <2>1, <2>2
<1>10. c \in SlashesIn(path) /\ Eq(SubSeq(path, 1, c), d, cs)
  <2>1. d = SubSeq(paths[j], 1, c)
    BY <1>7
  <2>2. Eq(SubSeq(paths[j], 1, c), SubSeq(paths[m], 1, c), cs)
    <3>1. Eq(d, z, cs)
      BY <1>2, <1>5, EqualSym
    <3>2. QED
      BY <2>1, <3>1
  <2>3. path \in Bytes
    BY <1>3 DEF path
  <2>4. QED
    BY <2>1, <2>2, <2>3, <1>4, <1>7, <1>8, <1>9, Between
<1>11. c \in SlashesIn(prev) /\ Eq(SubSeq(prev, 1, c), d, cs)
  <2>1. Eq(Up(prev, L - k), d, cs)
    <3>1. L \in 1..L /\ L - k \in 0..(L - 1) /\ L - (L - k) = k
      BY <1>2
    <3>2. Eq(Up(st[L].path, L - k), st[L - (L - k)].path, cs)
      BY <1>1, <3>1, ChainUp
    <3>3. QED
      BY <3>1, <3>2, <1>2 DEF d
  <2>2. PICK e \in {0} \cup SlashesIn(prev) : Up(prev, L - k) = SubSeq(prev, 1, e)
    <3>1. L - k \in Nat
      BY <1>2
    <3>2. QED
      BY <3>1, <1>2, UpPart DEF Deep
  <2>3. e \in 0..Len(prev)
    <3>1. Len(prev) \in Nat /\ prev \in Bytes
      BY <1>2, Length
    <3>2. SlashesIn(prev) \subseteq 1..Len(prev)
      BY <3>1, SlashesCount
    <3>3. QED
      BY <3>1, <3>2
  <2> DEFINE y == SubSeq(prev, 1, e)
  <2>4. y \in Bytes /\ Len(y) = e /\ Eq(y, d, cs)
    BY <2>1, <2>2, <2>3, <1>2, FirstBytes
  <2> HIDE DEF y
  <2>5. e = c
    <3>1. d \in Bytes /\ Len(d) = c
      BY <1>2, <1>5
    <3>2. Len(y) = Len(d)
      BY <2>4, <3>1, Equal
    <3>3. QED
      BY <2>4, <3>1, <3>2
  <2>6. QED
    BY <2>4, <2>5, <1>4 DEF y
<1>12. c \in CommonDirs(prev, path, cs)
  <2>1. c \in 1..Len(prev) /\ prev[c] = Slash /\ c <= Len(path) /\ path \in Bytes
    <3>1. path \in Bytes
      BY <1>3 DEF path
    <3>2. c \in 1..Len(prev) /\ prev[c] = Slash /\ c \in 1..Len(path)
      BY <1>10, <1>11 DEF SlashesIn
    <3>3. QED
      BY <3>1, <3>2
  <2>2. c \in 0..Len(prev) /\ c \in 0..Len(path) /\ SubSeq(prev, 1, c) \in Bytes /\ SubSeq(path, 1, c) \in Bytes
    <3>1. c \in 0..Len(prev) /\ c \in 0..Len(path)
      BY <2>1, <1>2, <1>4, Length
    <3>2. QED
      BY <3>1, <2>1, <1>2, FirstBytes
  <2>3. Eq(d, SubSeq(path, 1, c), cs)
    BY <2>2, <1>2, <1>10, EqualSym
  <2>4. Eq(SubSeq(prev, 1, c), SubSeq(path, 1, c), cs)
    BY <2>2, <2>3, <1>2, <1>11, EqualTrans
  <2>5. QED
    BY <2>1, <2>4 DEF CommonDirs
<1> DEFINE S == SlashesIn(d)
           C == CommonDirs(prev, path, cs)
<1>13. S \subseteq C
  <2>1. C = {i \in SlashesIn(prev) : ~ (i > CommonLen(prev, path, cs))}
    BY <1>2, <1>3, Common DEF path
  <2>2. c \in 0..Len(prev) /\ SubSeq(prev, 1, c) \in Bytes /\ SlashesIn(prev) \subseteq Nat
    <3>1. c \in 0..Len(prev) /\ SlashesIn(prev) \subseteq Nat
      <4>1. Len(prev) \in Nat /\ prev \in Bytes
        BY <1>2, Length
      <4>2. SlashesIn(prev) \subseteq 1..Len(prev)
        BY <4>1, SlashesCount
      <4>3. QED
        BY <4>1, <4>2, <1>11
    <3>2. QED
      BY <3>1, <1>2, FirstBytes
  <2>3. S = SlashesIn(SubSeq(prev, 1, c))
    BY <2>2, <1>2, <1>11, EqualFirst
  <2>4. S = {i \in SlashesIn(prev) : i <= c}
    BY <2>2, <2>3, <1>2, FirstBytes
  <2>5. CommonLen(prev, path, cs) \in Nat
    <3>1. CommonLen(prev, path, cs) \in {0} \cup SlashesIn(prev)
      BY <1>2, <1>3, Common DEF path
    <3>2. QED
      BY <3>1, <2>2
  <2> HIDE DEF C, S
  <2>6. c <= CommonLen(prev, path, cs)
    BY <1>4, <1>12, <2>1, <2>5 DEF C
  <2>7. QED
    BY <2>1, <2>2, <2>4, <2>5, <2>6, <1>4
<1>14. IsFiniteSet(C)
  <2>1. C \subseteq SlashesIn(prev)
    BY DEF CommonDirs, SlashesIn
  <2>2. IsFiniteSet(SlashesIn(prev))
    BY <1>2, SlashesCount
  <2>3. QED
    BY <2>1, <2>2, FS_Subset
<1>15. Cardinality(S) <= Cardinality(C) /\ Cardinality(C) \in Nat
  <2> HIDE DEF S, C
  <2> QED
    BY <1>13, <1>14, FS_Subset, FS_CardinalityType
<1>16. Cardinality(S) = k - 1 /\ k > Cardinality(C) + 1
  BY <1>2 DEF Deep, CommonDepth, prev, path
<1> HIDE DEF S, C
<1>17. QED
  BY <1>15, <1>16

\* The directories that a path lies in are on the stack, if the last one is on top.
LEMMA HoldersOnStack ==
  ASSUME NEW cs \in BOOLEAN, NEW st \in Seq(Building), Chain(st, cs), st # <<>>,
         NEW path \in Bytes, Eq(DirOf(path), Last(st).path, cs), NEW d \in Holds(path)
  PROVE  \E k \in 1..Len(st) : Eq(st[k].path, d, cs)
<1> DEFINE L == Len(st)
           x == Last(st).path
           y == DirOf(path)
<1>1. L \in Nat \ {0} /\ x = st[L].path /\ x \in Bytes /\ Deep(x, L - 1) /\ L \in 1..L
  <2>1. L \in Nat \ {0} /\ L \in 1..L
    BY StackTypes
  <2>2. Last(st) = st[L]
    BY DEF Last
  <2>3. QED
    BY <2>1, <2>2, StackTypes DEF Chain
<1>2. PICK i \in {0} \cup SlashesIn(path) : d = SubSeq(path, 1, i)
  BY DEF Holds
<1>3. PICK c \in {0} \cup SlashesIn(path) :
        /\ y = SubSeq(path, 1, c) /\ c \in 0..Len(path) /\ y \in Bytes /\ Len(y) = c
        /\ \A s \in SlashesIn(path) : s <= c
  BY DirEnds
<1>4. i \in Nat /\ i \in 0..c /\ c \in Nat /\ Len(path) \in Nat
  <2>1. SlashesIn(path) \subseteq Nat /\ Len(path) \in Nat
    BY SlashesCount, Length
  <2>2. QED
    BY <2>1, <1>3
<1>5. d = SubSeq(y, 1, i) /\ SlashesIn(y) = {k \in SlashesIn(path) : k <= c} /\ d \in Bytes
  <2>1. d = SubSeq(y, 1, i) /\ SlashesIn(y) = {k \in SlashesIn(path) : k <= c}
    BY <1>2, <1>3, <1>4, FirstBytes
  <2>2. i \in 0..Len(path)
    BY <1>3, <1>4
  <2>3. QED
    BY <2>1, <2>2, <1>2, FirstBytes
<1> HIDE DEF x, y
<1>6. SlashesIn(x) = SlashesIn(y) /\ Eq(x, y, cs) /\ i \in 0..Len(x) /\ Len(x) = Len(y)
  <2>1. Eq(x, y, cs)
    BY <1>1, <1>3, EqualSym DEF x, y
  <2>2. Len(x) = Len(y) /\ SlashesIn(x) = SlashesIn(y)
    <3>1. x \in Bytes /\ y \in Bytes
      BY <1>1, <1>3
    <3>2. Len(x) = Len(y)
      BY <2>1, <3>1, Equal
    <3>3. SlashesIn(x) = SlashesIn(y)
      BY <2>1, <3>1, EqualFirst
    <3>4. QED
      BY <3>2, <3>3
  <2>3. QED
    BY <2>1, <2>2, <1>3, <1>4
<1>7. i \in {0} \cup SlashesIn(x)
  BY <1>3, <1>5, <1>6
<1> DEFINE e == Cardinality({s \in SlashesIn(x) : s > i})
<1>8. Up(x, e) = SubSeq(x, 1, i)
  BY <1>1, <1>7, UpCut DEF Deep
<1>9. e \in 0..(L - 1)
  <2>1. IsFiniteSet(SlashesIn(x)) /\ Cardinality(SlashesIn(x)) = L - 1
    BY <1>1, SlashesCount DEF Deep
  <2> DEFINE S == SlashesIn(x)
             T == {s \in S : s > i}
  <2>2. T \subseteq S
    OBVIOUS
  <2> HIDE DEF S, T
  <2>3. IsFiniteSet(T) /\ Cardinality(T) <= Cardinality(S)
    BY <2>1, <2>2, FS_Subset DEF S
  <2>4. Cardinality(T) \in Nat
    BY <2>3, FS_CardinalityType
  <2>5. QED
    BY <2>1, <2>3, <2>4, <1>1 DEF S, T
<1> HIDE DEF e
<1>10. Eq(Up(x, e), st[L - e].path, cs)
  BY <1>1, <1>9, ChainUp
<1>11. L - e \in 1..L
  BY <1>1, <1>9
<1>12. st[L - e].path \in Bytes
  BY <1>11, StackTypes
<1>13. SubSeq(x, 1, i) \in Bytes /\ Eq(SubSeq(x, 1, i), d, cs)
  <2>1. SubSeq(x, 1, i) \in Bytes
    BY <1>1, <1>6, FirstBytes
  <2>2. Eq(SubSeq(x, 1, i), SubSeq(y, 1, i), cs)
    BY <1>1, <1>3, <1>6, EqualFirst
  <2>3. QED
    BY <2>1, <2>2, <1>5
<1>14. Eq(st[L - e].path, d, cs)
  <2>1. Eq(st[L - e].path, SubSeq(x, 1, i), cs)
    BY <1>8, <1>10, <1>12, <1>13, EqualSym
  <2>2. QED
    BY <2>1, <1>5, <1>12, <1>13, EqualTrans
<1>15. QED
  BY <1>11, <1>14

LEMMA RightMore ==
  ASSUME NEW cs, NEW D, NEW E, D \subseteq E, NEW s, Right(s, cs, D)
  PROVE  Right(s, cs, E)
BY DEF Right, Known

LEMMA WholeLater ==
  ASSUME NEW cs, NEW t, NEW paths, NEW n, NEW e \in Nat, Whole(t, paths, n, e, cs)
  PROVE  Whole(t, paths, n, e + 1, cs)
<1>1. \A m \in (e + 1)..Len(paths) : m \in e..Len(paths)
  OBVIOUS
<1>2. Closed(t, paths, e + 1, cs)
  BY <1>1 DEF Whole, Closed, Past
<1>3. QED
  BY <1>2 DEF Whole

\* What the next path adds, with all its directories.
LEMMA AddEntryWhole ==
  ASSUME NEW cs \in BOOLEAN, NEW paths \in Seq(Bytes), InOrder(paths, cs),
         NEW n \in Nat, n < Len(paths),
         NEW s, Right(s, cs, HeldBy(paths, n)), s.stack # <<>>, Whole(s, paths, n, n + 1, cs),
         Covers(Views(s), HeldBy(paths, n), cs)
  PROVE  LET v == AddEntry(s, paths[n + 1], n + 1, cs)
         IN  /\ Right(v, cs, HeldBy(paths, n + 1)) /\ v.stack # <<>>
             /\ Whole(v, paths, n + 1, n + 2, cs) /\ Covers(Views(v), HeldBy(paths, n + 1), cs)
<1> DEFINE path == paths[n + 1]
           e == n + 1
           D == HeldBy(paths, n)
           E == HeldBy(paths, e)
           st == s.stack
           prev == Last(st).path
           depth == CommonDepth(prev, path, cs)
           len == CommonLen(prev, path, cs)
           t == PopTo(s, depth, cs)
           u == PushDirs(t, path, len)
           v == AddFile(u, e)
<1>1. Len(paths) \in Nat /\ e \in 1..Len(paths) /\ \A i \in 1..Len(paths) : paths[i] \in Bytes
  BY LenProperties, ElementOfSeq
<1>2. /\ E = D \cup Holds(path) /\ \A k \in 1..n : paths[k] \in Bytes /\ Holds(paths[k]) \subseteq D
      /\ path \in Bytes /\ e \in Nat
  <2>1. \A k \in 1..e : k \in 1..n \/ k = e
    OBVIOUS
  <2>2. e \in 1..e /\ \A k \in 1..n : k \in 1..e
    OBVIOUS
  <2>3. E = D \cup Holds(path)
    BY <2>1, <2>2 DEF HeldBy
  <2>4. \A k \in 1..n : Holds(paths[k]) \subseteq D
    BY DEF HeldBy
  <2>5. QED
    BY <2>3, <2>4, <1>1
<1>3. AddEntry(s, path, e, cs) = v
  BY Zenon DEF AddEntry
<1>4. ASSUME NEW k \in 1..Len(st), k > depth + 1 PROVE Past(st[k].path, paths, e, cs)
  BY <1>4, Gone
<1> HIDE DEF path, D, E
<1>5. Right(s, cs, E) /\ Right(s, cs, D) /\ st \in Seq(Building) /\ Chain(st, cs)
  <2>1. Right(s, cs, D)
    BY DEF D
  <2>2. D \subseteq E
    BY <1>2
  <2>3. Right(s, cs, E)
    BY <2>1, <2>2, RightMore
  <2>4. QED
    BY <2>1, <2>3 DEF Right, Stacks
<1>6. /\ depth \in 0..(Len(st) - 1) /\ len \in {0} \cup SlashesIn(path)
      /\ Cardinality(SlashesIn(SubSeq(path, 1, len))) = depth
      /\ Eq(SubSeq(path, 1, len), st[depth + 1].path, cs)
  BY <1>2, <1>5, PartsOnStack
<1>7. Len(st) \in Nat /\ depth \in Nat /\ depth \in (-1)..(Len(st) - 1) /\ depth + 1 \in 0..Len(st)
      /\ depth + 1 \in 1..(depth + 1)
  <2>1. Len(st) \in Nat
    BY <1>5, StackTypes
  <2> HIDE DEF depth, st
  <2>2. QED
    BY <2>1, <1>6
<1>8. Whole(s, paths, n, e, cs)
  OBVIOUS
<1> HIDE DEF e
<1> HIDE DEF depth, len
<1>9. Right(t, cs, E) /\ t.stack = SubSeq(st, 1, depth + 1)
  BY <1>5, <1>7, PopToKeeps
<1>10. Whole(t, paths, n, e, cs) /\ Views(t) = Views(s)
  <2>1. \A k \in 1..Len(s.stack) : k > depth + 1 => Past(s.stack[k].path, paths, e, cs)
    BY <1>4
  <2>2. QED
    BY <2>1, <1>5, <1>7, <1>8, PopToWhole
<1> HIDE DEF t
<1>11. Len(t.stack) = depth + 1 /\ t.stack[depth + 1] = st[depth + 1]
  BY <1>5, <1>7, <1>9, Prefix
<1>12. t.stack # <<>> /\ Last(t.stack) = st[depth + 1]
  <2>1. Len(t.stack) # 0
    BY <1>7, <1>11
  <2>2. t.stack # <<>>
    BY <2>1, EmptySeq
  <2>3. QED
    BY <2>2, <1>11 DEF Last
<1>13. /\ \A i \in SlashesIn(path) : SubSeq(path, 1, i) \in E
       /\ Len(t.stack) = Cardinality(SlashesIn(SubSeq(path, 1, len))) + 1
       /\ Eq(SubSeq(path, 1, len), Last(t.stack).path, cs)
  <2>1. \A i \in SlashesIn(path) : SubSeq(path, 1, i) \in E
    BY <1>2 DEF Holds
  <2>2. QED
    BY <2>1, <1>6, <1>11, <1>12
<1>14. Right(u, cs, E) /\ u.stack # <<>> /\ Eq(DirOf(path), Last(u.stack).path, cs)
  BY <1>2, <1>6, <1>9, <1>12, <1>13, PushingKeeps
<1>15. Housed(t, paths, n, cs)
  <2>1. ASSUME NEW k \in 1..n PROVE \E x \in Views(t) : Eq(x.path, DirOf(paths[k]), cs)
    <3>1. paths[k] \in Bytes
      BY <1>2
    <3>2. DirOf(paths[k]) \in Holds(paths[k])
      BY <3>1, ParentOf
    <3>3. DirOf(paths[k]) \in D
      BY <3>2, <1>2
    <3>4. QED
      BY <3>3, <1>10 DEF Covers, D
  <2>2. QED
    BY <2>1, <1>2 DEF Housed
<1>16. Whole(u, paths, n, e, cs) /\ Stays(t, u)
  <2>1. path = paths[e]
    BY DEF path, e
  <2>2. QED
    BY <2>1, <1>1, <1>2, <1>6, <1>9, <1>10, <1>12, <1>13, <1>15, PushingWhole
<1> HIDE DEF u
<1>17. Whole(v, paths, e, e, cs) /\ Stays(u, v)
  <2>1. paths[n + 1] \in Bytes /\ Eq(DirOf(paths[n + 1]), Last(u.stack).path, cs)
    BY <1>2, <1>14 DEF path
  <2>2. QED
    BY <2>1, <1>14, <1>16, AddFileWhole DEF e
<1>18. Right(v, cs, E) /\ v.stack # <<>>
  <2>1. Right(AddEntry(s, path, e, cs), cs, E) /\ AddEntry(s, path, e, cs).stack # <<>>
    BY <1>2, <1>5, AddEntryKeeps
  <2>2. QED
    BY <2>1, <1>3
<1> HIDE DEF v
<1>19. Whole(v, paths, e, e + 1, cs)
  BY <1>2, <1>17, WholeLater
<1>20. Covers(Views(v), E, cs)
  <2>1. ASSUME NEW d \in E PROVE \E x \in Views(v) : Eq(x.path, d, cs)
    <3>1. \E x \in Views(u) : Eq(x.path, d, cs)
      <4>1. CASE d \in D
        <5>1. PICK x \in Views(t) : Eq(x.path, d, cs)
          BY <4>1, <1>10 DEF Covers, D
        <5>2. QED
          BY <5>1, <1>16 DEF Stays
      <4>2. CASE d \in Holds(path)
        <5>1. u.stack \in Seq(Building) /\ Chain(u.stack, cs)
          BY <1>14 DEF Right, Stacks
        <5>2. PICK k \in 1..Len(u.stack) : Eq(u.stack[k].path, d, cs)
          BY <4>2, <5>1, <1>2, <1>14, HoldersOnStack
        <5>3. Seen(u.stack[k]) \in Views(u) /\ Seen(u.stack[k]).path = u.stack[k].path
          BY DEF Views, Seen
        <5>4. QED
          BY <5>2, <5>3
      <4>3. QED
        BY <4>1, <4>2, <1>2
    <3>2. QED
      BY <3>1, <1>17 DEF Stays
  <2>2. QED
    BY <2>1 DEF Covers
<1>21. e + 1 = n + 2
  BY DEF e
<1>22. QED
  BY <1>3, <1>18, <1>19, <1>20, <1>21 DEF E, e, path

LEMMA NoDirsRight ==
  ASSUME NEW cs \in BOOLEAN, NEW D, Root \in D
  PROVE  Right(NoDirs, cs, D) /\ NoDirs.stack # <<>>
<1>1. <<>> \in Seq(Bytes) /\ Len(<<>>) = 0 /\ 0 \in 0..0 /\ \A i \in 1..0 : FALSE
  BY EmptySeq
<1> DEFINE u == Adding(<<>>, cs)
           ps == <<>>
<1>2. \A i \in 1..Len(ps) : Holds(ps[i]) \subseteq D
  BY <1>1
<1> HIDE DEF ps
<1>3. ps \in Seq(Bytes) /\ Len(ps) = 0
  BY <1>1 DEF ps
<1>4. Adding(ps, cs)[0] = NoDirs /\ Right(Adding(ps, cs)[0], cs, D) /\ Adding(ps, cs)[0].stack # <<>>
  BY <1>1, <1>2, <1>3, AddingSteps
<1>5. QED
  BY <1>4

\* At the beginning there is the root.
LEMMA NoDirsWhole ==
  ASSUME NEW cs \in BOOLEAN, NEW paths
  PROVE  Whole(NoDirs, paths, 0, 1, cs) /\ Covers(Views(NoDirs), HeldBy(paths, 0), cs)
<1> DEFINE d == IndexDir(<<>>, <<>>, 0)
           x == Seen(d)
<1>1. /\ d.path = <<>> /\ d.basename = <<>> /\ d.subdirs = <<>> /\ d.files = <<>>
      /\ d \in Building
  <2>1. <<>> \in Bytes /\ <<>> \in Seq(Nat) /\ <<>> \in Seq(Bytes)
    BY EmptySeq DEF Bytes
  <2>2. QED
    BY <2>1 DEF IndexDir, Building
<1> HIDE DEF d
<1>2. x \in View /\ x.path = <<>> /\ x.files = {} /\ x.subdirs = {}
  <2>1. x \in View
    BY <1>1, SeenType
  <2>2. Range(<<>>) = {}
    BY DEF Range
  <2>3. QED
    BY <2>1, <2>2, <1>1 DEF Seen
<1>3. /\ Len(NoDirs.stack) = 1 /\ NoDirs.stack[1] = d /\ Len(NoDirs.dirs) = 0
      /\ (\A k \in 1..1 : k = 1) /\ (\A k \in 1..0 : FALSE) /\ 1 \in 1..1
  BY DEF NoDirs, d
<1>4. Views(NoDirs) = {x}
  BY <1>3 DEF Views
<1> HIDE DEF x
<1>5. Family({x}, cs)
  <2>1. x.path = Root
    BY <1>2 DEF Root
  <2>2. ~Below(x, x, cs)
    BY <2>1 DEF Below
  <2>3. QED
    BY <2>1, <2>2, <1>2 DEF Family
<1>6. Apart(NoDirs, cs)
  BY <1>3 DEF Apart
<1>7. NamesRight(NoDirs, cs)
  <2>1. NoTwins(<<>>, cs)
    <3>1. Len(<<>>) = 0
      OBVIOUS
    <3>2. QED
      BY <3>1, <1>3 DEF NoTwins
  <2>2. QED
    BY <2>1, <1>1, <1>3 DEF NamesRight
<1>8. FilesRight({x}, paths, 0, cs)
  BY <1>2, <1>3 DEF FilesRight
<1>9. Closed(NoDirs, paths, 1, cs)
  BY <1>3 DEF Closed
<1>10. Covers({x}, HeldBy(paths, 0), cs)
  <2>1. HeldBy(paths, 0) = {<<>>}
    BY <1>3 DEF HeldBy, Root
  <2>2. <<>> \in Bytes
    BY EmptySeq DEF Bytes
  <2>3. Eq(<<>>, <<>>, cs)
    BY <2>2, EqualRefl
  <2>4. QED
    BY <2>1, <2>3, <1>2 DEF Covers
<1>11. QED
  BY <1>4, <1>5, <1>6, <1>7, <1>8, <1>9, <1>10 DEF Whole

\* The tree of the first n paths.
TreeOfFirst(t, paths, n, cs) ==
  /\ Right(t, cs, HeldBy(paths, n)) /\ t.stack # <<>>
  /\ Whole(t, paths, n, n + 1, cs) /\ Covers(Views(t), HeldBy(paths, n), cs)

LEMMA AddingWhole ==
  ASSUME NEW cs \in BOOLEAN, NEW paths \in Seq(Bytes), InOrder(paths, cs)
  PROVE  TreeOfFirst(Adding(paths, cs)[Len(paths)], paths, Len(paths), cs)
<1> DEFINE N == Len(paths)
           u == Adding(paths, cs)
           D == HeldBy(paths, N)
           T == {i \in 0..N : TreeOfFirst(u[i], paths, i, cs)}
<1>1. N \in Nat
  BY LenProperties
<1>2. u[0] = NoDirs /\ \A i \in 0..N : i # 0 => u[i] = AddEntry(u[i - 1], paths[i], i, cs)
  <2>1. Root \in D /\ \A i \in 1..Len(paths) : Holds(paths[i]) \subseteq D
    BY DEF HeldBy
  <2> HIDE DEF D
  <2>2. QED
    BY <2>1, AddingSteps
<1> HIDE DEF u
<1>3. 0 \in T
  <2>1. Root \in HeldBy(paths, 0)
    BY DEF HeldBy
  <2>2. 0 \in 0..N /\ 0 + 1 = 1
    BY <1>1
  <2>3. Right(NoDirs, cs, HeldBy(paths, 0)) /\ NoDirs.stack # <<>>
    BY <2>1, NoDirsRight
  <2>4. TreeOfFirst(NoDirs, paths, 0, cs)
    BY <2>2, <2>3, NoDirsWhole DEF TreeOfFirst
  <2> HIDE DEF N
  <2>5. QED
    BY <2>2, <2>4, <1>2
<1>4. ASSUME NEW i \in (0 + 1)..N, i - 1 \in T PROVE i \in T
  <2> DEFINE n == i - 1
             s == u[n]
  <2>1. n \in Nat /\ n < Len(paths) /\ i = n + 1 /\ i + 1 = n + 2 /\ i \in 0..N /\ i # 0
    BY <1>1
  <2>2. TreeOfFirst(s, paths, n, cs)
    BY <1>4
  <2>3. u[i] = AddEntry(s, paths[n + 1], n + 1, cs)
    BY <2>1, <1>2
  <2> HIDE DEF n, s
  <2> DEFINE v == AddEntry(s, paths[n + 1], n + 1, cs)
  <2>4. /\ Right(v, cs, HeldBy(paths, n + 1)) /\ v.stack # <<>>
        /\ Whole(v, paths, n + 1, n + 2, cs) /\ Covers(Views(v), HeldBy(paths, n + 1), cs)
    BY <2>1, <2>2, AddEntryWhole DEF TreeOfFirst
  <2> HIDE DEF v
  <2>5. TreeOfFirst(v, paths, i, cs)
    BY <2>1, <2>4 DEF TreeOfFirst
  <2>6. QED
    BY <2>1, <2>3, <2>5 DEF v
<1>5. \A i \in 0..N : i \in T
  <2>1. 0 \in Int /\ N \in Int /\ 0 <= N
    BY <1>1
  <2> HIDE DEF T, N
  <2> QED
    BY <1>3, <1>4, <2>1, Steps
<1>6. N \in T
  <2>1. N \in 0..N
    BY <1>1
  <2> HIDE DEF T, N
  <2>2. QED
    BY <2>1, <1>5
<1>7. QED
  BY <1>6 DEF u

\* The directories of an index, in what order they may be.
SeenIn(ds) == {Seen(ds[j]) : j \in 1..Len(ds)}
Exactly(ds, paths, cs) ==
  /\ Family(SeenIn(ds), cs) /\ Covers(SeenIn(ds), HeldBy(paths, Len(paths)), cs)
  /\ FilesRight(SeenIn(ds), paths, Len(paths), cs)
  /\ \A i, j \in 1..Len(ds) : Eq(ds[i].path, ds[j].path, cs) => i = j
  /\ \A j \in 1..Len(ds) : Rising(ds[j].subdirs, cs)

LEMMA InitDirsExact ==
  ASSUME NEW cs \in BOOLEAN, NEW paths \in Seq(Bytes), InOrder(paths, cs)
  PROVE  Exactly(InitDirs(paths, cs), paths, cs)
<1> DEFINE N == Len(paths)
           D == HeldBy(paths, N)
           s == Adding(paths, cs)[N]
           t == PopTo(s, -1, cs)
           es == t.dirs
           n == Len(es)
           ds == InitDirs(paths, cs)
<1>1. Right(s, cs, D) /\ Whole(s, paths, N, N + 1, cs) /\ Covers(Views(s), D, cs)
  BY AddingWhole DEF TreeOfFirst
<1>2. N \in Nat /\ \A m \in (N + 1)..Len(paths) : FALSE
  BY LenProperties
<1>3. -1 \in (-1)..(Len(s.stack) - 1)
  <2>1. Len(s.stack) \in Nat
    BY <1>1, LenProperties DEF Right, Stacks
  <2> HIDE DEF s
  <2>2. QED
    BY <2>1
<1>4. ds = Reverse(es)
  BY Zenon DEF InitDirs
<1> HIDE DEF s
<1>5. Right(t, cs, D) /\ t.stack = SubSeq(s.stack, 1, (-1) + 1)
  <2> HIDE DEF D
  <2> QED
    BY <1>1, <1>3, PopToKeeps
<1>6. Whole(t, paths, N, N + 1, cs) /\ Views(t) = Views(s)
  <2>1. \A k \in 1..Len(s.stack) : k > (-1) + 1 => Past(s.stack[k].path, paths, N + 1, cs)
    BY <1>2 DEF Past
  <2> HIDE DEF D, N
  <2>2. QED
    BY <2>1, <1>1, <1>3, PopToWhole
<1> HIDE DEF t, D
<1>7. \A k \in 1..Len(t.stack) : FALSE
  <2>1. s.stack \in Seq(Building)
    BY <1>1 DEF Right, Stacks
  <2>2. 0 \in 0..Len(s.stack)
    BY <2>1, StackTypes
  <2>3. Len(SubSeq(s.stack, 1, 0)) = 0
    BY <2>1, <2>2, Prefix
  <2>4. QED
    BY <2>3, <1>5
<1>8. es \in Seq(Built) /\ n \in Nat
  <2>1. es \in Seq(Built)
    BY <1>5 DEF Right, Stacks
  <2>2. QED
    BY <2>1, BuiltTypes
<1>9. \A j \in 1..n : (n - j) + 1 \in 1..n /\ (n - ((n - j) + 1)) + 1 = j
  BY <1>8
<1>10. ds = [j \in 1..n |-> es[(n - j) + 1]]
  BY <1>4 DEF Reverse
<1>11. Len(ds) = n /\ \A j \in 1..n : ds[j] = es[(n - j) + 1]
  <2> HIDE DEF ds, es, n
  <2>1. ds \in [1..n -> {es[m] : m \in 1..n}]
    BY <1>9, <1>10
  <2>2. Len(ds) = n
    BY <2>1, <1>8, FunctionIsSeq
  <2>3. QED
    BY <2>2, <1>10
<1> HIDE DEF ds
<1>12. Views(t) = {Seen(es[m]) : m \in 1..n}
  BY <1>7 DEF Views
<1> HIDE DEF es, n
<1>13. SeenIn(ds) = Views(t)
  <2>1. ASSUME NEW x \in Views(t) PROVE x \in SeenIn(ds)
    <3>1. PICK m \in 1..n : x = Seen(es[m])
      BY <1>12
    <3>2. (n - m) + 1 \in 1..n /\ ds[(n - m) + 1] = es[m]
      BY <1>9, <1>11
    <3>3. QED
      BY <3>1, <3>2, <1>11 DEF SeenIn
  <2>2. ASSUME NEW x \in SeenIn(ds) PROVE x \in Views(t)
    <3>1. PICK j \in 1..n : x = Seen(ds[j])
      BY <1>11 DEF SeenIn
    <3>2. QED
      BY <3>1, <1>9, <1>11, <1>12
  <2>3. QED
    BY <2>1, <2>2
<1>14. ASSUME NEW i \in 1..n, NEW j \in 1..n, Eq(ds[i].path, ds[j].path, cs) PROVE i = j
  <2>1. (n - i) + 1 \in 1..n /\ (n - j) + 1 \in 1..n
    BY <1>9
  <2>2. Eq(es[(n - i) + 1].path, es[(n - j) + 1].path, cs)
    BY <1>11, <1>14
  <2>3. (n - i) + 1 = (n - j) + 1
    BY <2>1, <2>2, <1>6 DEF Whole, Apart, es, n
  <2>4. QED
    BY <2>3, <1>8
<1>15. \A j \in 1..n : Rising(ds[j].subdirs, cs)
  <2>1. \A m \in 1..n : Rising(es[m].subdirs, cs)
    BY <1>6 DEF Whole, NamesRight, es, n
  <2>2. QED
    BY <2>1, <1>9, <1>11
<1>16. Family(Views(t), cs) /\ Covers(Views(t), D, cs) /\ FilesRight(Views(t), paths, N, cs)
  BY <1>1, <1>6 DEF Whole
<1>17. Exactly(ds, paths, cs)
  BY <1>11, <1>13, <1>14, <1>15, <1>16 DEF Exactly, D
<1>18. QED
  BY <1>17 DEF ds

LEMMA PathsRight ==
  ASSUME NEW ix \in Seq(Entry)
  PROVE  /\ PathsOf(ix) \in Seq(Bytes) /\ Len(PathsOf(ix)) = Len(ix) /\ DOMAIN ix = 1..Len(ix)
         /\ Len(ix) \in Nat /\ \A i \in 1..Len(ix) : PathsOf(ix)[i] = ix[i].path /\ ix[i].path \in Bytes
<1> DEFINE n == Len(ix)
           ps == PathsOf(ix)
<1>1. n \in Nat /\ DOMAIN ix = 1..n /\ \A i \in 1..n : ix[i] \in Entry
  BY LenProperties, ElementOfSeq
<1>2. \A i \in 1..n : ix[i].path \in Bytes
  BY <1>1 DEF Entry
<1>3. ps = [i \in 1..n |-> ix[i].path]
  BY <1>1 DEF PathsOf
<1> HIDE DEF ps, n
<1>4. ps \in [1..n -> Bytes]
  BY <1>2, <1>3
<1>5. ps \in Seq(Bytes) /\ Len(ps) = n
  BY <1>1, <1>4, FunctionIsSeq DEF n
<1>6. \A i \in 1..n : ps[i] = ix[i].path
  BY <1>3
<1>7. QED
  BY <1>1, <1>2, <1>5, <1>6 DEF n, ps

LEMMA JoinNotRoot ==
  ASSUME NEW cs \in BOOLEAN, NEW p \in Bytes, NEW x \in Bytes, NEW b \in Bytes,
         Eq(p, x \o b \o <<Slash>>, cs)
  PROVE  p # Root
<1> DEFINE z == x \o b \o <<Slash>>
<1>1. z \in Bytes /\ Len(z) = Len(x) + Len(b) + 1
  BY Join
<1>2. Len(x) \in Nat /\ Len(b) \in Nat
  BY Length
<1>3. Eq(p, z, cs)
  OBVIOUS
<1> HIDE DEF z
<1>4. Len(p) = Len(z)
  BY <1>1, <1>3, Equal
<1>5. Len(p) # 0
  BY <1>1, <1>2, <1>4
<1>6. QED
  BY <1>5, Length DEF Root

\* The tree of an index that is in order.
LEMMA TreeIsRight ==
  ASSUME IndexInv, InOrder(PathsOf(index), CS)
  PROVE  TreeIsIndex
<1> DEFINE cs == CS
           paths == PathsOf(index)
           N == Len(paths)
           n == Len(dirs)
<1>1. cs \in BOOLEAN /\ index \in Seq(Entry) /\ dirs = InitDirs(paths, cs) /\ splits = InitSplits(dirs)
  BY DEF IndexInv, Constructed, CS, Caps
<1>2. /\ paths \in Seq(Bytes) /\ N = Len(index) /\ DOMAIN index = 1..N /\ N \in Nat
      /\ \A i \in 1..N : paths[i] = index[i].path /\ paths[i] \in Bytes
  BY <1>1, PathsRight
<1>3. Exactly(dirs, paths, cs)
  <2>1. InOrder(paths, cs)
    OBVIOUS
  <2> HIDE DEF paths, cs
  <2>2. QED
    BY <2>1, <1>1, <1>2, InitDirsExact
<1>4. Object(dirs, splits, cs)
  BY <1>1, ObjectRight
<1>5. dirs \in Seq(Built) /\ DOMAIN dirs = 1..n /\ n \in Nat /\ \A j \in 1..n : dirs[j] \in Built
  <2>1. dirs \in Seq(Built)
    BY <1>4 DEF Object
  <2>2. QED
    BY <2>1, BuiltTypes
<1>6. \A j \in 1..n : /\ Seen(dirs[j]) \in SeenIn(dirs) /\ Seen(dirs[j]) \in View
                      /\ Seen(dirs[j]).path = dirs[j].path /\ Seen(dirs[j]).basename = dirs[j].basename
                      /\ Seen(dirs[j]).files = Range(dirs[j].files)
                      /\ Seen(dirs[j]).subdirs = Range(dirs[j].subdirs)
                      /\ dirs[j].subdirs \in Seq(Bytes) /\ dirs[j].path \in Bytes /\ dirs[j].basename \in Bytes
  <2> TAKE j \in 1..n
  <2>1. dirs[j] \in Built
    BY <1>5
  <2>2. QED
    BY <2>1, SeenType DEF Seen, SeenIn
<1> HIDE DEF paths, N
<1>7. ASSUME NEW i \in DOMAIN index, NEW d \in Holds(index[i].path)
      PROVE  \E j \in Dirs : \A h \in Dirs : Same(dirs[h].path, d) <=> h = j
  <2>1. i \in 1..N /\ index[i].path = paths[i] /\ paths[i] \in Bytes
    BY <1>2
  <2>2. d \in HeldBy(paths, N) /\ d \in Bytes
    <3>1. d \in HeldBy(paths, N)
      BY <2>1, <1>7 DEF HeldBy
    <3>2. PICK c \in {0} \cup SlashesIn(paths[i]) : d = SubSeq(paths[i], 1, c)
      BY <2>1 DEF Holds
    <3>3. c \in 0..Len(paths[i])
      <4>1. Len(paths[i]) \in Nat
        BY <2>1, Length
      <4>2. SlashesIn(paths[i]) \subseteq 1..Len(paths[i])
        BY <2>1, SlashesCount
      <4>3. QED
        BY <4>1, <4>2
    <3>4. QED
      BY <3>1, <3>2, <3>3, <2>1, FirstBytes
  <2>3. PICK x \in SeenIn(dirs) : Eq(x.path, d, cs)
    BY <2>2, <1>3 DEF Exactly, Covers, N
  <2>4. PICK j \in 1..n : x = Seen(dirs[j])
    BY <2>3 DEF SeenIn
  <2>5. Eq(dirs[j].path, d, cs) /\ dirs[j].path \in Bytes
    BY <2>3, <2>4, <1>6
  <2>6. ASSUME NEW h \in 1..n, Eq(dirs[h].path, d, cs) PROVE h = j
    <3>1. dirs[h].path \in Bytes
      BY <1>6
    <3>2. Eq(d, dirs[j].path, cs)
      BY <2>2, <2>5, <1>1, EqualSym
    <3>3. Eq(dirs[h].path, dirs[j].path, cs)
      BY <3>1, <3>2, <2>2, <2>5, <2>6, <1>1, EqualTrans
    <3>4. QED
      BY <3>3, <1>3 DEF Exactly
  <2>7. QED
    BY <2>5, <2>6, <1>5 DEF Same, Dirs
<1>8. ASSUME NEW j \in 1..n
      PROVE  /\ dirs[j].depth = Cardinality(SlashesIn(dirs[j].path))
             /\ \A i \in DOMAIN index :
                  Same(DirOf(index[i].path), dirs[j].path) <=> i \in Range(dirs[j].files)
             /\ \A x, y \in DOMAIN dirs[j].subdirs :
                  x < y => Lt(dirs[j].subdirs[x], dirs[j].subdirs[y], CS)
  <2>1. dirs[j].depth = Cardinality(SlashesIn(dirs[j].path))
    BY <1>4 DEF Object, Deep
  <2>2. Range(dirs[j].files) = {i \in 1..N : Eq(DirOf(paths[i]), dirs[j].path, cs)}
    <3>1. Seen(dirs[j]).files = {i \in 1..N : Eq(DirOf(paths[i]), Seen(dirs[j]).path, cs)}
      BY <1>3, <1>6 DEF Exactly, FilesRight, N
    <3>2. QED
      BY <3>1, <1>6
  <2>3. DOMAIN dirs[j].subdirs = 1..Len(dirs[j].subdirs)
    BY <1>6, LenProperties
  <2>4. Rising(dirs[j].subdirs, cs)
    BY <1>3 DEF Exactly
  <2>5. \A i \in DOMAIN index :
          Same(DirOf(index[i].path), dirs[j].path) <=> i \in Range(dirs[j].files)
    BY <2>2, <1>2 DEF Same
  <2>6. QED
    BY <2>1, <2>3, <2>4, <2>5 DEF Rising
<1>9. ASSUME NEW j \in 1..n, NEW h \in 1..n
      PROVE  dirs[h].path # Root /\ Same(Up(dirs[h].path, 1), dirs[j].path) <=>
             /\ dirs[h].basename \in Range(dirs[j].subdirs)
             /\ Same(dirs[h].path, dirs[j].path \o dirs[h].basename \o <<Slash>>)
  <2> DEFINE F == SeenIn(dirs)
             x == Seen(dirs[j])
             y == Seen(dirs[h])
             z == x.path \o y.basename \o <<Slash>>
  <2>1. Family(F, cs)
    BY <1>3 DEF Exactly
  <2>2. /\ x \in F /\ y \in F /\ x \in View /\ y \in View
        /\ x.path = dirs[j].path /\ y.path = dirs[h].path /\ y.basename = dirs[h].basename
        /\ x.subdirs = Range(dirs[j].subdirs) /\ x.path \in Bytes /\ y.path \in Bytes /\ y.basename \in Bytes
    BY <1>6
  <2> HIDE DEF F, x, y
  <2>3. /\ y.path # Root => Named(y)
        /\ Below(y, x, cs) => y.basename \in x.subdirs
    BY <2>1, <2>2 DEF Family
  <2>4. Eq(y.path, z, cs) => y.path # Root
    <3>1. y.path \in Bytes /\ x.path \in Bytes /\ y.basename \in Bytes /\ cs \in BOOLEAN
      BY <2>2, <1>1
    <3>2. QED
      BY <3>1, JoinNotRoot
  <2>5. y.path # Root /\ Eq(Up(y.path, 1), x.path, cs) <=> y.basename \in x.subdirs /\ Eq(y.path, z, cs)
    <3>1. ASSUME y.path # Root, Eq(Up(y.path, 1), x.path, cs)
          PROVE  y.basename \in x.subdirs /\ Eq(y.path, z, cs)
      <4>1. Below(y, x, cs) /\ Named(y)
        BY <3>1, <2>3 DEF Below
      <4>2. QED
        BY <4>1, <2>2, <2>3, <1>1, BelowJoin
    <3>2. ASSUME Eq(y.path, z, cs)
          PROVE  y.path # Root /\ Eq(Up(y.path, 1), x.path, cs)
      <4>1. y.path # Root /\ Named(y)
        BY <3>2, <2>3, <2>4
      <4>2. Below(y, x, cs)
        BY <3>2, <4>1, <2>2, <1>1, BelowJoin
      <4>3. QED
        BY <4>2 DEF Below
    <3>3. QED
      BY <3>1, <3>2
  <2>6. QED
    BY <2>2, <2>5 DEF Same
<1>10. \A j \in Dirs :
        {h \in Dirs : dirs[h].path # Root /\ Same(Up(dirs[h].path, 1), dirs[j].path)}
          = {h \in Dirs : dirs[h].basename \in Range(dirs[j].subdirs)
                          /\ Same(dirs[h].path, dirs[j].path \o dirs[h].basename \o <<Slash>>)}
  BY <1>5, <1>9 DEF Dirs
<1>11. ASSUME NEW j \in Dirs \ {1}
       PROVE  LET d == dirs[j - 1].depth + 1 - dirs[j].depth
              IN  d >= 0 /\ Same(Up(dirs[j].path, 1), Up(dirs[j - 1].path, d))
  <2>1. j \in 2..n /\ j \in 1..n /\ j - 1 \in 1..n
    BY <1>5 DEF Dirs
  <2>2. /\ dirs[j].depth <= dirs[j - 1].depth + 1
        /\ Eq(Up(dirs[j].path, 1), Up(dirs[j - 1].path, dirs[j - 1].depth + 1 - dirs[j].depth), cs)
    BY <2>1, <1>4 DEF Object
  <2>3. dirs[j].depth \in Nat /\ dirs[j - 1].depth \in Nat
    BY <2>1, <1>5, BuiltTypes
  <2>4. QED
    BY <2>2, <2>3 DEF Same
<1>12. /\ \A x, y \in DOMAIN splits : x < y => splits[x] < splits[y]
       /\ splits[1] = 0 /\ Last(splits) = Len(dirs)
  <2>1. Cuts(splits, Len(dirs)) /\ splits[Len(splits)] = Len(dirs)
    BY <1>1, <1>5, SplitsRight
  <2>2. DOMAIN splits = 1..Len(splits)
    BY <2>1, LenProperties DEF Cuts
  <2>3. QED
    BY <2>1, <2>2 DEF Cuts, Last
<1>13. QED
  BY <1>5, <1>7, <1>8, <1>10, <1>11, <1>12 DEF TreeIsIndex, Dirs

\* The index is one that may come with these capabilities.
OfRepository == \E o \in Objects : caps = o[2] /\ index \in IndicesOf(o)

LEMMA RepositoryKeeps ==
  ASSUME OfRepository, [Next]_vars
  PROVE  OfRepository'
<1>1. CASE \E ix \in Scanned : NewIndex(ix)
  <2>1. PICK ix \in Scanned : NewIndex(ix)
    BY <1>1
  <2>2. index \in Scanned /\ index' = ix /\ caps' = caps
    BY <2>1 DEF NewIndex
  <2>3. PICK o \in Objects : caps = o[2] /\ index \in IndicesOf(o)
    BY DEF OfRepository
  <2>4. o[1] \in Scanned
    BY <2>2, <2>3 DEF IndicesOf
  <2>5. ix \in IndicesOf(o)
    BY <2>4 DEF IndicesOf
  <2>6. QED
    BY <2>2, <2>3, <2>5 DEF OfRepository
<1>2. CASE index' = index /\ caps' = caps
  BY <1>2 DEF OfRepository
<1>3. CASE Tick
  BY <1>2, <1>3 DEF Tick, object
<1>4. CASE \E p \in Paths : \E m \in Possible[p] : Change(p, m)
  BY <1>2, <1>4 DEF Change, object
<1>5. CASE \E o \in ScanOpts : GetDirtyCandidates(o) \/ RootUnreadable(o)
  BY <1>2, <1>5 DEF GetDirtyCandidates, RootUnreadable, OpenRoot, object
<1>6. CASE \E k \in Tasks : Step(k)
  <2>1. PICK k \in Tasks : Step(k)
    BY <1>6
  <2>2. CASE StartTask(k)
    BY <1>2, <2>2 DEF StartTask, object
  <2>3. CASE ScanDirs(k)
    BY <1>2, <2>3 DEF ScanDirs, object
  <2>4. CASE Collect(k)
    BY <1>2, <2>4 DEF Collect, object
  <2>5. CASE Leave(k)
    BY <1>2, <2>5 DEF Leave, object
  <2>6. QED
    BY <2>1, <2>2, <2>3, <2>4, <2>5 DEF Step
<1>7. CASE Return
  BY <1>2, <1>7 DEF Return, object
<1>8. CASE UNCHANGED vars
  BY <1>2, <1>8 DEF vars, object
<1>9. QED
  BY <1>1, <1>3, <1>4, <1>5, <1>6, <1>7, <1>8 DEF Next

THEOREM ObjectsStayOfRepository == Spec => []OfRepository
<1>1. Init => OfRepository
  BY DEF Init, OfRepository, IndicesOf
<1>2. OfRepository /\ [Next]_vars => OfRepository'
  BY RepositoryKeeps
<1>3. QED
  BY <1>1, <1>2, PTL DEF Spec

\* Of every index in git's order the constructor makes exactly its directories,
\* each once, below the one it lies in, with its own files and the names of
\* those in it, and splits that cut them without a rest; NewIndex too.
THEOREM TreeStaysIndex == Spec => []TreeIsIndex
<1>1. IndexInv /\ OfRepository => TreeIsIndex
  <2> SUFFICES ASSUME IndexInv, OfRepository PROVE TreeIsIndex
    OBVIOUS
  <2>1. PICK o \in Objects : caps = o[2] /\ index \in IndicesOf(o)
    BY DEF OfRepository
  <2>2. \A i, j \in DOMAIN index : i < j => ~Lt(index[j].path, index[i].path, CS)
    BY <2>1, OrderAssumption DEF CS
  <2>3. index \in Seq(Entry)
    BY DEF IndexInv, Constructed
  <2>4. InOrder(PathsOf(index), CS)
    BY <2>2, <2>3, PathsRight DEF InOrder
  <2>5. QED
    BY <2>4, TreeIsRight
<1>2. QED
  BY <1>1, IndexInvariance, ObjectsStayOfRepository, PTL

\* So too for the indices whose tree a run looks at.
THEOREM TreeIsRightWhenFresh == Spec => []TreeMatchesIndex
<1>1. TreeIsIndex => TreeMatchesIndex
  BY DEF TreeMatchesIndex
<1>2. QED
  BY <1>1, TreeStaysIndex, PTL
=============================================================================
