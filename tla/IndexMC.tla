------------------------------- MODULE IndexMC -------------------------------
(***************************************************************************)
(* Working trees of two indices are explored.  Beyond them, every sorted   *)
(* index of at most MaxFiles of the given paths is turned into directories *)
(* and shards, with and without case.                                      *)
(***************************************************************************)
EXTENDS Index

CONSTANT MaxFiles

\* a b c f u: letters; A: the same letter as a, without case; m and dot: the
\* bytes before the slash; e: a byte above 127.
a == 97
b == 98
c == 99
f == 102
u == 117
A == 65
m == 45
dot == 46
e == 195

File(p) == [path |-> p, mode |-> "644", data |-> 1, stage |-> 0]
Scan1 == <<File(<<a, Slash, f>>), File(<<b, Slash, a, Slash, a, Slash, f>>)>>
Scan2 == <<File(<<a, Slash, f>>), File(<<b, Slash, a, Slash, f>>), File(<<c, Slash, f>>)>>
McScanned == {Scan1, Scan2}

Universe == {<<a>>, <<e>>, <<A, Slash, f>>, <<a, Slash, f, Slash, a>>, <<a, m, Slash, f>>, <<a, Slash, a>>,
             <<a, Slash, b, Slash, f>>, <<e, Slash, f>>, <<e, Slash, e, Slash, f>>, <<a, dot, f>>}
McProbes == Universe \cup {p \o <<Slash>> : p \in Universe} \cup {<<>>, <<a, Slash>>, <<b, Slash>>}
IsIndex(ps, cs) ==
  \A p, q \in ps : p # q => ~Eq(p, q, cs) /\ ~Eq(p \o <<Slash>>, Truncate(q, Len(p) + 1), cs)
Able == [case_sensitive |-> TRUE, has_symlinks |-> TRUE, trust_filemode |-> TRUE]
Poor == [case_sensitive |-> FALSE, has_symlinks |-> FALSE, trust_filemode |-> FALSE]
CapsFor(cs) == IF cs THEN Able ELSE Poor

McObjects ==
  {<<Scan1, Able>>, <<Scan2, Poor>>} \cup
  {<<[i \in 1..Cardinality(x[1]) |-> File(SortSet(x[1], x[2])[i])], CapsFor(x[2])>> :
     x \in {y \in (UNION {kSubset(n, Universe) : n \in 0..MaxFiles}) \X BOOLEAN :
              IsIndex(y[1], y[2])}}

\* Directories that weigh just enough for a split each, and one more.
McFull ==
  {<<<<File(<<a, Slash, f>>), File(<<b, Slash, a>>), File(<<b, Slash, b>>), File(<<b, Slash, c>>),
       File(<<c, Slash, a>>), File(<<c, Slash, b>>), File(<<c, Slash, c>>)>>, Able>>}

McPaths ==
  {Root, <<a>>, <<a, Slash, f>>, <<b>>, <<b, Slash, a>>, <<b, Slash, a, Slash, f>>,
   <<b, Slash, a, Slash, a>>, <<b, Slash, a, Slash, a, Slash, f>>, <<b, Slash, u>>,
   <<c>>, <<c, Slash, f>>}
McUntidy == {<<b, Slash, u>>}
Of(mode, n) == [mode |-> mode, data |-> n]
McPossible ==
  [p \in McPaths |->
     CASE p = Root -> {Dir, Locked}
       [] p = <<a, Slash, f>> -> {None, Dir, Of("644", 1), Of("644", 2), Of("755", 1)}
       [] p = <<b, Slash, a>> -> {Dir, Locked, Of("644", 1)}
       [] p \in {<<a>>, <<c>>} -> {None, Dir}
       [] p \in {<<b, Slash, u>>, <<b, Slash, a, Slash, f>>} -> {None, Of("644", 1)}
       [] p \in {<<b>>, <<b, Slash, a, Slash, a>>} -> {Dir}
       [] OTHER -> {Of("644", 1)}]
=============================================================================
