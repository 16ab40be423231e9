------------------------------- MODULE TagDbMC -------------------------------
(***************************************************************************)
(* Two commits, an annotated tag of one of them and a tag of that tag.     *)
(* Tag 3 is in the directory 1: foo, foo-x, foo/bar, v.                    *)
(***************************************************************************)
EXTENDS TagDb

CONSTANTS c1, c2, t1, t2

McPoints == (t1 :> c1) @@ (t2 :> t1)
None == [n \in Names |-> NoRef]
McDirOf == (3 :> 1)
McFirstLoose == {None, [None EXCEPT ![2] = Symbolic], [None EXCEPT ![1] = t2, ![4] = c2],
                 [None EXCEPT ![3] = c2, ![4] = t1]}
Plain(n, o) == [name |-> n, id |-> o, peeled |-> NoRef]
Peeled(n, o) == [name |-> n, id |-> o, peeled |-> Commit(o)]
Pack(h, ls, ok) == [exists |-> TRUE, header |-> h, lines |-> ls, valid |-> ok]
McFirstPacked ==
  {NoFile,
   Pack("full", <<Plain(1, c1), Peeled(2, t1), Plain(4, c1)>>, TRUE),
   Pack("full", <<Plain(2, c2), Peeled(3, t1), Plain(4, c2)>>, TRUE),
   Pack("partial", <<Plain(4, c1), Plain(2, t1), Plain(1, c1)>>, TRUE),
   Pack("none", <<Plain(2, c1)>>, TRUE),
   Pack("full", <<Plain(1, c1), Plain(2, c1)>>, FALSE)}
=============================================================================
