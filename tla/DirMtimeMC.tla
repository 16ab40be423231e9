------------------------------ MODULE DirMtimeMC ------------------------------
(***************************************************************************)
(* Two daemons, and a directory left by a killed one at any of its steps,  *)
(* or one that belongs to another user.                                    *)
(***************************************************************************)
EXTENDS DirMtime

CONSTANTS d1, d2, l1, l2

McLeftGrown ==
  {(l1 :> n) @@ (l2 :> 0) : n \in 0..Len(Parts)} \cup {(l1 :> 0) @@ (l2 :> 2)}
=============================================================================
