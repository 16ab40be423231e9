------------------------------ MODULE WorkerMC ------------------------------
(* Two segments: the reply to one asks for the other, as prompt_time does. *)
EXTENDS Worker
CONSTANTS time, next
McId == {time, next}
McChained == [i \in McId |-> IF i = time THEN next ELSE None]
=============================================================================
