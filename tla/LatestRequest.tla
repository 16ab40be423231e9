---------------------------- MODULE LatestRequest ----------------------------
(***************************************************************************)
(* What the prompt may expect of its background worker, whatever pipes and *)
(* processes are in between.  Requests with one id supersede each other: a *)
(* later one may be served instead of an earlier one, never the other way  *)
(* round, and the last one is served unless the worker is shut down.  The  *)
(* result of a request is shown before the next request with its id is     *)
(* served, so results with one id never overtake each other.               *)
(***************************************************************************)
EXTENDS Naturals

CONSTANTS Id, MaxReq

VARIABLES
  on,      \* the worker accepts requests
  asked,   \* number of the last request with an id
  served,  \* number of the last request with an id that was evaluated
  shown    \* number of the request whose result the prompt shows

vars == <<on, asked, served, shown>>

Zeros == [i \in Id |-> 0]

Init == on = FALSE /\ asked = Zeros /\ served = Zeros /\ shown = Zeros

\* Asking is up to the prompt: it may ask for several ids at a time.
Ask(i) ==
  /\ on /\ asked[i] < MaxReq
  /\ asked' = [asked EXCEPT ![i] = @ + 1]
  /\ UNCHANGED <<on, served, shown>>

Serve(i) ==
  /\ on
  /\ \E n \in (served[i] + 1)..asked[i] : served' = [served EXCEPT ![i] = n]
  /\ UNCHANGED <<on, asked, shown>>

\* Whoever looks at a result may ask for something else because of it.
Show(i) ==
  /\ on
  /\ shown' = [shown EXCEPT ![i] = served[i]]
  /\ \/ asked' = asked
     \/ \E j \in Id : asked[j] < MaxReq /\ asked' = [asked EXCEPT ![j] = @ + 1]
  /\ UNCHANGED <<on, served>>

SwitchOn == ~on /\ on' = TRUE /\ asked' = Zeros /\ served' = Zeros /\ shown' = Zeros
SwitchOff == on /\ on' = FALSE /\ UNCHANGED <<asked, served, shown>>

Next == SwitchOn \/ SwitchOff \/ \E i \in Id : Ask(i) \/ Serve(i) \/ Show(i)

Spec == Init /\ [][Next]_vars /\ \A i \in Id : WF_vars(Serve(i))
=============================================================================
