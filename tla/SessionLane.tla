----------------------------- MODULE SessionLane -----------------------------
(***************************************************************************)
(* What a session promises its Runs: they are served one after the other   *)
(* in the order they arrived, and a Run that has left never returns.       *)
(* Leases, workers, tasks and statuses are details of RunStore, which      *)
(* implements this specification.                                          *)
(***************************************************************************)
EXTENDS Naturals

CONSTANTS Runs, SessionOf, NoSession

VARIABLES
  seat,    \* arrival number of a Run, 0 before it arrives
  open,    \* Runs that arrived and have not ended
  begun    \* Runs that were served at least once

vars == <<seat, open, begun>>

SameLane(q, r) == SessionOf[q] = SessionOf[r] /\ SessionOf[r] # NoSession

Init ==
  /\ seat = [r \in Runs |-> 0]
  /\ open = {}
  /\ begun = {}

(* A new Run takes a seat behind everybody else.                           *)
Arrive(r) ==
  /\ seat[r] = 0
  /\ \A q \in Runs : seat[q] < seat'[r]
  /\ seat' = [seat EXCEPT ![r] = seat'[r]]
  /\ open' = open \cup {r}
  /\ UNCHANGED begun

(* The Run at the head of its lane is served.                              *)
Begin(r) ==
  /\ r \in open
  /\ \A q \in open \ {r} : SameLane(q, r) => seat[r] < seat[q]
  /\ begun' = begun \cup {r}
  /\ UNCHANGED <<seat, open>>

(* Runs end, wherever they stand in their lanes.                           *)
Leave ==
  /\ open' \subseteq open
  /\ UNCHANGED <<seat, begun>>

Next == Leave \/ \E r \in Runs : Arrive(r) \/ Begin(r)

Spec == Init /\ [][Next]_vars
=============================================================================
