------------------------------- MODULE Barrier -------------------------------
(***************************************************************************)
(* What barrier_group promises ("similar to MPI_Barrier", context.h): no   *)
(* member leaves a barrier before every member has entered it, and when    *)
(* all have entered, all leave. The promise ends when a message of the     *)
(* group is sent twice.                                                    *)
(***************************************************************************)
EXTENDS Naturals

CONSTANT Member

VARIABLES
  arrived,  \* the barriers each member has entered
  left,     \* those it has left
  broken    \* the promise has ended

Init == arrived = [p \in Member |-> 0] /\ left = [p \in Member |-> 0] /\ broken = FALSE

Arrive(p) ==
  /\ arrived[p] = left[p]
  /\ arrived' = [arrived EXCEPT ![p] = @ + 1]
  /\ UNCHANGED left

Leave(p) ==
  /\ left[p] < arrived[p]
  /\ \A q \in Member : arrived[q] >= arrived[p]
  /\ left' = [left EXCEPT ![p] = @ + 1]
  /\ UNCHANGED arrived

Move == \E p \in Member : Arrive(p) \/ Leave(p)
Break == broken' = TRUE /\ UNCHANGED <<arrived, left>>

Next ==
  /\ ~broken
  /\ \/ Move /\ UNCHANGED broken
     \/ Break

Vars == <<arrived, left, broken>>
Goes(p) == ~broken /\ Leave(p) /\ UNCHANGED broken
Spec == Init /\ [][Next]_Vars /\ \A p \in Member : WF_Vars(Goes(p))
=============================================================================
