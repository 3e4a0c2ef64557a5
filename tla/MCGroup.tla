------------------------------- MODULE MCGroup -------------------------------
(* Instances of Group for TLC.                                             *)
EXTENDS Group

\* On one agent, receiving from anyone, and on one to three agents by index.
Places == {[p \in Member |-> 1], [p \in Member |-> IF p = 0 THEN 1 ELSE 2],
           [p \in Member |-> IF p = 2 THEN 2 ELSE 1], [p \in Member |-> p + 1]}
LocalOrSpread ==
  {[at |-> [p \in Member |-> 1], any |-> TRUE]} \cup {[at |-> a, any |-> FALSE] : a \in Places}
=============================================================================
