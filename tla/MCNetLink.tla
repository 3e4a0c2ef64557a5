------------------------------ MODULE MCNetLink ------------------------------
(* Instances of NetLink for TLC.                                           *)
EXTENDS NetLink

Case(m, l, o, a) ==
  [toMaster |-> m, mayLose |-> l, user |-> [s \in Side |-> IF s = "opener" THEN o ELSE a]]

\* A connection that holds, and one that may be lost at any moment.
Holding == {Case(TRUE, FALSE, 1, 0), Case(FALSE, FALSE, 0, 3)}
Losing == {Case(TRUE, TRUE, 0, 0), Case(FALSE, TRUE, 0, 0)}
HoldingOrLosing == Holding \cup Losing
OneMessage == {Case(FALSE, FALSE, 1, 0)}
OneOrTwo == OneMessage \cup {Case(FALSE, FALSE, 0, 2)}
=============================================================================
