------------------------------ MODULE MCMailbox ------------------------------
(* Instances of Mailbox for TLC.                                           *)
EXTENDS Mailbox

Pairs == {<<2, 3>>}
TwoAndOne == [p \in Proc |-> IF p = 2 THEN 2 ELSE 1]
=============================================================================
