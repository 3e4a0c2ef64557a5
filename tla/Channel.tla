------------------------------- MODULE Channel -------------------------------
(***************************************************************************)
(* What a link between two agents promises the messages of their tasks: in *)
(* each direction those of one lane are executed in the order they were    *)
(* sent, none is skipped. The lanes are the two ways messages are executed *)
(* by their receiver; what of one lane was sent later may be executed      *)
(* before what was sent of the other. (A repetition of the last one        *)
(* changes nothing here: that a message may be executed twice is said of   *)
(* NetLink itself.)                                                        *)
(***************************************************************************)
EXTENDS Naturals

CONSTANTS Side, Peer(_), Lane, LaneOf(_)    \* LaneOf(n): the lane of message n

VARIABLES
  sent,    \* messages each side has sent
  seen     \* the number of the last one of each lane each side has executed

vars == <<sent, seen>>

Init ==
  /\ sent = [s \in Side |-> 0]
  /\ seen = [s \in Side |-> [l \in Lane |-> 0]]

Send(s) ==
  /\ sent' = [sent EXCEPT ![s] = @ + 1]
  /\ UNCHANGED seen

\* Message n is the first of lane l that was not executed.
IsNext(s, l, n) ==
  /\ LaneOf(n) = l /\ seen[s][l] < n
  /\ \A k \in 1..(n - 1) : LaneOf(k) = l => k <= seen[s][l]

See(s, l) ==
  /\ \E n \in 1..sent[Peer(s)] : IsNext(s, l, n) /\ seen' = [seen EXCEPT ![s][l] = n]
  /\ UNCHANGED sent

Next == \E s \in Side : Send(s) \/ \E l \in Lane : See(s, l)

\* A reliable channel also gets every message through.
Spec == Init /\ [][Next]_vars
Reliable == Spec /\ \A s \in Side, l \in Lane : WF_vars(See(s, l))
=============================================================================
