------------------------------ MODULE MCCluster ------------------------------
(* Instances of Cluster for TLC.                                           *)
EXTENDS Cluster

CONSTANTS c1, c2

\* A master 2 between the uuids of its nodes.
TwoNodes == {1, 2, 3}
OnFirst == [c \in Client |-> 1]
OnLast == [c \in Client |-> 3]
OneCpu == [n \in Node |-> 1]
AllJobs == [n \in Node |-> "all"]
NoJobs == [n \in Node |-> "no"]

Ask(n) == [n |-> n, where |-> NoNode, slaves |-> FALSE]
AskAt(n, w) == [n |-> n, where |-> w, slaves |-> FALSE]
Slaves(n) == [n |-> n, where |-> NoNode, slaves |-> TRUE]

Pair == {Ask(2)}
PairOrSlaves == {Ask(2), Slaves(2)}
PairOrPlaced == {Ask(2), AskAt(1, 3)}
=============================================================================
