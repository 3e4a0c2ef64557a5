------------------------------ MODULE TaskLife ------------------------------
(***************************************************************************)
(* What an agent promises to the users of its tasks, without threads,      *)
(* locks or sleep: a task is created once, its run method is called by one *)
(* thread at a time while it is alive, it dies once and for all, and only  *)
(* of a dead task is anybody told that it is dead.                         *)
(***************************************************************************)
CONSTANT Task

VARIABLES
  life,      \* "unborn", "live" or "dead"
  running,   \* the tasks inside their run method
  told       \* the tasks somebody was told are dead

vars == <<life, running, told>>

Init ==
  /\ life = [t \in Task |-> "unborn"]
  /\ running = {}
  /\ told = {}

Create(S) ==
  /\ S # {} /\ \A t \in S : life[t] = "unborn"
  /\ life' = [t \in Task |-> IF t \in S THEN "live" ELSE life[t]]
  /\ UNCHANGED <<running, told>>

Begin(t) ==
  /\ life[t] = "live" /\ t \notin running
  /\ running' = running \cup {t}
  /\ UNCHANGED <<life, told>>

End(t) ==
  /\ t \in running
  /\ running' = running \ {t}
  /\ UNCHANGED <<life, told>>

Die(t) ==
  /\ life[t] = "live" /\ t \notin running
  /\ life' = [life EXCEPT ![t] = "dead"]
  /\ UNCHANGED <<running, told>>

Tell(t) ==
  /\ life[t] = "dead"
  /\ told' = told \cup {t}
  /\ UNCHANGED <<life, running>>

Next ==
  \/ \E S \in SUBSET Task : Create(S)
  \/ \E t \in Task : Begin(t) \/ End(t) \/ Die(t) \/ Tell(t)

Spec == Init /\ [][Next]_vars
=============================================================================
