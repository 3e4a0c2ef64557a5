---------------------------- MODULE MCLocalAgent ----------------------------
(* Instances of LocalAgent for TLC.                                        *)
EXTENDS LocalAgent, TLC

CONSTANTS c1, c2

ClientSymmetry == Permutations(Client)

\* A run that ends, one that asks to be run again at once, one that sleeps for
\* a message and one that sleeps for a time.
BasicCodes == {{}, {"again0"}, {"onmsg"}, {"timed"}}
KillCodes == {{}, {"again0"}, {"canmove"}}

-----------------------------------------------------------------------------
(* What goes on at once where liveness is checked: two cases in one graph. *)
(* Only calls and what run methods return are held back. Every step that   *)
(* Fairness owes leads from a state with OneCase to one, so the states     *)
(* left out take nothing from a behaviour that has to go on.               *)

\* Processes that end or ask to go on, launched by one client.
OnlyLaunched ==
  /\ alive /\ told = {} /\ op[c2] = "idle" /\ op[c1] \in {"idle", "size", "grow"}
  /\ \A w \in Worker : wpc[w] # "recv"
  /\ \A t \in Task :
       /\ mode[t] \in {"empty", "ready", "running", "done"}
       /\ ~killreq[t] /\ ~onmsg[t] /\ ontime[t] = "never" /\ inbox[t] = 0

\* One process, to which everything happens.
OneProcess == \A t \in Task \ {1} : mode[t] = "empty"

OneCase == OnlyLaunched \/ OneProcess
=============================================================================
