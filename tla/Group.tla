-------------------------------- MODULE Group --------------------------------
(***************************************************************************)
(* A group of tasks (launch_group, launch_slaves) that exchange messages   *)
(* and meet in barriers: send_msg, recv_msg, barrier_group and wait_group  *)
(* of agent/context.cpp, over the mailboxes of one or more agents.         *)
(*                                                                         *)
(* The members run a program of rounds: each sends a message to every      *)
(* other, in the order of their indexes, receives one from each, by its    *)
(* index or from anyone of the group, and enters the barrier. The barrier  *)
(* uses the mailboxes too: nothing marks its messages but who sent them    *)
(* and when. That includes a message that is sent twice, as the first one  *)
(* of a fresh link between two agents may be (see NetLink): it passes for  *)
(* one of a later round. The model ends there, and so do the promises.     *)
(***************************************************************************)
EXTENDS Integers, Sequences, FiniteSets, SequencesExt

CONSTANTS
  N,        \* get_group_size
  Rounds,   \* bound: the rounds of the program
  Waiters,  \* the members that call wait_group at its end
  Setups    \* where the members are, and whether they receive from anyone

ASSUME ConstantsAssumption ==
  /\ N \in Nat \ {0, 1} /\ Rounds \in Nat \ {0}
  /\ Waiters \subseteq 0..(N - 1)
  /\ \A s \in Setups : s.any \in BOOLEAN /\ DOMAIN s.at = 0..(N - 1)

Member == 0..(N - 1)

VARIABLES
  setup,  \* the one of Setups
  box,    \* pm_msgqueue of each member
  wire,   \* wire[<<a, b>>]: the send_data_msgs on the link from agent a to agent b
  pc,     \* where each member is
  x,      \* the loop variable of the loop it is in
  round,  \* the round it is in
  twice   \* a message of a fresh link was sent twice

groupVars == <<setup, box, wire, pc, x, round>>
vars == <<groupVars, twice>>

Agent == {setup.at[p] : p \in Member}

Init ==
  /\ setup \in Setups
  /\ box = [p \in Member |-> <<>>]
  /\ wire = [l \in Agent \X Agent |-> <<>>]
  /\ pc = [p \in Member |-> "talk"]
  /\ x = [p \in Member |-> 1]
  /\ round = [p \in Member |-> 1]
  /\ twice = FALSE

\* The other members, in the order of their indexes.
Others(p) == [k \in 1..(N - 1) |-> IF k <= p THEN k - 1 ELSE k]

-----------------------------------------------------------------------------
(* Messages.                                                               *)

\* recv_msg looks at src only; tag and round say what a message is for.
Message == [src : Member, tag : {"user", "ok", "go"}, round : 1..Rounds]
Msg(p, tag) == [src |-> p, tag |-> tag, round |-> round[p]]

\* send_msg to member q: into its mailbox if it is on the same agent and alive, over
\* the link of their agents else.
SendTo(p, q, tag) ==
  IF setup.at[p] = setup.at[q]
  THEN /\ box' = IF pc[q] = "gone" THEN box ELSE [box EXCEPT ![q] = Append(@, Msg(p, tag))]
       /\ UNCHANGED wire
  ELSE /\ wire' = [wire EXCEPT ![<<setup.at[p], setup.at[q]>>] = Append(@, [to |-> q, msg |-> Msg(p, tag)])]
       /\ UNCHANGED box

Deliver(a, b) ==
  /\ wire[<<a, b>>] # <<>>
  /\ LET d == Head(wire[<<a, b>>])
     IN  box' = IF pc[d.to] = "gone" THEN box ELSE [box EXCEPT ![d.to] = Append(@, d.msg)]
  /\ wire' = [wire EXCEPT ![<<a, b>>] = Tail(@)]
  /\ UNCHANGED <<setup, pc, x, round>>

\* The first message on a link, which a nottmp_hello_msg lets out a second time.
Double(a, b) ==
  /\ a # b /\ wire[<<a, b>>] # <<>>
  /\ wire' = [wire EXCEPT ![<<a, b>>] = <<Head(@)>> \o @]
  /\ twice' = TRUE
  /\ UNCHANGED <<setup, box, pc, x, round>>

\* Mutant: the others wait for a message of anyone, not of index 0.
FromAnyone(p) == CASE pc[p] = "listen" -> IF setup.any THEN Member ELSE {Others(p)[x[p]]}
                   [] pc[p] = "collect" -> {x[p]}
                   [] pc[p] = "await" -> Member
                   [] OTHER -> {}

\* Who a receive is from: the program's, that of index 0 in the barrier, of the others.
From(p) == CASE pc[p] = "listen" -> IF setup.any THEN Member ELSE {Others(p)[x[p]]}
             [] pc[p] = "collect" -> {x[p]}
             [] pc[p] = "await" -> {0}
             [] OTHER -> {}

\* recv_msg: the first message from one of From(p)
IsFirst(p, i) ==
  /\ i \in DOMAIN box[p] /\ box[p][i].src \in From(p)
  /\ \A j \in 1..(i - 1) : box[p][j].src \notin From(p)
Take(p) ==
  /\ \E i \in DOMAIN box[p] : IsFirst(p, i) /\ box' = [box EXCEPT ![p] = RemoveAt(@, i)]
  /\ UNCHANGED <<setup, wire>>

\* The end of a pass through a loop of n passes: the next one, or what follows.
Pass(p, n, after) ==
  IF x[p] < n THEN x' = [x EXCEPT ![p] = @ + 1] /\ UNCHANGED pc
  ELSE x' = [x EXCEPT ![p] = 1] /\ pc' = [pc EXCEPT ![p] = after]

-----------------------------------------------------------------------------
(* The program.                                                            *)

Talk(p) ==
  /\ pc[p] = "talk"
  /\ SendTo(p, Others(p)[x[p]], "user")
  /\ Pass(p, N - 1, "listen")
  /\ UNCHANGED <<setup, round>>

\* The last pass leads into the barrier.
Listen(p) ==
  /\ pc[p] = "listen"
  /\ Take(p)
  /\ Pass(p, N - 1, IF p = 0 THEN "collect" ELSE "report")
  /\ UNCHANGED round

\* barrier_group of index 0
CollectedShort == N - 2                               \* mutant: one too few
Collected == N - 1
Collect(p) ==
  /\ pc[p] = "collect"
  /\ Take(p)
  /\ Pass(p, Collected, "release")
  /\ UNCHANGED round

\* Leaving the barrier: the next round, or the end of the program.
AfterBarrier(r) == IF r < Rounds THEN "talk" ELSE "over"

ReleasedShort == N - 2                                \* mutant: one too few
Released == N - 1
Release(p) ==
  /\ pc[p] = "release"
  /\ SendTo(p, x[p], "go")
  /\ Pass(p, Released, AfterBarrier(round[p]))
  /\ round' = IF x[p] < Released THEN round ELSE [round EXCEPT ![p] = @ + 1]
  /\ UNCHANGED setup

\* barrier_group of the others
Report(p) ==
  /\ pc[p] = "report"
  /\ SendTo(p, 0, "ok")
  /\ pc' = [pc EXCEPT ![p] = "await"]
  /\ UNCHANGED <<setup, x, round>>

Await(p) ==
  /\ pc[p] = "await"
  /\ Take(p)
  /\ pc' = [pc EXCEPT ![p] = AfterBarrier(round[p])]
  /\ round' = [round EXCEPT ![p] = @ + 1]
  /\ UNCHANGED x

\* The run method returns, after a wait_group or without.
Finish(p) ==
  /\ pc[p] = "over"
  /\ pc' = [pc EXCEPT ![p] = IF p \in Waiters THEN "waiting" ELSE "gone"]
  /\ box' = IF p \in Waiters THEN box ELSE [box EXCEPT ![p] = <<>>]
  /\ UNCHANGED <<setup, wire, x, round>>

\* Mutant: the wait is for the first task only that is asked about.
WaitedFirst == 1
\* wait_group: wait_task of every index from 1 on, but the own one. Index 0 is not among
\* them, whoever calls.
Waited == N - 1
WaitGroup(p) ==
  /\ pc[p] = "waiting"
  /\ x[p] = p \/ pc[x[p]] = "gone"
  /\ Pass(p, Waited, "waited")
  /\ UNCHANGED <<setup, box, wire, round>>

End(p) ==
  /\ pc[p] = "waited"
  /\ pc' = [pc EXCEPT ![p] = "gone"] /\ box' = [box EXCEPT ![p] = <<>>]
  /\ UNCHANGED <<setup, wire, x, round>>

MemberStep(p) ==
  \/ Talk(p) \/ Listen(p) \/ Collect(p) \/ Release(p) \/ Report(p) \/ Await(p)
  \/ Finish(p) \/ WaitGroup(p) \/ End(p)

Act == \/ \E p \in Member : MemberStep(p)
       \/ \E a, b \in Agent : Deliver(a, b)

Next ==
  /\ ~twice
  /\ \/ Act /\ UNCHANGED twice
     \/ \E a, b \in Agent : Double(a, b)

Spec == Init /\ [][Next]_vars

\* Members go on when they can (see LocalAgent), links deliver (see NetLink).
Undoubled(A) == ~twice /\ A /\ UNCHANGED twice
FairSpec ==
  /\ Spec
  /\ \A p \in Member : WF_vars(Undoubled(MemberStep(p)))
  /\ WF_vars(Undoubled(\E a, b \in Agent : Deliver(a, b)))

-----------------------------------------------------------------------------
(* Properties.                                                             *)

\* The types of the variables.
TypeOK ==
  /\ setup \in Setups
  /\ box \in [Member -> Seq(Message)]
  /\ wire \in [Agent \X Agent -> Seq([to : Member, msg : Message])]
  /\ pc \in [Member -> {"talk", "listen", "collect", "release", "report", "await", "over", "waiting",
                        "waited", "gone"}]
  /\ x \in [Member -> 1..(N - 1)] /\ round \in [Member -> 1..(Rounds + 1)]
  /\ twice \in BOOLEAN

\* As long as no message was sent twice, a receive takes a message meant for it: those
\* of the program and of the barrier, of this round and of the next, share the
\* mailboxes and are not mixed up.
Meant(p) == CASE pc[p] = "listen" -> "user" [] pc[p] = "collect" -> "ok" [] OTHER -> "go"
TakesTheRight ==
  ~twice => \A p \in Member : \A i \in DOMAIN box[p] :
    IsFirst(p, i) => box[p][i].tag = Meant(p) /\ box[p][i].round = round[p]

\* The barrier implements its promise, which ends when a message is sent twice.
InBarrier == {"collect", "release", "report", "await"}
arrived == [p \in Member |-> IF pc[p] \in InBarrier THEN round[p] ELSE round[p] - 1]
left == [p \in Member |-> round[p] - 1]
B == INSTANCE Barrier WITH broken <- twice
IsBarrier == B!Spec

\* A program of rounds comes to its end, as long as no message is sent twice.
ProgramEnds == <>(twice \/ \A p \in Member : pc[p] = "gone")

\* When wait_group returns, whoever called it, all the others from index 1 on are dead:
\* all the others of the group for index 0, for another all but index 0.
WaitGroupWaits ==
  \A p \in Member : pc[p] = "waited" => \A q \in Member \ {0, p} : pc[q] = "gone"
=============================================================================
