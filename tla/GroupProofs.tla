----------------------------- MODULE GroupProofs -----------------------------
(***************************************************************************)
(* Proofs about Group, for a group of any size, any number of rounds and   *)
(* any distribution of the members over agents.                            *)
(***************************************************************************)
EXTENDS Group, TLAPS

\* What the proofs use of the assumption on the constants.
LEMMA Constants ==
  /\ N \in Nat /\ N >= 2 /\ Rounds \in Nat /\ Rounds >= 1
  /\ 0 \in Member /\ 1 \in 1..(N - 1) /\ Member \subseteq Nat /\ 1..(N - 1) = Member \ {0}
BY ConstantsAssumption DEF ConstantsAssumption, Member

\* One place of a function changes.
LEMMA Updated ==
  ASSUME NEW D, NEW S, NEW f \in [D -> S], NEW d \in D, NEW e \in S
  PROVE  /\ [f EXCEPT ![d] = e] \in [D -> S]
         /\ [f EXCEPT ![d] = e][d] = e
         /\ \A c \in D \ {d} : [f EXCEPT ![d] = e][c] = f[c]
OBVIOUS

-----------------------------------------------------------------------------
(* Where the members are.                                                  *)

Working == {"talk", "listen", "collect", "release", "report", "await"}
Place == Working \cup {"over", "waiting", "waited", "gone"}

\* Every member is somewhere in its program, its loops in their bounds.
ControlOK ==
  /\ pc \in [Member -> Place]
  /\ x \in [Member -> 1..(N - 1)]

\* Who is through with its loops starts the next one at its beginning; who waits has
\* waited for every index from 1 to below the one it is at, but its own.
Through == {"report", "await", "over"}
WaitInv ==
  \A p \in Member :
    /\ pc[p] \in Through => x[p] = 1
    /\ pc[p] = "waiting" => \A q \in (1..(x[p] - 1)) \ {p} : pc[q] = "gone"
    /\ pc[p] = "waited" => \A q \in (1..(N - 1)) \ {p} : pc[q] = "gone"

\* A member in a loop goes on in it or leaves it at its end.
LEMMA PassStep ==
  ASSUME ControlOK, NEW p \in Member, NEW after \in Place, Pass(p, N - 1, after)
  PROVE  \/ /\ x[p] < N - 1 /\ x' = [x EXCEPT ![p] = x[p] + 1] /\ x[p] + 1 \in 1..(N - 1)
            /\ pc' = pc
         \/ /\ x[p] = N - 1 /\ x' = [x EXCEPT ![p] = 1] /\ 1 \in 1..(N - 1)
            /\ pc' = [pc EXCEPT ![p] = after]
<1>1. x[p] \in 1..(N - 1)
  BY DEF ControlOK
<1>2. N \in Nat /\ 1 \in 1..(N - 1)
  BY Constants
<1>3. CASE x[p] < N - 1
  BY <1>1, <1>2, <1>3 DEF Pass
<1>4. CASE ~(x[p] < N - 1)
  BY <1>1, <1>2, <1>4 DEF Pass
<1> QED
  BY <1>3, <1>4

\* Where a member may be after a step, and that nobody else moves: one line per action.
LEMMA Moves ==
  ASSUME ControlOK, NEW p \in Member, MemberStep(p)
  PROVE  \E at \in Place, k \in 1..(N - 1) :
           /\ pc' = [pc EXCEPT ![p] = at] /\ x' = [x EXCEPT ![p] = k]
           /\ at \in Through => k = 1 \/ (pc[p] \in Through /\ k = x[p])
           /\ at \in {"waiting", "waited"} =>
                \/ pc[p] = "over" /\ at = "waiting" /\ k = x[p]
                \/ /\ pc[p] = "waiting" /\ (x[p] = p \/ pc[x[p]] = "gone")
                   /\ \/ at = "waiting" /\ k = x[p] + 1
                      \/ at = "waited" /\ x[p] = N - 1
           /\ pc[p] # "gone"
<1>1. x[p] \in 1..(N - 1) /\ pc[p] \in Place /\ 1 \in 1..(N - 1)
  BY Constants DEF ControlOK
<1>2. pc = [pc EXCEPT ![p] = pc[p]] /\ x = [x EXCEPT ![p] = x[p]]
  BY DEF ControlOK
<1>3. CASE Talk(p)
  <2>1. Pass(p, N - 1, "listen") /\ pc[p] = "talk"
    BY <1>3 DEF Talk
  <2> QED
    BY <1>1, <1>2, <2>1, PassStep DEF Place, Working, Through
<1>4. CASE Listen(p)
  <2>1. Pass(p, N - 1, IF p = 0 THEN "collect" ELSE "report") /\ pc[p] = "listen"
    BY <1>4 DEF Listen
  <2> QED
    BY <1>1, <1>2, <2>1, PassStep DEF Place, Working, Through
<1>5. CASE Collect(p)
  <2>1. Pass(p, N - 1, "release") /\ pc[p] = "collect"
    BY <1>5 DEF Collect, Collected
  <2> QED
    BY <1>1, <1>2, <2>1, PassStep DEF Place, Working, Through
<1>6. CASE Release(p)
  <2>1. Pass(p, N - 1, AfterBarrier(round[p])) /\ pc[p] = "release"
    BY <1>6 DEF Release, Released
  <2>2. AfterBarrier(round[p]) \in {"talk", "over"}
    BY DEF AfterBarrier
  <2> QED
    BY <1>1, <1>2, <2>1, <2>2, PassStep DEF Place, Working, Through
<1>7. CASE Report(p)
  BY <1>1, <1>2, <1>7 DEF Report, Place, Working, Through
<1>8. CASE Await(p)
  BY <1>1, <1>2, <1>8 DEF Await, AfterBarrier, Place, Working, Through
<1>9. CASE Finish(p)
  <2>1. CASE p \in Waiters
    BY <1>1, <1>2, <1>9, <2>1 DEF Finish, Place, Working, Through
  <2>2. CASE p \notin Waiters
    BY <1>1, <1>2, <1>9, <2>2 DEF Finish, Place, Working, Through
  <2> QED
    BY <2>1, <2>2
<1>10. CASE WaitGroup(p)
  <2>1. Pass(p, N - 1, "waited") /\ pc[p] = "waiting" /\ (x[p] = p \/ pc[x[p]] = "gone")
    BY <1>10 DEF WaitGroup, Waited
  <2> QED
    BY <1>1, <1>2, <2>1, PassStep DEF Place, Working, Through
<1>11. CASE End(p)
  BY <1>1, <1>2, <1>11 DEF End, Place, Working, Through
<1> QED
  BY <1>3, <1>4, <1>5, <1>6, <1>7, <1>8, <1>9, <1>10, <1>11 DEF MemberStep

\* Where a member is, whatever its step.
LEMMA ControlStep ==
  ASSUME ControlOK, NEW p \in Member, MemberStep(p)
  PROVE  ControlOK'
<1>1. PICK at \in Place, k \in 1..(N - 1) : pc' = [pc EXCEPT ![p] = at] /\ x' = [x EXCEPT ![p] = k]
  BY Moves
<1> QED
  BY <1>1, Updated DEF ControlOK

\* Links deliver without a step of a member, and what they send twice moves nobody.
LEMMA OnlyMembersMove ==
  ASSUME [Next]_vars
  PROVE  (\E p \in Member : MemberStep(p)) \/ UNCHANGED <<pc, x, round>>
BY Zenon DEF Next, Act, Deliver, Double, vars, groupVars

\* A step after which no message was sent twice is one of the group.
LEMMA OnceIsAct ==
  ASSUME [Next]_vars, ~twice'
  PROVE  ~twice /\ [Act]_groupVars
<1>1. \A a, b : Double(a, b) => twice'
  BY DEF Double
<1> QED
  BY <1>1 DEF Next, vars

LEMMA ControlInvariant == Spec => []ControlOK
<1>1. Init => ControlOK
  BY Constants DEF Init, ControlOK, Place, Working
<1>2. ControlOK /\ [Next]_vars => ControlOK'
  <2> SUFFICES ASSUME ControlOK, [Next]_vars PROVE ControlOK'
    OBVIOUS
  <2>1. CASE \E p \in Member : MemberStep(p)
    BY <2>1, ControlStep
  <2>2. CASE UNCHANGED <<pc, x>>
    BY <2>2 DEF ControlOK
  <2> QED
    BY <2>1, <2>2, OnlyMembersMove
<1> QED
  BY <1>1, <1>2, PTL DEF Spec

-----------------------------------------------------------------------------
(* What the mailboxes and links hold.                                      *)

\* Members are in a round of the program until they are through with it.
RoundOK ==
  /\ round \in [Member -> 1..(Rounds + 1)]
  /\ \A p \in Member : pc[p] \in Working => round[p] \in 1..Rounds

Packet == [to : Member, msg : Message]
MessagesOK ==
  /\ setup \in Setups
  /\ box \in [Member -> Seq(Message)]
  /\ wire \in [Agent \X Agent -> Seq(Packet)]

\* What recv_msg leaves is a mailbox again.
LEMMA Removed ==
  ASSUME NEW S, NEW s \in Seq(S), NEW i \in DOMAIN s
  PROVE  RemoveAt(s, i) \in Seq(S)
<1>1. SubSeq(s, 1, i - 1) \in Seq(S) /\ SubSeq(s, i + 1, Len(s)) \in Seq(S)
  OBVIOUS
<1> QED
  BY <1>1 DEF RemoveAt

\* Only the end of a barrier changes the round, and the last one ends the program.
LEMMA RoundMoves ==
  ASSUME ControlOK, NEW p \in Member, MemberStep(p)
  PROVE  \/ round' = round /\ (pc'[p] \in Working => pc[p] \in Working)
         \/ /\ pc[p] \in Working /\ pc'[p] = AfterBarrier(round[p])
            /\ round' = [round EXCEPT ![p] = round[p] + 1]
<1>1. x[p] \in 1..(N - 1) /\ N \in Nat
  BY Constants DEF ControlOK
<1>2. CASE Talk(p) \/ Listen(p) \/ Collect(p)
  BY <1>2 DEF Talk, Listen, Collect, Working
<1>3. CASE Release(p)
  <2>1. CASE x[p] < N - 1
    BY <1>3, <2>1 DEF Release, Released, Pass, Working
  <2>2. CASE ~(x[p] < N - 1)
    <3>1. pc' = [pc EXCEPT ![p] = AfterBarrier(round[p])]
      BY <1>3, <2>2 DEF Release, Released, Pass
    <3>2. round' = [round EXCEPT ![p] = round[p] + 1] /\ pc[p] = "release"
      BY <1>3, <2>2 DEF Release, Released
    <3> QED
      BY <3>1, <3>2 DEF ControlOK, Working
  <2> QED
    BY <2>1, <2>2
<1>4. CASE Report(p)
  BY <1>4 DEF Report, Working
<1>5. CASE Await(p)
  BY <1>5 DEF Await, ControlOK, Working
<1>6. CASE Finish(p)
  <2>1. round' = round /\ \E at \in {"waiting", "gone"} : pc' = [pc EXCEPT ![p] = at]
    BY <1>6 DEF Finish
  <2> QED
    BY <2>1 DEF ControlOK, Working
<1>7. CASE WaitGroup(p)
  <2>1. round' = round /\ pc[p] = "waiting" /\ (pc' = pc \/ pc' = [pc EXCEPT ![p] = "waited"])
    BY <1>7 DEF WaitGroup, Pass
  <2> QED
    BY <2>1 DEF ControlOK, Working
<1>8. CASE End(p)
  BY <1>8 DEF End, ControlOK, Working
<1> QED
  BY <1>2, <1>3, <1>4, <1>5, <1>6, <1>7, <1>8 DEF MemberStep

LEMMA RoundStep ==
  ASSUME ControlOK, RoundOK, NEW p \in Member, MemberStep(p)
  PROVE  RoundOK'
<1>1. \A q \in Member \ {p} : pc'[q] = pc[q]
  <2>1. PICK at \in Place : pc' = [pc EXCEPT ![p] = at]
    BY Moves
  <2> QED
    BY <2>1, Updated DEF ControlOK
<1>2. CASE round' = round /\ (pc'[p] \in Working => pc[p] \in Working)
  BY <1>1, <1>2 DEF RoundOK
<1>3. CASE /\ pc[p] \in Working /\ pc'[p] = AfterBarrier(round[p])
           /\ round' = [round EXCEPT ![p] = round[p] + 1]
  <2>1. round[p] \in 1..Rounds /\ Rounds \in Nat
    BY <1>3, Constants DEF RoundOK
  <2>2. round[p] + 1 \in 1..(Rounds + 1)
    BY <2>1
  <2>3. round' \in [Member -> 1..(Rounds + 1)] /\ round'[p] = round[p] + 1
        /\ \A q \in Member \ {p} : round'[q] = round[q]
    BY <1>3, <2>2, Updated DEF RoundOK
  <2>4. pc'[p] \in Working => round'[p] \in 1..Rounds
    BY <1>3, <2>1, <2>3 DEF AfterBarrier, Working
  <2> QED
    BY <1>1, <2>3, <2>4 DEF RoundOK
<1> QED
  BY <1>2, <1>3, RoundMoves

\* A message that is sent is put into a mailbox or on the way to one.
LEMMA SendTyped ==
  ASSUME RoundOK, MessagesOK, NEW p \in Member, NEW q \in Member, NEW tag \in {"user", "ok", "go"},
         pc[p] \in Working, SendTo(p, q, tag), setup' = setup
  PROVE  MessagesOK'
<1>1. Msg(p, tag) \in Message
  BY DEF RoundOK, Msg, Message
<1>2. [to |-> q, msg |-> Msg(p, tag)] \in Packet
  BY <1>1 DEF Packet
<1>3. setup.at[p] \in Agent /\ setup.at[q] \in Agent /\ Agent' = Agent
  BY DEF Agent
<1>4. CASE setup.at[p] = setup.at[q]
  <2>1. Append(box[q], Msg(p, tag)) \in Seq(Message)
    BY <1>1 DEF MessagesOK
  <2>2. wire' = wire /\ (box' = box \/ box' = [box EXCEPT ![q] = Append(box[q], Msg(p, tag))])
    BY <1>4 DEF SendTo
  <2>3. box' \in [Member -> Seq(Message)]
    BY <2>1, <2>2 DEF MessagesOK
  <2> QED
    BY <1>3, <2>2, <2>3 DEF MessagesOK
<1>5. CASE setup.at[p] # setup.at[q]
  <2> DEFINE l == <<setup.at[p], setup.at[q]>>
  <2>1. l \in Agent \X Agent
    BY <1>3
  <2>2. Append(wire[l], [to |-> q, msg |-> Msg(p, tag)]) \in Seq(Packet)
    BY <1>2, <2>1 DEF MessagesOK
  <2>3. /\ box' = box
        /\ wire' = [wire EXCEPT ![l] = Append(wire[l], [to |-> q, msg |-> Msg(p, tag)])]
    BY <1>5 DEF SendTo
  <2>4. wire' \in [Agent \X Agent -> Seq(Packet)]
    BY <2>1, <2>2, <2>3, Updated DEF MessagesOK
  <2> QED
    BY <1>3, <2>3, <2>4 DEF MessagesOK
<1> QED
  BY <1>4, <1>5

\* A mailbox loses a message or all of them.
LEMMA BoxTyped ==
  ASSUME MessagesOK, NEW p \in Member, NEW b \in Seq(Message), box' = [box EXCEPT ![p] = b],
         setup' = setup, wire' = wire
  PROVE  MessagesOK'
<1>1. box' \in [Member -> Seq(Message)]
  BY DEF MessagesOK
<1>2. Agent' = Agent
  BY DEF Agent
<1> QED
  BY <1>1, <1>2 DEF MessagesOK

LEMMA TakeTyped ==
  ASSUME MessagesOK, NEW p \in Member, Take(p)
  PROVE  MessagesOK'
<1>1. PICK i \in DOMAIN box[p] : box' = [box EXCEPT ![p] = RemoveAt(box[p], i)]
  BY DEF Take
<1>2. RemoveAt(box[p], i) \in Seq(Message)
  BY Removed DEF MessagesOK
<1> QED
  BY <1>1, <1>2, BoxTyped DEF Take

LEMMA MessagesStep ==
  ASSUME ControlOK, RoundOK, MessagesOK, NEW p \in Member, MemberStep(p)
  PROVE  MessagesOK'
<1>1. x[p] \in 1..(N - 1) /\ 0 \in Member /\ x[p] \in Member
  BY Constants DEF ControlOK
<1>2. CASE Talk(p)
  <2>1. Others(p)[x[p]] \in Member
    BY <1>1, Constants DEF Others, Member
  <2> QED
    BY <1>2, <2>1, SendTyped DEF Talk, Working
<1>3. CASE Listen(p) \/ Collect(p) \/ Await(p)
  BY <1>3, TakeTyped DEF Listen, Collect, Await
<1>4. CASE Release(p)
  BY <1>1, <1>4, SendTyped DEF Release, Working
<1>5. CASE Report(p)
  BY <1>1, <1>5, SendTyped DEF Report, Working
<1>6. CASE UNCHANGED <<setup, box, wire>>
  BY <1>6, SMTT(30) DEF MessagesOK, Agent
<1>7. CASE box' = [box EXCEPT ![p] = <<>>] /\ UNCHANGED <<setup, wire>>
  <2>1. <<>> \in Seq(Message)
    OBVIOUS
  <2> QED
    BY <1>7, <2>1, BoxTyped
<1> QED
  BY <1>2, <1>3, <1>4, <1>5, <1>6, <1>7 DEF MemberStep, Finish, WaitGroup, End

LEMMA DeliverTyped ==
  ASSUME MessagesOK, NEW a \in Agent, NEW b \in Agent, Deliver(a, b)
  PROVE  MessagesOK'
<1> DEFINE l == <<a, b>>
<1>1. l \in Agent \X Agent /\ wire[l] \in Seq(Packet) /\ wire[l] # <<>>
  BY DEF MessagesOK, Deliver
<1>2. Head(wire[l]) \in Packet /\ Tail(wire[l]) \in Seq(Packet)
  BY <1>1
<1>3. wire' \in [Agent \X Agent -> Seq(Packet)] /\ setup' = setup /\ Agent' = Agent
  <2>1. wire' = [wire EXCEPT ![l] = Tail(wire[l])] /\ setup' = setup
    BY DEF Deliver
  <2>2. wire' \in [Agent \X Agent -> Seq(Packet)]
    BY <1>1, <1>2, <2>1 DEF MessagesOK
  <2> QED
    BY <2>1, <2>2 DEF Agent
<1>4. box' \in [Member -> Seq(Message)]
  <2> DEFINE d == Head(wire[l])
  <2>1. d.to \in Member /\ d.msg \in Message
    BY <1>2 DEF Packet
  <2>2. Append(box[d.to], d.msg) \in Seq(Message)
    BY <2>1 DEF MessagesOK
  <2>3. box' = box \/ box' = [box EXCEPT ![d.to] = Append(box[d.to], d.msg)]
    BY DEF Deliver
  <2> QED
    BY <2>1, <2>2, <2>3 DEF MessagesOK
<1> QED
  BY <1>3, <1>4 DEF MessagesOK

LEMMA DoubleTyped ==
  ASSUME MessagesOK, NEW a \in Agent, NEW b \in Agent, Double(a, b)
  PROVE  MessagesOK'
<1> DEFINE l == <<a, b>>
           twofold == <<Head(wire[l])>> \o wire[l]
<1>1. /\ l \in Agent \X Agent /\ wire[l] \in Seq(Packet) /\ wire[l] # <<>>
      /\ wire' = [wire EXCEPT ![l] = twofold] /\ UNCHANGED <<setup, box>>
  BY DEF MessagesOK, Double
<1>2. twofold \in Seq(Packet)
  <2>1. Head(wire[l]) \in Packet
    BY <1>1
  <2> QED
    BY <1>1, <2>1
<1> HIDE DEF twofold, l
<1>3. wire' \in [Agent \X Agent -> Seq(Packet)]
  BY <1>1, <1>2 DEF MessagesOK
<1> QED
  BY <1>1, <1>3 DEF MessagesOK, Agent

LEMMA TypesInvariant == Spec => [](ControlOK /\ RoundOK /\ MessagesOK)
<1>1. Init => RoundOK /\ MessagesOK
  <2> SUFFICES ASSUME Init PROVE RoundOK /\ MessagesOK
    OBVIOUS
  <2>1. 1 \in 1..Rounds /\ 1 \in 1..(Rounds + 1)
    BY Constants
  <2>2. RoundOK
    BY <2>1 DEF Init, RoundOK
  <2>3. MessagesOK
    BY DEF Init, MessagesOK
  <2> QED
    BY <2>2, <2>3
<1>2. ControlOK /\ RoundOK /\ MessagesOK /\ [Next]_vars => (RoundOK /\ MessagesOK)'
  <2> SUFFICES ASSUME ControlOK, RoundOK, MessagesOK, [Next]_vars PROVE (RoundOK /\ MessagesOK)'
    OBVIOUS
  <2>1. CASE \E p \in Member : MemberStep(p)
    BY <2>1, RoundStep, MessagesStep
  <2>2. CASE \E a, b \in Agent : Deliver(a, b)
    <3>1. RoundOK'
      BY <2>2 DEF Deliver, RoundOK
    <3> QED
      BY <2>2, <3>1, DeliverTyped
  <2>3. CASE \E a, b \in Agent : Double(a, b)
    <3>1. RoundOK'
      BY <2>3 DEF Double, RoundOK
    <3> QED
      BY <2>3, <3>1, DoubleTyped
  <2>4. CASE UNCHANGED vars
    BY <2>4, SMTT(30) DEF vars, groupVars, RoundOK, MessagesOK, Agent
  <2> QED
    BY <2>1, <2>2, <2>3, <2>4 DEF Next, Act
<1> QED
  BY <1>1, <1>2, ControlInvariant, PTL DEF Spec

\* Every reachable state is of the declared types: mailboxes and links hold messages of
\* members and of a round of the program, and every loop stays in its bounds.
THEOREM GroupTypes == Spec => []TypeOK
<1>1. ControlOK /\ RoundOK /\ MessagesOK /\ twice \in BOOLEAN => TypeOK
  BY DEF ControlOK, RoundOK, MessagesOK, TypeOK, Packet, Place, Working
<1>2. Init => twice \in BOOLEAN
  BY DEF Init
<1>3. twice \in BOOLEAN /\ [Next]_vars => (twice \in BOOLEAN)'
  BY DEF Next, Double, vars
<1> QED
  BY <1>1, <1>2, <1>3, TypesInvariant, PTL DEF Spec

-----------------------------------------------------------------------------
(* wait_group.                                                             *)

LEMMA WaitStep ==
  ASSUME ControlOK, WaitInv, NEW p \in Member, MemberStep(p)
  PROVE  WaitInv'
<1>1. PICK at \in Place, k \in 1..(N - 1) :
        /\ pc' = [pc EXCEPT ![p] = at] /\ x' = [x EXCEPT ![p] = k]
        /\ at \in Through => k = 1 \/ (pc[p] \in Through /\ k = x[p])
        /\ at \in {"waiting", "waited"} =>
             \/ pc[p] = "over" /\ at = "waiting" /\ k = x[p]
             \/ /\ pc[p] = "waiting" /\ (x[p] = p \/ pc[x[p]] = "gone")
                /\ \/ at = "waiting" /\ k = x[p] + 1
                   \/ at = "waited" /\ x[p] = N - 1
        /\ pc[p] # "gone"
  BY Moves
<1>2. pc'[p] = at /\ x'[p] = k /\ \A q \in Member \ {p} : pc'[q] = pc[q] /\ x'[q] = x[q]
  BY <1>1, Updated DEF ControlOK
<1>3. 1..(N - 1) \subseteq Member /\ N \in Nat /\ \A q \in Member : x[q] \in 1..(N - 1)
  BY Constants DEF ControlOK
<1>4. \A q \in Member : pc[q] = "gone" => pc'[q] = "gone"
  BY <1>1, <1>2
<1>5. ASSUME NEW r \in Member \ {p}
      PROVE  /\ pc'[r] \in Through => x'[r] = 1
             /\ pc'[r] = "waiting" => \A q \in (1..(x'[r] - 1)) \ {r} : pc'[q] = "gone"
             /\ pc'[r] = "waited" => \A q \in (1..(N - 1)) \ {r} : pc'[q] = "gone"
  <2>1. pc'[r] = pc[r] /\ x'[r] = x[r]
    BY <1>2
  <2>2. 1..(x[r] - 1) \subseteq Member
    BY <1>3
  <2> QED
    BY <1>3, <1>4, <2>1, <2>2 DEF WaitInv
<1>6. at \in Through => k = 1
  BY <1>1 DEF WaitInv
<1>7. ASSUME at = "waiting" PROVE \A q \in (1..(k - 1)) \ {p} : pc'[q] = "gone"
  <2>1. CASE pc[p] = "over" /\ k = x[p]
    BY <2>1 DEF WaitInv, Through
  <2>2. CASE pc[p] = "waiting" /\ (x[p] = p \/ pc[x[p]] = "gone") /\ k = x[p] + 1
    <3>1. \A q \in (1..x[p]) \ {p} : pc[q] = "gone"
      BY <1>3, <2>2 DEF WaitInv
    <3>2. k - 1 = x[p] /\ 1..x[p] \subseteq Member
      BY <1>3, <2>2
    <3> QED
      BY <1>4, <3>1, <3>2
  <2> QED
    BY <1>1, <1>7, <2>1, <2>2
<1>8. ASSUME at = "waited" PROVE \A q \in (1..(N - 1)) \ {p} : pc'[q] = "gone"
  <2>1. pc[p] = "waiting" /\ (x[p] = p \/ pc[x[p]] = "gone") /\ x[p] = N - 1
    BY <1>1, <1>8
  <2>2. \A q \in (1..(N - 1)) \ {p} : pc[q] = "gone"
    BY <1>3, <2>1 DEF WaitInv
  <2> QED
    BY <1>3, <1>4, <2>2
<1>9. /\ pc'[p] \in Through => x'[p] = 1
      /\ pc'[p] = "waiting" => \A q \in (1..(x'[p] - 1)) \ {p} : pc'[q] = "gone"
      /\ pc'[p] = "waited" => \A q \in (1..(N - 1)) \ {p} : pc'[q] = "gone"
  BY <1>2, <1>6, <1>7, <1>8
<1> QED
  BY <1>5, <1>9 DEF WaitInv

LEMMA WaitInvariant == Spec => []WaitInv
<1>1. Init => WaitInv
  BY Constants DEF Init, WaitInv, Through
<1>2. ControlOK /\ WaitInv /\ [Next]_vars => WaitInv'
  <2> SUFFICES ASSUME ControlOK, WaitInv, [Next]_vars PROVE WaitInv'
    OBVIOUS
  <2>1. CASE \E p \in Member : MemberStep(p)
    BY <2>1, WaitStep
  <2>2. CASE UNCHANGED <<pc, x>>
    BY <2>2 DEF WaitInv
  <2> QED
    BY <2>1, <2>2, OnlyMembersMove
<1> QED
  BY <1>1, <1>2, ControlInvariant, PTL DEF Spec

\* When wait_group returns, whoever and how many called it, all the others from index 1
\* on are dead, in a group of any size: for index 0 these are all the others. Nobody
\* waits for index 0.
THEOREM WaitGroupIsRight == Spec => []WaitGroupWaits
<1>1. WaitInv => WaitGroupWaits
  BY Constants DEF WaitInv, WaitGroupWaits
<1> QED
  BY <1>1, WaitInvariant, PTL

-----------------------------------------------------------------------------
(***************************************************************************)
(* Group implements the safety part of Barrier, and receives only what is  *)
(* meant for it: for a group of any size over any agents, any number of    *)
(* rounds, and a program that receives by index.                           *)
(***************************************************************************)

(* The messages from one member to another, numbered.                      *)

\* In a round p sends q a message of the program (bit 0), and one of the barrier (bit 1)
\* if it is, or leads to, index 0. Otherwise the next number is that of the next round.
Key(p, q, r, bit) == IF p = 0 \/ q = 0 THEN 2 * r + bit ELSE r + bit
Number(m, q) == Key(m.src, q, m.round, IF m.tag = "user" THEN 0 ELSE 1)

\* What p has sent to q and q has taken from p, by the places of their loops: the number
\* of the next message.
Pos(p, q) == IF q < p THEN q + 1 ELSE q
SentAt(at, k, r, p, q) ==
  CASE at = "talk" -> Key(p, q, r, IF Pos(p, q) < k THEN 1 ELSE 0)
    [] at \in {"listen", "collect", "report"} -> Key(p, q, r, 1)
    [] at = "release" -> Key(p, q, r, IF q < k THEN 2 ELSE 1)
    [] at = "await" -> Key(p, q, r + 1, 0)
    [] OTHER -> Key(p, q, r, 0)
TakenAt(at, k, r, q, p) ==
  CASE at = "listen" -> Key(p, q, r, IF Pos(q, p) < k THEN 1 ELSE 0)
    [] at = "collect" -> Key(p, q, r, IF p < k THEN 2 ELSE 1)
    [] at = "release" -> Key(p, q, r + 1, 0)
    [] at \in {"report", "await"} -> Key(p, q, r, 1)
    [] OTHER -> Key(p, q, r, 0)
Sent(p, q) == SentAt(pc[p], x[p], round[p], p, q)
Taken(q, p) == TakenAt(pc[q], x[q], round[q], q, p)

\* The numbers of the messages from p to q in a mailbox and on a link, 0 for the others.
InBox(b, p, q) == [i \in 1..Len(b) |-> IF b[i].src = p THEN Number(b[i], q) ELSE 0]
OnWire(w, p, q) ==
  [i \in 1..Len(w) |-> IF w[i].to = q /\ w[i].msg.src = p THEN Number(w[i].msg, q) ELSE 0]

\* f has the numbers from a to before b, in their order.
Has(f, a, b) ==
  /\ a <= b
  /\ \A n \in a..(b - 1) : \E i \in DOMAIN f : f[i] = n
  /\ \A i \in DOMAIN f : f[i] = 0 \/ f[i] \in a..(b - 1)
  /\ \A i, j \in DOMAIN f : i < j /\ f[i] # 0 /\ f[j] # 0 => f[i] < f[j]

\* What p has sent to q and q has not taken is in the mailbox and, after that, on the link.
Stream(b, w, p, q, from, to) ==
  \E c \in Nat : Has(InBox(b, p, q), from, c) /\ Has(OnWire(w, p, q), c, to)
Flows(p, q) ==
  Stream(box[q], wire[<<setup.at[p], setup.at[q]>>], p, q, Taken(q, p), Sent(p, q))
FlowInv ==
  \A q \in Member : \A p \in Member \ {q} :
    /\ Taken(q, p) <= Sent(p, q)
    /\ pc[q] # "gone" => Flows(p, q)

\* Only index 0 gets an ok, and only index 0 sends a go; links lead from agent to agent.
Proper(m, q) == \/ m.tag = "user"
                \/ m.tag = "ok" /\ q = 0
                \/ m.tag = "go" /\ q # 0 /\ m.src = 0
ProperInv ==
  /\ \A q \in Member : \A i \in DOMAIN box[q] : Proper(box[q][i], q)
  /\ \A a, b \in Agent : \A i \in DOMAIN wire[<<a, b>>] :
       LET d == wire[<<a, b>>][i]
       IN  Proper(d.msg, d.to) /\ a # b /\ setup.at[d.msg.src] = a /\ setup.at[d.to] = b

\* The loops of a member, and who leads the barrier.
LoopInv ==
  \A p \in Member :
    /\ pc[p] \in {"report", "await"} => x[p] = 1 /\ p # 0
    /\ pc[p] \in {"collect", "release"} => p = 0

-----------------------------------------------------------------------------
(* Sequences of numbers.                                                   *)

LEMMA HasAppended ==
  ASSUME NEW f \in Seq(Nat), NEW n \in Nat, NEW a \in Nat, NEW b \in Nat, Has(f, a, b), n # 0 => n = b
  PROVE  Has(Append(f, n), a, IF n # 0 THEN b + 1 ELSE b)
<1> DEFINE g == Append(f, n)
           c == IF n # 0 THEN b + 1 ELSE b
<1>1. /\ Len(f) \in Nat /\ DOMAIN f = 1..Len(f) /\ DOMAIN g = 1..(Len(f) + 1)
      /\ g[Len(f) + 1] = n /\ \A i \in 1..Len(f) : g[i] = f[i] /\ f[i] \in Nat
  OBVIOUS
<1> HIDE DEF g
<1>2. \A i \in DOMAIN g : i \in DOMAIN f \/ i = Len(f) + 1
  BY <1>1
<1>3. a <= b /\ \A i \in DOMAIN f : f[i] = 0 \/ f[i] \in a..(b - 1)
  BY DEF Has
<1>4. \A m \in a..(c - 1) : \E i \in DOMAIN g : g[i] = m
  <2> SUFFICES ASSUME NEW m \in a..(c - 1) PROVE \E i \in DOMAIN g : g[i] = m
    OBVIOUS
  <2>1. CASE m \in a..(b - 1)
    <3>1. PICK i \in DOMAIN f : f[i] = m
      BY <2>1 DEF Has
    <3> QED
      BY <1>1, <3>1
  <2>2. CASE m \notin a..(b - 1)
    <3>1. m = n
      BY <2>2
    <3> QED
      BY <1>1, <3>1
  <2> QED
    BY <2>1, <2>2
<1>5. \A i \in DOMAIN g : g[i] = 0 \/ g[i] \in a..(c - 1)
  BY <1>1, <1>2, <1>3
<1>6. ASSUME NEW i \in DOMAIN g, NEW j \in DOMAIN g, i < j, g[i] # 0, g[j] # 0
      PROVE  g[i] < g[j]
  <2>1. i \in DOMAIN f /\ g[i] = f[i]
    BY <1>1, <1>2, <1>6
  <2>2. CASE j \in DOMAIN f
    BY <1>1, <1>6, <2>1, <2>2 DEF Has
  <2>3. CASE j = Len(f) + 1
    BY <1>1, <1>3, <1>6, <2>1, <2>3
  <2> QED
    BY <1>2, <2>2, <2>3
<1>7. a <= c
  BY <1>3
<1> HIDE DEF c
<1>8. Has(g, a, c)
  BY <1>4, <1>5, <1>6, <1>7 DEF Has
<1> QED
  BY <1>8 DEF g, c

\* The first number of a sequence is the next one.
LEMMA FirstIsNext ==
  ASSUME NEW f \in Seq(Nat), NEW a \in Nat \ {0}, NEW b \in Nat, Has(f, a, b),
         NEW i \in DOMAIN f, f[i] # 0, \A j \in DOMAIN f : j < i => f[j] = 0
  PROVE  f[i] = a /\ a < b
<1>1. f[i] \in a..(b - 1)
  BY DEF Has
<1>2. a \in a..(b - 1)
  BY <1>1
<1>3. PICK k \in DOMAIN f : f[k] = a
  BY <1>2 DEF Has
<1>4. i \in Nat /\ k \in Nat /\ ~(k < i)
  BY <1>3
<1>5. ~(i < k)
  <2> SUFFICES ASSUME i < k PROVE FALSE
    OBVIOUS
  <2>1. f[i] < f[k]
    BY <1>3 DEF Has
  <2> QED
    BY <1>1, <1>3, <2>1
<1> QED
  BY <1>2, <1>3, <1>4, <1>5

\* A sequence without one of its elements.
LEMMA Without ==
  ASSUME NEW S, NEW s \in Seq(S), NEW i \in DOMAIN s
  PROVE  /\ RemoveAt(s, i) \in Seq(S) /\ Len(RemoveAt(s, i)) = Len(s) - 1
         /\ \A j \in 1..(Len(s) - 1) : RemoveAt(s, i)[j] = s[IF j < i THEN j ELSE j + 1]
<1> DEFINE front == SubSeq(s, 1, i - 1)
           rest == SubSeq(s, i + 1, Len(s))
           r == RemoveAt(s, i)
<1>1. DOMAIN s = 1..Len(s) /\ Len(s) \in Nat /\ i \in 1..Len(s)
  OBVIOUS
<1>2. /\ front \in Seq(S) /\ Len(front) = i - 1 /\ \A j \in 1..(i - 1) : front[j] = s[j]
      /\ rest \in Seq(S) /\ Len(rest) = Len(s) - i /\ \A j \in 1..(Len(s) - i) : rest[j] = s[i + j]
  OBVIOUS
<1>3. r = front \o rest
  BY DEF RemoveAt
<1> HIDE DEF front, rest, r
<1>4. r \in Seq(S) /\ Len(r) = Len(s) - 1
  <2>1. \A P, Q \in Seq(S) : P \o Q \in Seq(S) /\ Len(P \o Q) = Len(P) + Len(Q)
    OBVIOUS
  <2>2. r \in Seq(S) /\ Len(r) = Len(front) + Len(rest)
    BY <1>2, <1>3, <2>1, Zenon
  <2> QED
    BY <1>1, <1>2, <2>2
<1>5. ASSUME NEW j \in 1..(Len(s) - 1) PROVE r[j] = s[IF j < i THEN j ELSE j + 1]
  <2>1. j \in 1..(Len(front) + Len(rest))
    BY <1>1, <1>2
  <2>2. CASE j < i
    <3>1. r[j] = front[j]
      BY <1>1, <1>2, <1>3, <2>1, <2>2
    <3> QED
      BY <1>1, <1>2, <2>2, <3>1
  <2>3. CASE ~(j < i)
    <3>1. \A P, Q \in Seq(S) : Len(P) = i - 1 /\ j \in 1..(Len(P) + Len(Q)) => (P \o Q)[j] = Q[j - (i - 1)]
      BY <1>1, <2>3
    <3>2. r[j] = rest[j - (i - 1)]
      BY <1>2, <1>3, <2>1, <3>1
    <3>3. j - (i - 1) \in 1..(Len(s) - i) /\ i + (j - (i - 1)) = j + 1
      BY <1>1, <2>3
    <3> QED
      BY <1>2, <2>3, <3>2, <3>3
  <2> QED
    BY <2>2, <2>3
<1> QED
  BY <1>4, <1>5 DEF r

LEMMA HasRemoved ==
  ASSUME NEW f \in Seq(Nat), NEW a \in Nat \ {0}, NEW b \in Nat, Has(f, a, b),
         NEW i \in DOMAIN f, f[i] # 0 => f[i] = a
  PROVE  Has(RemoveAt(f, i), IF f[i] # 0 THEN a + 1 ELSE a, b)
<1> DEFINE g == RemoveAt(f, i)
           c == IF f[i] # 0 THEN a + 1 ELSE a
           At(j) == IF j < i THEN j ELSE j + 1
<1>1. /\ Len(f) \in Nat /\ DOMAIN f = 1..Len(f) /\ i \in 1..Len(f) /\ DOMAIN g = 1..(Len(f) - 1)
      /\ \A j \in 1..(Len(f) - 1) : g[j] = f[At(j)]
  <2>1. Len(f) \in Nat /\ DOMAIN f = 1..Len(f) /\ i \in 1..Len(f)
    OBVIOUS
  <2>2. /\ g \in Seq(Nat) /\ Len(g) = Len(f) - 1
        /\ \A j \in 1..(Len(f) - 1) : g[j] = f[At(j)]
    BY Without
  <2> HIDE DEF g
  <2> QED
    BY <2>1, <2>2
<1> HIDE DEF g
<1>2. \A j \in DOMAIN g : At(j) \in DOMAIN f /\ At(j) # i /\ g[j] = f[At(j)]
  BY <1>1
<1>3. \A k \in DOMAIN f : k # i => \E j \in DOMAIN g : At(j) = k
  <2> SUFFICES ASSUME NEW k \in DOMAIN f, k # i PROVE \E j \in DOMAIN g : At(j) = k
    OBVIOUS
  <2>1. CASE k < i
    BY <1>1, <2>1
  <2>2. CASE i < k
    <3>1. k - 1 \in DOMAIN g /\ At(k - 1) = k
      BY <1>1, <2>2
    <3> QED
      BY <3>1
  <2> QED
    BY <1>1, <2>1, <2>2
<1>4. \A j, k \in DOMAIN g : j < k => At(j) < At(k)
  BY <1>1
<1> HIDE DEF At
<1>5. \A j \in DOMAIN f : f[j] \in Nat /\ j \in Nat
  OBVIOUS
<1>6. ASSUME NEW n \in c..(b - 1) PROVE \E j \in DOMAIN g : g[j] = n
  <2>1. n \in a..(b - 1) /\ n # 0
    BY <1>6
  <2>2. PICK k \in DOMAIN f : f[k] = n
    BY <2>1 DEF Has
  <2>3. k # i
    BY <2>1, <2>2
  <2> QED
    BY <1>2, <1>3, <2>2, <2>3
<1>7. ASSUME NEW j \in DOMAIN g PROVE g[j] = 0 \/ g[j] \in c..(b - 1)
  <2>1. PICK k \in DOMAIN f : k # i /\ g[j] = f[k]
    BY <1>2
  <2>2. g[j] = 0 \/ g[j] \in a..(b - 1)
    BY <2>1 DEF Has
  <2>3. ASSUME f[i] # 0, g[j] # 0 PROVE g[j] # a
    <3>1. k < i => f[k] < f[i]
      BY <2>1, <2>3 DEF Has
    <3>2. i < k => f[i] < f[k]
      BY <2>1, <2>3 DEF Has
    <3> QED
      BY <1>5, <2>1, <2>3, <3>1, <3>2
  <2> QED
    BY <2>2, <2>3
<1>8. ASSUME NEW j \in DOMAIN g, NEW k \in DOMAIN g, j < k, g[j] # 0, g[k] # 0
      PROVE  g[j] < g[k]
  BY <1>2, <1>4, <1>8 DEF Has
<1>9. c <= b
  <2>1. CASE f[i] # 0
    <3>1. f[i] \in a..(b - 1)
      BY <2>1 DEF Has
    <3> QED
      BY <2>1, <3>1
  <2>2. CASE f[i] = 0
    BY <2>2 DEF Has
  <2> QED
    BY <2>1, <2>2
<1> QED
  BY <1>6, <1>7, <1>8, <1>9 DEF Has, g

\* A sequence of other messages has none of the numbers.
LEMMA HasNone ==
  ASSUME NEW f, NEW a \in Nat \ {0}, NEW b \in Nat, Has(f, a, b), \A i \in DOMAIN f : f[i] = 0
  PROVE  a = b
<1>1. a <= b /\ \A n \in a..(b - 1) : n = 0
  BY DEF Has
<1>2. a < b => a \in a..(b - 1)
  OBVIOUS
<1> QED
  BY <1>1, <1>2

-----------------------------------------------------------------------------
(* The numbers in mailboxes and on links.                                  *)

LEMMA SameSeq ==
  ASSUME NEW S, NEW s \in Seq(S), NEW t \in Seq(S), Len(s) = Len(t), \A i \in 1..Len(s) : s[i] = t[i]
  PROVE  s = t
OBVIOUS

\* A message has a number, whoever gets it.
LEMMA Numbered ==
  ASSUME NEW m \in Message, NEW q
  PROVE  Number(m, q) \in Nat \ {0}
<1>1. m.round \in Nat \ {0}
  BY Constants DEF Message
<1> QED
  BY <1>1 DEF Number, Key

\* What a message in a mailbox, or a packet on a link, counts for.
BoxNumber(m, p, q) == IF m.src = p THEN Number(m, q) ELSE 0
WireNumber(d, p, q) == IF d.to = q /\ d.msg.src = p THEN Number(d.msg, q) ELSE 0

LEMMA InBoxNumbers ==
  ASSUME NEW b \in Seq(Message), NEW p, NEW q
  PROVE  /\ InBox(b, p, q) \in Seq(Nat) /\ Len(InBox(b, p, q)) = Len(b)
         /\ \A i \in 1..Len(b) : InBox(b, p, q)[i] = BoxNumber(b[i], p, q)
<1>1. \A i \in 1..Len(b) : b[i] \in Message /\ BoxNumber(b[i], p, q) \in Nat
  <2>1. \A i \in 1..Len(b) : b[i] \in Message
    OBVIOUS
  <2> QED
    BY <2>1, Numbered DEF BoxNumber
<1>2. InBox(b, p, q) = [i \in 1..Len(b) |-> BoxNumber(b[i], p, q)]
  BY DEF InBox, BoxNumber
<1>3. Len(b) \in Nat
  OBVIOUS
<1> QED
  BY <1>1, <1>2, <1>3

LEMMA OnWireNumbers ==
  ASSUME NEW w \in Seq(Packet), NEW p, NEW q
  PROVE  /\ OnWire(w, p, q) \in Seq(Nat) /\ Len(OnWire(w, p, q)) = Len(w)
         /\ \A i \in 1..Len(w) : OnWire(w, p, q)[i] = WireNumber(w[i], p, q)
<1>1. \A i \in 1..Len(w) : w[i] \in Packet /\ WireNumber(w[i], p, q) \in Nat
  <2>1. \A i \in 1..Len(w) : w[i] \in Packet
    OBVIOUS
  <2>2. \A d \in Packet : d.msg \in Message
    BY DEF Packet
  <2> QED
    BY <2>1, <2>2, Numbered DEF WireNumber
<1>2. OnWire(w, p, q) = [i \in 1..Len(w) |-> WireNumber(w[i], p, q)]
  BY DEF OnWire, WireNumber
<1>3. Len(w) \in Nat
  OBVIOUS
<1> QED
  BY <1>1, <1>2, <1>3

LEMMA InBoxAppended ==
  ASSUME NEW b \in Seq(Message), NEW m \in Message, NEW p, NEW q
  PROVE  InBox(Append(b, m), p, q) = Append(InBox(b, p, q), BoxNumber(m, p, q))
<1> DEFINE e == Append(b, m)
           s == InBox(e, p, q)
           f == InBox(b, p, q)
           t == Append(f, BoxNumber(m, p, q))
<1>1. /\ e \in Seq(Message) /\ Len(e) = Len(b) + 1 /\ Len(b) \in Nat
      /\ e[Len(b) + 1] = m /\ \A i \in 1..Len(b) : e[i] = b[i]
  OBVIOUS
<1> HIDE DEF e
<1>2. /\ s \in Seq(Nat) /\ Len(s) = Len(b) + 1
      /\ \A i \in 1..(Len(b) + 1) : s[i] = BoxNumber(e[i], p, q)
  BY <1>1, InBoxNumbers
<1>3. f \in Seq(Nat) /\ Len(f) = Len(b) /\ \A i \in 1..Len(b) : f[i] = BoxNumber(b[i], p, q)
  BY InBoxNumbers
<1>4. BoxNumber(m, p, q) \in Nat
  BY Numbered DEF BoxNumber
<1> HIDE DEF s, f
<1>5. /\ t \in Seq(Nat) /\ Len(t) = Len(b) + 1 /\ t[Len(b) + 1] = BoxNumber(m, p, q)
      /\ \A i \in 1..Len(b) : t[i] = f[i]
  BY <1>1, <1>3, <1>4
<1>6. \A i \in 1..(Len(b) + 1) : s[i] = t[i]
  BY <1>1, <1>2, <1>3, <1>5
<1> HIDE DEF t
<1>7. s = t
  BY <1>2, <1>5, <1>6, SameSeq
<1> QED
  BY <1>7 DEF s, t, f, e

LEMMA OnWireAppended ==
  ASSUME NEW w \in Seq(Packet), NEW d \in Packet, NEW p, NEW q
  PROVE  OnWire(Append(w, d), p, q) = Append(OnWire(w, p, q), WireNumber(d, p, q))
<1> DEFINE e == Append(w, d)
           s == OnWire(e, p, q)
           f == OnWire(w, p, q)
           t == Append(f, WireNumber(d, p, q))
<1>1. /\ e \in Seq(Packet) /\ Len(e) = Len(w) + 1 /\ Len(w) \in Nat
      /\ e[Len(w) + 1] = d /\ \A i \in 1..Len(w) : e[i] = w[i]
  OBVIOUS
<1> HIDE DEF e
<1>2. /\ s \in Seq(Nat) /\ Len(s) = Len(w) + 1
      /\ \A i \in 1..(Len(w) + 1) : s[i] = WireNumber(e[i], p, q)
  BY <1>1, OnWireNumbers
<1>3. f \in Seq(Nat) /\ Len(f) = Len(w) /\ \A i \in 1..Len(w) : f[i] = WireNumber(w[i], p, q)
  BY OnWireNumbers
<1>4. WireNumber(d, p, q) \in Nat
  BY Numbered DEF WireNumber, Packet
<1> HIDE DEF s, f
<1>5. /\ t \in Seq(Nat) /\ Len(t) = Len(w) + 1 /\ t[Len(w) + 1] = WireNumber(d, p, q)
      /\ \A i \in 1..Len(w) : t[i] = f[i]
  BY <1>1, <1>3, <1>4
<1>6. \A i \in 1..(Len(w) + 1) : s[i] = t[i]
  BY <1>1, <1>2, <1>3, <1>5
<1> HIDE DEF t
<1>7. s = t
  BY <1>2, <1>5, <1>6, SameSeq
<1> QED
  BY <1>7 DEF s, t, f, e

LEMMA InBoxRemoved ==
  ASSUME NEW b \in Seq(Message), NEW i \in DOMAIN b, NEW p, NEW q
  PROVE  InBox(RemoveAt(b, i), p, q) = RemoveAt(InBox(b, p, q), i)
<1> DEFINE r == RemoveAt(b, i)
           s == InBox(r, p, q)
           f == InBox(b, p, q)
           t == RemoveAt(f, i)
           At(j) == IF j < i THEN j ELSE j + 1
<1>1. r \in Seq(Message) /\ Len(r) = Len(b) - 1 /\ \A j \in 1..(Len(b) - 1) : r[j] = b[At(j)]
  BY Without
<1>2. f \in Seq(Nat) /\ Len(f) = Len(b) /\ \A j \in 1..Len(b) : f[j] = BoxNumber(b[j], p, q)
  BY InBoxNumbers
<1>3. Len(b) \in Nat /\ i \in 1..Len(b)
  OBVIOUS
<1> HIDE DEF r, f
<1>4. s \in Seq(Nat) /\ Len(s) = Len(b) - 1 /\ \A j \in 1..(Len(b) - 1) : s[j] = BoxNumber(r[j], p, q)
  BY <1>1, InBoxNumbers
<1>5. t \in Seq(Nat) /\ Len(t) = Len(b) - 1 /\ \A j \in 1..(Len(b) - 1) : t[j] = f[At(j)]
  <2>1. i \in DOMAIN f
    BY <1>2, <1>3
  <2> QED
    BY <1>2, <2>1, Without
<1>6. \A j \in 1..(Len(b) - 1) : At(j) \in 1..Len(b)
  BY <1>3
<1> HIDE DEF s, t, At
<1>7. \A j \in 1..Len(s) : s[j] = t[j]
  BY <1>1, <1>2, <1>4, <1>5, <1>6
<1>8. s = t
  BY <1>4, <1>5, <1>7, SameSeq
<1> QED
  BY <1>8 DEF s, t, f, r

LEMMA OnWireTail ==
  ASSUME NEW w \in Seq(Packet), w # <<>>, NEW p, NEW q
  PROVE  /\ OnWire(Tail(w), p, q) = RemoveAt(OnWire(w, p, q), 1)
         /\ 1 \in DOMAIN OnWire(w, p, q) /\ OnWire(w, p, q)[1] = WireNumber(Head(w), p, q)
<1> DEFINE r == Tail(w)
           s == OnWire(r, p, q)
           f == OnWire(w, p, q)
           t == RemoveAt(f, 1)
<1>1. /\ r \in Seq(Packet) /\ Len(r) = Len(w) - 1 /\ \A j \in 1..(Len(w) - 1) : r[j] = w[j + 1]
      /\ Len(w) \in Nat \ {0} /\ Head(w) = w[1]
  OBVIOUS
<1>2. f \in Seq(Nat) /\ Len(f) = Len(w) /\ \A j \in 1..Len(w) : f[j] = WireNumber(w[j], p, q)
  BY OnWireNumbers
<1> HIDE DEF r, f
<1>3. s \in Seq(Nat) /\ Len(s) = Len(w) - 1 /\ \A j \in 1..(Len(w) - 1) : s[j] = WireNumber(r[j], p, q)
  BY <1>1, OnWireNumbers
<1>4. 1 \in DOMAIN f /\ f[1] = WireNumber(Head(w), p, q)
  BY <1>1, <1>2
<1>5. t \in Seq(Nat) /\ Len(t) = Len(w) - 1 /\ \A j \in 1..(Len(w) - 1) : t[j] = f[j + 1]
  <2>1. \A j \in 1..(Len(w) - 1) : (IF j < 1 THEN j ELSE j + 1) = j + 1
    OBVIOUS
  <2> QED
    BY <1>2, <1>4, <2>1, Without
<1> HIDE DEF s, t
<1>6. \A j \in 1..(Len(w) - 1) : j + 1 \in 1..Len(w)
  BY <1>1
<1>7. \A j \in 1..Len(s) : s[j] = t[j]
  BY <1>1, <1>2, <1>3, <1>5, <1>6
<1>8. s = t
  BY <1>3, <1>5, <1>7, SameSeq
<1> QED
  BY <1>4, <1>8 DEF s, t, f, r

-----------------------------------------------------------------------------
(* What happens to a stream of messages.                                   *)

\* A message is put into the mailbox, past a link that has none of its sender's.
LEMMA StreamBoxed ==
  ASSUME NEW b \in Seq(Message), NEW w \in Seq(Packet), NEW m \in Message, NEW p, NEW q,
         NEW from \in Nat \ {0}, NEW to \in Nat \ {0}, Stream(b, w, p, q, from, to),
         m.src = p => Number(m, q) = to /\ \A i \in 1..Len(w) : WireNumber(w[i], p, q) = 0
  PROVE  Stream(Append(b, m), w, p, q, from, IF m.src = p THEN to + 1 ELSE to)
<1> DEFINE n == BoxNumber(m, p, q)
<1>1. PICK c \in Nat : Has(InBox(b, p, q), from, c) /\ Has(OnWire(w, p, q), c, to)
  BY DEF Stream
<1>2. n \in Nat /\ (n # 0 <=> m.src = p) /\ (m.src = p => n = Number(m, q))
  BY Numbered DEF BoxNumber
<1>3. InBox(b, p, q) \in Seq(Nat) /\ InBox(Append(b, m), p, q) = Append(InBox(b, p, q), n)
  BY InBoxNumbers, InBoxAppended
<1>4. c # 0
  BY <1>1 DEF Has
<1>5. CASE m.src # p
  <2>1. Has(InBox(Append(b, m), p, q), from, c)
    BY <1>1, <1>2, <1>3, <1>5, HasAppended
  <2> QED
    BY <1>1, <1>5, <2>1 DEF Stream
<1>6. CASE m.src = p
  <2>1. \A i \in DOMAIN OnWire(w, p, q) : OnWire(w, p, q)[i] = 0
    BY <1>6, OnWireNumbers, SMTT(30)
  <2>2. c = to
    BY <1>1, <1>4, <2>1, HasNone
  <2>3. Has(InBox(Append(b, m), p, q), from, to + 1)
    BY <1>1, <1>2, <1>3, <1>6, <2>2, HasAppended
  <2>4. Has(OnWire(w, p, q), to + 1, to + 1)
    BY <2>1 DEF Has
  <2> QED
    BY <1>6, <2>3, <2>4 DEF Stream
<1> QED
  BY <1>5, <1>6

\* A message is put on the link.
LEMMA StreamSent ==
  ASSUME NEW b \in Seq(Message), NEW w \in Seq(Packet), NEW d \in Packet, NEW p, NEW q,
         NEW from \in Nat \ {0}, NEW to \in Nat \ {0}, Stream(b, w, p, q, from, to),
         d.to = q /\ d.msg.src = p => Number(d.msg, q) = to
  PROVE  Stream(b, Append(w, d), p, q, from, IF d.to = q /\ d.msg.src = p THEN to + 1 ELSE to)
<1> DEFINE n == WireNumber(d, p, q)
<1>1. PICK c \in Nat : Has(InBox(b, p, q), from, c) /\ Has(OnWire(w, p, q), c, to)
  BY DEF Stream
<1>2. n \in Nat /\ (n # 0 <=> d.to = q /\ d.msg.src = p) /\ (n # 0 => n = to)
  BY Numbered DEF WireNumber, Packet
<1>3. OnWire(w, p, q) \in Seq(Nat) /\ OnWire(Append(w, d), p, q) = Append(OnWire(w, p, q), n)
  BY OnWireNumbers, OnWireAppended
<1>4. Has(OnWire(Append(w, d), p, q), c, IF n # 0 THEN to + 1 ELSE to)
  BY <1>1, <1>2, <1>3, HasAppended
<1> QED
  BY <1>1, <1>2, <1>4 DEF Stream

\* The first message of the link is delivered, or is one for somebody else.
LEMMA StreamDelivered ==
  ASSUME NEW b \in Seq(Message), NEW w \in Seq(Packet), w # <<>>, NEW p, NEW q,
         NEW from \in Nat \ {0}, NEW to \in Nat \ {0}, Stream(b, w, p, q, from, to)
  PROVE  Stream(IF Head(w).to = q THEN Append(b, Head(w).msg) ELSE b, Tail(w), p, q, from, to)
<1> DEFINE d == Head(w)
           n == WireNumber(d, p, q)
           f == OnWire(w, p, q)
<1>1. PICK c \in Nat : Has(InBox(b, p, q), from, c) /\ Has(f, c, to)
  BY DEF Stream
<1>2. d \in Packet /\ d.msg \in Message
  <2>1. d \in Packet
    OBVIOUS
  <2>2. \A e \in Packet : e.msg \in Message
    BY DEF Packet
  <2> QED
    BY <2>1, <2>2
<1>3. n \in Nat /\ (n # 0 <=> d.to = q /\ d.msg.src = p)
  BY <1>2, Numbered DEF WireNumber
<1>4. c # 0
  BY <1>1 DEF Has
<1>5. /\ f \in Seq(Nat) /\ OnWire(Tail(w), p, q) = RemoveAt(f, 1)
      /\ 1 \in DOMAIN f /\ f[1] = n
  BY OnWireNumbers, OnWireTail
<1> HIDE DEF f, d
<1>6. n # 0 => n = c
  <2>1. \A j \in DOMAIN f : ~(j < 1)
    BY <1>5
  <2> QED
    BY <1>1, <1>4, <1>5, <2>1, FirstIsNext
<1>7. Has(OnWire(Tail(w), p, q), IF n # 0 THEN c + 1 ELSE c, to)
  BY <1>1, <1>4, <1>5, <1>6, HasRemoved
<1>8. CASE d.to # q
  BY <1>1, <1>3, <1>7, <1>8 DEF Stream, d
<1>9. CASE d.to = q
  <2>1. BoxNumber(d.msg, p, q) = n
    BY <1>9 DEF BoxNumber, WireNumber
  <2>2. InBox(b, p, q) \in Seq(Nat) /\ InBox(Append(b, d.msg), p, q) = Append(InBox(b, p, q), n)
    BY <1>2, <2>1, InBoxNumbers, InBoxAppended
  <2>3. Has(InBox(Append(b, d.msg), p, q), from, IF n # 0 THEN c + 1 ELSE c)
    BY <1>1, <1>3, <1>6, <2>2, HasAppended
  <2> QED
    BY <1>7, <1>9, <2>3 DEF Stream, d
<1> QED
  BY <1>8, <1>9

\* The first message of a sender in the mailbox is the next one.
LEMMA StreamFirst ==
  ASSUME NEW b \in Seq(Message), NEW w, NEW p, NEW q,
         NEW from \in Nat \ {0}, NEW to \in Nat \ {0}, Stream(b, w, p, q, from, to),
         NEW i \in DOMAIN b, b[i].src = p, \A j \in 1..(i - 1) : b[j].src # p
  PROVE  Number(b[i], q) = from /\ from < to
<1> DEFINE f == InBox(b, p, q)
<1>1. PICK c \in Nat : Has(f, from, c) /\ Has(OnWire(w, p, q), c, to)
  BY DEF Stream
<1>2. /\ f \in Seq(Nat) /\ DOMAIN f = 1..Len(b) /\ Len(b) \in Nat
      /\ \A j \in 1..Len(b) : f[j] = BoxNumber(b[j], p, q)
  BY InBoxNumbers
<1>3. i \in 1..Len(b) /\ b[i] \in Message
  OBVIOUS
<1>4. f[i] = Number(b[i], q) /\ f[i] # 0
  BY <1>2, <1>3, Numbered DEF BoxNumber
<1>5. \A j \in DOMAIN f : j < i => f[j] = 0
  BY <1>2, <1>3, SMTT(30) DEF BoxNumber
<1> HIDE DEF f
<1>6. f[i] = from /\ from < c
  BY <1>1, <1>2, <1>3, <1>4, <1>5, FirstIsNext
<1>7. c <= to
  BY <1>1 DEF Has
<1> QED
  BY <1>4, <1>6, <1>7

\* recv_msg takes it, or a message of somebody else.
LEMMA StreamTaken ==
  ASSUME NEW b \in Seq(Message), NEW w, NEW p, NEW q,
         NEW from \in Nat \ {0}, NEW to \in Nat \ {0}, Stream(b, w, p, q, from, to),
         NEW i \in DOMAIN b, b[i].src = p => Number(b[i], q) = from
  PROVE  Stream(RemoveAt(b, i), w, p, q, IF b[i].src = p THEN from + 1 ELSE from, to)
<1> DEFINE f == InBox(b, p, q)
<1>1. PICK c \in Nat : Has(f, from, c) /\ Has(OnWire(w, p, q), c, to)
  BY DEF Stream
<1>2. /\ f \in Seq(Nat) /\ DOMAIN f = 1..Len(b) /\ f[i] = BoxNumber(b[i], p, q)
      /\ i \in DOMAIN f /\ b[i] \in Message
  <2>1. i \in 1..Len(b) /\ b[i] \in Message /\ Len(b) \in Nat
    OBVIOUS
  <2> QED
    BY <2>1, InBoxNumbers
<1>3. f[i] # 0 <=> b[i].src = p
  BY <1>2, Numbered DEF BoxNumber
<1>4. f[i] # 0 => f[i] = from
  BY <1>2, <1>3 DEF BoxNumber
<1>5. InBox(RemoveAt(b, i), p, q) = RemoveAt(f, i)
  BY InBoxRemoved
<1> HIDE DEF f
<1>6. Has(RemoveAt(f, i), IF f[i] # 0 THEN from + 1 ELSE from, c)
  BY <1>1, <1>2, <1>4, HasRemoved
<1> QED
  BY <1>1, <1>3, <1>5, <1>6 DEF Stream

-----------------------------------------------------------------------------
(* What a step of a member does to the numbers.                            *)

\* The others of a group, by their places in the list.
LEMMA Positions ==
  ASSUME NEW p \in Member
  PROVE  /\ \A k \in 1..(N - 1) : Others(p)[k] \in Member \ {p}
         /\ \A q \in Member \ {p} : Pos(p, q) \in 1..(N - 1)
         /\ \A q \in Member \ {p}, k \in 1..(N - 1) : Others(p)[k] = q <=> Pos(p, q) = k
BY Constants DEF Others, Pos, Member

LEMMA SentNumber ==
  ASSUME ControlOK, RoundOK, NEW p \in Member, NEW q \in Member
  PROVE  Sent(p, q) \in Nat \ {0} /\ Taken(p, q) \in Nat \ {0}
<1>1. round[p] \in Nat \ {0}
  BY Constants DEF RoundOK
<1> QED
  BY <1>1 DEF Sent, SentAt, Taken, TakenAt, Key

\* Nobody else's numbers change.
LEMMA OthersNumbers ==
  ASSUME ControlOK, RoundOK, NEW p \in Member, MemberStep(p), NEW q \in Member \ {p}, NEW t
  PROVE  Sent(q, t)' = Sent(q, t) /\ Taken(q, t)' = Taken(q, t) /\ pc'[q] = pc[q]
<1>1. pc'[q] = pc[q] /\ x'[q] = x[q]
  <2>1. PICK at \in Place, k \in 1..(N - 1) : pc' = [pc EXCEPT ![p] = at] /\ x' = [x EXCEPT ![p] = k]
    BY Moves
  <2> QED
    BY <2>1, Updated DEF ControlOK
<1>2. round'[q] = round[q]
  <2>1. round' = round \/ round' = [round EXCEPT ![p] = round[p] + 1]
    BY RoundMoves
  <2> QED
    BY <2>1 DEF RoundOK
<1> QED
  BY <1>1, <1>2 DEF Sent, Taken

\* A member sends the next message to d, takes the next one from d, or neither.
Sends(p, d, tag) ==
  /\ SendTo(p, d, tag) /\ setup' = setup /\ pc[p] \in Working /\ pc'[p] # "gone"
  /\ Number(Msg(p, tag), d) = Sent(p, d) /\ Proper(Msg(p, tag), d)
  /\ \A q \in Member \ {p} : /\ Sent(p, q)' = IF q = d THEN Sent(p, q) + 1 ELSE Sent(p, q)
                             /\ Taken(p, q)' = Taken(p, q)
Takes(p, d) ==
  /\ Take(p) /\ From(p) = {d} /\ pc[p] # "gone" /\ pc'[p] # "gone"
  /\ \A q \in Member \ {p} : /\ Taken(p, q)' = IF q = d THEN Taken(p, q) + 1 ELSE Taken(p, q)
                             /\ Sent(p, q)' = Sent(p, q)
Rests(p) ==
  /\ UNCHANGED <<setup, wire>> /\ pc[p] # "gone"
  /\ box' = box \/ (pc'[p] = "gone" /\ box' = [box EXCEPT ![p] = <<>>])
  /\ \A q \in Member \ {p} : Taken(p, q)' = Taken(p, q) /\ Sent(p, q)' = Sent(p, q)

LEMMA TalkSends ==
  ASSUME ControlOK, RoundOK, LoopInv, NEW p \in Member, Talk(p)
  PROVE  \E d \in Member \ {p} : Sends(p, d, "user")
<1> DEFINE d == Others(p)[x[p]]
<1>1. /\ pc[p] = "talk" /\ SendTo(p, d, "user") /\ Pass(p, N - 1, "listen")
      /\ UNCHANGED <<setup, round>>
  BY DEF Talk
<1>2. x[p] \in 1..(N - 1) /\ N \in Nat /\ round[p] \in Nat /\ d \in Member \ {p}
  BY Constants, Positions DEF ControlOK, RoundOK
<1>3. \A q \in Member \ {p} : Pos(p, q) \in 1..(N - 1) /\ (d = q <=> Pos(p, q) = x[p])
  BY <1>2, Positions
<1> HIDE DEF d
<1>4. \/ x[p] < N - 1 /\ x'[p] = x[p] + 1 /\ pc'[p] = "talk"
      \/ x[p] = N - 1 /\ x'[p] = 1 /\ pc'[p] = "listen"
  <2>1. "listen" \in Place
    BY DEF Place, Working
  <2> QED
    BY <1>1, <2>1, PassStep DEF ControlOK
<1>5. ASSUME NEW q \in Member \ {p}
      PROVE  /\ Sent(p, q)' = IF q = d THEN Sent(p, q) + 1 ELSE Sent(p, q)
             /\ Taken(p, q)' = Taken(p, q)
  <2>1. Sent(p, q) = Key(p, q, round[p], IF Pos(p, q) < x[p] THEN 1 ELSE 0)
    BY <1>1 DEF Sent, SentAt
  <2>2. Sent(p, q)' = Key(p, q, round[p], IF Pos(p, q) < x[p] \/ Pos(p, q) = x[p] THEN 1 ELSE 0)
    BY <1>1, <1>2, <1>3, <1>4 DEF Sent, SentAt
  <2>3. Taken(p, q) = Key(q, p, round[p], 0) /\ Taken(p, q)' = Key(q, p, round[p], 0)
    BY <1>1, <1>2, <1>3, <1>4 DEF Taken, TakenAt
  <2>4. Pos(p, q) \in 1..(N - 1) /\ (d = q <=> Pos(p, q) = x[p])
    BY <1>3
  <2> QED
    BY <1>2, <2>1, <2>2, <2>3, <2>4 DEF Key
<1>6. Number(Msg(p, "user"), d) = Sent(p, d)
  <2>1. ~(Pos(p, d) < x[p])
    BY <1>2, <1>3
  <2> QED
    BY <1>1, <2>1 DEF Number, Msg, Sent, SentAt
<1> QED
  BY <1>1, <1>2, <1>4, <1>5, <1>6 DEF Sends, Proper, Msg, Working

LEMMA ListenTakes ==
  ASSUME ControlOK, RoundOK, LoopInv, ~setup.any, NEW p \in Member, Listen(p)
  PROVE  \E d \in Member \ {p} : Takes(p, d)
<1> DEFINE d == Others(p)[x[p]]
           after == IF p = 0 THEN "collect" ELSE "report"
<1>1. /\ pc[p] = "listen" /\ Take(p) /\ Pass(p, N - 1, after) /\ UNCHANGED round /\ From(p) = {d}
  BY DEF Listen, From
<1>2. x[p] \in 1..(N - 1) /\ N \in Nat /\ round[p] \in Nat /\ d \in Member \ {p}
  BY Constants, Positions DEF ControlOK, RoundOK
<1>3. \A q \in Member \ {p} : Pos(p, q) \in 1..(N - 1) /\ (d = q <=> Pos(p, q) = x[p])
  BY <1>2, Positions
<1> HIDE DEF d
<1>4. \/ x[p] < N - 1 /\ x'[p] = x[p] + 1 /\ pc'[p] = "listen"
      \/ x[p] = N - 1 /\ x'[p] = 1 /\ pc'[p] = after
  <2>1. after \in Place
    BY DEF Place, Working
  <2> QED
    BY <1>1, <2>1, PassStep DEF ControlOK
<1>5. ASSUME NEW q \in Member \ {p}
      PROVE  /\ Taken(p, q)' = IF q = d THEN Taken(p, q) + 1 ELSE Taken(p, q)
             /\ Sent(p, q)' = Sent(p, q)
  <2>1. Taken(p, q) = Key(q, p, round[p], IF Pos(p, q) < x[p] THEN 1 ELSE 0)
    BY <1>1 DEF Taken, TakenAt
  <2>2. Taken(p, q)' = Key(q, p, round[p], IF Pos(p, q) < x[p] \/ Pos(p, q) = x[p] THEN 1 ELSE 0)
    <3>1. CASE x[p] < N - 1
      BY <1>1, <1>2, <1>3, <1>4, <3>1 DEF Taken, TakenAt
    <3>2. CASE x[p] = N - 1
      <4>1. pc'[p] = after /\ x'[p] = 1 /\ (Pos(p, q) < x[p] \/ Pos(p, q) = x[p])
        BY <1>2, <1>3, <1>4, <3>2
      <4>2. after = "collect" => ~(q < 1)
        BY Constants DEF Member
      <4> QED
        BY <1>1, <4>1, <4>2 DEF Taken, TakenAt
    <3> QED
      BY <1>4, <3>1, <3>2
  <2>3. Sent(p, q) = Key(p, q, round[p], 1) /\ Sent(p, q)' = Key(p, q, round[p], 1)
    BY <1>1, <1>4 DEF Sent, SentAt
  <2>4. Pos(p, q) \in 1..(N - 1) /\ (d = q <=> Pos(p, q) = x[p])
    BY <1>3
  <2> QED
    BY <1>2, <2>1, <2>2, <2>3, <2>4 DEF Key
<1> QED
  BY <1>1, <1>2, <1>4, <1>5 DEF Takes

LEMMA CollectTakes ==
  ASSUME ControlOK, RoundOK, LoopInv, NEW p \in Member, Collect(p)
  PROVE  \E d \in Member \ {p} : Takes(p, d)
<1>1. /\ pc[p] = "collect" /\ Take(p) /\ Pass(p, N - 1, "release") /\ UNCHANGED round
      /\ From(p) = {x[p]} /\ p = 0
  BY DEF Collect, Collected, From, LoopInv
<1>2. x[p] \in 1..(N - 1) /\ N \in Nat /\ round[p] \in Nat /\ x[p] \in Member \ {p}
  BY <1>1, Constants DEF ControlOK, RoundOK
<1>3. \A q \in Member \ {p} : q \in 1..(N - 1)
  BY <1>1, Constants
<1>4. \/ x[p] < N - 1 /\ x'[p] = x[p] + 1 /\ pc'[p] = "collect"
      \/ x[p] = N - 1 /\ x'[p] = 1 /\ pc'[p] = "release"
  <2>1. "release" \in Place
    BY DEF Place, Working
  <2> QED
    BY <1>1, <2>1, PassStep DEF ControlOK
<1>5. ASSUME NEW q \in Member \ {p}
      PROVE  /\ Taken(p, q)' = IF q = x[p] THEN Taken(p, q) + 1 ELSE Taken(p, q)
             /\ Sent(p, q)' = Sent(p, q)
  <2>1. Taken(p, q) = 2 * round[p] + (IF q < x[p] THEN 2 ELSE 1)
    BY <1>1 DEF Taken, TakenAt, Key
  <2>2. Taken(p, q)' = 2 * round[p] + (IF q < x[p] \/ q = x[p] THEN 2 ELSE 1)
    <3>1. CASE x[p] < N - 1
      BY <1>1, <1>2, <1>3, <1>4, <3>1 DEF Taken, TakenAt, Key
    <3>2. CASE x[p] = N - 1
      BY <1>1, <1>2, <1>3, <1>4, <3>2 DEF Taken, TakenAt, Key
    <3> QED
      BY <1>4, <3>1, <3>2
  <2>3. Sent(p, q) = Key(p, q, round[p], 1) /\ Sent(p, q)' = Key(p, q, round[p], 1)
    BY <1>1, <1>2, <1>3, <1>4 DEF Sent, SentAt
  <2> QED
    BY <1>2, <1>3, <2>1, <2>2, <2>3
<1> QED
  BY <1>1, <1>2, <1>4, <1>5 DEF Takes

LEMMA ReleaseSends ==
  ASSUME ControlOK, RoundOK, LoopInv, NEW p \in Member, Release(p)
  PROVE  \E d \in Member \ {p} : Sends(p, d, "go")
<1> DEFINE after == AfterBarrier(round[p])
<1>1. /\ pc[p] = "release" /\ SendTo(p, x[p], "go") /\ Pass(p, N - 1, after) /\ setup' = setup
      /\ round' = (IF x[p] < N - 1 THEN round ELSE [round EXCEPT ![p] = round[p] + 1])
      /\ p = 0
  BY DEF Release, Released, LoopInv
<1>2. x[p] \in 1..(N - 1) /\ N \in Nat /\ round[p] \in Nat /\ x[p] \in Member \ {p} /\ x[p] # 0
  BY <1>1, Constants DEF ControlOK, RoundOK
<1>3. \A q \in Member \ {p} : q \in 1..(N - 1) /\ Pos(p, q) \in 1..(N - 1)
  BY <1>1, Constants, Positions
<1>4. \/ x[p] < N - 1 /\ x'[p] = x[p] + 1 /\ pc'[p] = "release" /\ round'[p] = round[p]
      \/ x[p] = N - 1 /\ x'[p] = 1 /\ pc'[p] \in {"talk", "over"} /\ round'[p] = round[p] + 1
  <2>1. after \in {"talk", "over"}
    BY DEF AfterBarrier
  <2>2. after \in Place
    BY <2>1 DEF Place, Working
  <2> HIDE DEF after
  <2>3. \/ x[p] < N - 1 /\ x'[p] = x[p] + 1 /\ pc'[p] = "release"
        \/ x[p] = N - 1 /\ x'[p] = 1 /\ pc'[p] = after
    BY <1>1, <2>2, PassStep DEF ControlOK
  <2>4. x[p] < N - 1 => round'[p] = round[p]
    BY <1>1
  <2>5. x[p] = N - 1 => round'[p] = round[p] + 1
    BY <1>1, <1>2 DEF RoundOK
  <2> QED
    BY <2>1, <2>3, <2>4, <2>5
<1>5. ASSUME NEW q \in Member \ {p}
      PROVE  /\ Sent(p, q)' = IF q = x[p] THEN Sent(p, q) + 1 ELSE Sent(p, q)
             /\ Taken(p, q)' = Taken(p, q)
  <2>1. Sent(p, q) = 2 * round[p] + (IF q < x[p] THEN 2 ELSE 1)
    BY <1>1 DEF Sent, SentAt, Key
  <2>2. Sent(p, q)' = 2 * round[p] + (IF q < x[p] \/ q = x[p] THEN 2 ELSE 1)
    <3>1. CASE x[p] < N - 1
      BY <1>1, <1>2, <1>3, <1>4, <3>1 DEF Sent, SentAt, Key
    <3>2. CASE x[p] = N - 1
      <4>1. Sent(p, q)' = 2 * (round[p] + 1)
        BY <1>1, <1>2, <1>3, <1>4, <3>2 DEF Sent, SentAt, Key
      <4> QED
        BY <1>2, <1>3, <3>2, <4>1
    <3> QED
      BY <1>4, <3>1, <3>2
  <2>3. Taken(p, q) = 2 * (round[p] + 1)
    BY <1>1, <1>2 DEF Taken, TakenAt, Key
  <2>4. Taken(p, q)' = 2 * (round[p] + 1)
    <3>1. CASE x[p] < N - 1
      BY <1>1, <1>2, <1>4, <3>1 DEF Taken, TakenAt, Key
    <3>2. CASE x[p] = N - 1
      BY <1>1, <1>2, <1>4, <3>2 DEF Taken, TakenAt, Key
    <3> QED
      BY <1>4, <3>1, <3>2
  <2> QED
    BY <1>2, <1>3, <2>1, <2>2, <2>3, <2>4
<1>6. Number(Msg(p, "go"), x[p]) = Sent(p, x[p])
  BY <1>1, <1>2 DEF Number, Msg, Sent, SentAt, Key
<1> QED
  BY <1>1, <1>2, <1>4, <1>5, <1>6 DEF Sends, Proper, Msg, Working

LEMMA ReportSends ==
  ASSUME ControlOK, RoundOK, LoopInv, NEW p \in Member, Report(p)
  PROVE  \E d \in Member \ {p} : Sends(p, d, "ok")
<1>1. /\ pc[p] = "report" /\ SendTo(p, 0, "ok") /\ UNCHANGED <<setup, x, round>>
      /\ pc'[p] = "await" /\ p # 0 /\ 0 \in Member \ {p} /\ round[p] \in Nat
  BY Constants DEF Report, LoopInv, ControlOK, RoundOK
<1>2. ASSUME NEW q \in Member \ {p}
      PROVE  /\ Sent(p, q)' = IF q = 0 THEN Sent(p, q) + 1 ELSE Sent(p, q)
             /\ Taken(p, q)' = Taken(p, q)
  BY <1>1 DEF Sent, SentAt, Taken, TakenAt, Key
<1>3. Number(Msg(p, "ok"), 0) = Sent(p, 0)
  BY <1>1 DEF Number, Msg, Sent, SentAt
<1> QED
  BY <1>1, <1>2, <1>3 DEF Sends, Proper, Msg, Working

LEMMA AwaitTakes ==
  ASSUME ControlOK, RoundOK, LoopInv, NEW p \in Member, Await(p)
  PROVE  \E d \in Member \ {p} : Takes(p, d)
<1>1. /\ pc[p] = "await" /\ Take(p) /\ x'[p] = 1 /\ x[p] = 1 /\ p # 0 /\ 0 \in Member \ {p}
      /\ pc'[p] \in {"talk", "over"} /\ round'[p] = round[p] + 1 /\ round[p] \in Nat /\ From(p) = {0}
  <2>1. pc'[p] = AfterBarrier(round[p]) /\ pc[p] = "await" /\ round'[p] = round[p] + 1 /\ x' = x
    BY DEF Await, ControlOK, RoundOK
  <2> QED
    BY <2>1, Constants DEF Await, LoopInv, AfterBarrier, From, RoundOK
<1>2. ASSUME NEW q \in Member \ {p}
      PROVE  /\ Taken(p, q)' = IF q = 0 THEN Taken(p, q) + 1 ELSE Taken(p, q)
             /\ Sent(p, q)' = Sent(p, q)
  <2>1. Pos(p, q) \in 1..(N - 1)
    BY Positions
  <2>2. Taken(p, q) = Key(q, p, round[p], 1) /\ Taken(p, q)' = Key(q, p, round[p] + 1, 0)
    BY <1>1 DEF Taken, TakenAt
  <2>3. Sent(p, q) = Key(p, q, round[p] + 1, 0)
    BY <1>1 DEF Sent, SentAt
  <2>4. Sent(p, q)' = Key(p, q, round[p] + 1, 0)
    <3>1. ~(Pos(p, q) < 1)
      BY <2>1
    <3> QED
      BY <1>1, <3>1 DEF Sent, SentAt
  <2> QED
    BY <1>1, <2>2, <2>3, <2>4 DEF Key
<1> QED
  BY <1>1, <1>2 DEF Takes

LEMMA EndRests ==
  ASSUME ControlOK, RoundOK, NEW p \in Member, Finish(p) \/ WaitGroup(p) \/ End(p)
  PROVE  Rests(p)
<1>1. /\ pc[p] \in {"over", "waiting", "waited"} /\ UNCHANGED <<setup, wire, round>>
      /\ pc'[p] \in {"waiting", "waited", "gone"}
      /\ box' = box \/ (pc'[p] = "gone" /\ box' = [box EXCEPT ![p] = <<>>])
  <2>1. CASE Finish(p)
    BY <2>1 DEF Finish, ControlOK
  <2>2. CASE WaitGroup(p)
    BY <2>2 DEF WaitGroup, Pass, ControlOK
  <2>3. CASE End(p)
    BY <2>3 DEF End, ControlOK
  <2> QED
    BY <2>1, <2>2, <2>3
<1>2. \A q \in Member \ {p} : Taken(p, q)' = Taken(p, q) /\ Sent(p, q)' = Sent(p, q)
  BY <1>1 DEF Taken, TakenAt, Sent, SentAt
<1> QED
  BY <1>1, <1>2 DEF Rests

LEMMA Advances ==
  ASSUME ControlOK, RoundOK, LoopInv, ~setup.any, NEW p \in Member, MemberStep(p)
  PROVE  \/ \E d \in Member \ {p}, tag \in {"user", "ok", "go"} : Sends(p, d, tag)
         \/ \E d \in Member \ {p} : Takes(p, d)
         \/ Rests(p)
BY TalkSends, ListenTakes, CollectTakes, ReleaseSends, ReportSends, AwaitTakes, EndRests DEF MemberStep

\* The leader collects and releases, the others report and await.
LEMMA LoopStep ==
  ASSUME ControlOK, LoopInv, NEW p \in Member, MemberStep(p)
  PROVE  LoopInv'
<1>1. \A q \in Member \ {p} : pc'[q] = pc[q] /\ x'[q] = x[q]
  <2>1. PICK at \in Place, k \in 1..(N - 1) : pc' = [pc EXCEPT ![p] = at] /\ x' = [x EXCEPT ![p] = k]
    BY Moves
  <2> QED
    BY <2>1, Updated DEF ControlOK
<1>2. /\ pc'[p] \in {"report", "await"} => x'[p] = 1 /\ p # 0
      /\ pc'[p] \in {"collect", "release"} => p = 0
  <2>1. CASE Talk(p)
    <3>1. pc[p] = "talk" /\ Pass(p, N - 1, "listen") /\ "listen" \in Place
      BY <2>1 DEF Talk, Place, Working
    <3> QED
      BY <3>1, PassStep DEF ControlOK
  <2>2. CASE Listen(p)
    <3> DEFINE after == IF p = 0 THEN "collect" ELSE "report"
    <3>1. pc[p] = "listen" /\ Pass(p, N - 1, after) /\ after \in Place
      BY <2>2 DEF Listen, Place, Working
    <3> QED
      BY <3>1, PassStep DEF ControlOK
  <2>3. CASE Collect(p)
    <3>1. pc[p] = "collect" /\ Pass(p, N - 1, "release") /\ "release" \in Place
      BY <2>3 DEF Collect, Collected, Place, Working
    <3> QED
      BY <3>1, PassStep DEF ControlOK, LoopInv
  <2>4. CASE Release(p)
    <3> DEFINE after == AfterBarrier(round[p])
    <3>1. pc[p] = "release" /\ Pass(p, N - 1, after) /\ after \in {"talk", "over"} /\ after \in Place
      BY <2>4 DEF Release, Released, AfterBarrier, Place, Working
    <3> QED
      BY <3>1, PassStep DEF ControlOK, LoopInv
  <2>5. CASE Report(p)
    BY <2>5 DEF Report, ControlOK, LoopInv
  <2>6. CASE Await(p)
    BY <2>6 DEF Await, AfterBarrier, ControlOK
  <2>7. CASE Finish(p) \/ End(p)
    BY <2>7 DEF Finish, End, ControlOK
  <2>8. CASE WaitGroup(p)
    BY <2>8 DEF WaitGroup, Pass, ControlOK
  <2> QED
    BY <2>1, <2>2, <2>3, <2>4, <2>5, <2>6, <2>7, <2>8 DEF MemberStep
<1> QED
  BY <1>1, <1>2 DEF LoopInv

-----------------------------------------------------------------------------
(* Every stream is whole.                                                  *)

TypeInv == ControlOK /\ RoundOK /\ MessagesOK

LEMMA Links ==
  ASSUME MessagesOK, NEW p \in Member, NEW q \in Member
  PROVE  /\ <<setup.at[p], setup.at[q]>> \in Agent \X Agent
         /\ wire[<<setup.at[p], setup.at[q]>>] \in Seq(Packet)
BY DEF MessagesOK, Agent

LEMMA SendFlows ==
  ASSUME TypeInv, FlowInv, ProperInv, NEW p \in Member, MemberStep(p),
         NEW d \in Member \ {p}, NEW tag \in {"user", "ok", "go"}, Sends(p, d, tag)
  PROVE  FlowInv' /\ ProperInv'
<1> DEFINE m == Msg(p, tag)
           l == <<setup.at[p], setup.at[d]>>
           e == [to |-> d, msg |-> m]
<1>1. m \in Message /\ m.src = p
  <2>1. round[p] \in 1..Rounds
    BY DEF Sends, TypeInv, RoundOK
  <2> QED
    BY <2>1 DEF Msg, Message
<1>2. /\ setup' = setup /\ Agent' = Agent /\ pc[p] # "gone" /\ pc'[p] # "gone"
      /\ Number(m, d) = Sent(p, d) /\ Proper(m, d)
  BY DEF Sends, Agent, Working
<1>3. ASSUME NEW q \in Member, NEW s \in Member \ {q}
      PROVE  /\ Taken(q, s)' = Taken(q, s)
             /\ Sent(s, q)' = IF s = p /\ q = d THEN Sent(s, q) + 1 ELSE Sent(s, q)
             /\ pc'[q] = "gone" <=> pc[q] = "gone"
             /\ Taken(q, s) \in Nat \ {0} /\ Sent(s, q) \in Nat \ {0}
  <2>1. Taken(q, s)' = Taken(q, s)
    BY OthersNumbers DEF Sends, TypeInv
  <2>2. Sent(s, q)' = IF s = p /\ q = d THEN Sent(s, q) + 1 ELSE Sent(s, q)
    BY OthersNumbers DEF Sends, TypeInv
  <2>3. pc'[q] = "gone" <=> pc[q] = "gone"
    BY <1>2, OthersNumbers DEF TypeInv
  <2> QED
    BY <2>1, <2>2, <2>3, SentNumber DEF TypeInv
<1>4. e \in Packet /\ e.to = d /\ e.msg = m
  BY <1>1 DEF Packet
<1> HIDE DEF m, e
<1>5. CASE setup.at[p] = setup.at[d]
  <2>1. wire' = wire /\ box' = IF pc[d] = "gone" THEN box ELSE [box EXCEPT ![d] = Append(box[d], m)]
    BY <1>5 DEF Sends, SendTo, m
  <2>2. box \in [Member -> Seq(Message)]
    BY DEF TypeInv, MessagesOK
  <2>3. ASSUME NEW q \in Member, NEW s \in Member \ {q}, pc'[q] # "gone" PROVE Flows(s, q)'
    <3> DEFINE w == wire[<<setup.at[s], setup.at[q]>>]
    <3>1. Stream(box[q], w, s, q, Taken(q, s), Sent(s, q)) /\ w \in Seq(Packet)
      BY <1>3, <2>3, Links DEF FlowInv, Flows, TypeInv
    <3>2. Stream(box'[q], w, s, q, Taken(q, s)', Sent(s, q)')
      <4>1. CASE q # d
        BY <1>3, <2>1, <2>2, <3>1, <4>1
      <4>2. CASE q = d
        <5>1. box'[q] = Append(box[q], m) /\ box[q] \in Seq(Message)
          BY <1>3, <2>1, <2>2, <2>3, <4>2
        <5>2. ASSUME m.src = s PROVE Number(m, q) = Sent(s, q) /\ \A i \in 1..Len(w) : WireNumber(w[i], s, q) = 0
          <6>1. w = wire[<<setup.at[d], setup.at[d]>>] /\ setup.at[d] \in Agent
            BY <1>1, <1>5, <4>2, <5>2 DEF Agent
          <6>2. DOMAIN w = {}
            BY <6>1 DEF ProperInv
          <6>3. DOMAIN w = 1..Len(w)
            BY <3>1
          <6> QED
            BY <1>1, <1>2, <4>2, <5>2, <6>2, <6>3
        <5> HIDE DEF w
        <5>3. Stream(Append(box[q], m), w, s, q, Taken(q, s), IF m.src = s THEN Sent(s, q) + 1 ELSE Sent(s, q))
          BY <1>1, <1>3, <3>1, <5>1, <5>2, StreamBoxed
        <5> QED
          BY <1>1, <1>3, <4>2, <5>1, <5>3
      <4> QED
        BY <4>1, <4>2
    <3> QED
      BY <1>2, <2>1, <3>2 DEF Flows
  <2>4. FlowInv'
    <3>1. ASSUME NEW q \in Member, NEW s \in Member \ {q} PROVE Taken(q, s)' <= Sent(s, q)'
      <4>1. Taken(q, s) <= Sent(s, q)
        BY DEF FlowInv
      <4> QED
        BY <1>3, <4>1
    <3> QED
      BY <2>3, <3>1 DEF FlowInv
  <2>5. ProperInv'
    <3>1. \A q \in Member : \A i \in DOMAIN box'[q] : Proper(box'[q][i], q)
      <4> SUFFICES ASSUME NEW q \in Member, NEW i \in DOMAIN box'[q] PROVE Proper(box'[q][i], q)
        OBVIOUS
      <4>1. CASE box'[q] = box[q]
        BY <4>1 DEF ProperInv
      <4>2. CASE q = d /\ box'[q] = Append(box[q], m)
        <5>1. box[q] \in Seq(Message)
          BY <2>2
        <5>2. box'[q][i] = m \/ (i \in DOMAIN box[q] /\ box'[q][i] = box[q][i])
          BY <4>2, <5>1
        <5> QED
          BY <1>2, <4>2, <5>2 DEF ProperInv
      <4> QED
        BY <2>1, <2>2, <4>1, <4>2
    <3> QED
      BY <1>2, <2>1, <3>1 DEF ProperInv
  <2> QED
    BY <2>4, <2>5
<1>6. CASE setup.at[p] # setup.at[d]
  <2>1. box' = box /\ wire' = [wire EXCEPT ![l] = Append(wire[l], e)]
    BY <1>6 DEF Sends, SendTo, e, m
  <2>2. l \in Agent \X Agent /\ wire[l] \in Seq(Packet) /\ DOMAIN wire = Agent \X Agent
    BY Links DEF TypeInv, MessagesOK
  <2>3. ASSUME NEW q \in Member, NEW s \in Member \ {q}, pc'[q] # "gone" PROVE Flows(s, q)'
    <3> DEFINE k == <<setup.at[s], setup.at[q]>>
               w == wire[k]
    <3>1. Stream(box[q], w, s, q, Taken(q, s), Sent(s, q)) /\ w \in Seq(Packet) /\ k \in Agent \X Agent
      BY <1>3, <2>3, Links DEF FlowInv, Flows, TypeInv
    <3>2. Stream(box'[q], wire'[k], s, q, Taken(q, s)', Sent(s, q)')
      <4>1. CASE k # l
        <5>1. wire'[k] = wire[k] /\ ~(s = p /\ q = d)
          BY <2>1, <2>2, <3>1, <4>1
        <5> QED
          BY <1>3, <2>1, <3>1, <5>1
      <4>2. CASE k = l
        <5>1. wire'[k] = Append(w, e) /\ box[q] \in Seq(Message)
          BY <2>1, <2>2, <4>2 DEF TypeInv, MessagesOK
        <5>2. e.to = q /\ e.msg.src = s => Number(e.msg, q) = Sent(s, q)
          BY <1>1, <1>2, <1>4
        <5> HIDE DEF w
        <5>3. Stream(box[q], Append(w, e), s, q, Taken(q, s),
                     IF e.to = q /\ e.msg.src = s THEN Sent(s, q) + 1 ELSE Sent(s, q))
          BY <1>3, <1>4, <3>1, <5>1, <5>2, StreamSent
        <5> QED
          BY <1>1, <1>3, <1>4, <2>1, <5>1, <5>3, ZenonT(30)
      <4> QED
        BY <4>1, <4>2
    <3> QED
      BY <1>2, <3>2 DEF Flows
  <2>4. FlowInv'
    <3>1. ASSUME NEW q \in Member, NEW s \in Member \ {q} PROVE Taken(q, s)' <= Sent(s, q)'
      <4>1. Taken(q, s) <= Sent(s, q)
        BY DEF FlowInv
      <4> QED
        BY <1>3, <4>1
    <3> QED
      BY <2>3, <3>1 DEF FlowInv
  <2>5. ProperInv'
    <3>1. ASSUME NEW a \in Agent, NEW b \in Agent, NEW i \in DOMAIN wire'[<<a, b>>]
          PROVE  LET f == wire'[<<a, b>>][i]
                 IN  Proper(f.msg, f.to) /\ a # b /\ setup.at[f.msg.src] = a /\ setup.at[f.to] = b
      <4>1. CASE <<a, b>> # l
        <5>1. wire'[<<a, b>>] = wire[<<a, b>>]
          BY <2>1, <2>2, <4>1
        <5> QED
          BY <3>1, <5>1 DEF ProperInv
      <4>2. CASE <<a, b>> = l
        <5>1. wire'[l] = Append(wire[l], e)
          BY <2>1, <2>2
        <5>2. wire'[l][i] = e \/ (i \in DOMAIN wire[l] /\ wire'[l][i] = wire[l][i])
          BY <2>2, <3>1, <4>2, <5>1
        <5>3. CASE wire'[l][i] = e
          BY <1>1, <1>2, <1>4, <1>6, <4>2, <5>3
        <5>4. CASE i \in DOMAIN wire[l] /\ wire'[l][i] = wire[l][i]
          BY <4>2, <5>4 DEF ProperInv
        <5> QED
          BY <5>2, <5>3, <5>4
      <4> QED
        BY <4>1, <4>2
    <3>2. \A q \in Member : \A i \in DOMAIN box'[q] : Proper(box'[q][i], q)
      BY <2>1 DEF ProperInv
    <3> QED
      BY <1>2, <3>1, <3>2 DEF ProperInv
  <2> QED
    BY <2>4, <2>5
<1> QED
  BY <1>5, <1>6

\* The message that recv_msg is about to take is the next one of its sender.
LEMMA TakesNext ==
  ASSUME TypeInv, FlowInv, NEW p \in Member, pc[p] # "gone", NEW d \in Member \ {p}, From(p) = {d},
         NEW i \in DOMAIN box[p], IsFirst(p, i)
  PROVE  box[p][i].src = d /\ Number(box[p][i], p) = Taken(p, d) /\ Taken(p, d) < Sent(d, p)
<1> DEFINE w == wire[<<setup.at[d], setup.at[p]>>]
<1>1. Stream(box[p], w, d, p, Taken(p, d), Sent(d, p))
  BY DEF FlowInv, Flows
<1>2. box[p] \in Seq(Message)
  BY DEF TypeInv, MessagesOK
<1>3. box[p][i].src = d /\ \A j \in 1..(i - 1) : box[p][j].src # d
  BY DEF IsFirst
<1>4. Taken(p, d) \in Nat \ {0} /\ Sent(d, p) \in Nat \ {0}
  BY SentNumber DEF TypeInv
<1> HIDE DEF w
<1>5. \A b \in Seq(Message) : \A j \in DOMAIN b : \A from, to \in Nat \ {0} :
        Stream(b, w, d, p, from, to) /\ b[j].src = d /\ (\A k \in 1..(j - 1) : b[k].src # d)
        => Number(b[j], p) = from /\ from < to
  BY StreamFirst
<1> QED
  BY <1>1, <1>2, <1>3, <1>4, <1>5

LEMMA TakeFlows ==
  ASSUME TypeInv, FlowInv, ProperInv, NEW p \in Member, MemberStep(p),
         NEW d \in Member \ {p}, Takes(p, d)
  PROVE  FlowInv' /\ ProperInv'
<1>1. PICK i \in DOMAIN box[p] : IsFirst(p, i) /\ box' = [box EXCEPT ![p] = RemoveAt(box[p], i)]
  BY DEF Takes, Take
<1>2. /\ setup' = setup /\ wire' = wire /\ Agent' = Agent /\ box[p] \in Seq(Message)
      /\ box'[p] = RemoveAt(box[p], i) /\ \A q \in Member \ {p} : box'[q] = box[q]
  BY <1>1 DEF Takes, Take, Agent, TypeInv, MessagesOK
<1>3. box[p][i].src = d /\ Number(box[p][i], p) = Taken(p, d) /\ Taken(p, d) < Sent(d, p)
  BY <1>1, TakesNext DEF Takes
<1>4. ASSUME NEW q \in Member, NEW s \in Member \ {q}
      PROVE  /\ Sent(s, q)' = Sent(s, q)
             /\ Taken(q, s)' = IF q = p /\ s = d THEN Taken(q, s) + 1 ELSE Taken(q, s)
             /\ pc'[q] = "gone" <=> pc[q] = "gone"
             /\ Taken(q, s) \in Nat \ {0} /\ Sent(s, q) \in Nat \ {0}
  <2>1. Sent(s, q)' = Sent(s, q)
    BY OthersNumbers DEF Takes, TypeInv
  <2>2. Taken(q, s)' = IF q = p /\ s = d THEN Taken(q, s) + 1 ELSE Taken(q, s)
    BY OthersNumbers DEF Takes, TypeInv
  <2>3. pc'[q] = "gone" <=> pc[q] = "gone"
    BY OthersNumbers DEF Takes, TypeInv
  <2> QED
    BY <2>1, <2>2, <2>3, SentNumber DEF TypeInv
<1>5. ASSUME NEW q \in Member, NEW s \in Member \ {q}, pc'[q] # "gone" PROVE Flows(s, q)'
  <2> DEFINE w == wire[<<setup.at[s], setup.at[q]>>]
  <2>1. Stream(box[q], w, s, q, Taken(q, s), Sent(s, q))
    BY <1>4, <1>5 DEF FlowInv, Flows
  <2>2. Stream(box'[q], w, s, q, Taken(q, s)', Sent(s, q)')
    <3>1. CASE q # p
      BY <1>2, <1>4, <2>1, <3>1
    <3>2. CASE q = p
      <4>1. box[p][i].src = s => Number(box[p][i], p) = Taken(p, s)
        BY <1>3
      <4> HIDE DEF w
      <4>2. Stream(RemoveAt(box[p], i), w, s, p,
                   IF box[p][i].src = s THEN Taken(p, s) + 1 ELSE Taken(p, s), Sent(s, p))
        BY <1>2, <1>4, <2>1, <3>2, <4>1, StreamTaken
      <4> QED
        BY <1>2, <1>3, <1>4, <3>2, <4>2
    <3> QED
      BY <3>1, <3>2
  <2> QED
    BY <1>2, <2>2 DEF Flows
<1>6. FlowInv'
  <2>1. ASSUME NEW q \in Member, NEW s \in Member \ {q} PROVE Taken(q, s)' <= Sent(s, q)'
    <3>1. Taken(q, s) <= Sent(s, q)
      BY DEF FlowInv
    <3> QED
      BY <1>3, <1>4, <3>1
  <2> QED
    BY <1>5, <2>1 DEF FlowInv
<1>7. ProperInv'
  <2>1. ASSUME NEW q \in Member, NEW j \in DOMAIN box'[q] PROVE Proper(box'[q][j], q)
    <3>1. CASE q # p
      BY <1>2, <2>1, <3>1 DEF ProperInv
    <3>2. CASE q = p
      <4>1. /\ RemoveAt(box[p], i) \in Seq(Message) /\ Len(RemoveAt(box[p], i)) = Len(box[p]) - 1
            /\ \A k \in 1..(Len(box[p]) - 1) : RemoveAt(box[p], i)[k] = box[p][IF k < i THEN k ELSE k + 1]
        BY <1>2, Without
      <4>2. j \in 1..(Len(box[p]) - 1) /\ Len(box[p]) \in Nat /\ i \in 1..Len(box[p])
        BY <1>2, <2>1, <3>2, <4>1
      <4>3. (IF j < i THEN j ELSE j + 1) \in DOMAIN box[p]
        BY <1>2, <4>2
      <4> QED
        BY <1>2, <3>2, <4>1, <4>2, <4>3, SMTT(30) DEF ProperInv
    <3> QED
      BY <3>1, <3>2
  <2> QED
    BY <1>2, <2>1 DEF ProperInv
<1> QED
  BY <1>6, <1>7

LEMMA RestFlows ==
  ASSUME TypeInv, FlowInv, ProperInv, NEW p \in Member, MemberStep(p), Rests(p)
  PROVE  FlowInv' /\ ProperInv'
<1>1. setup' = setup /\ wire' = wire /\ Agent' = Agent /\ box \in [Member -> Seq(Message)]
  BY DEF Rests, Agent, TypeInv, MessagesOK
<1>2. ASSUME NEW q \in Member, NEW s \in Member \ {q}
      PROVE  /\ Sent(s, q)' = Sent(s, q) /\ Taken(q, s)' = Taken(q, s)
             /\ pc'[q] # "gone" => pc[q] # "gone"
  <2>1. Sent(s, q)' = Sent(s, q)
    BY OthersNumbers DEF Rests, TypeInv
  <2>2. Taken(q, s)' = Taken(q, s)
    BY OthersNumbers DEF Rests, TypeInv
  <2>3. pc'[q] # "gone" => pc[q] # "gone"
    BY OthersNumbers DEF Rests, TypeInv
  <2> QED
    BY <2>1, <2>2, <2>3
<1>3. \A q \in Member : box'[q] = box[q] \/ (pc'[q] = "gone" /\ box'[q] = <<>>)
  BY <1>1 DEF Rests
<1>4. ASSUME NEW q \in Member, NEW s \in Member \ {q}
      PROVE  Taken(q, s)' <= Sent(s, q)' /\ (pc'[q] # "gone" => Flows(s, q)')
  BY <1>1, <1>2, <1>3 DEF FlowInv, Flows
<1>5. \A q \in Member : \A i \in DOMAIN box'[q] : Proper(box'[q][i], q)
  BY <1>3 DEF ProperInv
<1> QED
  BY <1>1, <1>4, <1>5 DEF FlowInv, ProperInv

LEMMA DeliverFlows ==
  ASSUME TypeInv, FlowInv, ProperInv, NEW a \in Agent, NEW b \in Agent, Deliver(a, b)
  PROVE  FlowInv' /\ ProperInv'
<1> DEFINE l == <<a, b>>
           d == Head(wire[l])
<1>1. /\ UNCHANGED <<setup, pc, x, round>> /\ Agent' = Agent
      /\ wire[l] # <<>> /\ wire[l] \in Seq(Packet) /\ wire' = [wire EXCEPT ![l] = Tail(wire[l])]
      /\ box' = IF pc[d.to] = "gone" THEN box ELSE [box EXCEPT ![d.to] = Append(box[d.to], d.msg)]
      /\ box \in [Member -> Seq(Message)] /\ wire \in [Agent \X Agent -> Seq(Packet)]
  BY DEF Deliver, TypeInv, MessagesOK, Agent
<1>2. 1 \in DOMAIN wire[l] /\ d = wire[l][1] /\ d \in Packet
  BY <1>1
<1>3. d.to \in Member /\ d.msg \in Message /\ d.msg.src \in Member
  BY <1>2 DEF Packet, Message
<1>4. Proper(d.msg, d.to) /\ a # b /\ setup.at[d.msg.src] = a /\ setup.at[d.to] = b
  BY <1>2 DEF ProperInv
<1> HIDE DEF d
<1>5. /\ wire'[l] = Tail(wire[l])
      /\ \A k \in (Agent \X Agent) \ {l} : wire'[k] = wire[k]
      /\ \A q \in Member : box'[q] = IF q = d.to /\ pc[q] # "gone" THEN Append(box[q], d.msg) ELSE box[q]
  BY <1>1, <1>3
<1>6. ASSUME NEW q \in Member, NEW s \in Member \ {q}
      PROVE  /\ Sent(s, q)' = Sent(s, q) /\ Taken(q, s)' = Taken(q, s)
             /\ Taken(q, s) \in Nat \ {0} /\ Sent(s, q) \in Nat \ {0}
  BY <1>1, SentNumber DEF Sent, Taken, TypeInv
<1>7. ASSUME NEW q \in Member, NEW s \in Member \ {q}, pc[q] # "gone" PROVE Flows(s, q)'
  <2> DEFINE k == <<setup.at[s], setup.at[q]>>
             w == wire[k]
  <2>1. Stream(box[q], w, s, q, Taken(q, s), Sent(s, q)) /\ w \in Seq(Packet) /\ k \in Agent \X Agent
    BY <1>7, Links DEF FlowInv, Flows, TypeInv
  <2>2. box[q] \in Seq(Message)
    BY <1>1
  <2>3. Stream(box'[q], wire'[k], s, q, Taken(q, s), Sent(s, q))
    <3>1. CASE k = l
      <4>1. /\ w # <<>> /\ Head(w) = d /\ wire'[k] = Tail(w)
            /\ box'[q] = IF d.to = q THEN Append(box[q], d.msg) ELSE box[q]
        BY <1>1, <1>5, <1>7, <3>1 DEF d
      <4> HIDE DEF w
      <4>2. Stream(IF Head(w).to = q THEN Append(box[q], Head(w).msg) ELSE box[q], Tail(w), s, q,
                   Taken(q, s), Sent(s, q))
        BY <1>6, <2>1, <2>2, <4>1, StreamDelivered
      <4> QED
        BY <4>1, <4>2
    <3>2. CASE k # l
      <4>1. wire'[k] = w
        BY <1>5, <2>1, <3>2
      <4>2. CASE d.to # q
        BY <1>5, <2>1, <4>1, <4>2
      <4>3. CASE d.to = q
        <5>1. d.msg.src # s /\ box'[q] = Append(box[q], d.msg)
          BY <1>4, <1>5, <1>7, <3>2, <4>3
        <5> HIDE DEF w
        <5>2. Stream(Append(box[q], d.msg), w, s, q, Taken(q, s),
                     IF d.msg.src = s THEN Sent(s, q) + 1 ELSE Sent(s, q))
          BY <1>3, <1>6, <2>1, <2>2, <5>1, StreamBoxed
        <5> QED
          BY <4>1, <5>1, <5>2
      <4> QED
        BY <4>2, <4>3
    <3> QED
      BY <3>1, <3>2
  <2> QED
    BY <1>1, <1>6, <2>3 DEF Flows
<1>8. FlowInv'
  BY <1>1, <1>6, <1>7 DEF FlowInv
<1>9. ProperInv'
  <2>1. ASSUME NEW q \in Member, NEW i \in DOMAIN box'[q] PROVE Proper(box'[q][i], q)
    <3>1. CASE box'[q] = box[q]
      BY <2>1, <3>1 DEF ProperInv
    <3>2. CASE q = d.to /\ box'[q] = Append(box[q], d.msg)
      <4>1. box[q] \in Seq(Message)
        BY <1>1
      <4>2. box'[q][i] = d.msg \/ (i \in DOMAIN box[q] /\ box'[q][i] = box[q][i])
        BY <2>1, <3>2, <4>1
      <4> QED
        BY <1>4, <3>2, <4>2 DEF ProperInv
    <3> QED
      BY <1>5, <3>1, <3>2
  <2>2. ASSUME NEW s \in Agent, NEW t \in Agent, NEW i \in DOMAIN wire'[<<s, t>>]
        PROVE  LET f == wire'[<<s, t>>][i]
               IN  Proper(f.msg, f.to) /\ s # t /\ setup.at[f.msg.src] = s /\ setup.at[f.to] = t
    <3>1. CASE <<s, t>> # l
      <4>1. wire'[<<s, t>>] = wire[<<s, t>>]
        BY <1>5, <3>1
      <4> QED
        BY <2>2, <4>1 DEF ProperInv
    <3>2. CASE <<s, t>> = l
      <4>1. i \in DOMAIN Tail(wire[l]) /\ wire'[<<s, t>>] = Tail(wire[l])
        BY <1>5, <2>2, <3>2
      <4>2. i + 1 \in DOMAIN wire[l] /\ Tail(wire[l])[i] = wire[l][i + 1]
        BY <1>1, <4>1
      <4>3. s = a /\ t = b /\ wire[<<s, t>>] = wire[l]
        BY <3>2
      <4> QED
        BY <4>1, <4>2, <4>3 DEF ProperInv
    <3> QED
      BY <3>1, <3>2
  <2>3. setup' = setup /\ Agent' = Agent
    BY DEF Deliver, Agent
  <2>4. \A q \in Member : \A i \in DOMAIN box'[q] : Proper(box'[q][i], q)
    BY <2>1
  <2>5. \A s, t \in Agent : \A i \in DOMAIN wire'[<<s, t>>] :
          LET f == wire'[<<s, t>>][i]
          IN  Proper(f.msg, f.to) /\ s # t /\ setup.at[f.msg.src] = s /\ setup.at[f.to] = t
    BY <2>2
  <2> QED
    BY <2>3, <2>4, <2>5 DEF ProperInv
<1> QED
  BY <1>8, <1>9

-----------------------------------------------------------------------------
(* The invariant.                                                          *)

FlowInvs == TypeInv /\ LoopInv /\ FlowInv /\ ProperInv /\ ~setup.any

LEMMA FlowInit ==
  ASSUME Init
  PROVE  LoopInv /\ FlowInv /\ ProperInv
<1>1. LoopInv
  BY DEF Init, LoopInv
<1>2. ASSUME NEW q \in Member, NEW p \in Member \ {q}
      PROVE  Taken(q, p) <= Sent(p, q) /\ Flows(p, q)
  <2>1. Sent(p, q) = Key(p, q, 1, 0) /\ Taken(q, p) = Key(p, q, 1, 0)
    <3>1. ~(Pos(p, q) < 1)
      BY Positions, Constants
    <3> QED
      BY <3>1 DEF Init, Sent, SentAt, Taken, TakenAt
  <2> DEFINE n == Key(p, q, 1, 0)
             k == <<setup.at[p], setup.at[q]>>
  <2>2. n \in Nat
    BY DEF Key
  <2>3. box[q] = <<>> /\ wire[k] = <<>>
    BY DEF Init, Agent
  <2> HIDE DEF n, k
  <2>4. Has(InBox(<<>>, p, q), n, n) /\ Has(OnWire(<<>>, p, q), n, n)
    BY <2>2 DEF Has, InBox, OnWire
  <2>5. Stream(<<>>, <<>>, p, q, n, n)
    BY <2>2, <2>4 DEF Stream
  <2> QED
    BY <2>1, <2>2, <2>3, <2>5 DEF Flows, n, k
<1>3. FlowInv
  BY <1>2 DEF FlowInv
<1>4. ProperInv
  BY DEF Init, ProperInv
<1> QED
  BY <1>1, <1>3, <1>4

LEMMA FlowStep ==
  ASSUME FlowInvs, [Act]_groupVars
  PROVE  (LoopInv /\ FlowInv /\ ProperInv /\ ~setup.any)'
<1> USE DEF FlowInvs
<1>1. ASSUME NEW p \in Member, MemberStep(p) PROVE (LoopInv /\ FlowInv /\ ProperInv /\ ~setup.any)'
  <2>1. LoopInv'
    BY <1>1, LoopStep DEF TypeInv
  <2>2. FlowInv' /\ ProperInv' /\ setup' = setup
    <3>1. CASE \E d \in Member \ {p}, tag \in {"user", "ok", "go"} : Sends(p, d, tag)
      BY <1>1, <3>1, SendFlows DEF Sends
    <3>2. CASE \E d \in Member \ {p} : Takes(p, d)
      BY <1>1, <3>2, TakeFlows DEF Takes, Take
    <3>3. CASE Rests(p)
      BY <1>1, <3>3, RestFlows DEF Rests
    <3> QED
      BY <1>1, <3>1, <3>2, <3>3, Advances DEF TypeInv
  <2> QED
    BY <2>1, <2>2
<1>2. ASSUME NEW a \in Agent, NEW b \in Agent, Deliver(a, b)
      PROVE  (LoopInv /\ FlowInv /\ ProperInv /\ ~setup.any)'
  <2>1. LoopInv' /\ setup' = setup
    BY <1>2 DEF Deliver, LoopInv
  <2> QED
    BY <1>2, <2>1, DeliverFlows
<1>3. CASE UNCHANGED groupVars
  BY <1>3 DEF groupVars, LoopInv, FlowInv, ProperInv, Flows, Sent, Taken, Agent
<1> QED
  BY <1>1, <1>2, <1>3 DEF Act

LEMMA FlowInvariant ==
  ASSUME \A s \in Setups : ~s.any
  PROVE  Spec => [](~twice => FlowInvs)
<1> DEFINE Flow == LoopInv /\ FlowInv /\ ProperInv /\ ~setup.any
<1>1. Init => Flow
  BY FlowInit DEF Init
<1>2. TypeInv /\ (~twice => Flow) /\ [Next]_vars => (~twice => Flow)'
  <2> SUFFICES ASSUME TypeInv, ~twice => Flow, [Next]_vars, ~twice' PROVE Flow'
    OBVIOUS
  <2>1. ~twice /\ [Act]_groupVars
    BY OnceIsAct
  <2>2. FlowInvs
    BY <2>1 DEF FlowInvs
  <2> QED
    BY <2>1, <2>2, FlowStep
<1>3. TypeInv /\ Flow => FlowInvs
  BY DEF FlowInvs
<1>4. Spec => []TypeInv
  BY TypesInvariant DEF TypeInv
<1> HIDE DEF Flow
<1> QED
  BY <1>1, <1>2, <1>3, <1>4, PTL DEF Spec

-----------------------------------------------------------------------------
(* What a receive takes.                                                   *)

\* The round of a number.
LEMMA SameRound ==
  ASSUME NEW r \in Nat, NEW s \in Nat, NEW b \in {0, 1}, NEW c \in {0, 1}, 2 * r + b = 2 * s + c
  PROVE  r = s /\ b = c
OBVIOUS

LEMMA TakesTheRightOne ==
  ASSUME FlowInvs, NEW p \in Member, NEW i \in DOMAIN box[p], IsFirst(p, i)
  PROVE  box[p][i].tag = Meant(p) /\ box[p][i].round = round[p]
<1> DEFINE m == box[p][i]
           bit == IF m.tag = "user" THEN 0 ELSE 1
<1>1. m \in Message /\ Proper(m, p) /\ m.src \in From(p)
  <2>1. box[p] \in Seq(Message)
    BY DEF FlowInvs, TypeInv, MessagesOK
  <2> QED
    BY <2>1 DEF FlowInvs, ProperInv, IsFirst
<1>2. m.round \in Nat /\ m.tag \in {"user", "ok", "go"} /\ round[p] \in Nat /\ bit \in {0, 1}
      /\ x[p] \in 1..(N - 1) /\ N \in Nat
  BY <1>1, Constants DEF Message, FlowInvs, TypeInv, RoundOK, ControlOK
<1>3. ASSUME NEW d \in Member \ {p}, From(p) = {d}, pc[p] # "gone"
      PROVE  m.src = d /\ Key(d, p, m.round, bit) = Taken(p, d)
  <2>1. m.src = d /\ Number(m, p) = Taken(p, d)
    BY <1>3, TakesNext DEF FlowInvs
  <2> QED
    BY <2>1 DEF Number
<1> HIDE DEF m, bit
<1>4. CASE pc[p] = "listen"
  <2> DEFINE d == Others(p)[x[p]]
  <2>1. d \in Member \ {p} /\ From(p) = {d} /\ Pos(p, d) = x[p]
    BY <1>2, <1>4, Positions DEF From, FlowInvs
  <2> HIDE DEF d
  <2>2. Taken(p, d) = Key(d, p, round[p], 0)
    BY <1>2, <1>4, <2>1 DEF Taken, TakenAt
  <2>3. m.src = d /\ Key(d, p, m.round, bit) = Key(d, p, round[p], 0)
    BY <1>3, <1>4, <2>1, <2>2
  <2>4. bit = 0 /\ m.round = round[p]
    <3>1. CASE d = 0 \/ p = 0
      BY <1>2, <2>3, <3>1, SameRound DEF Key
    <3>2. CASE d # 0 /\ p # 0
      <4>1. bit = 0
        BY <1>1, <2>3, <3>2 DEF Proper, bit
      <4> QED
        BY <1>2, <2>3, <3>2, <4>1 DEF Key
    <3> QED
      BY <3>1, <3>2
  <2> QED
    BY <1>4, <2>4 DEF Meant, bit, m
<1>5. CASE pc[p] = "collect"
  <2>1. p = 0 /\ x[p] \in Member \ {p} /\ From(p) = {x[p]}
    BY <1>2, <1>5, Constants DEF FlowInvs, LoopInv, From
  <2>2. Taken(p, x[p]) = 2 * round[p] + 1
    BY <1>2, <1>5, <2>1 DEF Taken, TakenAt, Key
  <2>3. 2 * m.round + bit = 2 * round[p] + 1
    BY <1>3, <1>5, <2>1, <2>2 DEF Key
  <2>4. bit = 1 /\ m.round = round[p]
    BY <1>2, <2>3, SameRound
  <2>5. m.tag = "ok"
    BY <1>1, <2>1, <2>4 DEF Proper, bit
  <2> QED
    BY <1>5, <2>4, <2>5 DEF Meant, m
<1>6. CASE pc[p] = "await"
  <2>1. p # 0 /\ 0 \in Member \ {p} /\ From(p) = {0}
    BY <1>6, Constants DEF FlowInvs, LoopInv, From
  <2>2. Taken(p, 0) = 2 * round[p] + 1
    BY <1>6 DEF Taken, TakenAt, Key
  <2>3. 2 * m.round + bit = 2 * round[p] + 1
    BY <1>3, <1>6, <2>1, <2>2 DEF Key
  <2>4. bit = 1 /\ m.round = round[p]
    BY <1>2, <2>3, SameRound
  <2>5. m.tag = "go"
    BY <1>1, <2>1, <2>4 DEF Proper, bit
  <2> QED
    BY <1>6, <2>4, <2>5 DEF Meant, m
<1> QED
  BY <1>1, <1>4, <1>5, <1>6 DEF From

\* A program that receives by index never takes a message for another, as long as no
\* message was sent twice: those of the program and of the barriers of all rounds share
\* the mailboxes and are not mixed up, in a group of any size over any agents.
THEOREM ReceivesTheRight ==
  ASSUME \A s \in Setups : ~s.any
  PROVE  Spec => []TakesTheRight
<1>1. (~twice => FlowInvs) => TakesTheRight
  BY TakesTheRightOne DEF TakesTheRight
<1> QED
  BY <1>1, FlowInvariant, PTL

-----------------------------------------------------------------------------
(* The barrier.                                                            *)

\* Who has sent index 0 all of a round has arrived in its barrier.
LEMMA SentArrived ==
  ASSUME FlowInvs, NEW q \in Member \ {0}, NEW r \in Nat, Sent(q, 0) >= 2 * r + 2
  PROVE  arrived[q] >= r
<1>1. /\ round[q] \in Nat /\ pc[q] \in Place /\ pc[q] \notin {"collect", "release"}
      /\ arrived[q] = IF pc[q] \in InBarrier THEN round[q] ELSE round[q] - 1
  BY DEF FlowInvs, TypeInv, ControlOK, RoundOK, LoopInv, arrived
<1>2. CASE pc[q] = "await"
  <2>1. Sent(q, 0) = 2 * (round[q] + 1)
    BY <1>1, <1>2 DEF Sent, SentAt, Key
  <2> QED
    BY <1>1, <1>2, <2>1 DEF InBarrier
<1>3. CASE pc[q] # "await"
  <2>1. Sent(q, 0) = 2 * round[q] \/ Sent(q, 0) = 2 * round[q] + 1
    BY <1>1, <1>3 DEF Sent, SentAt, Key
  <2>2. round[q] >= r + 1
    BY <1>1, <2>1
  <2> QED
    BY <1>1, <2>2
<1> QED
  BY <1>2, <1>3

\* All have arrived in the barrier that index 0 has collected for.
LEMMA CollectedArrived ==
  ASSUME FlowInvs, NEW r \in Nat, \A q \in Member \ {0} : Taken(0, q) >= 2 * r + 2
  PROVE  \A q \in Member \ {0} : arrived[q] >= r
<1> SUFFICES ASSUME NEW q \in Member \ {0} PROVE arrived[q] >= r
  OBVIOUS
<1>1. Taken(0, q) <= Sent(q, 0) /\ Taken(0, q) >= 2 * r + 2
  BY Constants DEF FlowInvs, FlowInv
<1>2. Taken(0, q) \in Nat /\ Sent(q, 0) \in Nat
  BY Constants, SentNumber DEF FlowInvs, TypeInv
<1>3. Sent(q, 0) >= 2 * r + 2
  BY <1>1, <1>2
<1> QED
  BY <1>3, SentArrived

\* Who is let go finds all the others arrived.
LEMMA ReleasedArrived ==
  ASSUME FlowInvs, NEW p \in Member, Release(p)
  PROVE  \A q \in Member : arrived[q] >= round[p]
<1>1. p = 0 /\ pc[0] = "release" /\ round[0] \in Nat /\ arrived[0] = round[0]
  BY DEF Release, FlowInvs, TypeInv, RoundOK, LoopInv, arrived, InBarrier
<1>2. \A q \in Member \ {0} : Taken(0, q) >= 2 * round[0] + 2
  BY <1>1 DEF Taken, TakenAt, Key
<1> QED
  BY <1>1, <1>2, CollectedArrived

LEMMA AwaitedArrived ==
  ASSUME FlowInvs, NEW p \in Member, Await(p)
  PROVE  \A q \in Member : arrived[q] >= round[p]
<1>1. pc[p] = "await" /\ p # 0 /\ 0 \in Member \ {p} /\ From(p) = {0} /\ round[p] \in Nat
  BY Constants DEF Await, FlowInvs, TypeInv, RoundOK, LoopInv, From
<1>2. PICK i \in DOMAIN box[p] : IsFirst(p, i)
  BY DEF Await, Take
<1>3. Taken(p, 0) < Sent(0, p)
  BY <1>1, <1>2, TakesNext DEF FlowInvs
<1>4. Taken(p, 0) = 2 * round[p] + 1 /\ Sent(0, p) \in Nat
  <2>1. Taken(p, 0) = 2 * round[p] + 1
    BY <1>1 DEF Taken, TakenAt, Key
  <2> QED
    BY <1>1, <2>1, SentNumber DEF FlowInvs, TypeInv
<1>5. /\ round[0] \in Nat /\ pc[0] \in Place /\ pc[0] \notin {"report", "await"}
      /\ arrived[0] = IF pc[0] \in InBarrier THEN round[0] ELSE round[0] - 1
  BY <1>1 DEF FlowInvs, TypeInv, ControlOK, RoundOK, LoopInv, arrived
<1>6. CASE pc[0] = "release"
  <2>1. Sent(0, p) <= 2 * round[0] + 2
    BY <1>5, <1>6 DEF Sent, SentAt, Key
  <2>2. round[0] >= round[p]
    BY <1>1, <1>3, <1>4, <1>5, <2>1
  <2>3. \A q \in Member \ {0} : Taken(0, q) >= 2 * round[p] + 2
    BY <1>1, <1>5, <1>6, <2>2 DEF Taken, TakenAt, Key
  <2> QED
    BY <1>1, <1>5, <1>6, <2>2, <2>3, CollectedArrived DEF InBarrier
<1>7. CASE pc[0] # "release"
  <2>1. Sent(0, p) <= 2 * round[0] + 1
    BY <1>5, <1>7 DEF Sent, SentAt, Key
  <2>2. round[0] >= round[p] + 1
    BY <1>1, <1>3, <1>4, <1>5, <2>1
  <2>3. \A q \in Member \ {0} : Taken(0, q) >= 2 * round[0]
    BY <1>5, <1>7 DEF Taken, TakenAt, Key
  <2>4. \A q \in Member \ {0} : Taken(0, q) >= 2 * round[p] + 2
    <3> SUFFICES ASSUME NEW q \in Member \ {0} PROVE Taken(0, q) >= 2 * round[p] + 2
      OBVIOUS
    <3>1. Taken(0, q) \in Nat /\ Taken(0, q) >= 2 * round[0]
      BY <1>1, <2>3, SentNumber DEF FlowInvs, TypeInv
    <3> QED
      BY <1>1, <1>5, <2>2, <3>1
  <2> QED
    BY <1>1, <1>5, <2>2, <2>4, CollectedArrived
<1> QED
  BY <1>6, <1>7

\* How a step changes where a member is with the barrier.
LEMMA BarrierMoves ==
  ASSUME FlowInvs, NEW p \in Member, MemberStep(p)
  PROVE  \/ round'[p] = round[p] /\ (pc[p] \in InBarrier => pc'[p] \in InBarrier)
         \/ /\ round'[p] = round[p] + 1 /\ pc[p] \in InBarrier /\ pc'[p] \notin InBarrier
            /\ Release(p) \/ Await(p)
<1>1. ControlOK /\ round \in [Member -> 1..(Rounds + 1)] /\ round[p] \in Nat
  BY DEF FlowInvs, TypeInv, RoundOK
<1>2. CASE Collect(p)
  <2>1. pc[p] = "collect" /\ Pass(p, N - 1, "release") /\ "release" \in Place /\ round' = round
    BY <1>2 DEF Collect, Collected, Place, Working
  <2>2. pc'[p] \in {"collect", "release"}
    BY <1>1, <2>1, PassStep DEF ControlOK
  <2> QED
    BY <2>1, <2>2 DEF InBarrier
<1>3. CASE Release(p)
  <2> DEFINE after == AfterBarrier(round[p])
  <2>1. /\ pc[p] = "release" /\ Pass(p, N - 1, after) /\ after \in {"talk", "over"} /\ after \in Place
        /\ round' = IF x[p] < N - 1 THEN round ELSE [round EXCEPT ![p] = round[p] + 1]
    BY <1>3 DEF Release, Released, AfterBarrier, Place, Working
  <2> HIDE DEF after
  <2>2. \/ x[p] < N - 1 /\ pc' = pc
        \/ x[p] = N - 1 /\ pc' = [pc EXCEPT ![p] = after]
    BY <1>1, <2>1, PassStep
  <2>3. N \in Nat /\ x[p] \in Nat
    BY <1>1, Constants DEF ControlOK
  <2>4. CASE x[p] < N - 1
    BY <2>1, <2>2, <2>3, <2>4
  <2>5. CASE x[p] = N - 1
    <3>1. pc'[p] = after /\ round'[p] = round[p] + 1
      BY <1>1, <2>1, <2>2, <2>3, <2>5 DEF ControlOK
    <3> QED
      BY <1>3, <2>1, <3>1 DEF InBarrier
  <2> QED
    BY <2>2, <2>4, <2>5
<1>4. CASE Report(p)
  BY <1>1, <1>4 DEF Report, ControlOK, InBarrier
<1>5. CASE Await(p)
  BY <1>1, <1>5 DEF Await, ControlOK, InBarrier, AfterBarrier
<1>6. CASE Talk(p) \/ Listen(p) \/ Finish(p) \/ WaitGroup(p) \/ End(p)
  BY <1>6 DEF Talk, Listen, Finish, WaitGroup, End, InBarrier
<1> QED
  BY <1>2, <1>3, <1>4, <1>5, <1>6 DEF MemberStep

\* A step of a member is one of the barrier or leaves it alone.
LEMMA MemberBarrier ==
  ASSUME FlowInvs, NEW p \in Member, MemberStep(p)
  PROVE  [B!Move]_<<arrived, left>>
<1>1. /\ pc \in [Member -> Place] /\ round \in [Member -> 1..(Rounds + 1)] /\ round[p] \in Nat
      /\ DOMAIN arrived = Member /\ DOMAIN left = Member
  BY DEF FlowInvs, TypeInv, ControlOK, RoundOK, arrived, left
<1>2. \A q \in Member \ {p} : pc'[q] = pc[q] /\ round'[q] = round[q]
  <2>1. PICK at \in Place : pc' = [pc EXCEPT ![p] = at]
    BY Moves DEF FlowInvs, TypeInv
  <2>2. round' = round \/ round' = [round EXCEPT ![p] = round[p] + 1]
    BY RoundMoves DEF FlowInvs, TypeInv
  <2> QED
    BY <1>1, <2>1, <2>2
<1>3. CASE round'[p] = round[p] /\ (pc[p] \in InBarrier <=> pc'[p] \in InBarrier)
  <2>1. arrived' = arrived /\ left' = left
    BY <1>2, <1>3 DEF arrived, left
  <2> QED
    BY <2>1
<1>4. CASE round'[p] = round[p] /\ pc[p] \notin InBarrier /\ pc'[p] \in InBarrier
  <2>1. left' = left
    BY <1>2, <1>4 DEF left
  <2>2. arrived[p] = left[p]
    BY <1>4 DEF arrived, left
  <2>3. arrived' = [arrived EXCEPT ![p] = arrived[p] + 1]
    <3>1. arrived[p] + 1 = round[p]
      BY <1>1, <1>4 DEF arrived
    <3> QED
      BY <1>2, <1>4, <3>1 DEF arrived
  <2> QED
    BY <2>1, <2>2, <2>3 DEF B!Move, B!Arrive
<1>5. CASE /\ round'[p] = round[p] + 1 /\ pc[p] \in InBarrier /\ pc'[p] \notin InBarrier
           /\ Release(p) \/ Await(p)
  <2>1. arrived[p] = round[p] /\ left[p] = round[p] - 1
    BY <1>5 DEF arrived, left
  <2>2. arrived' = arrived
    <3>1. round'[p] - 1 = round[p]
      BY <1>1, <1>5
    <3> QED
      BY <1>2, <1>5, <3>1 DEF arrived
  <2>3. left' = [left EXCEPT ![p] = left[p] + 1]
    <3>1. round'[p] - 1 = left[p] + 1
      BY <1>1, <1>5, <2>1
    <3> QED
      BY <1>2, <3>1 DEF left
  <2>4. \A q \in Member : arrived[q] >= arrived[p]
    BY <1>5, <2>1, ReleasedArrived, AwaitedArrived
  <2>5. left[p] < arrived[p]
    BY <1>1, <2>1
  <2> QED
    BY <2>2, <2>3, <2>4, <2>5 DEF B!Move, B!Leave
<1> QED
  BY <1>3, <1>4, <1>5, BarrierMoves

\* The safety part of IsBarrier.
BarrierSafe == B!Init /\ [][B!Next]_B!Vars

\* barrier_group keeps its promise until a message is sent twice: no member leaves a
\* barrier before all the others of the group have entered it, in a group of any size
\* over any agents, for any number of barriers, when the program between them receives
\* by index.
THEOREM BarrierIsSafe ==
  ASSUME \A s \in Setups : ~s.any
  PROVE  Spec => BarrierSafe
<1>1. Init => B!Init
  BY DEF Init, B!Init, arrived, left, InBarrier
<1>2. (~twice => FlowInvs) /\ [Next]_vars => [B!Next]_B!Vars
  <2> SUFFICES ASSUME ~twice => FlowInvs, [Next]_vars PROVE [B!Next]_B!Vars
    OBVIOUS
  <2>1. ASSUME UNCHANGED <<pc, round>> PROVE UNCHANGED <<arrived, left>>
    BY <2>1 DEF arrived, left
  <2>2. CASE UNCHANGED vars
    BY <2>1, <2>2 DEF vars, groupVars, B!Vars
  <2>3. CASE ~twice /\ \E a, b \in Agent : Double(a, b)
    BY <2>1, <2>3 DEF Double, B!Next, B!Break
  <2>4. CASE ~twice /\ UNCHANGED twice /\ \E a, b \in Agent : Deliver(a, b)
    BY <2>1, <2>4 DEF Deliver, B!Vars
  <2>5. CASE ~twice /\ UNCHANGED twice /\ \E p \in Member : MemberStep(p)
    <3>1. [B!Move]_<<arrived, left>>
      BY <2>5, MemberBarrier
    <3> QED
      BY <2>5, <3>1 DEF B!Next, B!Vars
  <2> QED
    BY <2>2, <2>3, <2>4, <2>5 DEF Next, Act
<1> QED
  BY <1>1, <1>2, FlowInvariant, PTL DEF Spec, BarrierSafe

=============================================================================
