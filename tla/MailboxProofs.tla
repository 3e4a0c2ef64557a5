----------------------------- MODULE MailboxProofs -----------------------------
(***************************************************************************)
(* Proofs about Mailbox, for any processes, queries and number of sends.   *)
(***************************************************************************)
EXTENDS Mailbox, FiniteSetTheorems, WellFoundedInduction, TLAPS

\* What is in a box, and where a sender's thread has what it found under the lock.
\* (The list of a broadcast needs no type: each of its processes is looked up.)
Message == [src : Proc, n : Nat]
Place == {"idle", "push", "notify", "react", "reactrecv", "next", "recv", "recvblocked",
          "wait", "waitblocked", "aborted"}

BoxesOK ==
  /\ onmap \subseteq Proc
  /\ queue \in [Proc -> Seq(Message)]
  /\ sent \in [Proc -> [Proc -> Nat]]

\* A sender between its lookup and its notification has a process in hand.
SendersOK ==
  /\ pc \in [Proc -> Place]
  /\ target \in [Proc -> Proc \cup {NoProc}]
  /\ \A p \in Proc : pc[p] \in {"push", "notify"} => target[p] \in Proc

BoxInv == BoxesOK /\ SendersOK

LEMMA Constants == Receiver \in Proc
BY ConstantsAssumption DEF ConstantsAssumption

\* A set of numbers that is not empty has a least one.
LEMMA Least ==
  ASSUME NEW S \in SUBSET Nat, S # {}
  PROVE  \E i \in S : \A j \in S : i <= j
<1> DEFINE R == OpToRel(<, Nat)
<1>1. PICK i \in S : \A j \in S : ~(<<j, i>> \in R)
  <2>1. IsWellFoundedOn(R, Nat)
    BY NatLessThanWellFounded
  <2> HIDE DEF R
  <2> QED
    BY <2>1, WFMin
<1>2. ASSUME NEW j \in S PROVE i <= j
  <2> DEFINE e == <<j, i>>
  <2>1. i \in Nat /\ j \in Nat /\ e \notin R
    BY <1>1
  <2>2. e \in Nat \X Nat /\ e[1] = j /\ e[2] = i
    BY <2>1
  <2>3. ~(e[1] < e[2])
    <3> HIDE DEF e
    <3> QED
      BY <2>1, <2>2 DEF OpToRel
  <2>4. i \in Nat /\ j \in Nat /\ ~(j < i)
    BY <2>1, <2>2, <2>3, Zenon
  <2> HIDE DEF R, e
  <2> QED
    BY <2>4
<1> QED
  BY <1>2

\* recv_msg and wait_msg, when something matches, find a message of the box.
LEMMA FirstMatches ==
  ASSUME BoxesOK, Matching # {}
  PROVE  FirstMatch \in DOMAIN Box /\ Box[FirstMatch] \in Message
<1>1. Box \in Seq(Message) /\ DOMAIN Box = 1..Len(Box) /\ Len(Box) \in Nat
  BY Constants DEF BoxesOK, Box
<1>2. Matching \in SUBSET Nat /\ Matching \subseteq DOMAIN Box
  BY <1>1 DEF Matching
<1>3. FirstMatch \in Matching
  <2>1. \E i \in Matching : \A j \in Matching : i <= j
    BY <1>2, Least
  <2> HIDE DEF Matching
  <2> QED
    BY <2>1 DEF FirstMatch
<1> QED
  BY <1>1, <1>2, <1>3

\* What recv_msg leaves is a box again.
LEMMA Removed ==
  ASSUME NEW s \in Seq(Message), NEW i \in DOMAIN s
  PROVE  RemoveAt(s, i) \in Seq(Message)
<1>1. SubSeq(s, 1, i - 1) \in Seq(Message) /\ SubSeq(s, i + 1, Len(s)) \in Seq(Message)
  OBVIOUS
<1> QED
  BY <1>1 DEF RemoveAt

\* The lookup of a send: a process on the map, or nothing in hand.
LEMMA FindKeeps ==
  ASSUME BoxInv, NEW p \in Proc, NEW q, FindDest(p, q)
  PROVE  sent' \in [Proc -> [Proc -> Nat]] /\ SendersOK'
<1>1. sent' \in [Proc -> [Proc -> Nat]]
  <2>1. sent' = [sent EXCEPT ![p] = [sent[p] EXCEPT ![q] = sent[p][q] + 1]]
    BY DEF FindDest
  <2> DEFINE f == sent[p]
  <2>2. f \in [Proc -> Nat]
    BY DEF BoxInv, BoxesOK
  <2>3. [f EXCEPT ![q] = f[q] + 1] \in [Proc -> Nat]
    <3> HIDE DEF f
    <3>1. CASE q \in Proc
      BY <2>2, <3>1
    <3>2. CASE q \notin Proc
      BY <2>2, <3>2
    <3> QED
      BY <3>1, <3>2
  <2> QED
    BY <2>1, <2>3 DEF BoxInv, BoxesOK
<1>2. CASE q \in onmap
  <2>1. /\ pc' = [pc EXCEPT ![p] = "push"] /\ target' = [target EXCEPT ![p] = q]
        /\ q \in Proc /\ "push" \in Place
    BY <1>2 DEF BoxInv, BoxesOK, FindDest, Place
  <2> QED
    BY <1>1, <2>1 DEF BoxInv, SendersOK
<1>3. CASE q \notin onmap
  <2>1. pc' = [pc EXCEPT ![p] = "next"] /\ target' = target /\ "next" \in Place
    BY <1>3 DEF FindDest, Place
  <2> QED
    BY <1>1, <2>1 DEF BoxInv, SendersOK
<1> QED
  BY <1>1, <1>2, <1>3

\* A step of the receiver's thread: it is never a sender.
LEMMA ReceiverMoves ==
  ASSUME SendersOK, NEW at \in Place \ {"push", "notify"}, pc' = [pc EXCEPT ![Receiver] = at],
         UNCHANGED target
  PROVE  SendersOK'
BY Constants DEF SendersOK

\* The receiver's calls: only recv_msg takes from the box.
LEMMA ReceiverStep ==
  ASSUME BoxInv, StartRecv \/ Receive \/ TimeOut \/ \E t : StartWait(t)
  PROVE  BoxInv'
<1>1. CASE StartRecv \/ TimeOut \/ \E t : StartWait(t)
  <2>1. \E at \in {"recv", "wait"} : pc' = [pc EXCEPT ![Receiver] = at]
    BY <1>1 DEF StartRecv, TimeOut, StartWait
  <2>2. UNCHANGED <<onmap, queue, target, sent>>
    BY <1>1 DEF StartRecv, TimeOut, StartWait, sendVars
  <2> QED
    BY <2>1, <2>2, ReceiverMoves DEF BoxInv, BoxesOK, Place
<1>2. CASE WaitMsg
  <2>1. \E at \in {"idle", "waitblocked", "aborted"} : pc' = [pc EXCEPT ![Receiver] = at]
    BY <1>2 DEF WaitMsg, Abort
  <2>2. UNCHANGED <<onmap, queue, target, sent>>
    BY <1>2 DEF WaitMsg, sendVars
  <2> QED
    BY <2>1, <2>2, ReceiverMoves DEF BoxInv, BoxesOK, Place
<1>3. CASE RecvMsg
  <2>1. UNCHANGED <<onmap, target, sent>>
    BY <1>3 DEF RecvMsg, sendVars
  <2>2. CASE Matching # {} /\ queue' = [queue EXCEPT ![Receiver] = RemoveAt(Box, FirstMatch)]
             /\ pc' = [pc EXCEPT ![Receiver] = "idle"]
    <3>1. RemoveAt(Box, FirstMatch) \in Seq(Message)
      BY <2>2, FirstMatches, Removed, Constants DEF BoxInv, BoxesOK, Box
    <3>2. BoxesOK'
      BY <2>1, <2>2, <3>1 DEF BoxInv, BoxesOK
    <3>3. SendersOK'
      BY <2>1, <2>2, ReceiverMoves DEF BoxInv, Place
    <3> QED
      BY <3>2, <3>3 DEF BoxInv
  <2>3. CASE UNCHANGED queue /\ \E at \in {"recvblocked", "aborted"} : pc' = [pc EXCEPT ![Receiver] = at]
    BY <2>1, <2>3, ReceiverMoves DEF BoxInv, BoxesOK, Place
  <2> QED
    BY <1>3, <2>2, <2>3 DEF RecvMsg, Abort, Box
<1> QED
  BY <1>1, <1>2, <1>3 DEF Receive

\* What a reactor takes is the first of the box.
LEMMA FirstOfBox ==
  ASSUME BoxesOK, Box # <<>>
  PROVE  1 \in DOMAIN Box /\ Box[1] \in Message /\ Box \in Seq(Message) /\ Len(Box) \in Nat
<1>1. Box \in Seq(Message)
  BY Constants DEF BoxesOK, Box
<1> QED
  BY <1>1

\* A sender's calls.
LEMMA SenderStep ==
  ASSUME BoxInv, NEW p \in Proc, Bcast(p) \/ Deliver(p) \/ SendMsg(p, Receiver)
  PROVE  BoxInv'
<1>1. CASE Bcast(p)
  <2>1. pc' = [pc EXCEPT ![p] = "next"] /\ UNCHANGED <<onmap, queue, target, sent>>
    BY <1>1 DEF Bcast, recvVars
  <2> QED
    BY <2>1 DEF BoxInv, BoxesOK, SendersOK, Place
<1>2. CASE SendMsg(p, Receiver)
  BY <1>2, FindKeeps DEF SendMsg, recvVars, BoxInv, BoxesOK
<1>3. CASE NextTarget(p)
  <2>1. UNCHANGED <<onmap, queue>>
    BY <1>3 DEF NextTarget, recvVars
  <2>2. CASE rest[p] = <<>>
    BY <1>3, <2>1, <2>2 DEF NextTarget, BoxInv, BoxesOK, SendersOK, Place
  <2>3. CASE rest[p] # <<>>
    <3>1. FindDest(p, Head(rest[p]))
      BY <1>3, <2>3 DEF NextTarget
    <3> QED
      BY <2>1, <3>1, FindKeeps DEF BoxInv, BoxesOK
  <2> QED
    BY <2>2, <2>3
<1>4. CASE Push(p)
  <2> DEFINE q == target[p]
             m == [src |-> p, n |-> sent[p][q]]
  <2>1. q \in Proc
    BY <1>4 DEF Push, BoxInv, SendersOK
  <2>2. m \in Message
    BY <2>1 DEF BoxInv, BoxesOK, Message
  <2>3. /\ queue' = [queue EXCEPT ![q] = Append(queue[q], m)]
        /\ pc' = [pc EXCEPT ![p] = "notify"] /\ UNCHANGED <<onmap, target, sent>>
    BY <1>4 DEF Push, sendVars, recvVars
  <2>4. BoxesOK'
    <3>1. Append(queue[q], m) \in Seq(Message)
      BY <2>1, <2>2 DEF BoxInv, BoxesOK
    <3> QED
      BY <2>3, <3>1 DEF BoxInv, BoxesOK
  <2>5. SendersOK'
    BY <2>1, <2>3 DEF BoxInv, SendersOK, Place
  <2> QED
    BY <2>1, <2>2, <2>3, <2>4, <2>5 DEF BoxInv
<1>5. CASE Notify(p)
  <2> DEFINE q == target[p]
  <2>1. q \in Proc /\ pc[q] \in Place
    BY <1>5 DEF Notify, BoxInv, SendersOK
  <2>2. Woken(pc[q]) \in Place /\ (Woken(pc[q]) \in {"push", "notify"} => Woken(pc[q]) = pc[q])
    BY <2>1 DEF Woken, Place
  <2>3. \E at \in {"react", "next"} :
          pc' = [pc EXCEPT ![q] = Woken(pc[q]), ![p] = at]
    BY <1>5 DEF Notify
  <2>4. UNCHANGED <<onmap, queue, target, sent>>
    BY <1>5 DEF Notify, sendVars
  <2>5. SendersOK'
    <3>1. PICK at \in {"react", "next"} : pc' = [pc EXCEPT ![q] = Woken(pc[q]), ![p] = at]
      BY <2>3
    <3> HIDE DEF q
    <3>2. at \in Place \ {"push", "notify"}
      BY DEF Place
    <3>3. pc' \in [Proc -> Place]
      BY <2>1, <2>2, <3>1, <3>2 DEF BoxInv, SendersOK
    <3>4. \A c \in Proc : pc'[c] \in {"push", "notify"} => pc[c] = pc'[c]
      BY <2>1, <2>2, <3>1, <3>2 DEF BoxInv, SendersOK
    <3> QED
      BY <2>4, <3>3, <3>4 DEF BoxInv, SendersOK
  <2> QED
    BY <2>4, <2>5 DEF BoxInv, BoxesOK
<1>6. CASE React(p)
  <2>1. \E at \in {"next", "reactrecv"} : pc' = [pc EXCEPT ![p] = at]
    BY <1>6 DEF React
  <2>2. UNCHANGED <<onmap, queue, target, sent>>
    BY <1>6 DEF React, sendVars
  <2> QED
    BY <2>1, <2>2 DEF BoxInv, BoxesOK, SendersOK, Place
<1>7. CASE ReactRecv(p)
  <2>1. /\ Box # <<>> /\ queue' = [queue EXCEPT ![Receiver] = RemoveAt(Box, 1)]
        /\ pc' = [pc EXCEPT ![p] = "next"] /\ UNCHANGED <<onmap, target, sent>>
    BY <1>7 DEF ReactRecv, sendVars, Box
  <2>2. RemoveAt(Box, 1) \in Seq(Message)
    BY <2>1, FirstOfBox, Removed DEF BoxInv
  <2>3. BoxesOK'
    BY <2>1, <2>2, Constants DEF BoxInv, BoxesOK
  <2>4. SendersOK'
    BY <2>1 DEF BoxInv, SendersOK, Place
  <2> QED
    BY <2>3, <2>4 DEF BoxInv
<1> QED
  BY <1>1, <1>2, <1>3, <1>4, <1>5, <1>6, <1>7 DEF Deliver

\* The calls that build a query touch no mailbox, the end of the context takes it off
\* the map.
LEMMA OtherStep ==
  ASSUME BoxInv, Build \/ UnregContext \/ UNCHANGED vars
  PROVE  BoxInv'
<1>1. CASE UnregContext
  BY <1>1 DEF UnregContext, sendVars, recvVars, BoxInv, BoxesOK, SendersOK
<1>2. CASE Build
  <2>1. UNCHANGED <<onmap, queue, pc, sendVars, recvVars>>
    BY <1>2, Zenon DEF Build, MatchAny, MatchOne, MatchGroup, OpNot, Operate, Simple, SendSame
  <2> QED
    BY <2>1 DEF sendVars, recvVars, BoxInv, BoxesOK, SendersOK
<1>3. CASE UNCHANGED vars
  BY <1>3 DEF vars, sendVars, recvVars, BoxInv, BoxesOK, SendersOK
<1> QED
  BY <1>1, <1>2, <1>3

LEMMA BoxInvariant == Spec => []BoxInv
<1>1. Init => BoxInv
  BY DEF Init, BoxInv, BoxesOK, SendersOK, Place
<1>2. BoxInv /\ [Next]_vars => BoxInv'
  BY ReceiverStep, SenderStep, OtherStep DEF Next
<1> QED
  BY <1>1, <1>2, PTL DEF Spec

-----------------------------------------------------------------------------
(* A context with a reactor.                                               *)

\* Those that have pushed a message of the receiver and may still receive one for it.
Calling == {p \in Proc : pc[p] \in {"notify", "react", "reactrecv"} /\ target[p] = Receiver}

\* While only reactors receive, each of them has a message to find.
ReactInv ==
  /\ \A p \in Proc : pc[p] = "reactrecv" => target[p] = Receiver
  /\ ~own => Cardinality(Calling) <= Len(Box)

LEMMA CallingFinite == IsFiniteSet(Calling) /\ Cardinality(Calling) \in Nat
BY FS_Subset, FS_CardinalityType, ConstantsAssumption DEF ConstantsAssumption, Calling

LEMMA RemovedLength ==
  ASSUME NEW s \in Seq(Message), NEW i \in DOMAIN s
  PROVE  Len(RemoveAt(s, i)) = Len(s) - 1
<1> DEFINE A == SubSeq(s, 1, i - 1)
           B == SubSeq(s, i + 1, Len(s))
<1>1. A \in Seq(Message) /\ B \in Seq(Message) /\ Len(A) = i - 1 /\ Len(B) = Len(s) - i
  OBVIOUS
<1>2. RemoveAt(s, i) = A \o B
  BY DEF RemoveAt
<1>3. Len(s) \in Nat /\ i \in 1..Len(s)
  OBVIOUS
<1> HIDE DEF A, B
<1> QED
  BY <1>1, <1>2, <1>3

\* Nobody comes to be called, and the box does not shrink.
LEMMA ReactKept ==
  ASSUME BoxInv, ReactInv, UNCHANGED Box, Calling' \subseteq Calling, own \/ own' = own,
         own => own', \A p \in Proc : pc'[p] = "reactrecv" => target'[p] = Receiver
  PROVE  ReactInv'
<1>1. Cardinality(Calling') <= Cardinality(Calling) /\ Cardinality(Calling') \in Nat
  BY CallingFinite, FS_Subset, FS_CardinalityType
<1>2. Len(Box) \in Nat
  BY Constants DEF Box, BoxInv, BoxesOK
<1> QED
  BY <1>1, <1>2, CallingFinite DEF ReactInv

\* The receiver's own thread is never one of them.
LEMMA ReactOther ==
  ASSUME BoxInv, ReactInv,
         \/ Build \/ UnregContext \/ StartRecv \/ TimeOut \/ WaitMsg \/ RecvMsg \/ UNCHANGED vars
         \/ \E t \in {"none", "timed", "poll"} : StartWait(t)
  PROVE  ReactInv'
<1>1. /\ UNCHANGED target /\ (own' = TRUE \/ UNCHANGED <<queue, own>>)
      /\ \/ pc' = pc
         \/ /\ pc[Receiver] \in {"idle", "recv", "wait", "waitblocked"}
            /\ \E at \in {"idle", "recv", "wait", "recvblocked", "waitblocked", "aborted"} :
                 pc' = [pc EXCEPT ![Receiver] = at]
  <2>1. CASE Build
    BY <2>1, Zenon DEF Build, MatchAny, MatchOne, MatchGroup, OpNot, Operate, Simple, SendSame, sendVars,
       recvVars
  <2>2. CASE UnregContext \/ UNCHANGED vars
    BY <2>2 DEF UnregContext, vars, sendVars, recvVars
  <2>3. CASE StartRecv \/ TimeOut \/ WaitMsg
    BY <2>3 DEF StartRecv, TimeOut, WaitMsg, Abort, sendVars, recvVars
  <2>4. CASE RecvMsg
    BY <2>4 DEF RecvMsg, Abort, sendVars
  <2>5. CASE \E t \in {"none", "timed", "poll"} : StartWait(t)
    BY <2>5 DEF StartWait, sendVars
  <2> QED
    BY <2>1, <2>2, <2>3, <2>4, <2>5
<1>2. \A p \in Proc : pc'[p] = pc[p] \/ pc'[p] \notin {"notify", "react", "reactrecv"}
  BY <1>1 DEF BoxInv, SendersOK
<1>3. Calling' \subseteq Calling /\ \A p \in Proc : pc'[p] = "reactrecv" => target'[p] = Receiver
  BY <1>1, <1>2 DEF Calling, ReactInv
<1>4. CASE own' = TRUE
  BY <1>3, <1>4 DEF ReactInv
<1>5. CASE UNCHANGED <<queue, own>>
  BY <1>3, <1>5, ReactKept DEF Box
<1> QED
  BY <1>1, <1>4, <1>5

LEMMA ReactSender ==
  ASSUME BoxInv, ReactInv, NEW p \in Proc, Bcast(p) \/ Deliver(p) \/ SendMsg(p, Receiver)
  PROVE  ReactInv'
<1>0. own' = own
  BY DEF Bcast, Deliver, SendMsg, NextTarget, Push, Notify, React, ReactRecv, recvVars
<1>1. ASSUME UNCHANGED Box, \A s \in Proc \ {p} : target'[s] = target[s] /\
               (pc'[s] = pc[s] \/ pc'[s] \notin {"notify", "react", "reactrecv"}),
             \/ pc'[p] \notin {"notify", "react", "reactrecv"}
             \/ target'[p] = Receiver /\ p \in Calling
             \/ target'[p] # Receiver /\ pc'[p] # "reactrecv"
      PROVE  ReactInv'
  <2>1. Calling' \subseteq Calling
    BY <1>1 DEF Calling
  <2>2. \A s \in Proc : pc'[s] = "reactrecv" => target'[s] = Receiver
    BY <1>1 DEF ReactInv
  <2> QED
    BY <1>0, <1>1, <2>1, <2>2, ReactKept
<1>2. ASSUME NEW q, FindDest(p, q), UNCHANGED queue PROVE ReactInv'
  <2>1. /\ pc'[p] \in {"push", "next"}
        /\ \A s \in Proc \ {p} : pc'[s] = pc[s] /\ target'[s] = target[s]
    BY <1>2 DEF FindDest, BoxInv, SendersOK
  <2> QED
    BY <1>1, <1>2, <2>1 DEF Box
<1>3. CASE Bcast(p)
  <2>1. /\ pc' = [pc EXCEPT ![p] = "next"] /\ UNCHANGED <<queue, target>>
    BY <1>3 DEF Bcast
  <2> QED
    BY <1>1, <2>1 DEF Box, BoxInv, SendersOK
<1>4. CASE SendMsg(p, Receiver)
  BY <1>2, <1>4 DEF SendMsg
<1>5. CASE NextTarget(p)
  <2>1. CASE rest[p] = <<>>
    <3>1. pc' = [pc EXCEPT ![p] = "idle"] /\ UNCHANGED <<queue, target>>
      BY <1>5, <2>1 DEF NextTarget
    <3> QED
      BY <1>1, <3>1 DEF Box, BoxInv, SendersOK
  <2>2. CASE rest[p] # <<>>
    BY <1>2, <1>5, <2>2 DEF NextTarget
  <2> QED
    BY <2>1, <2>2
<1>6. CASE Push(p)
  <2> DEFINE q == target[p]
             m == [src |-> p, n |-> sent[p][q]]
  <2>1. /\ pc[p] = "push" /\ q \in Proc /\ m \in Message
        /\ queue' = [queue EXCEPT ![q] = Append(queue[q], m)]
        /\ pc' = [pc EXCEPT ![p] = "notify"] /\ UNCHANGED target
    BY <1>6 DEF Push, sendVars, BoxInv, BoxesOK, SendersOK, Message
  <2>2. pc'[p] = "notify" /\ \A s \in Proc \ {p} : pc'[s] = pc[s]
    BY <2>1 DEF BoxInv, SendersOK
  <2>3. CASE q # Receiver
    <3>1. UNCHANGED Box
      BY <2>1, <2>3 DEF Box
    <3> QED
      BY <1>1, <2>1, <2>2, <2>3, <3>1
  <2>4. CASE q = Receiver
    <3>1. Calling' = Calling \cup {p} /\ p \notin Calling
      BY <2>1, <2>2, <2>4 DEF Calling
    <3>2. Cardinality(Calling') = Cardinality(Calling) + 1
      BY <3>1, CallingFinite, FS_AddElement
    <3>3. Box \in Seq(Message) /\ Box' = Append(Box, m)
      BY <2>1, <2>4 DEF Box, BoxInv, BoxesOK
    <3>4. Len(Box') = Len(Box) + 1 /\ Len(Box) \in Nat
      BY <2>1, <3>3
    <3>5. \A s \in Proc : pc'[s] = "reactrecv" => target'[s] = Receiver
      BY <2>1, <2>2 DEF ReactInv
    <3> QED
      BY <1>0, <3>2, <3>4, <3>5, CallingFinite DEF ReactInv
  <2> QED
    BY <2>3, <2>4
<1>7. CASE Notify(p)
  <2>1. pc[p] = "notify" /\ UNCHANGED <<queue, target>> /\ target[p] \in Proc
    BY <1>7 DEF Notify, sendVars, BoxInv, SendersOK
  <2>2. PICK at \in {"react", "next"} : pc' = [pc EXCEPT ![target[p]] = Woken(pc[target[p]]), ![p] = at]
    BY <1>7 DEF Notify
  <2>3. \A s \in Proc \ {p} : pc'[s] = pc[s] \/ pc'[s] \notin {"notify", "react", "reactrecv"}
    <3>1. \A b : Woken(b) = b \/ Woken(b) \notin {"notify", "react", "reactrecv"}
      BY DEF Woken
    <3> QED
      BY <2>1, <2>2, <3>1 DEF BoxInv, SendersOK
  <2>4. pc'[p] = at
    BY <2>2 DEF BoxInv, SendersOK
  <2> QED
    BY <1>1, <2>1, <2>3, <2>4 DEF Box, Calling
<1>8. CASE React(p)
  <2>1. /\ pc[p] = "react" /\ UNCHANGED <<queue, target>>
        /\ \/ pc' = [pc EXCEPT ![p] = "next"]
           \/ target[p] = Receiver /\ pc' = [pc EXCEPT ![p] = "reactrecv"]
    BY <1>8 DEF React, sendVars
  <2>2. /\ \A s \in Proc \ {p} : pc'[s] = pc[s]
        /\ pc'[p] = "next" \/ (pc'[p] = "reactrecv" /\ target[p] = Receiver)
    BY <2>1 DEF BoxInv, SendersOK
  <2> QED
    BY <1>1, <2>1, <2>2 DEF Box, Calling
<1>9. CASE ReactRecv(p)
  <2>1. /\ pc[p] = "reactrecv" /\ Box # <<>> /\ queue' = [queue EXCEPT ![Receiver] = RemoveAt(Box, 1)]
        /\ pc' = [pc EXCEPT ![p] = "next"] /\ UNCHANGED target
    BY <1>9 DEF ReactRecv, sendVars, Box
  <2>2. p \in Calling /\ Calling' = Calling \ {p}
    BY <2>1 DEF Calling, ReactInv, BoxInv, SendersOK
  <2>3. Cardinality(Calling') = Cardinality(Calling) - 1
    BY <2>2, CallingFinite, FS_RemoveElement
  <2>4. Box' = RemoveAt(Box, 1)
    BY <2>1, Constants DEF Box, BoxInv, BoxesOK
  <2>5. Len(Box') = Len(Box) - 1 /\ Len(Box) \in Nat
    BY <2>1, <2>4, FirstOfBox, RemovedLength DEF BoxInv
  <2>6. \A s \in Proc : pc'[s] = "reactrecv" => target'[s] = Receiver
    BY <2>1 DEF ReactInv, BoxInv, SendersOK
  <2> QED
    BY <1>0, <2>3, <2>5, <2>6, CallingFinite DEF ReactInv
<1> QED
  BY <1>3, <1>4, <1>5, <1>6, <1>7, <1>8, <1>9 DEF Deliver

\* The recv_msg in a reactor finds a message each time, as long as the context receives
\* nowhere else: there are never fewer messages than calls that may come for them.
THEOREM ReactorsFind == Spec => []ReactorFinds
<1>1. Init => ReactInv
  <2> SUFFICES ASSUME Init PROVE ReactInv
    OBVIOUS
  <2>1. Calling = {} /\ Box = <<>>
    BY Constants DEF Init, Calling, Box
  <2> QED
    BY <2>1, FS_EmptySet DEF Init, ReactInv
<1>2. BoxInv /\ ReactInv /\ [Next]_vars => ReactInv'
  BY ReactSender, ReactOther DEF Next, Receive
<1>3. BoxInv /\ ReactInv => ReactorFinds
  <2> SUFFICES ASSUME BoxInv, ReactInv, ~own, NEW p \in Proc, pc[p] = "reactrecv", Box = <<>>
               PROVE  FALSE
    BY DEF ReactorFinds
  <2>1. p \in Calling /\ Len(Box) = 0
    BY DEF ReactInv, Calling
  <2>2. Cardinality(Calling) # 0
    BY <2>1, CallingFinite, FS_EmptySet
  <2> QED
    BY <2>1, <2>2, CallingFinite DEF ReactInv
<1> QED
  BY <1>1, <1>2, <1>3, BoxInvariant, PTL DEF Spec
-----------------------------------------------------------------------------
(* The order of the messages.                                              *)

LEMMA HasAppended ==
  ASSUME NEW q \in Seq(Message), NEW m \in Message, NEW p \in Proc, NEW a \in Nat, NEW b \in Nat,
         Has(q, p, a, b), m.src = p => m.n = b + 1
  PROVE  Has(Append(q, m), p, a, IF m.src = p THEN b + 1 ELSE b)
<1> DEFINE r == Append(q, m)
           c == IF m.src = p THEN b + 1 ELSE b
<1>1. /\ Len(q) \in Nat /\ DOMAIN q = 1..Len(q) /\ DOMAIN r = 1..(Len(q) + 1)
      /\ r[Len(q) + 1] = m /\ \A i \in 1..Len(q) : r[i] = q[i] /\ q[i] \in Message
  OBVIOUS
<1> HIDE DEF r
<1>2. \A i \in DOMAIN r : i \in DOMAIN q \/ i = Len(q) + 1
  BY <1>1
<1>3. \A n \in a + 1..c : \E i \in DOMAIN r : r[i] = [src |-> p, n |-> n]
  <2> SUFFICES ASSUME NEW n \in a + 1..c PROVE \E i \in DOMAIN r : r[i] = [src |-> p, n |-> n]
    OBVIOUS
  <2>1. CASE n \in a + 1..b
    <3>1. PICK i \in DOMAIN q : q[i] = [src |-> p, n |-> n]
      BY <2>1 DEF Has
    <3> QED
      BY <1>1, <3>1
  <2>2. CASE n \notin a + 1..b
    <3>1. m.src = p /\ n = b + 1
      BY <2>2
    <3>2. m = [src |-> p, n |-> n]
      BY <3>1 DEF Message
    <3> QED
      BY <1>1, <3>2
  <2> QED
    BY <2>1, <2>2
<1>4. \A i \in DOMAIN q : q[i].src = p => q[i].n \in a + 1..b /\ q[i].n \in a + 1..c
  <2>1. \A i \in DOMAIN q : q[i].src = p => q[i].n \in a + 1..b
    BY DEF Has
  <2>2. a + 1..b \subseteq a + 1..c
    OBVIOUS
  <2> QED
    BY <2>1, <2>2
<1>5. \A i \in DOMAIN r : r[i].src = p => r[i].n \in a + 1..c
  <2>1. m.src = p => m.n \in a + 1..c
    BY DEF Has
  <2> QED
    BY <1>1, <1>2, <1>4, <2>1
<1>6. ASSUME NEW i \in DOMAIN r, NEW j \in DOMAIN r, i < j, r[i].src = p, r[j].src = p
      PROVE  r[i].n < r[j].n
  <2>1. i \in DOMAIN q /\ r[i] = q[i]
    BY <1>1, <1>2, <1>6
  <2>2. CASE j \in DOMAIN q
    BY <1>1, <1>6, <2>1, <2>2 DEF Has
  <2>3. CASE j = Len(q) + 1
    BY <1>1, <1>4, <1>6, <2>1, <2>3
  <2> QED
    BY <1>2, <2>2, <2>3
<1> QED
  BY <1>3, <1>5, <1>6 DEF Has, r

\* The first message of its sender in a box is the next one.
LEMMA FirstIsNext ==
  ASSUME NEW q \in Seq(Message), NEW p \in Proc, NEW a \in Nat, NEW b \in Nat, Has(q, p, a, b),
         NEW i \in DOMAIN q, q[i].src = p, \A j \in DOMAIN q : j < i => q[j].src # p
  PROVE  q[i].n = a + 1 /\ a < b
<1>1. q[i].n \in a + 1..b
  BY DEF Has
<1>2. PICK k \in DOMAIN q : q[k] = [src |-> p, n |-> a + 1]
  <2>1. a + 1 \in a + 1..b
    BY <1>1
  <2> QED
    BY <2>1 DEF Has
<1>3. ~(k < i) /\ i \in Nat /\ k \in Nat
  BY <1>2
<1>4. i < k => q[i].n < q[k].n
  BY <1>2 DEF Has
<1> QED
  BY <1>1, <1>2, <1>3, <1>4

LEMMA HasRemoved ==
  ASSUME NEW q \in Seq(Message), NEW p \in Proc, NEW a \in Nat, NEW b \in Nat, Has(q, p, a, b),
         NEW i \in DOMAIN q, q[i].src = p => q[i].n = a + 1
  PROVE  Has(RemoveAt(q, i), p, IF q[i].src = p THEN a + 1 ELSE a, b)
<1> DEFINE r == RemoveAt(q, i)
           c == IF q[i].src = p THEN a + 1 ELSE a
           From(j) == IF j < i THEN j ELSE j + 1
<1>1. /\ Len(q) \in Nat /\ DOMAIN q = 1..Len(q) /\ i \in 1..Len(q) /\ DOMAIN r = 1..(Len(q) - 1)
      /\ \A j \in 1..(Len(q) - 1) : r[j] = q[From(j)]
  <2>1. DOMAIN q = 1..Len(q) /\ Len(q) \in Nat
    OBVIOUS
  <2>2. SubSeq(q, 1, i - 1) \in Seq(Message) /\ SubSeq(q, i + 1, Len(q)) \in Seq(Message)
    OBVIOUS
  <2>3. /\ Len(SubSeq(q, 1, i - 1)) = i - 1 /\ \A j \in 1..(i - 1) : SubSeq(q, 1, i - 1)[j] = q[j]
        /\ Len(SubSeq(q, i + 1, Len(q))) = Len(q) - i
        /\ \A j \in 1..(Len(q) - i) : SubSeq(q, i + 1, Len(q))[j] = q[i + j]
    OBVIOUS
  <2>4. r = SubSeq(q, 1, i - 1) \o SubSeq(q, i + 1, Len(q))
    BY DEF RemoveAt
  <2> HIDE DEF r
  <2>5. Len(r) = Len(q) - 1 /\ DOMAIN r = 1..(Len(q) - 1)
    BY <2>1, <2>2, <2>3, <2>4
  <2>6. \A j \in 1..(Len(q) - 1) : r[j] = q[From(j)]
    <3> SUFFICES ASSUME NEW j \in 1..(Len(q) - 1) PROVE r[j] = q[From(j)]
      OBVIOUS
    <3>1. CASE j < i
      BY <2>1, <2>2, <2>3, <2>4, <3>1
    <3>2. CASE ~(j < i)
      <4>1. j - (i - 1) \in 1..(Len(q) - i) /\ i + (j - (i - 1)) = j + 1
        BY <2>1, <3>2
      <4>2. \A A, B \in Seq(Message) : Len(A) = i - 1 /\ j \in 1..(Len(A) + Len(B)) => (A \o B)[j] = B[j - (i - 1)]
        BY <3>2, SMTT(30)
      <4> DEFINE A == SubSeq(q, 1, i - 1)
                 B == SubSeq(q, i + 1, Len(q))
      <4>3. A \in Seq(Message) /\ B \in Seq(Message) /\ r = A \o B /\ Len(A) = i - 1 /\ Len(B) = Len(q) - i
        BY <2>2, <2>3, <2>4
      <4>4. r[j] = B[j - (i - 1)]
        <5> HIDE DEF A, B
        <5>1. j \in 1..(Len(A) + Len(B))
          BY <2>1, <4>3
        <5> QED
          BY <4>2, <4>3, <5>1
      <4> QED
        BY <2>3, <3>2, <4>1, <4>4
    <3> QED
      BY <3>1, <3>2
  <2> QED
    BY <2>1, <2>5, <2>6
<1> HIDE DEF r
<1>2. \A j \in DOMAIN r : From(j) \in DOMAIN q /\ From(j) # i /\ r[j] = q[From(j)]
  BY <1>1
<1>3. \A k \in DOMAIN q : k # i => \E j \in DOMAIN r : From(j) = k
  <2> SUFFICES ASSUME NEW k \in DOMAIN q, k # i PROVE \E j \in DOMAIN r : From(j) = k
    OBVIOUS
  <2>1. CASE k < i
    BY <1>1, <2>1
  <2>2. CASE i < k
    <3>1. k - 1 \in DOMAIN r /\ From(k - 1) = k
      BY <1>1, <2>2
    <3> QED
      BY <3>1
  <2> QED
    BY <1>1, <2>1, <2>2
<1>4. \A j, k \in DOMAIN r : j < k => From(j) < From(k)
  BY <1>1
<1> HIDE DEF From
<1>5. \A j \in DOMAIN q : q[j] \in Message
  OBVIOUS
<1>6. \A n \in c + 1..b : \E j \in DOMAIN r : r[j] = [src |-> p, n |-> n]
  <2> SUFFICES ASSUME NEW n \in c + 1..b PROVE \E j \in DOMAIN r : r[j] = [src |-> p, n |-> n]
    OBVIOUS
  <2>1. PICK k \in DOMAIN q : q[k] = [src |-> p, n |-> n]
    BY DEF Has
  <2>2. k # i
    BY <2>1
  <2> QED
    BY <1>2, <1>3, <2>1, <2>2
<1>7. ASSUME NEW j \in DOMAIN r, r[j].src = p PROVE r[j].n \in c + 1..b
  <2> DEFINE k == From(j)
  <2>1. k \in DOMAIN q /\ k # i /\ q[k].src = p /\ r[j].n = q[k].n /\ q[k].n \in a + 1..b
    BY <1>2, <1>7 DEF Has
  <2>2. CASE q[i].src = p
    <3>1. q[k].n # q[i].n
      <4> HIDE DEF k
      <4>1. k < i => q[k].n < q[i].n
        BY <2>1, <2>2 DEF Has
      <4>2. i < k => q[i].n < q[k].n
        BY <2>1, <2>2 DEF Has
      <4> QED
        BY <1>1, <2>1, <2>2, <4>1, <4>2
    <3> QED
      BY <2>1, <2>2, <3>1
  <2> QED
    BY <2>1, <2>2
<1>8. ASSUME NEW j \in DOMAIN r, NEW k \in DOMAIN r, j < k, r[j].src = p, r[k].src = p
      PROVE  r[j].n < r[k].n
  BY <1>2, <1>4, <1>8 DEF Has
<1>9. c <= b
  BY DEF Has
<1> QED
  BY <1>6, <1>7, <1>8, <1>9 DEF Has, r

\* InOrder, with what it needs of the history: a message being pushed has been counted.
OrderInv ==
  /\ got \in [Proc -> Nat]
  /\ \A p \in Proc : pc[p] = "push" => sent[p][target[p]] > 0
  /\ InOrder

LEMMA PushedIsCount == ASSUME BoxInv, OrderInv, NEW s \in Proc PROVE Pushed(s) \in Nat
<1>1. sent[s][Receiver] \in Nat
  BY Constants DEF BoxInv, BoxesOK
<1>2. pc[s] = "push" /\ target[s] = Receiver => sent[s][Receiver] > 0
  BY DEF OrderInv
<1> QED
  BY <1>1, <1>2 DEF Pushed

\* What a lookup in a send changes: the message is counted, and pushed if it is to come.
LEMMA FindPushed ==
  ASSUME BoxInv, NEW p \in Proc, pc[p] # "push", NEW q, FindDest(p, q)
  PROVE  /\ pc'[p] = "push" => sent'[p][target'[p]] > 0
         /\ Receiver \in onmap => Pushed(p)' = Pushed(p)
         /\ \A s \in Proc \ {p} : pc'[s] = pc[s] /\ target'[s] = target[s] /\ sent'[s] = sent[s]
<1>1. /\ sent[p] \in [Proc -> Nat] /\ sent'[p] = [sent[p] EXCEPT ![q] = sent[p][q] + 1]
      /\ \A s \in Proc \ {p} : sent'[s] = sent[s]
  BY DEF FindDest, BoxInv, BoxesOK
<1>2. /\ q \in Proc => sent'[p][q] = sent[p][q] + 1 /\ sent[p][q] \in Nat
      /\ \A s \in Proc \ {q} : sent'[p][s] = sent[p][s] /\ sent[p][s] \in Nat
  BY <1>1
<1>3. CASE q \in onmap
  <2>1. /\ pc' = [pc EXCEPT ![p] = "push"] /\ target' = [target EXCEPT ![p] = q]
        /\ pc'[p] = "push" /\ target'[p] = q
    BY <1>3 DEF FindDest, BoxInv, SendersOK
  <2>2. q \in Proc
    BY <1>3 DEF BoxInv, BoxesOK
  <2> QED
    BY <1>1, <1>2, <2>1, <2>2, Constants DEF Pushed, BoxInv, SendersOK
<1>4. CASE q \notin onmap
  <2>1. pc' = [pc EXCEPT ![p] = "next"] /\ target' = target /\ pc'[p] = "next"
    BY <1>4 DEF FindDest, BoxInv, SendersOK
  <2>2. Receiver \in onmap => q # Receiver
    BY <1>4
  <2> QED
    BY <1>1, <1>2, <2>1, <2>2, Constants DEF Pushed, BoxInv, SendersOK
<1> QED
  BY <1>3, <1>4

\* What leaves the boxes alone keeps the order, if it changes no count.
LEMMA OrderKept ==
  ASSUME OrderInv, BoxInv, UNCHANGED <<queue, got>>, onmap' \subseteq onmap,
         \A p \in Proc : /\ pc'[p] = "push" => sent'[p][target'[p]] > 0
                         /\ Receiver \in onmap => Pushed(p)' = Pushed(p)
  PROVE  OrderInv'
<1>1. \A p \in Proc : pc'[p] = "push" => sent'[p][target'[p]] > 0
  OBVIOUS
<1>2. InOrder'
  BY DEF OrderInv, InOrder, Box
<1> QED
  BY <1>1, <1>2 DEF OrderInv

\* The receiver and the calls that build a query: nobody starts or ends a push.
LEMMA PlacesKept ==
  ASSUME BoxInv, OrderInv, UNCHANGED <<target, sent>>,
         \A p \in Proc : pc'[p] = "push" <=> pc[p] = "push"
  PROVE  \A p \in Proc : /\ pc'[p] = "push" => sent'[p][target'[p]] > 0
                         /\ Pushed(p)' = Pushed(p)
<1> SUFFICES ASSUME NEW p \in Proc
             PROVE  /\ pc'[p] = "push" => sent'[p][target'[p]] > 0
                    /\ Pushed(p)' = Pushed(p)
  OBVIOUS
<1>1. pc'[p] = "push" => sent'[p][target'[p]] > 0
  BY DEF OrderInv
<1>2. Pushed(p)' = Pushed(p)
  BY DEF Pushed
<1> QED
  BY <1>1, <1>2

\* A message is taken that is the first of its sender.
LEMMA OrderTaken ==
  ASSUME BoxInv, OrderInv, NEW i \in DOMAIN Box, \A j \in DOMAIN Box : j < i => Box[j].src # Box[i].src,
         got' = [got EXCEPT ![Box[i].src] = Box[i].n],
         queue' = [queue EXCEPT ![Receiver] = RemoveAt(Box, i)], UNCHANGED <<onmap, target, sent>>,
         \A s \in Proc : pc'[s] = "push" <=> pc[s] = "push"
  PROVE  OrderInv'
<1> DEFINE m == Box[i]
<1>1. m \in Message /\ Box \in Seq(Message) /\ DOMAIN Box \subseteq Nat
  <2>1. Box \in Seq(Message)
    BY Constants DEF BoxInv, BoxesOK, Box
  <2> QED
    BY <2>1
<1>2. \A s \in Proc : /\ pc'[s] = "push" => sent'[s][target'[s]] > 0
                      /\ Pushed(s)' = Pushed(s)
  BY PlacesKept
<1>3. Box' = RemoveAt(Box, i)
  BY Constants DEF Box, BoxInv, BoxesOK
<1>4. got' \in [Proc -> Nat]
  BY <1>1 DEF OrderInv, Message
<1>5. ASSUME Receiver \in onmap, NEW s \in Proc PROVE Has(Box', s, got'[s], Pushed(s)')
  <2>1. Has(Box, s, got[s], Pushed(s)) /\ got[s] \in Nat
    BY <1>5 DEF OrderInv, InOrder
  <2>2. Pushed(s) \in Nat
    BY PushedIsCount
  <2>3. m.src = s => m.n = got[s] + 1
    BY <1>1, <2>1, <2>2, FirstIsNext
  <2>4. got'[s] = IF m.src = s THEN got[s] + 1 ELSE got[s]
    BY <1>1, <2>3 DEF OrderInv
  <2> QED
    BY <1>1, <1>2, <1>3, <2>1, <2>2, <2>3, <2>4, HasRemoved
<1> QED
  BY <1>2, <1>4, <1>5 DEF OrderInv, InOrder

LEMMA OrderSender ==
  ASSUME BoxInv, OrderInv, NEW p \in Proc, Bcast(p) \/ Deliver(p) \/ SendMsg(p, Receiver)
  PROVE  OrderInv'
<1>1. CASE Bcast(p)
  <2>1. /\ pc[p] = "idle" /\ pc' = [pc EXCEPT ![p] = "next"]
        /\ UNCHANGED <<onmap, queue, target, sent, got>>
    BY <1>1 DEF Bcast, Sends, recvVars
  <2>2. \A s \in Proc : pc'[s] = "push" <=> pc[s] = "push"
    BY <2>1 DEF BoxInv, SendersOK
  <2> QED
    BY <2>1, <2>2, PlacesKept, OrderKept
<1>2. ASSUME NEW q, FindDest(p, q), pc[p] # "push", UNCHANGED <<onmap, queue, got>>
      PROVE  OrderInv'
  <2>1. /\ pc'[p] = "push" => sent'[p][target'[p]] > 0
        /\ Receiver \in onmap => Pushed(p)' = Pushed(p)
        /\ \A s \in Proc \ {p} : pc'[s] = pc[s] /\ target'[s] = target[s] /\ sent'[s] = sent[s]
    BY <1>2, FindPushed
  <2>2. ASSUME NEW s \in Proc \ {p}
        PROVE  (pc'[s] = "push" => sent'[s][target'[s]] > 0) /\ Pushed(s)' = Pushed(s)
    BY <2>1 DEF OrderInv, Pushed
  <2> QED
    BY <1>2, <2>1, <2>2, OrderKept
<1>3. CASE SendMsg(p, Receiver)
  BY <1>2, <1>3, Constants DEF SendMsg, Sends, recvVars
<1>4. CASE NextTarget(p)
  <2>1. pc[p] = "next" /\ UNCHANGED <<onmap, queue, got>>
    BY <1>4 DEF NextTarget, recvVars
  <2>2. CASE rest[p] = <<>>
    <3>1. pc' = [pc EXCEPT ![p] = "idle"] /\ UNCHANGED <<target, sent>>
      BY <1>4, <2>2 DEF NextTarget
    <3>2. \A s \in Proc : pc'[s] = "push" <=> pc[s] = "push"
      BY <2>1, <3>1 DEF BoxInv, SendersOK
    <3> QED
      BY <2>1, <3>1, <3>2, PlacesKept, OrderKept
  <2>3. CASE rest[p] # <<>>
    <3>1. FindDest(p, Head(rest[p]))
      BY <1>4, <2>3 DEF NextTarget
    <3> QED
      BY <1>2, <2>1, <3>1
  <2> QED
    BY <2>2, <2>3
<1>5. CASE Push(p)
  <2> DEFINE q == target[p]
             m == [src |-> p, n |-> sent[p][q]]
  <2>1. /\ pc[p] = "push" /\ q \in Proc /\ m \in Message
        /\ queue' = [queue EXCEPT ![q] = Append(queue[q], m)]
        /\ pc' = [pc EXCEPT ![p] = "notify"] /\ UNCHANGED <<onmap, target, sent, got>>
    BY <1>5 DEF Push, sendVars, recvVars, BoxInv, BoxesOK, SendersOK, Message
  <2>2. pc'[p] = "notify" /\ \A s \in Proc \ {p} : pc'[s] = pc[s]
    BY <2>1 DEF BoxInv, SendersOK
  <2>3. \A s \in Proc : pc'[s] = "push" => sent'[s][target'[s]] > 0
    BY <2>1, <2>2 DEF OrderInv
  <2>4. ASSUME NEW s \in Proc \ {p} PROVE Pushed(s)' = Pushed(s)
    BY <2>1, <2>2 DEF Pushed
  <2>5. CASE q # Receiver
    <3>1. Pushed(p)' = Pushed(p)
      BY <2>1, <2>2, <2>5 DEF Pushed
    <3>2. Box' = Box
      BY <2>1, <2>5 DEF Box
    <3> QED
      BY <2>1, <2>3, <2>4, <3>1, <3>2 DEF OrderInv, InOrder
  <2>6. CASE q = Receiver
    <3>1. sent[p][q] \in Nat /\ sent[p][q] > 0
      BY <2>1 DEF BoxInv, BoxesOK, OrderInv
    <3>2. Pushed(p) = m.n - 1 /\ Pushed(p)' = Pushed(p) + 1 /\ Pushed(p) \in Nat
      BY <2>1, <2>2, <2>6, <3>1 DEF Pushed
    <3>3. Box \in Seq(Message) /\ Box' = Append(Box, m)
      BY <2>1, <2>6 DEF Box, BoxInv, BoxesOK
    <3>4. ASSUME Receiver \in onmap, NEW s \in Proc PROVE Has(Box', s, got'[s], Pushed(s)')
      <4>1. Has(Box, s, got[s], Pushed(s)) /\ got[s] \in Nat
        BY <3>4 DEF OrderInv, InOrder
      <4>2. Pushed(s) \in Nat
        BY PushedIsCount
      <4> DEFINE c == IF m.src = s THEN Pushed(s) + 1 ELSE Pushed(s)
      <4>3. m.src = s => m.n = Pushed(s) + 1
        BY <3>1, <3>2
      <4>4. Has(Append(Box, m), s, got[s], c)
        BY <2>1, <3>3, <4>1, <4>2, <4>3, HasAppended
      <4>5. c = Pushed(s)' /\ got' = got
        BY <2>1, <2>4, <3>2
      <4> QED
        BY <3>3, <4>4, <4>5
    <3> QED
      BY <2>1, <2>3, <3>4 DEF OrderInv, InOrder
  <2> QED
    BY <2>5, <2>6
<1>6. CASE Notify(p)
  <2>1. /\ pc[p] = "notify" /\ UNCHANGED <<onmap, queue, target, sent, got>>
        /\ target[p] \in Proc
    BY <1>6 DEF Notify, sendVars, BoxInv, SendersOK
  <2>2. PICK at \in {"react", "next"} : pc' = [pc EXCEPT ![target[p]] = Woken(pc[target[p]]), ![p] = at]
    BY <1>6 DEF Notify
  <2>3. Woken(pc[target[p]]) = "push" <=> pc[target[p]] = "push"
    BY DEF Woken
  <2>4. \A s \in Proc : pc'[s] = "push" <=> pc[s] = "push"
    BY <2>1, <2>2, <2>3 DEF BoxInv, SendersOK
  <2> QED
    BY <2>1, <2>4, PlacesKept, OrderKept
<1>7. CASE React(p)
  <2>1. /\ pc[p] = "react" /\ \E at \in {"next", "reactrecv"} : pc' = [pc EXCEPT ![p] = at]
        /\ UNCHANGED <<onmap, queue, target, sent, got>>
    BY <1>7 DEF React, sendVars, recvVars
  <2>2. \A s \in Proc : pc'[s] = "push" <=> pc[s] = "push"
    BY <2>1 DEF BoxInv, SendersOK
  <2> QED
    BY <2>1, <2>2, PlacesKept, OrderKept
<1>8. CASE ReactRecv(p)
  <2>1. /\ Box # <<>> /\ pc[p] = "reactrecv" /\ pc' = [pc EXCEPT ![p] = "next"]
        /\ got' = [got EXCEPT ![Box[1].src] = Box[1].n]
        /\ queue' = [queue EXCEPT ![Receiver] = RemoveAt(Box, 1)]
        /\ UNCHANGED <<onmap, target, sent>>
    BY <1>8 DEF ReactRecv, sendVars, Box
  <2>2. 1 \in DOMAIN Box /\ \A j \in DOMAIN Box : j < 1 => Box[j].src # Box[1].src
    BY <2>1, FirstOfBox DEF BoxInv
  <2>3. \A s \in Proc : pc'[s] = "push" <=> pc[s] = "push"
    BY <2>1 DEF BoxInv, SendersOK
  <2> QED
    BY <2>1, <2>2, <2>3, OrderTaken
<1> QED
  BY <1>1, <1>3, <1>4, <1>5, <1>6, <1>7, <1>8 DEF Deliver

\* recv_msg takes the first message that matches. What matches depends on the sender
\* only, so it is the first of its sender, whatever the query.
LEMMA OrderRecv ==
  ASSUME BoxInv, OrderInv, RecvMsg, Matching # {}, pc' = [pc EXCEPT ![Receiver] = "idle"],
         got' = [got EXCEPT ![Box[FirstMatch].src] = Box[FirstMatch].n],
         queue' = [queue EXCEPT ![Receiver] = RemoveAt(Box, FirstMatch)]
  PROVE  OrderInv'
<1> DEFINE i == FirstMatch
<1>1. pc[Receiver] = "recv" /\ UNCHANGED <<onmap, target, sent>>
  BY DEF RecvMsg, sendVars
<1>2. i \in DOMAIN Box /\ DOMAIN Box \subseteq Nat
  <2>1. i \in DOMAIN Box /\ Box \in Seq(Message)
    BY FirstMatches, Constants DEF BoxInv, BoxesOK, Box
  <2> HIDE DEF i
  <2> QED
    BY <2>1
<1>3. \A j \in DOMAIN Box : j < i => Box[j].src # Box[i].src
  <2>1. \E k \in Matching : \A j \in Matching : k <= j
    <3>1. Matching \in SUBSET Nat
      BY <1>2 DEF Matching
    <3> HIDE DEF Matching
    <3> QED
      BY <3>1, Least
  <2>2. i \in Matching /\ \A j \in Matching : i <= j
    <3> HIDE DEF Matching
    <3> QED
      BY <2>1 DEF FirstMatch
  <2> HIDE DEF i
  <2>3. ASSUME NEW j \in DOMAIN Box, j < i, Box[j].src = Box[i].src PROVE FALSE
    <3>1. j \in Matching
      BY <2>2, <2>3 DEF Matching
    <3> QED
      BY <1>2, <2>2, <2>3, <3>1
  <2> QED
    BY <2>3
<1> HIDE DEF i
<1>4. \A s \in Proc : pc'[s] = "push" <=> pc[s] = "push"
  BY <1>1 DEF BoxInv, SendersOK
<1> QED
  BY <1>1, <1>2, <1>3, <1>4, OrderTaken DEF i

LEMMA OrderOther ==
  ASSUME BoxInv, OrderInv,
         \/ Build \/ UnregContext \/ StartRecv \/ TimeOut \/ WaitMsg \/ UNCHANGED vars
         \/ RecvMsg /\ ~(Matching # {} /\ pc' = [pc EXCEPT ![Receiver] = "idle"])
         \/ \E t \in {"none", "timed", "poll"} : StartWait(t)
  PROVE  OrderInv'
<1>1. /\ UNCHANGED <<queue, target, sent, got>> /\ onmap' \subseteq onmap
      /\ \/ pc' = pc
         \/ /\ pc[Receiver] \in {"idle", "recv", "wait", "waitblocked"}
            /\ \E at \in {"idle", "recv", "wait", "recvblocked", "waitblocked", "aborted"} :
                 pc' = [pc EXCEPT ![Receiver] = at]
  <2>1. CASE Build
    BY <2>1, Zenon DEF Build, MatchAny, MatchOne, MatchGroup, OpNot, Operate, Simple, SendSame, sendVars,
       recvVars
  <2>2. CASE UnregContext \/ UNCHANGED vars
    BY <2>2 DEF UnregContext, vars, sendVars, recvVars
  <2>3. CASE StartRecv \/ TimeOut \/ WaitMsg
    BY <2>3 DEF StartRecv, TimeOut, WaitMsg, Abort, sendVars, recvVars
  <2>4. CASE RecvMsg /\ ~(Matching # {} /\ pc' = [pc EXCEPT ![Receiver] = "idle"])
    BY <2>4 DEF RecvMsg, Abort, sendVars
  <2>5. CASE \E t \in {"none", "timed", "poll"} : StartWait(t)
    BY <2>5 DEF StartWait, sendVars
  <2> QED
    BY <2>1, <2>2, <2>3, <2>4, <2>5
<1>2. \A p \in Proc : pc'[p] = "push" <=> pc[p] = "push"
  BY <1>1 DEF BoxInv, SendersOK
<1> QED
  BY <1>1, <1>2, PlacesKept, OrderKept

\* The messages of a sender are received in the order of its sends and none is skipped,
\* whatever queries choose among them and however sends and broadcasts interleave.
THEOREM OrderIsKept == Spec => []InOrder
<1>1. Init => OrderInv
  <2> SUFFICES ASSUME Init PROVE OrderInv
    OBVIOUS
  <2>1. Box = <<>> /\ \A p \in Proc : got[p] = 0 /\ Pushed(p) = 0
    BY Constants DEF Init, Box, Pushed
  <2>2. \A p \in Proc : Has(<<>>, p, 0, 0)
    BY DEF Has
  <2> QED
    BY <2>1, <2>2 DEF Init, OrderInv, InOrder
<1>2. BoxInv /\ OrderInv /\ [Next]_vars => OrderInv'
  <2> SUFFICES ASSUME BoxInv, OrderInv, [Next]_vars PROVE OrderInv'
    OBVIOUS
  <2>1. CASE RecvMsg /\ Matching # {} /\ pc' = [pc EXCEPT ![Receiver] = "idle"]
    <3>1. CASE Abort
      <4>1. pc[Receiver] = "recv" /\ pc \in [Proc -> Place]
        BY <2>1 DEF RecvMsg, BoxInv, SendersOK
      <4> QED
        BY <2>1, <3>1, <4>1, Constants DEF Abort
    <3>2. CASE ~Abort
      BY <2>1, <3>2, OrderRecv DEF RecvMsg, Box
    <3> QED
      BY <3>1, <3>2
  <2> QED
    BY <2>1, OrderSender, OrderOther DEF Next, Receive
<1>3. OrderInv => InOrder
  BY DEF OrderInv
<1> QED
  BY <1>1, <1>2, <1>3, BoxInvariant, PTL DEF Spec

-----------------------------------------------------------------------------
(* What a query means.                                                     *)

\* The results st of a prefix of a query, on one uuid, are those of its sets.
Means(st, ss, id) ==
  /\ st \in Seq(BOOLEAN) /\ Len(st) = Len(ss)
  /\ \A k \in 1..Len(ss) : st[k] <=> id \in ss[k]

\* The results after each term of query e.
Computed(f, e, d, id) ==
  f = [k \in 0..Len(e) |-> IF k = 0 THEN <<>> ELSE Eval(d, f[k - 1], e[k], id)]

TermType == [op : {"any", "one", "group", "not"} \cup Binary, at : Nat, n : Nat]
Within(t, d) == t.op \in {"one", "group"} => 1 <= t.at /\ t.at + t.n <= Len(d) + 1

\* Query e, of uuids d, means the sets ss.
QueryMeans(e, d, ss) ==
  /\ e \in Seq(TermType) /\ d \in Seq(Proc) /\ ss \in Seq(SUBSET Proc)
  /\ \A k \in 1..Len(e) : Within(e[k], d)
  /\ \A id \in Proc : /\ \E f : Computed(f, e, d, id)
                      /\ \A f : Computed(f, e, d, id) => Means(f[Len(e)], ss, id)

\* Query e, of uuids d, has no room for its results.
QueryFails(e, d) ==
  \A id \in Proc : /\ \E f : Computed(f, e, d, id)
                   /\ \A f : Computed(f, e, d, id) => f[Len(e)] = Failed

LEMMA FailedIsNone == Failed \notin Seq(BOOLEAN) /\ Failed \notin Seq(SUBSET Proc) /\ Slots \in Nat
BY ConstantsAssumption DEF ConstantsAssumption

\* Results pushed and replaced at the top.
LEMMA MeansPush ==
  ASSUME NEW ss \in Seq(SUBSET Proc), NEW st, NEW id, Means(st, ss, id), NEW S \in SUBSET Proc,
         NEW b \in BOOLEAN, b <=> id \in S
  PROVE  Means(Append(st, b), Append(ss, S), id)
<1> DEFINE u == Append(st, b)
           v == Append(ss, S)
<1>1. /\ Len(ss) \in Nat /\ Len(st) = Len(ss) /\ u \in Seq(BOOLEAN) /\ Len(u) = Len(ss) + 1
      /\ u[Len(ss) + 1] = b /\ \A k \in 1..Len(ss) : u[k] = st[k]
  BY DEF Means
<1>2. Len(v) = Len(ss) + 1 /\ v[Len(ss) + 1] = S /\ \A k \in 1..Len(ss) : v[k] = ss[k]
  OBVIOUS
<1> HIDE DEF u, v
<1>3. ASSUME NEW k \in 1..Len(v) PROVE u[k] <=> id \in v[k]
  <2>1. k \in 1..Len(ss) \/ k = Len(ss) + 1
    BY <1>1, <1>2
  <2> QED
    BY <1>1, <1>2, <2>1 DEF Means
<1> QED
  BY <1>1, <1>2, <1>3 DEF Means, u, v

LEMMA MeansPop ==
  ASSUME NEW ss \in Seq(SUBSET Proc), NEW st, NEW id, Means(st, ss, id), Len(ss) >= 2
  PROVE  /\ SubSeq(ss, 1, Len(ss) - 2) \in Seq(SUBSET Proc)
         /\ Means(SubSeq(st, 1, Len(ss) - 2), SubSeq(ss, 1, Len(ss) - 2), id)
<1> DEFINE u == SubSeq(st, 1, Len(ss) - 2)
           v == SubSeq(ss, 1, Len(ss) - 2)
<1>1. /\ Len(ss) - 2 \in Nat /\ Len(ss) \in Nat /\ Len(st) = Len(ss) /\ st \in Seq(BOOLEAN)
  BY DEF Means
<1>2. \A k \in 1..(Len(ss) - 2) : k \in 1..Len(ss) /\ st[k] \in BOOLEAN /\ ss[k] \in SUBSET Proc
  BY <1>1
<1>3. u \in Seq(BOOLEAN) /\ Len(u) = Len(ss) - 2 /\ \A k \in 1..(Len(ss) - 2) : u[k] = st[k]
  BY <1>1, <1>2
<1>4. v \in Seq(SUBSET Proc) /\ Len(v) = Len(ss) - 2 /\ \A k \in 1..(Len(ss) - 2) : v[k] = ss[k]
  BY <1>1, <1>2
<1> HIDE DEF u, v
<1>5. \A k \in 1..Len(v) : u[k] <=> id \in v[k]
  BY <1>2, <1>3, <1>4 DEF Means
<1> QED
  BY <1>3, <1>4, <1>5 DEF Means, u, v

\* A term reads its own data only.
LEMMA EvalSame ==
  ASSUME NEW d, NEW d1, NEW st, NEW t \in TermType, NEW id,
         t.op \in {"one", "group"} => \A i \in t.at..(t.at + t.n - 1) : d1[i] = d[i]
  PROVE  Eval(d1, st, t, id) = Eval(d, st, t, id)
<1>1. CASE t.op \in {"one", "group"}
  <2> DEFINE b == \E i \in t.at..(t.at + t.n - 1) : d[i] = id
             b1 == \E i \in t.at..(t.at + t.n - 1) : d1[i] = id
  <2>1. b \in BOOLEAN /\ b1 \in BOOLEAN
    OBVIOUS
  <2>2. b <=> b1
    BY <1>1
  <2>3. Eval(d, st, t, id) = More(st, b)
    BY <1>1 DEF Eval
  <2>4. Eval(d1, st, t, id) = More(st, b1)
    BY <1>1 DEF Eval
  <2> HIDE DEF b, b1
  <2> QED
    BY <2>1, <2>2, <2>3, <2>4
<1>2. CASE t.op = "any"
  BY <1>2 DEF Eval
<1>3. CASE t.op = "not"
  BY <1>3 DEF Eval
<1>4. CASE t.op = "and"
  BY <1>4 DEF Eval
<1>5. CASE t.op = "or"
  BY <1>5 DEF Eval
<1>6. CASE t.op = "xor"
  BY <1>6 DEF Eval
<1> QED
  BY <1>1, <1>2, <1>3, <1>4, <1>5, <1>6 DEF TermType, Binary

\* A query with one more term: the terms before it have the results they had.
LEMMA QueryExtends ==
  ASSUME NEW e, NEW d, NEW ss, QueryMeans(e, d, ss), NEW t \in TermType, NEW more \in Seq(Proc),
         Within(t, d \o more)
  PROVE  LET e1 == Append(e, t)
             d1 == d \o more
         IN  /\ e1 \in Seq(TermType) /\ d1 \in Seq(Proc) /\ \A k \in 1..Len(e1) : Within(e1[k], d1)
             /\ \A id \in Proc :
                  /\ \E f : Computed(f, e1, d1, id)
                  /\ \A f : Computed(f, e1, d1, id) =>
                       \E st : Means(st, ss, id) /\ f[Len(e1)] = Eval(d1, st, t, id)
<1> DEFINE e1 == Append(e, t)
           d1 == d \o more
<1>1. /\ Len(e) \in Nat /\ Len(e1) = Len(e) + 1 /\ e1[Len(e) + 1] = t /\ e1 \in Seq(TermType)
      /\ \A k \in 1..Len(e) : e1[k] = e[k]
  BY DEF QueryMeans
<1>2. /\ d1 \in Seq(Proc) /\ Len(d) \in Nat /\ Len(d1) >= Len(d) /\ Len(d1) \in Nat
      /\ \A k \in 1..Len(d) : d1[k] = d[k]
  BY DEF QueryMeans
<1>3. \A k \in 1..Len(e) : Within(e[k], d) /\ e[k] \in TermType
  BY <1>1 DEF QueryMeans
<1> HIDE DEF e1, d1
<1>4. \A k \in 1..Len(e1) : Within(e1[k], d1)
  <2> TAKE k \in 1..Len(e1)
  <2>1. CASE k = Len(e) + 1
    BY <1>1, <2>1 DEF d1
  <2>2. CASE k \in 1..Len(e)
    <3>1. Within(e[k], d) /\ e[k] \in TermType /\ e1[k] = e[k]
      BY <1>1, <1>3, <2>2
    <3> QED
      BY <1>2, <3>1 DEF Within, TermType
  <2> QED
    BY <1>1, <2>1, <2>2
<1>5. ASSUME NEW k \in 1..Len(e), NEW st, NEW id PROVE Eval(d1, st, e1[k], id) = Eval(d, st, e[k], id)
  <2>1. e1[k] = e[k] /\ e[k] \in TermType /\ Within(e[k], d)
    BY <1>1, <1>3
  <2>2. e[k].op \in {"one", "group"} => \A i \in e[k].at..(e[k].at + e[k].n - 1) : d1[i] = d[i]
    BY <1>2, <2>1 DEF Within, TermType
  <2> QED
    BY <2>1, <2>2, EvalSame
<1>6. ASSUME NEW id \in Proc, NEW f, Computed(f, e1, d1, id)
      PROVE  \E st : Means(st, ss, id) /\ f[Len(e1)] = Eval(d1, st, t, id)
  <2> DEFINE g == [k \in 0..Len(e) |-> f[k]]
  <2>1. f = [k \in 0..Len(e1) |-> IF k = 0 THEN <<>> ELSE Eval(d1, f[k - 1], e1[k], id)]
    BY <1>6 DEF Computed
  <2>2. \A k \in 0..Len(e1) : f[k] = IF k = 0 THEN <<>> ELSE Eval(d1, f[k - 1], e1[k], id)
    BY <2>1, Zenon
  <2>3. \A k \in 0..Len(e) : k \in 0..Len(e1) /\ (k # 0 => k \in 1..Len(e) /\ g[k - 1] = f[k - 1])
    BY <1>1
  <2> HIDE DEF g
  <2>4. \A k \in 0..Len(e) : f[k] = IF k = 0 THEN <<>> ELSE Eval(d, g[k - 1], e[k], id)
    <3> TAKE k \in 0..Len(e)
    <3>1. CASE k = 0
      BY <2>2, <2>3, <3>1, Zenon
    <3>2. CASE k # 0
      <4>1. f[k] = Eval(d1, g[k - 1], e1[k], id)
        BY <2>2, <2>3, <3>2, Zenon
      <4> QED
        BY <1>5, <2>3, <3>2, <4>1, Zenon
    <3> QED
      BY <3>1, <3>2
  <2>5. Computed(g, e, d, id)
    BY <2>4, Zenon DEF Computed, g
  <2>6. Means(g[Len(e)], ss, id)
    BY <2>5 DEF QueryMeans
  <2>7. f[Len(e1)] = Eval(d1, f[Len(e)], t, id) /\ g[Len(e)] = f[Len(e)]
    <3>1. Len(e1) \in 0..Len(e1) /\ Len(e1) # 0 /\ Len(e1) - 1 = Len(e) /\ e1[Len(e1)] = t /\ Len(e) \in 0..Len(e)
      BY <1>1
    <3> QED
      BY <2>2, <3>1 DEF g
  <2> QED
    BY <2>6, <2>7
<1>7. ASSUME NEW id \in Proc PROVE \E f : Computed(f, e1, d1, id)
  <2>1. PICK g : Computed(g, e, d, id)
    BY DEF QueryMeans
  <2> DEFINE f == [k \in 0..Len(e1) |-> IF k \in 0..Len(e) THEN g[k] ELSE Eval(d1, g[Len(e)], t, id)]
  <2>2. \A k \in 0..Len(e) : g[k] = IF k = 0 THEN <<>> ELSE Eval(d, g[k - 1], e[k], id)
    BY <2>1, Zenon DEF Computed
  <2>3. \A k \in 0..Len(e1) : f[k] = IF k = 0 THEN <<>> ELSE Eval(d1, f[k - 1], e1[k], id)
    <3> TAKE k \in 0..Len(e1)
    <3>1. CASE k = Len(e) + 1
      <4>1. /\ f[k] = Eval(d1, g[Len(e)], t, id) /\ k # 0 /\ k - 1 = Len(e) /\ e1[k] = t
            /\ f[Len(e)] = g[Len(e)]
        BY <1>1, <3>1
      <4> HIDE DEF f
      <4> QED
        BY <4>1
    <3>2. CASE k \in 1..Len(e)
      <4>1. f[k] = g[k] /\ f[k - 1] = g[k - 1] /\ k # 0 /\ k \in 0..Len(e)
        BY <1>1, <3>2
      <4> HIDE DEF f
      <4>2. f[k] = Eval(d, f[k - 1], e[k], id)
        BY <2>2, <4>1
      <4> QED
        BY <1>5, <3>2, <4>1, <4>2
    <3>3. CASE k = 0
      <4>1. f[k] = g[k] /\ k \in 0..Len(e)
        BY <1>1, <3>3
      <4> HIDE DEF f
      <4> QED
        BY <2>2, <3>3, <4>1
    <3> QED
      BY <1>1, <3>1, <3>2, <3>3
  <2>4. Computed(f, e1, d1, id)
    <3> DEFINE h == [k \in 0..Len(e1) |-> IF k = 0 THEN <<>> ELSE Eval(d1, f[k - 1], e1[k], id)]
    <3>1. \A k \in 0..Len(e1) : f[k] = h[k]
      BY <2>3, Zenon
    <3>2. f = h
      BY <3>1
    <3> QED
      BY <3>2 DEF Computed
  <2> QED
    BY <2>4, Zenon
<1> QED
  BY <1>1, <1>2, <1>4, <1>6, <1>7 DEF QueryMeans, e1, d1

LEMMA QueryGrows ==
  ASSUME NEW e, NEW d, NEW ss, QueryMeans(e, d, ss), NEW t \in TermType, NEW more \in Seq(Proc),
         Within(t, d \o more), NEW after \in Seq(SUBSET Proc),
         \A id \in Proc : \A st : Means(st, ss, id) => Means(Eval(d \o more, st, t, id), after, id)
  PROVE  QueryMeans(Append(e, t), d \o more, after)
<1> DEFINE e1 == Append(e, t)
           d1 == d \o more
<1>1. /\ e1 \in Seq(TermType) /\ d1 \in Seq(Proc) /\ \A k \in 1..Len(e1) : Within(e1[k], d1)
      /\ \A id \in Proc :
           /\ \E f : Computed(f, e1, d1, id)
           /\ \A f : Computed(f, e1, d1, id) =>
                \E st : Means(st, ss, id) /\ f[Len(e1)] = Eval(d1, st, t, id)
  BY QueryExtends
<1>2. \A id \in Proc : \A st : Means(st, ss, id) => Means(Eval(d1, st, t, id), after, id)
  OBVIOUS
<1> HIDE DEF e1, d1
<1>3. QueryMeans(e1, d1, after)
  BY <1>1, <1>2 DEF QueryMeans
<1> QED
  BY <1>3 DEF e1, d1

\* A term that adds a result: one more set, or no room for it on any uuid.
LEMMA QueryPushes ==
  ASSUME NEW e, NEW d, NEW ss, QueryMeans(e, d, ss), NEW t \in TermType, NEW more \in Seq(Proc),
         Within(t, d \o more), NEW S \in SUBSET Proc,
         \A id \in Proc : \A st :
           \E b \in BOOLEAN : (b <=> id \in S) /\ Eval(d \o more, st, t, id) = More(st, b)
  PROVE  IF More(ss, S) = Failed THEN QueryFails(Append(e, t), d \o more)
         ELSE QueryMeans(Append(e, t), d \o more, More(ss, S))
<1> DEFINE e1 == Append(e, t)
           d1 == d \o more
<1>1. ss \in Seq(SUBSET Proc) /\ Len(ss) \in Nat
  BY DEF QueryMeans
<1>2. \A id \in Proc : \A st : Means(st, ss, id) => Len(st) = Len(ss)
  BY DEF Means
<1>3. \A id \in Proc : \A st : \E b \in BOOLEAN : (b <=> id \in S) /\ Eval(d1, st, t, id) = More(st, b)
  OBVIOUS
<1>4. CASE Len(ss) < Slots
  <2> DEFINE after == Append(ss, S)
  <2>1. after \in Seq(SUBSET Proc) /\ More(ss, S) = after /\ after # Failed
    BY <1>1, <1>4, FailedIsNone DEF More
  <2>2. ASSUME NEW id \in Proc, NEW st, Means(st, ss, id) PROVE Means(Eval(d1, st, t, id), after, id)
    <3>1. PICK b \in BOOLEAN : (b <=> id \in S) /\ Eval(d1, st, t, id) = More(st, b)
      BY <1>3
    <3>2. More(st, b) = Append(st, b)
      BY <1>2, <1>4, <2>2 DEF More
    <3>3. Means(Append(st, b), after, id)
      BY <1>1, <2>2, <3>1, MeansPush
    <3> QED
      BY <3>1, <3>2, <3>3
  <2> HIDE DEF after
  <2>3. QueryMeans(e1, d1, after)
    BY <2>1, <2>2, QueryGrows
  <2> QED
    BY <2>1, <2>3
<1>5. CASE ~(Len(ss) < Slots)
  <2>1. More(ss, S) = Failed
    BY <1>5 DEF More
  <2>2. \A id \in Proc : /\ \E f : Computed(f, e1, d1, id)
                         /\ \A f : Computed(f, e1, d1, id) =>
                              \E st : Means(st, ss, id) /\ f[Len(e1)] = Eval(d1, st, t, id)
    BY QueryExtends
  <2> HIDE DEF e1, d1
  <2>3. ASSUME NEW id \in Proc, NEW st, Means(st, ss, id) PROVE Eval(d1, st, t, id) = Failed
    <3>1. PICK b \in BOOLEAN : (b <=> id \in S) /\ Eval(d1, st, t, id) = More(st, b)
      BY <1>3
    <3> QED
      BY <1>2, <1>5, <2>3, <3>1 DEF More
  <2>4. QueryFails(e1, d1)
    BY <2>2, <2>3 DEF QueryFails
  <2> QED
    BY <2>1, <2>4 DEF e1, d1
<1> QED
  BY <1>4, <1>5

\* The query of the receiver means its sets, or fails as they do.
QueryInv == IF sets = Failed THEN QueryFails(exp, data) ELSE QueryMeans(exp, data, sets)

LEMMA QueryBuilt ==
  ASSUME QueryInv, Build
  PROVE  QueryInv'
<1>0. /\ QueryMeans(exp, data, sets)
      /\ exp \in Seq(TermType) /\ data \in Seq(Proc) /\ sets \in Seq(SUBSET Proc) /\ Len(sets) \in Nat
      /\ Len(data) \in Nat
  <2>1. sets # Failed
    BY DEF Build, MatchAny, MatchOne, MatchGroup, OpNot, Operate, Simple, Building
  <2> QED
    BY <2>1 DEF QueryInv, QueryMeans
<1>1. CASE MatchAny
  <2> DEFINE t == Term("any", 0, 0)
  <2>1. exp' = Append(exp, t) /\ data' = data \o <<>> /\ sets' = More(sets, Proc) /\ t \in TermType
    BY <1>0, <1>1 DEF MatchAny, Term, TermType
  <2>2. Within(t, data \o <<>>) /\ <<>> \in Seq(Proc) /\ t.op = "any"
    BY <1>0 DEF Within, Term
  <2> HIDE DEF t
  <2>3. ASSUME NEW id \in Proc, NEW st
        PROVE  \E b \in BOOLEAN : (b <=> id \in Proc) /\ Eval(data \o <<>>, st, t, id) = More(st, b)
    <3>1. Eval(data \o <<>>, st, t, id) = More(st, TRUE)
      BY <2>2 DEF Eval
    <3> QED
      BY <3>1
  <2> QED
    BY <1>0, <2>1, <2>2, <2>3, QueryPushes DEF QueryInv
<1>2. ASSUME NEW one \in Proc, MatchOne(one) PROVE QueryInv'
  <2> DEFINE t == Term("one", Len(data) + 1, 1)
             d == data \o <<one>>
  <2>1. exp' = Append(exp, t) /\ data' = d /\ sets' = More(sets, {one}) /\ t \in TermType
    <3>1. exp' = Append(exp, t) /\ data' = Append(data, one) /\ sets' = More(sets, {one})
      BY <1>2 DEF MatchOne
    <3>2. Append(data, one) = d /\ t \in TermType
      BY <1>0 DEF Term, TermType
    <3> QED
      BY <3>1, <3>2
  <2>2. /\ t.op = "one" /\ t.at = Len(data) + 1 /\ t.n = 1 /\ <<one>> \in Seq(Proc)
        /\ Len(d) = Len(data) + 1 /\ d[Len(data) + 1] = one
    BY <1>0 DEF Term
  <2> HIDE DEF t
  <2>3. Within(t, d)
    <3> HIDE DEF d
    <3> QED
      BY <1>0, <2>2 DEF Within
  <2>4. ASSUME NEW id \in Proc, NEW st
        PROVE  \E b \in BOOLEAN : (b <=> id \in {one}) /\ Eval(d, st, t, id) = More(st, b)
    <3> DEFINE b == \E i \in t.at..(t.at + t.n - 1) : d[i] = id
    <3>1. b \in BOOLEAN /\ (b <=> id \in {one})
      <4> HIDE DEF d
      <4>1. t.at..(t.at + t.n - 1) = {Len(data) + 1}
        BY <1>0, <2>2
      <4> QED
        BY <2>2, <4>1
    <3>2. Eval(d, st, t, id) = More(st, b)
      <4> HIDE DEF d
      <4> QED
        BY <2>2 DEF Eval
    <3> HIDE DEF b, d
    <3> QED
      BY <3>1, <3>2
  <2>5. {one} \in SUBSET Proc
    OBVIOUS
  <2> HIDE DEF d
  <2>6. IF More(sets, {one}) = Failed THEN QueryFails(Append(exp, t), d)
        ELSE QueryMeans(Append(exp, t), d, More(sets, {one}))
    BY <1>0, <2>1, <2>2, <2>3, <2>4, <2>5, QueryPushes DEF d
  <2> QED
    BY <2>1, <2>6 DEF QueryInv
<1>3. ASSUME NEW ids \in Groups, MatchGroup(ids) PROVE QueryInv'
  <2> DEFINE t == Term("group", Len(data) + 1, Len(ids))
             d == data \o ids
  <2>0. ids \in Seq(Proc) /\ Len(ids) \in Nat
    BY ConstantsAssumption DEF ConstantsAssumption
  <2>1. exp' = Append(exp, t) /\ data' = d /\ sets' = More(sets, ToSet(ids)) /\ t \in TermType
    BY <1>0, <1>3, <2>0 DEF MatchGroup, Term, TermType
  <2>2. /\ t.op = "group" /\ t.at = Len(data) + 1 /\ t.n = Len(ids)
        /\ Len(d) = Len(data) + Len(ids) /\ ToSet(ids) \in SUBSET Proc
        /\ \A i \in 1..Len(ids) : d[Len(data) + i] = ids[i]
    BY <1>0, <2>0 DEF Term, ToSet
  <2> HIDE DEF t
  <2>3. Within(t, d)
    <3> HIDE DEF d
    <3> QED
      BY <1>0, <2>0, <2>2 DEF Within
  <2>4. ASSUME NEW id \in Proc, NEW st
        PROVE  \E b \in BOOLEAN : (b <=> id \in ToSet(ids)) /\ Eval(d, st, t, id) = More(st, b)
    <3> DEFINE b == \E i \in t.at..(t.at + t.n - 1) : d[i] = id
    <3>1. b \in BOOLEAN /\ (b <=> id \in ToSet(ids))
      <4> HIDE DEF d
      <4>1. /\ \A i \in t.at..(t.at + t.n - 1) : i - Len(data) \in 1..Len(ids) /\ i = Len(data) + (i - Len(data))
            /\ \A i \in 1..Len(ids) : Len(data) + i \in t.at..(t.at + t.n - 1)
        BY <1>0, <2>0, <2>2
      <4>2. id \in ToSet(ids) <=> \E i \in 1..Len(ids) : ids[i] = id
        BY <2>0 DEF ToSet
      <4>3. ASSUME NEW i \in t.at..(t.at + t.n - 1), d[i] = id PROVE id \in ToSet(ids)
        <5>1. i - Len(data) \in 1..Len(ids) /\ d[Len(data) + (i - Len(data))] = id
          BY <4>1, <4>3
        <5> QED
          BY <2>2, <4>2, <5>1
      <4>4. ASSUME id \in ToSet(ids) PROVE b
        BY <2>2, <4>1, <4>2, <4>4
      <4> QED
        BY <4>3, <4>4
    <3>2. Eval(d, st, t, id) = More(st, b)
      <4> HIDE DEF d
      <4> QED
        BY <2>2 DEF Eval
    <3> HIDE DEF b, d
    <3> QED
      BY <3>1, <3>2
  <2> HIDE DEF d
  <2>5. IF More(sets, ToSet(ids)) = Failed THEN QueryFails(Append(exp, t), d)
        ELSE QueryMeans(Append(exp, t), d, More(sets, ToSet(ids)))
    BY <1>0, <2>0, <2>1, <2>2, <2>3, <2>4, QueryPushes DEF d
  <2> QED
    BY <2>1, <2>5 DEF QueryInv
<1>4. ASSUME NEW op \in Binary, Operate(op) PROVE QueryInv'
  <2> DEFINE t == Term(op, 0, 0)
             n == Len(sets)
             low == SubSeq(sets, 1, n - 2)
             S == Meaning(op, sets[n - 1], sets[n])
  <2>1. exp' = Append(exp, t) /\ data' = data \o <<>> /\ sets' = Append(low, S) /\ t \in TermType /\ n >= 2
    BY <1>0, <1>4 DEF Operate, Term, TermType
  <2>2. t.op = op /\ Within(t, data \o <<>>) /\ <<>> \in Seq(Proc)
    BY DEF Within, Term, Binary
  <2> HIDE DEF t
  <2>3. low \in Seq(SUBSET Proc)
    BY <1>0, <2>1
  <2>4. n \in 1..n /\ n - 1 \in 1..n /\ sets[n - 1] \in SUBSET Proc /\ sets[n] \in SUBSET Proc
    BY <1>0, <2>1
  <2>5. S \in SUBSET Proc
    BY <2>4 DEF Meaning
  <2>6. Append(low, S) \in Seq(SUBSET Proc)
    <3> HIDE DEF low, S
    <3> QED
      BY <2>3, <2>5
  <2>7. ASSUME NEW id \in Proc, NEW st, Means(st, sets, id)
        PROVE  Means(Eval(data \o <<>>, st, t, id), Append(low, S), id)
    <3> DEFINE x == st[n - 1]
               y == st[n]
               b == IF op = "and" THEN x /\ y ELSE IF op = "or" THEN x \/ y ELSE x # y
    <3>1. Len(st) = n /\ x \in BOOLEAN /\ y \in BOOLEAN /\ (x <=> id \in sets[n - 1]) /\ (y <=> id \in sets[n])
      BY <1>0, <2>4, <2>7 DEF Means
    <3>2. b \in BOOLEAN /\ (b <=> id \in S)
      <4> HIDE DEF x, y
      <4>1. CASE op = "and"
        BY <3>1, <4>1 DEF Meaning
      <4>2. CASE op = "or"
        BY <3>1, <4>2 DEF Meaning
      <4>3. CASE op = "xor"
        BY <3>1, <4>3 DEF Meaning
      <4> QED
        BY <4>1, <4>2, <4>3 DEF Binary
    <3>3. Eval(data \o <<>>, st, t, id) = Append(SubSeq(st, 1, n - 2), b)
      <4>1. CASE op = "and"
        BY <2>2, <3>1, <4>1 DEF Eval
      <4>2. CASE op = "or"
        BY <2>2, <3>1, <4>2 DEF Eval
      <4>3. CASE op = "xor"
        BY <2>2, <3>1, <4>3 DEF Eval
      <4> QED
        BY <4>1, <4>2, <4>3 DEF Binary
    <3> HIDE DEF b, S
    <3>4. Means(SubSeq(st, 1, n - 2), low, id)
      BY <1>0, <2>1, <2>7, MeansPop
    <3> HIDE DEF low
    <3> QED
      BY <2>3, <2>5, <3>2, <3>3, <3>4, MeansPush
  <2> HIDE DEF low, S
  <2>8. QueryMeans(Append(exp, t), data \o <<>>, Append(low, S))
    BY <1>0, <2>1, <2>2, <2>6, <2>7, QueryGrows, Zenon
  <2> QED
    BY <2>1, <2>6, <2>8, FailedIsNone DEF QueryInv
<1>5. CASE OpNot
  <2> DEFINE t == Term("not", 0, 0)
             n == Len(sets)
             after == [sets EXCEPT ![n] = Proc \ @]
  <2>1. exp' = Append(exp, t) /\ data' = data \o <<>> /\ sets' = after /\ t \in TermType /\ n >= 1
    BY <1>0, <1>5 DEF OpNot, Term, TermType
  <2>2. t.op = "not" /\ Within(t, data \o <<>>) /\ <<>> \in Seq(Proc)
    BY DEF Within, Term
  <2> HIDE DEF t
  <2>3. /\ after \in Seq(SUBSET Proc) /\ Len(after) = n /\ after[n] = Proc \ sets[n] /\ n \in 1..n
        /\ \A k \in 1..n : k # n => after[k] = sets[k]
    BY <1>0, <2>1
  <2> HIDE DEF after
  <2>4. ASSUME NEW id \in Proc, NEW st, Means(st, sets, id)
        PROVE  Means(Eval(data \o <<>>, st, t, id), after, id)
    <3> DEFINE v == ~st[n]
               u == [st EXCEPT ![n] = v]
    <3>1. Len(st) = n /\ st \in Seq(BOOLEAN) /\ st[n] \in BOOLEAN /\ (st[n] <=> id \in sets[n])
      BY <1>0, <2>3, <2>4 DEF Means
    <3>2. Eval(data \o <<>>, st, t, id) = u
      BY <2>2, <3>1 DEF Eval
    <3>0. v \in BOOLEAN /\ (v <=> ~st[n])
      BY <3>1
    <3> HIDE DEF v
    <3>3. /\ u \in Seq(BOOLEAN) /\ Len(u) = n /\ (u[n] <=> ~st[n])
          /\ \A k \in 1..n : k # n => u[k] = st[k]
      BY <1>0, <2>3, <3>1, <3>0
    <3> HIDE DEF u
    <3>4. \A k \in 1..n : u[k] <=> id \in after[k]
      BY <2>3, <2>4, <3>1, <3>3 DEF Means
    <3> QED
      BY <2>3, <3>2, <3>3, <3>4 DEF Means
  <2>5. QueryMeans(Append(exp, t), data \o <<>>, after)
    BY <1>0, <2>1, <2>2, <2>3, <2>4, QueryGrows, Zenon
  <2> QED
    BY <2>1, <2>3, <2>5, FailedIsNone DEF QueryInv
<1>6. ASSUME NEW id, Simple(id) PROVE QueryInv'
  BY <1>6 DEF Simple, QueryInv
<1> QED
  BY <1>1, <1>2, <1>3, <1>4, <1>5, <1>6 DEF Build

LEMMA QueryForgotten == QueryMeans(<<>>, <<>>, <<>>)
<1>1. ASSUME NEW id \in Proc, NEW f, Computed(f, <<>>, <<>>, id) PROVE f[0] = <<>>
  BY <1>1 DEF Computed
<1>2. ASSUME NEW id \in Proc PROVE \E f : Computed(f, <<>>, <<>>, id)
  <2> DEFINE f == [k \in 0..0 |-> <<>>]
  <2>1. Computed(f, <<>>, <<>>, id)
    BY DEF Computed
  <2> QED
    BY <2>1
<1>3. \A id : Means(<<>>, <<>>, id)
  BY DEF Means
<1>4. /\ <<>> \in Seq(TermType) /\ <<>> \in Seq(Proc) /\ <<>> \in Seq(SUBSET Proc) /\ Len(<<>>) = 0
      /\ \A k \in 1..Len(<<>>) : Within(<<>>[k], <<>>)
  OBVIOUS
<1> QED
  BY <1>1, <1>2, <1>3, <1>4, Zenon DEF QueryMeans

\* Every prefix of a postfix query means the sets its calls say: the results uuid_query::query
\* computes on a uuid are, one by one, whether the uuid is in them, as long as the results
\* have room in its array; with no room the assertion of the array fails on every uuid.
THEOREM QueriesMeanSets == Spec => []QueryIsItsSets
<1>0. <<>> # Failed
  <2>1. <<>> \in Seq(BOOLEAN)
    OBVIOUS
  <2> QED
    BY <2>1, FailedIsNone
<1>1. Init => QueryInv
  BY <1>0, QueryForgotten DEF Init, QueryInv
<1>2. ASSUME QueryInv, [Next]_vars PROVE QueryInv'
  <2>1. CASE Build
    BY <1>2, <2>1, QueryBuilt
  <2>2. CASE Receive
    <3>1. UNCHANGED queryVars \/ Forget
      BY <2>2 DEF Receive, RecvMsg, WaitMsg
    <3> QED
      BY <1>0, <1>2, <3>1, QueryForgotten DEF queryVars, Forget, QueryInv
  <2>3. CASE UNCHANGED queryVars
    BY <1>2, <2>3 DEF queryVars, QueryInv
  <2>4. StartRecv \/ TimeOut \/ UnregContext \/ (\E t : StartWait(t)) => UNCHANGED queryVars
    BY DEF StartRecv, TimeOut, UnregContext, StartWait
  <2>5. ASSUME NEW p \in Proc, Bcast(p) \/ Deliver(p) \/ SendMsg(p, Receiver) PROVE UNCHANGED queryVars
    BY <2>5 DEF Bcast, Deliver, NextTarget, Push, Notify, React, ReactRecv, SendMsg
  <2> QED
    BY <1>2, <2>1, <2>2, <2>3, <2>4, <2>5 DEF Next, vars
<1>3. QueryInv => QueryIsItsSets
  <2> SUFFICES ASSUME QueryInv PROVE QueryIsItsSets
    OBVIOUS
  <2>1. sets # Failed => DOMAIN sets = 1..Len(sets)
    <3>1. sets # Failed => sets \in Seq(SUBSET Proc)
      BY DEF QueryInv, QueryMeans
    <3> QED
      BY <3>1
  <2>2. ASSUME NEW id \in Proc
        PROVE  IF sets = Failed THEN Stack(id) = Failed ELSE Means(Stack(id), sets, id)
    <3>1. PICK f : Computed(f, exp, data, id)
      BY DEF QueryInv, QueryMeans, QueryFails
    <3> DEFINE st == CHOOSE g : Computed(g, exp, data, id)
    <3>2. Computed(st, exp, data, id)
      BY <3>1
    <3>3. Stack(id) = st[Len(exp)]
      BY DEF Stack, Computed
    <3> HIDE DEF st
    <3> QED
      BY <3>2, <3>3 DEF QueryInv, QueryMeans, QueryFails
  <2> QED
    BY <2>1, <2>2, FailedIsNone DEF QueryIsItsSets, Means
<1> QED
  BY <1>1, <1>2, <1>3, PTL DEF Spec
=============================================================================
