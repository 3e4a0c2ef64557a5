------------------------------- MODULE Mailbox -------------------------------
(***************************************************************************)
(* The mailbox of a process of a local agent (send_msg, send_msg_bcast,    *)
(* recv_msg and wait_msg of agent/localagent.cpp) and the postfix queries  *)
(* that choose from it (uuid_query of agent/agent.cpp).                    *)
(*                                                                         *)
(* One process receives; it builds a query, one call after the other, and  *)
(* waits for a message that matches. The others send, each from a thread   *)
(* of its own, which is also the one that calls the receiver's reactor, if *)
(* it has one. A step is a critical section of the mailbox's lock, or what *)
(* a thread does between two of them.                                      *)
(***************************************************************************)
EXTENDS Integers, Sequences, FiniteSets, SequencesExt

CONSTANTS
  Proc,       \* the uuids of the processes
  Receiver,   \* the one that receives
  Serving,    \* those with the service of the broadcasts (pm_services)
  Reacting,   \* those registered with a reactor (pm_reactor)
  Groups,     \* the arrays of uuids given to match_group
  Slots,      \* the results a query has room for (32 in the code)
  Failed,     \* what a query is that had no room
  MaxQuery,   \* bound: the calls that build one query
  MaxSent     \* bound: the send calls of each process

NoProc == 0

ASSUME ConstantsAssumption ==
  /\ Proc \subseteq Nat \ {0} /\ IsFiniteSet(Proc) /\ Receiver \in Proc
  /\ Serving \subseteq Proc /\ Reacting \subseteq Proc
  /\ Groups \subseteq Seq(Proc)
  /\ Slots \in Nat /\ Failed \notin Seq(BOOLEAN) \cup Seq(SUBSET Proc)
  /\ MaxQuery \in Nat /\ MaxSent \in [Proc -> Nat]

VARIABLES
  exp,     \* dm_exp: the terms of the query, with their places in dm_data
  data,    \* dm_data
  simple,  \* dm_simpleuuid
  sets,    \* history: what the terms mean, a stack of sets of uuids, or Failed
  onmap,   \* the processes on pm_ps
  queue,   \* pm_msgqueue of each
  pc,      \* where the thread of each process is
  target,  \* the process a sender is about
  rest,    \* what is left of the targetlist of its broadcast
  calls,   \* the send calls it made
  limit,   \* the timeout of the receiver's wait_msg: 0, "timed" or "poll"
  sent,    \* history: the messages sent[p][q] of p to q
  got,     \* history: the last one of each that was received from its box
  own      \* history: the receiver's own thread has received

queryVars == <<exp, data, simple, sets>>
sendVars == <<target, rest, calls, sent>>
recvVars == <<limit, got, own>>
vars == <<queryVars, onmap, queue, pc, sendVars, recvVars>>

Init ==
  /\ exp = <<>> /\ data = <<>> /\ simple = NoProc /\ sets = <<>>
  /\ onmap = Proc
  /\ queue = [p \in Proc |-> <<>>]
  /\ pc = [p \in Proc |-> "idle"]
  /\ target = [p \in Proc |-> NoProc] /\ rest = [p \in Proc |-> <<>>]
  /\ calls = [p \in Proc |-> 0]
  /\ limit = "none" /\ own = FALSE
  /\ sent = [p \in Proc |-> [q \in Proc |-> 0]]
  /\ got = [p \in Proc |-> 0]

-----------------------------------------------------------------------------
(* Queries.                                                                *)

Term(op, at, n) == [op |-> op, at |-> at, n |-> n]
Binary == {"and", "or", "xor"}

\* A result more, in a fixed_array that asserts its bounds.
More(st, b) == IF Len(st) < Slots THEN Append(st, b) ELSE Failed

\* Mutant: op_xor_c as an or.
EvalXorAsOr(d, st, t, id) ==
  LET n == Len(st)
      two(b) == Append(SubSeq(st, 1, n - 2), b)
  IN  CASE t.op = "any" -> More(st, TRUE)
        [] t.op \in {"one", "group"} -> More(st, \E i \in t.at..(t.at + t.n - 1) : d[i] = id)
        [] t.op = "and" -> two(st[n - 1] /\ st[n])
        [] t.op \in {"or", "xor"} -> two(st[n - 1] \/ st[n])
        [] OTHER -> [st EXCEPT ![n] = ~@]

\* query: one term of the expression on the stack of results; d is dm_data.
Eval(d, st, t, id) ==
  LET n == Len(st)
      two(b) == Append(SubSeq(st, 1, n - 2), b)
  IN  CASE t.op = "any" -> More(st, TRUE)
        [] t.op \in {"one", "group"} -> More(st, \E i \in t.at..(t.at + t.n - 1) : d[i] = id)
        [] t.op = "and" -> two(st[n - 1] /\ st[n])
        [] t.op = "or" -> two(st[n - 1] \/ st[n])
        [] t.op = "xor" -> two(st[n - 1] # st[n])
        [] OTHER -> [st EXCEPT ![n] = ~@]

Stack(id) ==
  LET st[k \in 0..Len(exp)] == IF k = 0 THEN <<>> ELSE Eval(data, st[k - 1], exp[k], id)
  IN  st[Len(exp)]

\* The assertions of query: the results had room, and one is left.
Asserted(st) == st # Failed /\ Len(st) = 1
Query(id) ==
  IF exp = <<>> THEN simple \in {id, NoProc} ELSE LET st == Stack(id) IN Asserted(st) /\ st[1]

\* What a program gives to recv_msg and wait_msg: a query of one result (what query
\* asserts), or one that had no room.
Complete == exp # <<>> /\ sets # Failed => Len(sets) = 1

\* One more call of the receiver on its query, of which grown are the results. (The calls
\* after one that had no room are left out: the query fails whatever they are.) Bound:
\* MaxQuery calls will complete it or, most of them match_any, fill it; once a message is
\* received one call.
Building(grown) ==
  /\ pc[Receiver] = "idle" /\ Receiver \in onmap /\ simple = NoProc /\ sets # Failed
  /\ LET bound == IF \A p \in Proc : got[p] = 0 THEN MaxQuery ELSE 1
     IN  Len(exp) < bound /\ (Len(exp) + grown <= bound \/ (grown > Slots /\ data = <<>>))
SendSame == UNCHANGED <<onmap, queue, pc, sendVars>>

MatchAny ==
  /\ Building(Len(sets) + 1)
  /\ exp' = Append(exp, Term("any", 0, 0)) /\ sets' = More(sets, Proc)
  /\ UNCHANGED <<data, simple, recvVars>> /\ SendSame

MatchOne(id) ==
  /\ Building(Len(sets) + 1)
  /\ exp' = Append(exp, Term("one", Len(data) + 1, 1))
  /\ data' = Append(data, id) /\ sets' = More(sets, {id})
  /\ UNCHANGED <<simple, recvVars>> /\ SendSame

MatchGroup(ids) ==
  /\ Building(Len(sets) + 1)
  /\ exp' = Append(exp, Term("group", Len(data) + 1, Len(ids)))
  /\ data' = data \o ids /\ sets' = More(sets, ToSet(ids))
  /\ UNCHANGED <<simple, recvVars>> /\ SendSame

\* op_and, op_or and op_xor
Meaning(op, A, B) ==
  CASE op = "and" -> A \cap B [] op = "or" -> A \cup B [] OTHER -> (A \ B) \cup (B \ A)
Operate(op) ==
  LET n == Len(sets)
  IN  /\ Building(n - 1) /\ n >= 2
      /\ exp' = Append(exp, Term(op, 0, 0))
      /\ sets' = Append(SubSeq(sets, 1, n - 2), Meaning(op, sets[n - 1], sets[n]))
      /\ UNCHANGED <<data, simple, recvVars>> /\ SendSame

OpNot ==
  /\ Building(Len(sets)) /\ sets # <<>>
  /\ exp' = Append(exp, Term("not", 0, 0))
  /\ sets' = [sets EXCEPT ![Len(sets)] = Proc \ @]
  /\ UNCHANGED <<data, simple, recvVars>> /\ SendSame

\* uuid_query(simplecase)
Simple(id) ==
  /\ exp = <<>> /\ Building(0)
  /\ simple' = id
  /\ UNCHANGED <<exp, data, sets, recvVars>> /\ SendSame

-----------------------------------------------------------------------------
(* Sending.                                                                *)

\* An assertion that fails ends the program.
Alive == pc[Receiver] # "aborted"
Sends(p) == Alive /\ p # Receiver /\ pc[p] = "idle" /\ calls[p] < MaxSent[p]

\* get_ps(dest): a process that is not on the map gets nothing.
FindDest(p, q) ==
  /\ sent' = [sent EXCEPT ![p][q] = @ + 1]
  /\ IF q \in onmap
     THEN pc' = [pc EXCEPT ![p] = "push"] /\ target' = [target EXCEPT ![p] = q]
     ELSE pc' = [pc EXCEPT ![p] = "next"] /\ UNCHANGED target

SendMsg(p, q) ==
  /\ Sends(p)
  /\ calls' = [calls EXCEPT ![p] = @ + 1]
  /\ FindDest(p, q)
  /\ UNCHANGED <<queryVars, onmap, queue, rest, recvVars>>

\* send_msg_bcast takes the list of the processes with the service under the lock.
Bcast(p) ==
  /\ Sends(p)
  /\ calls' = [calls EXCEPT ![p] = @ + 1]
  /\ rest' = [rest EXCEPT ![p] = SetToSortSeq(Serving \cap onmap, <)]
  /\ pc' = [pc EXCEPT ![p] = "next"]
  /\ UNCHANGED <<queryVars, onmap, queue, target, sent, recvVars>>

NextTarget(p) ==
  /\ pc[p] = "next"
  /\ IF rest[p] = <<>>
     THEN pc' = [pc EXCEPT ![p] = "idle"] /\ UNCHANGED <<target, rest, sent>>
     ELSE FindDest(p, Head(rest[p])) /\ rest' = [rest EXCEPT ![p] = Tail(@)]
  /\ UNCHANGED <<queryVars, onmap, queue, calls, recvVars>>

\* The process may have left the map since it was found: the message is lost then.
Push(p) ==
  /\ pc[p] = "push"
  /\ queue' = [queue EXCEPT ![target[p]] = Append(@, [src |-> p, n |-> sent[p][target[p]]])]
  /\ pc' = [pc EXCEPT ![p] = "notify"]
  /\ UNCHANGED <<queryVars, onmap, sendVars, recvVars>>

\* Mutant: only who waits in recv_msg is woken.
WokenRecv(b) == IF b = "recvblocked" THEN "recv" ELSE b
Woken(b) == CASE b = "recvblocked" -> "recv" [] b = "waitblocked" -> "wait" [] OTHER -> b
\* A timed wait_msg looks a second time and no more.
Shortened == IF pc[Receiver] = "waitblocked" /\ limit = "timed" THEN "poll" ELSE limit

\* pm_condition.notify_all, without the lock
Notify(p) ==
  LET q == target[p]
  IN  /\ pc[p] = "notify"
      /\ pc' = [pc EXCEPT ![q] = Woken(@), ![p] = IF q \in Reacting THEN "react" ELSE "next"]
      /\ limit' = IF q = Receiver THEN Shortened ELSE limit
      /\ UNCHANGED <<queryVars, onmap, queue, sendVars, got, own>>

\* The reactor read under the lock is called when the lock is long gone. That of the
\* receiver may do nothing, or recv_msg from anyone, which finds its process first.
React(p) ==
  /\ pc[p] = "react"
  /\ \/ pc' = [pc EXCEPT ![p] = "next"]
     \/ target[p] = Receiver /\ Receiver \in onmap /\ pc' = [pc EXCEPT ![p] = "reactrecv"]
  /\ UNCHANGED <<queryVars, onmap, queue, sendVars, recvVars>>

Box == queue[Receiver]

\* Mutant: the reactor is given all there is.
ReactRecvAll(p) ==
  /\ pc[p] = "reactrecv" /\ Box # <<>>
  /\ got' = [q \in Proc |-> sent[q][Receiver]]
  /\ queue' = [queue EXCEPT ![Receiver] = <<>>]
  /\ pc' = [pc EXCEPT ![p] = "next"]
  /\ UNCHANGED <<queryVars, onmap, sendVars, limit, own>>

\* recv_msg in the sender's thread: on an empty box it waits there.
ReactRecv(p) ==
  /\ pc[p] = "reactrecv" /\ Box # <<>>
  /\ got' = [got EXCEPT ![Box[1].src] = Box[1].n]
  /\ queue' = [queue EXCEPT ![Receiver] = RemoveAt(@, 1)]
  /\ pc' = [pc EXCEPT ![p] = "next"]
  /\ UNCHANGED <<queryVars, onmap, sendVars, limit, own>>

-----------------------------------------------------------------------------
(* Receiving.                                                              *)

Matching == {i \in DOMAIN Box : Query(Box[i].src)}

\* Mutant: the last match is taken.
LastMatch == LET M == Matching IN CHOOSE i \in M : \A j \in M : j <= i
FirstMatch == LET M == Matching IN CHOOSE i \in M : \A j \in M : i <= j

Forget == exp' = <<>> /\ data' = <<>> /\ simple' = NoProc /\ sets' = <<>>

\* A query is evaluated on the first message before any can match.
Fails == exp # <<>> /\ Box # <<>> /\ ~Asserted(Stack(Box[1].src))
Abort == pc' = [pc EXCEPT ![Receiver] = "aborted"]

StartRecv ==
  /\ pc[Receiver] = "idle" /\ Receiver \in onmap /\ Complete
  /\ pc' = [pc EXCEPT ![Receiver] = "recv"]
  /\ UNCHANGED <<queryVars, onmap, queue, sendVars, recvVars>>

RecvMsg ==
  /\ pc[Receiver] = "recv"
  /\ \/ Fails /\ Abort /\ UNCHANGED <<queryVars, queue, got, own>>
     \/ /\ Matching # {}
        /\ LET i == FirstMatch
           IN  /\ got' = [got EXCEPT ![Box[i].src] = Box[i].n]
               /\ queue' = [queue EXCEPT ![Receiver] = RemoveAt(@, i)]
        /\ own' = TRUE
        /\ pc' = [pc EXCEPT ![Receiver] = "idle"]
        /\ Forget
     \/ /\ ~Fails /\ Matching = {}
        /\ pc' = [pc EXCEPT ![Receiver] = "recvblocked"]
        /\ UNCHANGED <<queryVars, queue, got, own>>
  /\ UNCHANGED <<onmap, sendVars, limit>>

\* wait_msg with a timeout of 0 or more, and has_msg ("poll")
StartWait(t) ==
  /\ pc[Receiver] = "idle" /\ Receiver \in onmap /\ Complete
  /\ limit' = t
  /\ pc' = [pc EXCEPT ![Receiver] = "wait"]
  /\ UNCHANGED <<queryVars, onmap, queue, sendVars, got, own>>

\* wait_msg takes nothing: what it has seen stays for a recv_msg, of whoever comes first.
WaitMsg ==
  /\ pc[Receiver] = "wait"
  /\ \/ Fails /\ Abort /\ UNCHANGED <<queryVars, limit>>
     \/ /\ ~Fails /\ (Matching # {} \/ limit = "poll")
        /\ pc' = [pc EXCEPT ![Receiver] = "idle"] /\ limit' = "none" /\ Forget
     \/ /\ ~Fails /\ Matching = {} /\ limit # "poll"
        /\ pc' = [pc EXCEPT ![Receiver] = "waitblocked"]
        /\ UNCHANGED <<queryVars, limit>>
  /\ UNCHANGED <<onmap, queue, sendVars, got, own>>

TimeOut ==
  /\ pc[Receiver] = "waitblocked" /\ limit = "timed"
  /\ limit' = "poll"
  /\ pc' = [pc EXCEPT ![Receiver] = "wait"]
  /\ UNCHANGED <<queryVars, onmap, queue, sendVars, got, own>>

\* unreg_context, when the receiver's context goes out of scope
UnregContext ==
  /\ pc[Receiver] = "idle" /\ Receiver \in onmap
  /\ onmap' = onmap \ {Receiver}
  /\ UNCHANGED <<queryVars, queue, pc, sendVars, recvVars>>

-----------------------------------------------------------------------------

Build ==
  \/ MatchAny \/ OpNot
  \/ \E id \in Proc \ {Receiver} : MatchOne(id) \/ Simple(id)
  \/ \E ids \in Groups : MatchGroup(ids)
  \/ \E op \in Binary : Operate(op)

Receive == RecvMsg \/ WaitMsg
Deliver(p) == Alive /\ (NextTarget(p) \/ Push(p) \/ Notify(p) \/ React(p) \/ ReactRecv(p))

Next ==
  \/ Build \/ StartRecv \/ Receive \/ TimeOut \/ UnregContext
  \/ \E t \in {"none", "timed", "poll"} : StartWait(t)
  \/ \E p \in Proc : Bcast(p) \/ Deliver(p) \/ SendMsg(p, Receiver)

Spec == Init /\ [][Next]_vars

\* Threads that are inside a call and not blocked go on. Nobody has to call, and no
\* time out has to come.
Fairness == WF_vars(Receive) /\ \A p \in Proc \ {Receiver} : WF_vars(Deliver(p))
FairSpec == Spec /\ Fairness

-----------------------------------------------------------------------------
(* Properties.                                                             *)

\* The types of the variables.
TypeOK ==
  /\ \A i \in DOMAIN exp :
       /\ exp[i].op \in {"any", "one", "group", "not"} \cup Binary
       /\ exp[i].at + exp[i].n <= Len(data) + 1
  /\ ToSet(data) \subseteq Proc /\ simple \in Proc \cup {NoProc}
  /\ sets = Failed \/ \A k \in DOMAIN sets : sets[k] \subseteq Proc
  /\ onmap \subseteq Proc
  /\ \A p \in Proc : \A i \in DOMAIN queue[p] : queue[p][i].src \in Proc
  /\ pc \in [Proc -> {"idle", "push", "notify", "react", "reactrecv", "next", "recv", "recvblocked",
                      "wait", "waitblocked", "aborted"}]
  /\ target \in [Proc -> Proc \cup {NoProc}] /\ calls \in [Proc -> Nat]
  /\ \A p \in Proc : ToSet(rest[p]) \subseteq Proc
  /\ limit \in {"none", "timed", "poll"} /\ own \in BOOLEAN
  /\ sent \in [Proc -> [Proc -> Nat]] /\ got \in [Proc -> Nat]

\* Every prefix of a postfix query means the sets its calls say, on every uuid, as long
\* as its results have room; with no room it fails on every uuid.
QueryIsItsSets ==
  \A id \in Proc :
    LET st == Stack(id)
    IN  IF sets = Failed THEN st = Failed
        ELSE st # Failed /\ Len(st) = Len(sets) /\ \A k \in DOMAIN sets : st[k] <=> id \in sets[k]

\* Of the messages of p, a box q has those after a up to b, in the order of the sends.
Has(q, p, a, b) ==
  /\ a <= b
  /\ \A n \in a + 1..b : \E i \in DOMAIN q : q[i] = [src |-> p, n |-> n]
  /\ \A i \in DOMAIN q : q[i].src = p => q[i].n \in a + 1..b
  /\ \A i, j \in DOMAIN q : i < j /\ q[i].src = p /\ q[j].src = p => q[i].n < q[j].n

\* The last message of p that is, or has been, in the receiver's box.
Pushed(p) == sent[p][Receiver] - IF pc[p] = "push" /\ target[p] = Receiver THEN 1 ELSE 0

\* Whatever the queries choose and however broadcasts and sends interleave, the
\* messages of one sender are received in the order sent and none is skipped: what
\* the box has of a sender is what follows the last one received.
InOrder == Receiver \in onmap => \A p \in Proc : Has(Box, p, got[p], Pushed(p))

\* A context that leaves all its receiving to its reactor finds a message each time it is
\* called (context.h:195-203): the recv_msg in there does not stop the sender's thread,
\* whoever sends and whichever of the reactors takes which message.
ReactorFinds == ~own => \A p \in Proc : pc[p] = "reactrecv" => Box # <<>>

\* A receiver is not left asleep with a message it waits for in its box, unless its
\* reactor takes it first: no wake-up is lost between the look at the box and the wait.
ReceiverWakes ==
  pc[Receiver] \in {"recv", "recvblocked", "wait", "waitblocked"} /\ Matching # {}
    ~> pc[Receiver] = "idle" \/ Matching = {}
=============================================================================
