------------------------------ MODULE ClusterMail ------------------------------
(***************************************************************************)
(* The messages of Cluster and the threads that wait for them, for any     *)
(* number of agents, clients and tasks: what is on its way, the types of   *)
(* it all, and that a transaction is in one place at a time.               *)
(***************************************************************************)
EXTENDS Cluster, FiniteSetTheorems, TLAPS

-----------------------------------------------------------------------------
(* The messages, and where they are.                                       *)

ClientThread == {ClientT(c) : c \in Client}
ClientKinds == {"launch", "kill", "wait", "alive", "reg", "unreg", "size", "find"}
Carriers == ClientKinds \cup {"resolve", "make", "subfind", "reply"}   \* they have an xtion_t
MasterKinds == {"resolve", "launch", "reg", "unreg", "size", "find", "dead"}

Answers == {<<n>> : n \in Node \cup {NoNode}}
Parts == {<<s>> : s \in SUBSET Id}
Values == Answers \cup Parts \cup {<<0>>, <<1>>} \cup {<<Cpus(ns)>> : ns \in SUBSET Node}

\* Its master is asked for as many tasks as there are ids.
Launches == {m \in [kind : {"launch"}, req : Request, ids : Seq(Id), th : ClientThread] :
               Len(m.ids) = m.req.n}
Plain ==
  [kind : {"resolve"}, id : Id \cup Node, th : Thread]
    \cup Launches
    \cup [kind : {"make"}, id : Id, ids : SUBSET Id, phase : {1, 2}, th : {AdminT(Master)}]
    \cup [kind : {"kill", "wait", "alive", "reg", "unreg"}, id : Id, th : ClientThread]
    \cup [kind : {"data", "dead"}, id : Id]
    \cup [kind : {"size", "find"}, th : ClientThread]
    \cup [kind : {"subfind"}, th : {AdminT(Master)}]
    \cup [kind : {"backlink"}, to : Node, from : Node]
    \cup [kind : {"makelink", "removelink"}, to : Node]
    \cup [kind : {"reply"}, th : Thread, val : Values]
    \cup {Nothing}
Message == Plain \cup [kind : {"routed"}, to : Node, msg : Plain]

\* What a message is in the end, and for whom, when it is on its way to agent a.
Base(m) == IF m.kind = "routed" THEN m.msg ELSE m
Dest(m, a) == IF m.kind = "routed" THEN m.to ELSE a

\* The messages of sequence s, which is place x of the given sort, at or towards a.
Letters(s, sort, x, a) == {<<sort, x, Dest(s[i], a), Base(s[i])>> : i \in 1..Len(s)}

\* All there is in links w, admin queues q, threads that resolve an agent first o, and
\* threads whose reply came g.
InLinks(w) == UNION {Letters(w[l], "chan", l, l[2]) : l \in Node \X Node}
InQueues(q) == UNION {Letters(q[a], "queue", a, a) : a \in Node}
Held(o) == {<<"out", th, o[th].to, o[th].msg>> : th \in Thread}
Come(g) == {<<"got", th, NoNode, [kind |-> "reply", th |-> th, val |-> g[th]]>> :
              th \in {t \in Thread : g[t] # NoReply}}
Mail(w, q, o, g) == InLinks(w) \cup InQueues(q) \cup Held(o) \cup Come(g)
MailNow == Mail(chan, adminq, out, got)

\* The messages of M that thread t waits for. What it holds itself it does not wait
\* for yet.
Carries(m, t) == m.kind \in Carriers /\ m.th = t
Own(M, t) == {e \in M : Carries(e[4], t) /\ ~(e[1] = "out" /\ e[2] = t)}

\* What took over the transaction of thread t for the time being: the worker that runs
\* its client_wait_task, or the master's admin thread.
Kept(p, l, h, t) ==
  {k \in {"proxy", "launch", "hunt"} :
     \/ k = "proxy" /\ \E c \in Client : t = ClientT(c) /\ p[ProxyT(c)] = "waiting"
     \/ k = "launch" /\ l.client = t
     \/ k = "hunt" /\ h.client = t}
KeptNow(t) == Kept(pc, launch, hunt, t)

Lone(S) == \A e, f \in S : e = f
Once(s, t) == \A i, j \in 1..Len(s) : Carries(Base(s[i]), t) /\ Carries(Base(s[j]), t) => i = j
Onces(w, q) == \A t \in Thread : /\ \A l \in Node \X Node : Once(w[l], t)
                                 /\ \A a \in Node : Once(q[a], t)

-----------------------------------------------------------------------------
(* The inductive invariant.                                                *)

Waits == {"task", "agent", "reply", "made", "found"}
Pcs == Waits \cup {"idle", "waiting", "launch", "hunt", "recursing"}
Ops == {"none", "launch", "kill", "wait", "alive", "send", "size", "find", "reg", "unreg"}
Modes == OnMap \cup {"none", "ended", "gone"}

TableShape == nodes \subseteq Node /\ load \in [Node -> SUBSET Id] /\ owner \in [Id -> Node \cup {NoNode}]
ProcShape == /\ home \in [Id -> Node \cup {NoNode}] /\ mode \in [Id -> Modes]
             /\ members \in [Id -> SUBSET Id] /\ killed \subseteq Id /\ given \subseteq Id
NetShape == /\ alive \subseteq Node /\ peers \in [Node -> SUBSET Node] /\ conn \subseteq SUBSET Node
            /\ cache \in [Node -> [Id \cup Node -> Node \cup {NoNode}]]
Links == [Node \X Node -> Seq(Message)]
Queues == [Node -> Seq(Message)]
Outs == [Thread -> [to : Node \cup {NoNode}, msg : Plain, next : {"idle", "reply", "made", "found"}]]
Gots == [Thread -> Values \cup {NoReply}]
MailShape == chan \in Links /\ adminq \in Queues /\ out \in Outs /\ got \in Gots
CallShape == /\ call \in [Thread -> [op : Ops, id : Id \cup {NoId}]]
             /\ \A th \in Thread : call[th].op \in {"kill", "wait", "alive", "send"} => call[th].id \in Id
ThreadShape == /\ pc \in [Thread -> Pcs] /\ CallShape
               /\ ctx \in [Client -> Id \cup {NoId}] /\ proxyat \in [Client -> Node \cup {NoNode}]
WorkShape ==
  /\ launch \in [client : ClientThread \cup {<<>>}, ids : Seq(Id), place : {launch.place},
                 src : Node \cup {NoNode}, auto : BOOLEAN, first : {1, 2}, x : Nat \ {0},
                 phase : {1, 2}]
  /\ hunt \in [client : ClientThread \cup {<<>>}, left : SUBSET Node, found : SUBSET Id]
HistShape == told \subseteq Id /\ slain \subseteq Id /\ since \in [Client -> SUBSET Id]

Shape == /\ TableShape /\ ProcShape /\ NetShape /\ MailShape /\ ThreadShape /\ WorkShape /\ HistShape

\* Where the threads of each sort can be, and how they go on once they have a link.
PcsOf(th) ==
  CASE th[1] = "client" -> {"idle", "task", "agent", "reply", "recursing"}
    [] th[1] = "proxy" -> {"idle", "waiting", "agent"}
    [] th[1] = "recv" -> {"idle", "task", "agent", "recursing"}
    [] th = AdminT(Master) -> {"idle", "agent", "recursing", "launch", "made", "hunt", "found"}
    [] OTHER -> {"idle", "agent", "recursing"}
NextOf(th) == CASE th[1] = "client" -> {"idle", "reply"}
                [] th = AdminT(Master) -> {"idle", "made", "found"}
                [] OTHER -> {"idle"}

ControlOf(th) ==
  /\ pc[th] \in PcsOf(th)
  /\ pc[th] = "agent" => out[th].to \in Node /\ out[th].next \in NextOf(th)
  /\ pc[th] # "agent" => out[th] = NoOut
  /\ pc[th] = "task" => call[th].id \in Id /\ call[th].op \in {"kill", "wait", "alive", "send"}
                        /\ (th \in ClientThread \/ call[th].op = "send")
  /\ pc[th] = "waiting" => call[th].id \in Id
Control ==
  /\ \A th \in Thread : ControlOf(th)
  /\ \A c \in Client :
       /\ pc[ProxyT(c)] # "idle" => proxyat[c] \in Node
       /\ pc[ProxyT(c)] = "agent" => Carries(out[ProxyT(c)].msg, ClientT(c))

Launching == pc[AdminT(Master)] \in {"launch", "made"} \/ out[AdminT(Master)].next = "made"
Hunting == pc[AdminT(Master)] \in {"hunt", "found"} \/ out[AdminT(Master)].next = "found"
Work ==
  /\ IF Launching
     THEN /\ launch.client \in ClientThread
          /\ launch.first <= launch.x /\ launch.x <= Len(launch.ids) + 1
          /\ pc[AdminT(Master)] # "launch" => launch.x <= Len(launch.ids)
          /\ \A y \in launch.first..Len(launch.ids) : launch.place[y] \in Node
     ELSE launch = NoLaunch
  /\ IF Hunting THEN hunt.client \in ClientThread ELSE hunt = NoHunt

\* What a thread at p waits for.
Fit(m, p) ==
  /\ m.kind = "resolve" => p \in {"task", "agent"}
  /\ m.kind = "make" => p = "made"
  /\ m.kind = "subfind" => p = "found"
  /\ m.kind \in ClientKinds => p = "reply"
  /\ m.kind = "reply" => /\ p \in Waits
                         /\ p \in {"task", "agent"} => m.val \in Answers
                         /\ p = "found" => m.val \in Parts
Noted(e, p, o) ==
  LET m == e[4]
  IN  /\ m.kind \in MasterKinds => e[3] = Master
      /\ m.kind \in Carriers => IF e[1] = "out" /\ e[2] = m.th THEN Fit(m, o[m.th].next)
                                ELSE Fit(m, p[m.th])
FitInv == \A e \in MailNow : Noted(e, pc, out)

\* The transaction of a thread is in one place.
WaitOf(t) == /\ Lone(Own(MailNow, t)) /\ Lone(KeptNow(t)) /\ (Own(MailNow, t) = {} \/ KeptNow(t) = {})
             /\ KeptNow(t) # {} => pc[t] = "reply"
WaitInv == (\A t \in Thread : WaitOf(t)) /\ Onces(chan, adminq)

MailInv == Shape /\ Control /\ Work /\ FitInv /\ WaitInv

-----------------------------------------------------------------------------
(* Numbers. A set of numbers has a least element, so what holds of 0, and  *)
(* of n + 1 when it holds of n, holds of them all.                         *)

LEMMA Least ==
  ASSUME NEW S \in SUBSET Nat, S # {}
  PROVE  \E n \in S : \A k \in S : n <= k
<1> DEFINE R == OpToRel(<, Nat)
<1>1. IsWellFoundedOn(R, Nat)
  BY NatLessThanWellFounded
<1>2. \A x, y \in Nat : <<y, x>> \in R <=> y < x
  BY DEF OpToRel
<1> HIDE DEF R
<1>3. PICK x \in S : \A y \in S : ~(<<y, x>> \in R)
  BY <1>1, WFMin
<1>4. \A k \in S : ~(k < x)
  BY <1>2, <1>3, Zenon
<1>5. \A k \in S : k \in Nat /\ x \in Nat
  OBVIOUS
<1> QED
  BY <1>4, <1>5

LEMMA Numbers ==
  ASSUME NEW S, 0 \in S, \A n \in Nat : n \in S => n + 1 \in S
  PROVE  Nat \subseteq S
<1> SUFFICES ASSUME Nat \ S # {} PROVE FALSE
  OBVIOUS
<1>1. PICK n \in Nat \ S : \A k \in Nat \ S : n <= k
  BY Least
<1>2. n # 0 /\ n - 1 \in Nat
  OBVIOUS
<1>3. n - 1 \in S
  BY <1>1, <1>2
<1> QED
  BY <1>1, <1>2, <1>3

LEMMA Greatest ==
  ASSUME NEW T \in SUBSET Int, T # {}, IsFiniteSet(T)
  PROVE  \E n \in T : \A k \in T : k <= n
<1> DEFINE Has(U) == \E n \in U : \A k \in U : k <= n
           S == {n \in Nat : \A U \in SUBSET Int : IsFiniteSet(U) /\ Cardinality(U) = n /\ U # {} => Has(U)}
<1>1. 0 \in S
  BY FS_EmptySet
<1>2. ASSUME NEW n \in Nat, n \in S PROVE n + 1 \in S
  <2> SUFFICES ASSUME NEW U \in SUBSET Int, IsFiniteSet(U), Cardinality(U) = n + 1, U # {}
               PROVE  Has(U)
    OBVIOUS
  <2>1. PICK e : e \in U
    OBVIOUS
  <2> DEFINE V == U \ {e}
  <2>2. V \in SUBSET Int /\ IsFiniteSet(V) /\ Cardinality(V) = n
    <3>1. IsFiniteSet(V) /\ Cardinality(V) = Cardinality(U) - 1
      BY <2>1, FS_RemoveElement
    <3>2. V \in SUBSET Int
      OBVIOUS
    <3> HIDE DEF V
    <3>3. Cardinality(V) = n
      BY <3>1
    <3> QED
      BY <3>1, <3>2, <3>3
  <2>3. CASE V = {}
    BY <2>1, <2>3
  <2>4. CASE V # {}
    <3>1. PICK m \in V : \A k \in V : k <= m
      BY <1>2, <2>2, <2>4
    <3>2. m \in Int /\ e \in Int /\ m \in U /\ (\A k \in U : k \in V \/ k = e) /\ \A k \in V : k \in Int
      BY <2>1
    <3>3. CASE e <= m
      BY <3>1, <3>2, <3>3
    <3>4. CASE m <= e
      <4>1. \A k \in U : k <= e
        BY <3>1, <3>2, <3>4
      <4> QED
        BY <2>1, <4>1
    <3> QED
      BY <3>2, <3>3, <3>4
  <2> QED
    BY <2>3, <2>4
<1> HIDE DEF S
<1>3. Nat \subseteq S
  BY <1>1, <1>2, Numbers
<1>4. Cardinality(T) \in S
  BY <1>3, FS_CardinalityType
<1> QED
  BY <1>4 DEF S

-----------------------------------------------------------------------------
(* Threads and messages.                                                  *)

LEMMA Threads ==
  /\ Master \in Node /\ AdminT(Master) \in Thread /\ NoNode \notin Node
  /\ \A c \in Client : ClientT(c) \in Thread /\ ClientT(c) \in ClientThread /\ ProxyT(c) \in Thread /\ At[c] \in Node
  /\ \A a \in Node : AdminT(a) \in Thread
  /\ \A a, b \in Node : a # b => RecvT(a, b) \in Thread
  /\ ClientThread \subseteq Thread
<1>1. Master \in Node /\ NoNode \notin Node /\ \A c \in Client : At[c] \in Node
  BY ConstantsAssumption DEF ConstantsAssumption, NoNode
<1>2. \A a, b \in Node : a # b => RecvT(a, b) \in Thread
  <2> SUFFICES ASSUME NEW a \in Node, NEW b \in Node, a # b PROVE RecvT(a, b) \in Thread
    OBVIOUS
  <2> DEFINE l == <<a, b>>
  <2>1. l \in {k \in Node \X Node : k[1] # k[2]} /\ RecvT(l[1], l[2]) = RecvT(a, b)
    OBVIOUS
  <2> QED
    BY <2>1 DEF Thread
<1> QED
  BY <1>1, <1>2 DEF Thread, ClientThread

LEMMA Sorts ==
  /\ \A c, d : ClientT(c) = ClientT(d) => c = d
  /\ \A c, d : ProxyT(c) = ProxyT(d) => c = d
  /\ \A c : ClientT(c)[1] = "client" /\ ClientT(c)[2] = c
  /\ \A c : ProxyT(c)[1] = "proxy" /\ ProxyT(c)[2] = c
  /\ \A a : AdminT(a)[1] = "admin" /\ AdminT(a)[2] = a
  /\ \A a, b : RecvT(a, b)[1] = "recv" /\ RecvT(a, b)[2] = a
BY DEF ClientT, ProxyT, AdminT, RecvT

LEMMA Kinds ==
  ASSUME NEW m \in Plain
  PROVE  /\ m.kind \in Carriers \cup {"data", "dead", "backlink", "makelink", "removelink", "none"}
         /\ m.kind = "resolve" => m.id \in Id \cup Node
         /\ m.kind = "launch" => m.req \in Request /\ m.ids \in Seq(Id) /\ Len(m.ids) = m.req.n
         /\ m.kind = "make" => m.id \in Id /\ m.ids \in SUBSET Id /\ m.phase \in {1, 2} /\ m.th = AdminT(Master)
         /\ m.kind \in {"kill", "wait", "alive", "reg", "unreg", "data", "dead"} => m.id \in Id
         /\ m.kind \in ClientKinds => m.th \in ClientThread
         /\ m.kind = "subfind" => m.th = AdminT(Master)
         /\ m.kind = "backlink" => m.to \in Node /\ m.from \in Node
         /\ m.kind \in {"makelink", "removelink"} => m.to \in Node
         /\ m.kind = "reply" => m.val \in Values /\ m = [kind |-> "reply", th |-> m.th, val |-> m.val]
         /\ m.kind \in Carriers => m.th \in Thread
<1> USE DEF Carriers, ClientKinds
<1> DEFINE G ==
         /\ m.kind \in Carriers \cup {"data", "dead", "backlink", "makelink", "removelink", "none"}
         /\ m.kind = "resolve" => m.id \in Id \cup Node
         /\ m.kind = "launch" => m.req \in Request /\ m.ids \in Seq(Id) /\ Len(m.ids) = m.req.n
         /\ m.kind = "make" => m.id \in Id /\ m.ids \in SUBSET Id /\ m.phase \in {1, 2} /\ m.th = AdminT(Master)
         /\ m.kind \in {"kill", "wait", "alive", "reg", "unreg", "data", "dead"} => m.id \in Id
         /\ m.kind \in ClientKinds => m.th \in ClientThread
         /\ m.kind = "subfind" => m.th = AdminT(Master)
         /\ m.kind = "backlink" => m.to \in Node /\ m.from \in Node
         /\ m.kind \in {"makelink", "removelink"} => m.to \in Node
         /\ m.kind = "reply" => m.val \in Values /\ m = [kind |-> "reply", th |-> m.th, val |-> m.val]
         /\ m.kind \in Carriers => m.th \in Thread
<1>1. CASE m \in [kind : {"resolve"}, id : Id \cup Node, th : Thread]
  <2>1. m.kind = "resolve" /\ m.id \in Id \cup Node /\ m.th \in Thread
    BY <1>1
  <2> QED
    BY <2>1
<1>2. CASE m \in Launches
  <2>1. m.kind = "launch" /\ m.req \in Request /\ m.ids \in Seq(Id) /\ m.th \in ClientThread
        /\ Len(m.ids) = m.req.n
    BY <1>2 DEF Launches
  <2> QED
    BY <2>1, Threads
<1>3. CASE m \in [kind : {"make"}, id : Id, ids : SUBSET Id, phase : {1, 2}, th : {AdminT(Master)}]
  <2>1. m.kind = "make" /\ m.id \in Id /\ m.ids \in SUBSET Id /\ m.phase \in {1, 2} /\ m.th = AdminT(Master)
    BY <1>3
  <2> QED
    BY <2>1, Threads
<1>4. CASE m \in [kind : {"kill", "wait", "alive", "reg", "unreg"}, id : Id, th : ClientThread]
  <2>1. m.kind \in {"kill", "wait", "alive", "reg", "unreg"} /\ m.id \in Id /\ m.th \in ClientThread
    BY <1>4
  <2> QED
    BY <2>1, Threads
<1>5. CASE m \in [kind : {"data", "dead"}, id : Id]
  <2>1. m.kind \in {"data", "dead"} /\ m.id \in Id
    BY <1>5
  <2> QED
    BY <2>1
<1>6. CASE m \in [kind : {"size", "find"}, th : ClientThread]
  <2>1. m.kind \in {"size", "find"} /\ m.th \in ClientThread
    BY <1>6
  <2> QED
    BY <2>1, Threads
<1>7. CASE m \in [kind : {"subfind"}, th : {AdminT(Master)}]
  <2>1. m.kind = "subfind" /\ m.th = AdminT(Master)
    BY <1>7
  <2> QED
    BY <2>1, Threads
<1>8. CASE m \in [kind : {"backlink"}, to : Node, from : Node]
  <2>1. m.kind = "backlink" /\ m.to \in Node /\ m.from \in Node
    BY <1>8
  <2> QED
    BY <2>1
<1>9. CASE m \in [kind : {"makelink", "removelink"}, to : Node]
  <2>1. m.kind \in {"makelink", "removelink"} /\ m.to \in Node
    BY <1>9
  <2> QED
    BY <2>1
<1>10. CASE m \in [kind : {"reply"}, th : Thread, val : Values]
  <2>1. m.kind = "reply" /\ m.th \in Thread /\ m.val \in Values /\ m = [kind |-> "reply", th |-> m.th, val |-> m.val]
    BY <1>10
  <2> QED
    BY <2>1
<1>11. CASE m = Nothing
  BY <1>11 DEF Nothing
<1>12. G
  BY <1>1, <1>2, <1>3, <1>4, <1>5, <1>6, <1>7, <1>8, <1>9, <1>10, <1>11, Zenon DEF Plain
<1> QED
  BY <1>12

LEMMA PlainIs ==
  ASSUME NEW m \in Plain
  PROVE  Base(m) = m /\ m.kind # "routed" /\ m \in Message
  BY Kinds DEF Base, Message, Carriers, ClientKinds

LEMMA MessageIs ==
  ASSUME NEW m \in Message
  PROVE  /\ Base(m) \in Plain
         /\ m.kind # "routed" => m \in Plain
         /\ m.kind = "routed" => m.to \in Node /\ m.msg \in Plain
<1>1. CASE m \in Plain
  BY <1>1, PlainIs
<1>2. CASE m \in [kind : {"routed"}, to : Node, msg : Plain]
  BY <1>2 DEF Base
<1> QED
  BY <1>1, <1>2 DEF Message

-----------------------------------------------------------------------------
(* Sequences of messages.                                                  *)

LEMMA HeadTail ==
  ASSUME NEW s \in Seq(Message), s # <<>>
  PROVE  Head(s) \in Message /\ Tail(s) \in Seq(Message)
OBVIOUS

LEMMA LettersAppend ==
  ASSUME NEW s \in Seq(Message), NEW m, NEW sort, NEW x, NEW a
  PROVE  Letters(Append(s, m), sort, x, a) = Letters(s, sort, x, a) \cup {<<sort, x, Dest(m, a), Base(m)>>}
<1> DEFINE r == Append(s, m)
<1>1. /\ Len(s) \in Nat /\ Len(r) = Len(s) + 1 /\ r[Len(s) + 1] = m
      /\ \A i \in 1..Len(s) : r[i] = s[i]
  OBVIOUS
<1> HIDE DEF r
<1>2. 1..Len(r) = 1..Len(s) \cup {Len(s) + 1}
  BY <1>1
<1> QED
  BY <1>1, <1>2, Zenon DEF Letters, r

LEMMA LettersTail ==
  ASSUME NEW s \in Seq(Message), s # <<>>, NEW sort, NEW x, NEW a
  PROVE  /\ <<sort, x, Dest(Head(s), a), Base(Head(s))>> \in Letters(s, sort, x, a)
         /\ Letters(Tail(s), sort, x, a) \subseteq Letters(s, sort, x, a)
         /\ Letters(s, sort, x, a) \subseteq
              Letters(Tail(s), sort, x, a) \cup {<<sort, x, Dest(Head(s), a), Base(Head(s))>>}
<1> DEFINE r == Tail(s)
<1>1. /\ Len(s) \in Nat \ {0} /\ Len(r) = Len(s) - 1 /\ Head(s) = s[1]
      /\ \A i \in 1..Len(r) : r[i] = s[i + 1] /\ i + 1 \in 1..Len(s)
      /\ \A i \in 1..Len(s) : i = 1 \/ (i - 1 \in 1..Len(r) /\ r[i - 1] = s[i])
  OBVIOUS
<1> HIDE DEF r
<1>2. 1 \in 1..Len(s)
  BY <1>1
<1>3. <<sort, x, Dest(Head(s), a), Base(Head(s))>> \in Letters(s, sort, x, a)
  BY <1>1, <1>2, Zenon DEF Letters
<1>4. Letters(r, sort, x, a) \subseteq Letters(s, sort, x, a)
  BY <1>1, Zenon DEF Letters
<1>5. Letters(s, sort, x, a) \subseteq
              Letters(r, sort, x, a) \cup {<<sort, x, Dest(Head(s), a), Base(Head(s))>>}
  <2> SUFFICES ASSUME NEW e \in Letters(s, sort, x, a), e # <<sort, x, Dest(Head(s), a), Base(Head(s))>>
               PROVE  e \in Letters(r, sort, x, a)
    OBVIOUS
  <2>1. PICK i \in 1..Len(s) : e = <<sort, x, Dest(s[i], a), Base(s[i])>>
    BY Zenon DEF Letters
  <2>2. i # 1
    BY <1>1, <2>1
  <2>3. i - 1 \in 1..Len(r) /\ r[i - 1] = s[i]
    BY <1>1, <2>2
  <2>4. e = <<sort, x, Dest(r[i - 1], a), Base(r[i - 1])>>
    BY <2>1, <2>3
  <2> QED
    BY <2>3, <2>4, Zenon DEF Letters
<1> QED
  BY <1>3, <1>4, <1>5 DEF r

LEMMA LettersFront ==
  ASSUME NEW s \in Seq(Message), s # <<>>, NEW sort, NEW x, NEW a
  PROVE  /\ Front(s) \in Seq(Message)
         /\ Letters(Front(s), sort, x, a) \subseteq Letters(s, sort, x, a)
         /\ \A t : Once(s, t) => Once(Front(s), t)
<1> DEFINE r == Front(s)
<1>1. /\ Len(s) \in Nat \ {0} /\ r \in Seq(Message) /\ Len(r) = Len(s) - 1
      /\ \A i \in 1..Len(r) : r[i] = s[i] /\ i \in 1..Len(s)
  <2>1. Len(s) \in Nat \ {0} /\ Len(s) - 1 \in Nat
    OBVIOUS
  <2>2. r = SubSeq(s, 1, Len(s) - 1)
    BY DEF Front
  <2>3. \A i \in 1..Len(s) : s[i] \in Message
    OBVIOUS
  <2>4. r = [i \in 1..(Len(s) - 1) |-> s[i]]
    BY <2>1, <2>2
  <2> HIDE DEF r
  <2>5. r \in Seq(Message) /\ Len(r) = Len(s) - 1
    BY <2>1, <2>3, <2>4
  <2> QED
    BY <2>1, <2>4, <2>5
<1> HIDE DEF r
<1>2. Letters(r, sort, x, a) \subseteq Letters(s, sort, x, a)
  BY <1>1, Zenon DEF Letters
<1>3. \A t : Once(s, t) => Once(r, t)
  BY <1>1, Zenon DEF Once
<1> QED
  BY <1>1, <1>2, <1>3 DEF r

LEMMA OnceAppend ==
  ASSUME NEW s \in Seq(Message), NEW m, NEW t, NEW sort, NEW x, NEW a, Once(s, t),
         Carries(Base(m), t) => \A e \in Letters(s, sort, x, a) : ~Carries(e[4], t)
  PROVE  Once(Append(s, m), t)
<1> DEFINE r == Append(s, m)
<1>1. /\ Len(s) \in Nat /\ Len(r) = Len(s) + 1 /\ r[Len(s) + 1] = m
      /\ \A i \in 1..Len(s) : r[i] = s[i]
  OBVIOUS
<1> HIDE DEF r
<1>2. \A i \in 1..Len(r) : i \in 1..Len(s) \/ i = Len(s) + 1
  BY <1>1
<1>3. \A i \in 1..Len(s) : <<sort, x, Dest(s[i], a), Base(s[i])>> \in Letters(s, sort, x, a)
  BY Zenon DEF Letters
<1>4. \A i \in 1..Len(s) : ~(Carries(Base(m), t) /\ Carries(Base(s[i]), t))
  <2> SUFFICES ASSUME NEW i \in 1..Len(s), Carries(Base(m), t), Carries(Base(s[i]), t) PROVE FALSE
    OBVIOUS
  <2> DEFINE e == <<sort, x, Dest(s[i], a), Base(s[i])>>
  <2>1. e[4] = Base(s[i])
    OBVIOUS
  <2> QED
    BY <1>3, <2>1
<1>5. Once(r, t)
  BY <1>1, <1>2, <1>4, Zenon DEF Once
<1> QED
  BY <1>5 DEF r

LEMMA OnceTail ==
  ASSUME NEW s \in Seq(Message), s # <<>>, NEW t, NEW sort, NEW x, NEW a, Once(s, t)
  PROVE  /\ Once(Tail(s), t)
         /\ Carries(Base(Head(s)), t) => \A e \in Letters(Tail(s), sort, x, a) : ~Carries(e[4], t)
<1> DEFINE r == Tail(s)
<1>1. /\ Len(s) \in Nat \ {0} /\ Len(r) = Len(s) - 1 /\ Head(s) = s[1]
      /\ \A i \in 1..Len(r) : r[i] = s[i + 1] /\ i + 1 \in 1..Len(s) /\ i + 1 # 1
      /\ \A i, j \in 1..Len(r) : i + 1 = j + 1 => i = j
      /\ 1 \in 1..Len(s)
  OBVIOUS
<1> HIDE DEF r
<1>2. Once(r, t)
  BY <1>1, Zenon DEF Once
<1>3. ASSUME Carries(Base(Head(s)), t), NEW e \in Letters(r, sort, x, a), Carries(e[4], t) PROVE FALSE
  <2>1. PICK i \in 1..Len(r) : e = <<sort, x, Dest(r[i], a), Base(r[i])>>
    BY <1>3, Zenon DEF Letters
  <2>2. e[4] = Base(s[i + 1])
    BY <1>1, <2>1
  <2> QED
    BY <1>1, <1>3, <2>2, Zenon DEF Once
<1> QED
  BY <1>2, <1>3 DEF r

LEMMA LettersOf ==
  ASSUME NEW s, NEW sort, NEW x, NEW a, NEW e \in Letters(s, sort, x, a)
  PROVE  e[1] = sort /\ e[2] = x /\ \E i \in 1..Len(s) : e[3] = Dest(s[i], a) /\ e[4] = Base(s[i])
<1>1. PICK i \in 1..Len(s) : e = <<sort, x, Dest(s[i], a), Base(s[i])>>
  BY Zenon DEF Letters
<1> QED
  BY <1>1

-----------------------------------------------------------------------------
(* One place of the mail changes.                                          *)

LEMMA MailIff ==
  ASSUME NEW w, NEW q, NEW o, NEW g, NEW e
  PROVE  e \in Mail(w, q, o, g) <=>
           \/ \E l \in Node \X Node : e \in Letters(w[l], "chan", l, l[2])
           \/ \E a \in Node : e \in Letters(q[a], "queue", a, a)
           \/ \E th \in Thread : e = <<"out", th, o[th].to, o[th].msg>>
           \/ \E th \in Thread : /\ g[th] # NoReply
                                 /\ e = <<"got", th, NoNode, [kind |-> "reply", th |-> th, val |-> g[th]]>>
<1>1. e \in InLinks(w) <=> \E l \in Node \X Node : e \in Letters(w[l], "chan", l, l[2])
  BY DEF InLinks
<1>2. e \in InQueues(q) <=> \E a \in Node : e \in Letters(q[a], "queue", a, a)
  BY DEF InQueues
<1>3. e \in Held(o) <=> \E th \in Thread : e = <<"out", th, o[th].to, o[th].msg>>
  BY DEF Held
<1>4. e \in Come(g) <=> \E th \in Thread : /\ g[th] # NoReply
                                           /\ e = <<"got", th, NoNode, [kind |-> "reply", th |-> th, val |-> g[th]]>>
  BY DEF Come
<1> QED
  BY <1>1, <1>2, <1>3, <1>4 DEF Mail

LEMMA MailChan ==
  ASSUME NEW w \in Links, NEW q, NEW o, NEW g, NEW l \in Node \X Node, NEW s \in Seq(Message)
  PROVE  /\ [w EXCEPT ![l] = s] \in Links
         /\ \A e : e \in Mail([w EXCEPT ![l] = s], q, o, g) <=>
              \/ e \in Letters(s, "chan", l, l[2])
              \/ e \in Mail(w, q, o, g) /\ ~(e[1] = "chan" /\ e[2] = l)
<1> DEFINE v == [w EXCEPT ![l] = s]
<1>1. v \in Links /\ v[l] = s /\ \A k \in Node \X Node : k # l => v[k] = w[k]
  BY DEF Links
<1> HIDE DEF v
<1>2. SUFFICES ASSUME NEW e
      PROVE  e \in Mail(v, q, o, g) <=> \/ e \in Letters(s, "chan", l, l[2])
                                        \/ e \in Mail(w, q, o, g) /\ ~(e[1] = "chan" /\ e[2] = l)
  BY <1>1 DEF v
<1>10. e \in Mail(v, q, o, g) <=>
           \/ \E k \in Node \X Node : e \in Letters(v[k], "chan", k, k[2])
           \/ \E k \in Node : e \in Letters(q[k], "queue", k, k)
           \/ \E k \in Thread : e = <<"out", k, o[k].to, o[k].msg>>
           \/ \E k \in Thread : /\ g[k] # NoReply
                                /\ e = <<"got", k, NoNode, [kind |-> "reply", th |-> k, val |-> g[k]]>>
  BY MailIff
<1>11. e \in Mail(w, q, o, g) <=>
           \/ \E k \in Node \X Node : e \in Letters(w[k], "chan", k, k[2])
           \/ \E k \in Node : e \in Letters(q[k], "queue", k, k)
           \/ \E k \in Thread : e = <<"out", k, o[k].to, o[k].msg>>
           \/ \E k \in Thread : /\ g[k] # NoReply
                                /\ e = <<"got", k, NoNode, [kind |-> "reply", th |-> k, val |-> g[k]]>>
  BY MailIff
<1>3. \A k \in Node \X Node : e \in Letters(w[k], "chan", k, k[2]) => e[1] = "chan" /\ e[2] = k
  BY LettersOf
<1>4. \A a \in Node : e \in Letters(q[a], "queue", a, a) => e[1] # "chan"
  BY LettersOf
<1>5. \A th \in Thread : e = <<"out", th, o[th].to, o[th].msg>> => e[1] # "chan"
  OBVIOUS
<1>6. \A th \in Thread : e = <<"got", th, NoNode, [kind |-> "reply", th |-> th, val |-> g[th]]>> => e[1] # "chan"
  OBVIOUS
<1>7. ASSUME e \in Mail(v, q, o, g), e \notin Letters(s, "chan", l, l[2])
      PROVE  e \in Mail(w, q, o, g) /\ ~(e[1] = "chan" /\ e[2] = l)
  <2>1. CASE \E k \in Node \X Node : e \in Letters(v[k], "chan", k, k[2])
    <3>1. PICK k \in Node \X Node : e \in Letters(v[k], "chan", k, k[2])
      BY <2>1
    <3>2. k # l
      BY <1>1, <1>7, <3>1
    <3>3. e \in Letters(w[k], "chan", k, k[2])
      BY <1>1, <3>1, <3>2
    <3> QED
      BY <1>3, <3>2, <3>3, <1>10, <1>11
  <2>2. CASE \E a \in Node : e \in Letters(q[a], "queue", a, a)
    BY <1>4, <2>2, <1>10, <1>11
  <2>3. CASE \E th \in Thread : e = <<"out", th, o[th].to, o[th].msg>>
    BY <1>5, <2>3, <1>10, <1>11
  <2>4. CASE \E th \in Thread : /\ g[th] # NoReply
                                /\ e = <<"got", th, NoNode, [kind |-> "reply", th |-> th, val |-> g[th]]>>
    BY <1>6, <2>4, <1>10, <1>11
  <2> QED
    BY <1>7, <2>1, <2>2, <2>3, <2>4, <1>10, <1>11
<1>8. ASSUME e \in Mail(w, q, o, g), ~(e[1] = "chan" /\ e[2] = l) PROVE e \in Mail(v, q, o, g)
  <2>1. CASE \E k \in Node \X Node : e \in Letters(w[k], "chan", k, k[2])
    <3>1. PICK k \in Node \X Node : e \in Letters(w[k], "chan", k, k[2])
      BY <2>1
    <3>2. k # l
      BY <1>3, <1>8, <3>1
    <3>3. e \in Letters(v[k], "chan", k, k[2])
      BY <1>1, <3>1, <3>2
    <3> QED
      BY <3>3, <1>10, <1>11
  <2> QED
    BY <1>8, <2>1, <1>10, <1>11
<1>9. e \in Letters(s, "chan", l, l[2]) => e \in Mail(v, q, o, g)
  BY <1>1, <1>10, <1>11
<1> QED
  BY <1>7, <1>8, <1>9

LEMMA MailQueue ==
  ASSUME NEW w, NEW q \in Queues, NEW o, NEW g, NEW a \in Node, NEW s \in Seq(Message)
  PROVE  /\ [q EXCEPT ![a] = s] \in Queues
         /\ \A e : e \in Mail(w, [q EXCEPT ![a] = s], o, g) <=>
              \/ e \in Letters(s, "queue", a, a)
              \/ e \in Mail(w, q, o, g) /\ ~(e[1] = "queue" /\ e[2] = a)
<1> DEFINE v == [q EXCEPT ![a] = s]
<1>1. v \in Queues /\ v[a] = s /\ \A k \in Node : k # a => v[k] = q[k]
  BY DEF Queues
<1> HIDE DEF v
<1>2. SUFFICES ASSUME NEW e
      PROVE  e \in Mail(w, v, o, g) <=> \/ e \in Letters(s, "queue", a, a)
                                        \/ e \in Mail(w, q, o, g) /\ ~(e[1] = "queue" /\ e[2] = a)
  BY <1>1 DEF v
<1>10. e \in Mail(w, v, o, g) <=>
           \/ \E k \in Node \X Node : e \in Letters(w[k], "chan", k, k[2])
           \/ \E k \in Node : e \in Letters(v[k], "queue", k, k)
           \/ \E k \in Thread : e = <<"out", k, o[k].to, o[k].msg>>
           \/ \E k \in Thread : /\ g[k] # NoReply
                                /\ e = <<"got", k, NoNode, [kind |-> "reply", th |-> k, val |-> g[k]]>>
  BY MailIff
<1>11. e \in Mail(w, q, o, g) <=>
           \/ \E k \in Node \X Node : e \in Letters(w[k], "chan", k, k[2])
           \/ \E k \in Node : e \in Letters(q[k], "queue", k, k)
           \/ \E k \in Thread : e = <<"out", k, o[k].to, o[k].msg>>
           \/ \E k \in Thread : /\ g[k] # NoReply
                                /\ e = <<"got", k, NoNode, [kind |-> "reply", th |-> k, val |-> g[k]]>>
  BY MailIff
<1>3. \A k \in Node : e \in Letters(q[k], "queue", k, k) => e[1] = "queue" /\ e[2] = k
  BY LettersOf
<1>4. \A l \in Node \X Node : e \in Letters(w[l], "chan", l, l[2]) => e[1] # "queue"
  BY LettersOf
<1>5. \A th \in Thread : e = <<"out", th, o[th].to, o[th].msg>> => e[1] # "queue"
  OBVIOUS
<1>6. \A th \in Thread : e = <<"got", th, NoNode, [kind |-> "reply", th |-> th, val |-> g[th]]>> => e[1] # "queue"
  OBVIOUS
<1>7. ASSUME e \in Mail(w, v, o, g), e \notin Letters(s, "queue", a, a)
      PROVE  e \in Mail(w, q, o, g) /\ ~(e[1] = "queue" /\ e[2] = a)
  <2>1. CASE \E k \in Node : e \in Letters(v[k], "queue", k, k)
    <3>1. PICK k \in Node : e \in Letters(v[k], "queue", k, k)
      BY <2>1
    <3>2. k # a
      BY <1>1, <1>7, <3>1
    <3>3. e \in Letters(q[k], "queue", k, k)
      BY <1>1, <3>1, <3>2
    <3> QED
      BY <1>3, <3>2, <3>3, <1>10, <1>11
  <2>2. CASE \E l \in Node \X Node : e \in Letters(w[l], "chan", l, l[2])
    BY <1>4, <2>2, <1>10, <1>11
  <2>3. CASE \E th \in Thread : e = <<"out", th, o[th].to, o[th].msg>>
    BY <1>5, <2>3, <1>10, <1>11
  <2>4. CASE \E th \in Thread : /\ g[th] # NoReply
                                /\ e = <<"got", th, NoNode, [kind |-> "reply", th |-> th, val |-> g[th]]>>
    BY <1>6, <2>4, <1>10, <1>11
  <2> QED
    BY <1>7, <2>1, <2>2, <2>3, <2>4, <1>10, <1>11
<1>8. ASSUME e \in Mail(w, q, o, g), ~(e[1] = "queue" /\ e[2] = a) PROVE e \in Mail(w, v, o, g)
  <2>1. CASE \E k \in Node : e \in Letters(q[k], "queue", k, k)
    <3>1. PICK k \in Node : e \in Letters(q[k], "queue", k, k)
      BY <2>1
    <3>2. k # a
      BY <1>3, <1>8, <3>1
    <3>3. e \in Letters(v[k], "queue", k, k)
      BY <1>1, <3>1, <3>2
    <3> QED
      BY <3>3, <1>10, <1>11
  <2> QED
    BY <1>8, <2>1, <1>10, <1>11
<1>9. e \in Letters(s, "queue", a, a) => e \in Mail(w, v, o, g)
  BY <1>1, <1>10, <1>11
<1> QED
  BY <1>7, <1>8, <1>9

LEMMA MailOut ==
  ASSUME NEW w, NEW q, NEW o \in Outs, NEW g, NEW th \in Thread, NEW r
  PROVE  \A e : e \in Mail(w, q, [o EXCEPT ![th] = r], g) <=>
           \/ e = <<"out", th, r.to, r.msg>>
           \/ e \in Mail(w, q, o, g) /\ ~(e[1] = "out" /\ e[2] = th)
<1> DEFINE v == [o EXCEPT ![th] = r]
<1>1. v[th] = r /\ \A t \in Thread : t # th => v[t] = o[t]
  BY DEF Outs
<1> HIDE DEF v
<1>2. SUFFICES ASSUME NEW e
      PROVE  e \in Mail(w, q, v, g) <=> \/ e = <<"out", th, r.to, r.msg>>
                                        \/ e \in Mail(w, q, o, g) /\ ~(e[1] = "out" /\ e[2] = th)
  BY DEF v
<1>10. e \in Mail(w, q, v, g) <=>
           \/ \E k \in Node \X Node : e \in Letters(w[k], "chan", k, k[2])
           \/ \E k \in Node : e \in Letters(q[k], "queue", k, k)
           \/ \E k \in Thread : e = <<"out", k, v[k].to, v[k].msg>>
           \/ \E k \in Thread : /\ g[k] # NoReply
                                /\ e = <<"got", k, NoNode, [kind |-> "reply", th |-> k, val |-> g[k]]>>
  BY MailIff
<1>11. e \in Mail(w, q, o, g) <=>
           \/ \E k \in Node \X Node : e \in Letters(w[k], "chan", k, k[2])
           \/ \E k \in Node : e \in Letters(q[k], "queue", k, k)
           \/ \E k \in Thread : e = <<"out", k, o[k].to, o[k].msg>>
           \/ \E k \in Thread : /\ g[k] # NoReply
                                /\ e = <<"got", k, NoNode, [kind |-> "reply", th |-> k, val |-> g[k]]>>
  BY MailIff
<1>3. \A l \in Node \X Node : e \in Letters(w[l], "chan", l, l[2]) => e[1] # "out"
  BY LettersOf
<1>4. \A a \in Node : e \in Letters(q[a], "queue", a, a) => e[1] # "out"
  BY LettersOf
<1>5. \A t \in Thread : e = <<"out", t, o[t].to, o[t].msg>> => e[1] = "out" /\ e[2] = t
  OBVIOUS
<1>6. \A t \in Thread : e = <<"got", t, NoNode, [kind |-> "reply", th |-> t, val |-> g[t]]>> => e[1] # "out"
  OBVIOUS
<1>7. ASSUME e \in Mail(w, q, v, g), e # <<"out", th, r.to, r.msg>>
      PROVE  e \in Mail(w, q, o, g) /\ ~(e[1] = "out" /\ e[2] = th)
  <2>1. CASE \E t \in Thread : e = <<"out", t, v[t].to, v[t].msg>>
    <3>1. PICK t \in Thread : e = <<"out", t, v[t].to, v[t].msg>>
      BY <2>1
    <3>2. t # th
      BY <1>1, <1>7, <3>1
    <3>3. e = <<"out", t, o[t].to, o[t].msg>>
      BY <1>1, <3>1, <3>2
    <3> QED
      BY <1>5, <3>2, <3>3, <1>10, <1>11
  <2>2. CASE \E l \in Node \X Node : e \in Letters(w[l], "chan", l, l[2])
    BY <1>3, <2>2, <1>10, <1>11
  <2>3. CASE \E a \in Node : e \in Letters(q[a], "queue", a, a)
    BY <1>4, <2>3, <1>10, <1>11
  <2>4. CASE \E t \in Thread : /\ g[t] # NoReply
                               /\ e = <<"got", t, NoNode, [kind |-> "reply", th |-> t, val |-> g[t]]>>
    BY <1>6, <2>4, <1>10, <1>11
  <2> QED
    BY <1>7, <2>1, <2>2, <2>3, <2>4, <1>10, <1>11
<1>8. ASSUME e \in Mail(w, q, o, g), ~(e[1] = "out" /\ e[2] = th) PROVE e \in Mail(w, q, v, g)
  <2>1. CASE \E t \in Thread : e = <<"out", t, o[t].to, o[t].msg>>
    <3>1. PICK t \in Thread : e = <<"out", t, o[t].to, o[t].msg>>
      BY <2>1
    <3>2. t # th
      BY <1>5, <1>8, <3>1
    <3>3. e = <<"out", t, v[t].to, v[t].msg>>
      BY <1>1, <3>1, <3>2
    <3> QED
      BY <3>3, <1>10, <1>11
  <2> QED
    BY <1>8, <2>1, <1>10, <1>11
<1>9. <<"out", th, r.to, r.msg>> \in Mail(w, q, v, g)
  BY <1>1, MailIff
<1> QED
  BY <1>7, <1>8, <1>9

LEMMA MailGot ==
  ASSUME NEW w, NEW q, NEW o, NEW g \in Gots, NEW th \in Thread, NEW v
  PROVE  \A e : e \in Mail(w, q, o, [g EXCEPT ![th] = v]) <=>
           \/ v # NoReply /\ e = <<"got", th, NoNode, [kind |-> "reply", th |-> th, val |-> v]>>
           \/ e \in Mail(w, q, o, g) /\ ~(e[1] = "got" /\ e[2] = th)
<1> DEFINE h == [g EXCEPT ![th] = v]
           Note(t, x) == <<"got", t, NoNode, [kind |-> "reply", th |-> t, val |-> x]>>
<1>1. h[th] = v /\ \A t \in Thread : t # th => h[t] = g[t]
  BY DEF Gots
<1> HIDE DEF h
<1>2. SUFFICES ASSUME NEW e
      PROVE  e \in Mail(w, q, o, h) <=> \/ v # NoReply /\ e = Note(th, v)
                                        \/ e \in Mail(w, q, o, g) /\ ~(e[1] = "got" /\ e[2] = th)
  BY DEF h
<1>10. e \in Mail(w, q, o, h) <=>
           \/ \E k \in Node \X Node : e \in Letters(w[k], "chan", k, k[2])
           \/ \E k \in Node : e \in Letters(q[k], "queue", k, k)
           \/ \E k \in Thread : e = <<"out", k, o[k].to, o[k].msg>>
           \/ \E k \in Thread : /\ h[k] # NoReply
                                /\ e = <<"got", k, NoNode, [kind |-> "reply", th |-> k, val |-> h[k]]>>
  BY MailIff
<1>11. e \in Mail(w, q, o, g) <=>
           \/ \E k \in Node \X Node : e \in Letters(w[k], "chan", k, k[2])
           \/ \E k \in Node : e \in Letters(q[k], "queue", k, k)
           \/ \E k \in Thread : e = <<"out", k, o[k].to, o[k].msg>>
           \/ \E k \in Thread : /\ g[k] # NoReply
                                /\ e = <<"got", k, NoNode, [kind |-> "reply", th |-> k, val |-> g[k]]>>
  BY MailIff
<1>3. \A l \in Node \X Node : e \in Letters(w[l], "chan", l, l[2]) => e[1] # "got"
  BY LettersOf
<1>4. \A a \in Node : e \in Letters(q[a], "queue", a, a) => e[1] # "got"
  BY LettersOf
<1>5. \A t \in Thread : e = <<"out", t, o[t].to, o[t].msg>> => e[1] # "got"
  OBVIOUS
<1>6. \A t, x : e = Note(t, x) => e[1] = "got" /\ e[2] = t
  OBVIOUS
<1>7. ASSUME e \in Mail(w, q, o, h), ~(v # NoReply /\ e = Note(th, v))
      PROVE  e \in Mail(w, q, o, g) /\ ~(e[1] = "got" /\ e[2] = th)
  <2>1. CASE \E t \in Thread : h[t] # NoReply /\ e = Note(t, h[t])
    <3>1. PICK t \in Thread : h[t] # NoReply /\ e = Note(t, h[t])
      BY <2>1
    <3>2. t # th
      BY <1>1, <1>7, <3>1
    <3>3. g[t] # NoReply /\ e = Note(t, g[t])
      BY <1>1, <3>1, <3>2
    <3> QED
      BY <1>6, <3>2, <3>3, <1>10, <1>11
  <2>2. CASE \E l \in Node \X Node : e \in Letters(w[l], "chan", l, l[2])
    BY <1>3, <2>2, <1>10, <1>11
  <2>3. CASE \E a \in Node : e \in Letters(q[a], "queue", a, a)
    BY <1>4, <2>3, <1>10, <1>11
  <2>4. CASE \E t \in Thread : e = <<"out", t, o[t].to, o[t].msg>>
    BY <1>5, <2>4, <1>10, <1>11
  <2> QED
    BY <1>7, <2>1, <2>2, <2>3, <2>4, <1>10, <1>11
<1>8. ASSUME e \in Mail(w, q, o, g), ~(e[1] = "got" /\ e[2] = th) PROVE e \in Mail(w, q, o, h)
  <2>1. CASE \E t \in Thread : g[t] # NoReply /\ e = Note(t, g[t])
    <3>1. PICK t \in Thread : g[t] # NoReply /\ e = Note(t, g[t])
      BY <2>1
    <3>2. t # th
      BY <1>6, <1>8, <3>1
    <3>3. h[t] # NoReply /\ e = Note(t, h[t])
      BY <1>1, <3>1, <3>2
    <3> QED
      BY <3>3, <1>10, <1>11
  <2> QED
    BY <1>8, <2>1, <1>10, <1>11
<1>9. v # NoReply => Note(th, v) \in Mail(w, q, o, h)
  BY <1>1, MailIff
<1> QED
  BY <1>7, <1>8, <1>9

-----------------------------------------------------------------------------
(* Threads, and what they wait for.                                        *)

LEMMA ThreadCases ==
  ASSUME NEW th \in Thread
  PROVE  \/ \E c \in Client : th = ClientT(c) \/ th = ProxyT(c)
         \/ \E a \in Node : th = AdminT(a)
         \/ \E a, b \in Node : a # b /\ th = RecvT(a, b)
BY DEF Thread

LEMMA AgentIsNode ==
  ASSUME NEW th \in Thread, th[1] = "proxy" => proxyat[th[2]] \in Node
  PROVE  AgentOf(th) \in Node
<1>1. CASE \E c \in Client : th = ClientT(c) \/ th = ProxyT(c)
  BY <1>1, Threads, Sorts DEF AgentOf
<1>2. CASE \E a \in Node : th = AdminT(a)
  BY <1>2, Sorts DEF AgentOf
<1>3. CASE \E a, b \in Node : th = RecvT(a, b)
  BY <1>3, Sorts DEF AgentOf
<1> QED
  BY <1>1, <1>2, <1>3, ThreadCases

\* A thread that waits for nothing has nothing on its way.
LEMMA OwnsNone ==
  ASSUME FitInv, NEW th \in Thread, pc[th] \notin Waits
  PROVE  Own(MailNow, th) = {}
<1> SUFFICES ASSUME NEW e \in Own(MailNow, th) PROVE FALSE
  OBVIOUS
<1>1. e \in MailNow /\ e[4].kind \in Carriers /\ e[4].th = th /\ ~(e[1] = "out" /\ e[2] = th)
  BY DEF Own, Carries
<1>2. Fit(e[4], pc[th])
  BY <1>1, Zenon DEF FitInv, Noted
<1> QED
  BY <1>1, <1>2 DEF Fit, Carriers, Waits

\* The mail when thread th has let go of its reply, with w in the links and q in the queues.
Before(w, q, th) == Mail(w, q, out, [got EXCEPT ![th] = NoReply])
Calm(w, q, th) ==
  /\ w \in Links /\ q \in Queues /\ Onces(w, q)
  /\ Before(w, q, th) \subseteq MailNow /\ Own(Before(w, q, th), th) = {}

LEMMA LetsGo ==
  ASSUME MailShape, NEW th \in Thread, NEW w, NEW q
  PROVE  \A e : e \in Before(w, q, th) <=> e \in Mail(w, q, out, got) /\ ~(e[1] = "got" /\ e[2] = th)
BY MailGot DEF MailShape, Before

LEMMA ReplyIsOwn ==
  ASSUME NEW th \in Thread, got[th] # NoReply
  PROVE  <<"got", th, NoNode, [kind |-> "reply", th |-> th, val |-> got[th]]>> \in Own(MailNow, th)
<1> DEFINE e == <<"got", th, NoNode, [kind |-> "reply", th |-> th, val |-> got[th]]>>
<1>1. e \in MailNow
  BY MailIff DEF MailNow
<1>2. Carries(e[4], th) /\ e[1] = "got"
  BY DEF Carries, Carriers
<1> QED
  BY <1>1, <1>2 DEF Own

\* A thread that waits for nothing, or whose reply came, is ready for the next step.
LEMMA CalmNow ==
  ASSUME MailShape, FitInv, WaitInv, NEW th \in Thread, pc[th] \notin Waits \/ got[th] # NoReply
  PROVE  Calm(chan, adminq, th)
<1>1. \A e : e \in Before(chan, adminq, th) <=> e \in MailNow /\ ~(e[1] = "got" /\ e[2] = th)
  BY LetsGo DEF MailNow
<1>2. Own(Before(chan, adminq, th), th) = {}
  <2> SUFFICES ASSUME NEW e \in Own(Before(chan, adminq, th), th) PROVE FALSE
    OBVIOUS
  <2>1. e \in Own(MailNow, th) /\ ~(e[1] = "got" /\ e[2] = th)
    BY <1>1 DEF Own
  <2>2. got[th] # NoReply
    BY <2>1, OwnsNone
  <2> DEFINE x == <<"got", th, NoNode, [kind |-> "reply", th |-> th, val |-> got[th]]>>
  <2>3. x \in Own(MailNow, th) /\ x[1] = "got" /\ x[2] = th
    BY <2>2, ReplyIsOwn
  <2>4. x = e
    <3> HIDE DEF x
    <3> QED
      BY <2>1, <2>3 DEF WaitInv, WaitOf, Lone
  <2> QED
    BY <2>1, <2>3, <2>4
<1> QED
  BY <1>1, <1>2 DEF Calm, MailShape, WaitInv

\* Links and queues with no more in them than there is.
Less(w, q) == w \in Links /\ q \in Queues /\ Onces(w, q) /\ Mail(w, q, out, got) \subseteq MailNow

LEMMA LessNow == ASSUME MailShape, WaitInv PROVE Less(chan, adminq)
BY DEF Less, MailShape, WaitInv, MailNow

LEMMA LessCalm ==
  ASSUME MailShape, FitInv, WaitInv, NEW th \in Thread, pc[th] \notin Waits \/ got[th] # NoReply,
         NEW w, NEW q, Less(w, q)
  PROVE  Calm(w, q, th)
<1>1. Calm(chan, adminq, th)
  BY CalmNow
<1>2. \A e : e \in Before(w, q, th) <=> e \in Mail(w, q, out, got) /\ ~(e[1] = "got" /\ e[2] = th)
  BY LetsGo
<1>3. \A e : e \in Before(chan, adminq, th) <=> e \in MailNow /\ ~(e[1] = "got" /\ e[2] = th)
  BY LetsGo DEF MailNow
<1>4. Before(w, q, th) \subseteq Before(chan, adminq, th)
  BY <1>2, <1>3 DEF Less
<1> QED
  BY <1>1, <1>4 DEF Calm, Less, Own

\* The first message of a link, or of a queue, is taken.
Taken(w, q, x) ==
  /\ Less(w, q) /\ x \in MailNow
  /\ \A t : Carries(x[4], t) => Own(Mail(w, q, out, got), t) = {}

LEMMA TakeChan ==
  ASSUME MailShape, WaitInv, NEW a \in Node, NEW b \in Node, chan[b, a] # <<>>
  PROVE  LET m == Head(chan[b, a])
         IN  m \in Message /\ Taken(Rest(a, b), adminq, <<"chan", <<b, a>>, Dest(m, a), Base(m)>>)
<1> DEFINE l == <<b, a>>
           s == chan[l]
           m == Head(s)
           w == Rest(a, b)
           x == <<"chan", l, Dest(m, a), Base(m)>>
<1>1. /\ l \in Node \X Node /\ l[2] = a /\ s \in Seq(Message) /\ s # <<>> /\ chan \in Links /\ m \in Message
      /\ Tail(s) \in Seq(Message) /\ chan[b, a] = s
  <2>1. l \in Node \X Node /\ l[2] = a /\ chan[b, a] = s /\ chan \in Links
    BY DEF MailShape
  <2>2. s \in Seq(Message) /\ s # <<>>
    BY <2>1 DEF Links
  <2> HIDE DEF s
  <2>3. m \in Message /\ Tail(s) \in Seq(Message)
    BY <2>2, HeadTail
  <2> HIDE DEF m, l
  <2> QED
    BY <2>1, <2>2, <2>3
<1>2. w = [chan EXCEPT ![l] = Tail(s)]
  BY DEF Rest
<1> HIDE DEF l, m, w, s
<1>3. /\ w \in Links
      /\ \A e : e \in Mail(w, adminq, out, got) <=>
           \/ e \in Letters(Tail(s), "chan", l, l[2])
           \/ e \in MailNow /\ ~(e[1] = "chan" /\ e[2] = l)
  BY <1>1, <1>2, MailChan DEF MailNow
<1>4. \A e : e \in Letters(s, "chan", l, l[2]) => e \in MailNow
  BY <1>1, MailIff DEF s, MailNow
<1>5. /\ x \in Letters(s, "chan", l, l[2])
      /\ Letters(Tail(s), "chan", l, l[2]) \subseteq Letters(s, "chan", l, l[2])
  BY <1>1, LettersTail DEF m
<1>6. Onces(w, adminq)
  <2> SUFFICES ASSUME NEW t \in Thread, NEW k \in Node \X Node PROVE Once(w[k], t)
    BY DEF Onces, WaitInv
  <2>1. Once(chan[k], t) /\ Once(s, t)
    BY <1>1 DEF WaitInv, Onces, s
  <2>2. CASE k = l
    BY <1>1, <1>2, <2>1, <2>2, OnceTail DEF Links
  <2>3. CASE k # l
    BY <1>1, <1>2, <2>1, <2>3 DEF Links
  <2> QED
    BY <2>2, <2>3
<1>7. ASSUME NEW t, Carries(Base(m), t), NEW e \in Own(Mail(w, adminq, out, got), t) PROVE FALSE
  <2>1. t \in Thread
    BY <1>1, <1>7, Kinds, MessageIs DEF Carries
  <2>2. e \in MailNow /\ Carries(e[4], t) /\ ~(e[1] = "out" /\ e[2] = t)
    BY <1>3, <1>4, <1>5, <1>7 DEF Own
  <2>3. x \in MailNow /\ x[1] = "chan" /\ x[2] = l /\ Carries(x[4], t)
    BY <1>4, <1>5, <1>7
  <2>4. e = x
    <3>1. x \in Own(MailNow, t) /\ e \in Own(MailNow, t)
      BY <2>2, <2>3 DEF Own
    <3>2. Lone(Own(MailNow, t))
      BY <2>1 DEF WaitInv, WaitOf
    <3> HIDE DEF x
    <3> QED
      BY <3>1, <3>2, Zenon DEF Lone
  <2>5. e \in Letters(Tail(s), "chan", l, l[2])
    BY <1>3, <1>7, <2>3, <2>4 DEF Own
  <2>6. Once(s, t)
    BY <1>1, <2>1 DEF WaitInv, Onces, s
  <2> QED
    BY <1>1, <1>7, <2>2, <2>5, <2>6, OnceTail DEF m
<1>8. Taken(w, adminq, x)
  BY <1>3, <1>4, <1>5, <1>6, <1>7 DEF Taken, Less, MailShape
<1>9. Head(chan[b, a]) = m
  BY <1>1 DEF m
<1> QED
  BY <1>1, <1>8, <1>9, Zenon DEF l, w

LEMMA TakeQueue ==
  ASSUME MailShape, WaitInv, NEW a \in Node, adminq[a] # <<>>
  PROVE  LET m == Head(adminq[a])
         IN  m \in Message /\ Taken(chan, RestOf(a), <<"queue", a, Dest(m, a), Base(m)>>)
<1> DEFINE s == adminq[a]
           m == Head(s)
           q == RestOf(a)
           x == <<"queue", a, Dest(m, a), Base(m)>>
<1>1. s \in Seq(Message) /\ s # <<>> /\ adminq \in Queues
  BY DEF MailShape, Queues
<1>2. q = [adminq EXCEPT ![a] = Tail(s)]
  BY DEF RestOf
<1> HIDE DEF q, s
<1>3. m \in Message /\ Tail(s) \in Seq(Message)
  BY <1>1, HeadTail
<1> HIDE DEF m
<1>4. /\ q \in Queues
      /\ \A e : e \in Mail(chan, q, out, got) <=>
           \/ e \in Letters(Tail(s), "queue", a, a)
           \/ e \in MailNow /\ ~(e[1] = "queue" /\ e[2] = a)
  BY <1>1, <1>2, <1>3, MailQueue DEF MailNow
<1>5. \A e : e \in Letters(s, "queue", a, a) => e \in MailNow
  BY <1>1, MailIff DEF s, MailNow
<1>6. /\ x \in Letters(s, "queue", a, a)
      /\ Letters(Tail(s), "queue", a, a) \subseteq Letters(s, "queue", a, a)
  BY <1>1, LettersTail DEF m
<1>7. Onces(chan, q)
  <2> SUFFICES ASSUME NEW t \in Thread, NEW k \in Node PROVE Once(q[k], t)
    BY DEF Onces, WaitInv
  <2>1. Once(adminq[k], t) /\ Once(s, t)
    BY <1>1 DEF WaitInv, Onces, s
  <2>2. CASE k = a
    BY <1>1, <1>2, <2>1, <2>2, OnceTail DEF Queues
  <2>3. CASE k # a
    BY <1>1, <1>2, <2>1, <2>3 DEF Queues
  <2> QED
    BY <2>2, <2>3
<1>8. ASSUME NEW t, Carries(Base(m), t), NEW e \in Own(Mail(chan, q, out, got), t) PROVE FALSE
  <2>1. t \in Thread
    BY <1>3, <1>8, Kinds, MessageIs DEF Carries
  <2>2. e \in MailNow /\ Carries(e[4], t) /\ ~(e[1] = "out" /\ e[2] = t)
    BY <1>4, <1>5, <1>6, <1>8 DEF Own
  <2>3. x \in MailNow /\ x[1] = "queue" /\ x[2] = a /\ Carries(x[4], t)
    BY <1>5, <1>6, <1>8
  <2>4. e = x
    <3>1. x \in Own(MailNow, t) /\ e \in Own(MailNow, t)
      BY <2>2, <2>3 DEF Own
    <3>2. Lone(Own(MailNow, t))
      BY <2>1 DEF WaitInv, WaitOf
    <3> HIDE DEF x
    <3> QED
      BY <3>1, <3>2, Zenon DEF Lone
  <2>5. e \in Letters(Tail(s), "queue", a, a)
    BY <1>4, <1>8, <2>3, <2>4 DEF Own
  <2>6. Once(s, t)
    BY <1>1, <2>1 DEF WaitInv, Onces, s
  <2> QED
    BY <1>1, <1>8, <2>2, <2>5, <2>6, OnceTail DEF m
<1>9. Taken(chan, q, x)
  BY <1>4, <1>5, <1>6, <1>7, <1>8 DEF Taken, Less, MailShape
<1> QED
  BY <1>3, <1>9, Zenon DEF m, s, q

-----------------------------------------------------------------------------
(* What a step adds to the mail.                                           *)

LEMMA MailTyped ==
  ASSUME NEW w \in Links, NEW q \in Queues, NEW o \in Outs, NEW g \in Gots, NEW e \in Mail(w, q, o, g)
  PROVE  e[4] \in Plain
<1>1. CASE \E l \in Node \X Node : e \in Letters(w[l], "chan", l, l[2])
  <2>1. PICK l \in Node \X Node : e \in Letters(w[l], "chan", l, l[2])
    BY <1>1
  <2>2. PICK i \in 1..Len(w[l]) : e[4] = Base(w[l][i])
    BY <2>1, LettersOf
  <2>3. w[l] \in Seq(Message)
    BY DEF Links
  <2>4. w[l][i] \in Message
    BY <2>2, <2>3
  <2> QED
    BY <2>2, <2>4, MessageIs
<1>2. CASE \E a \in Node : e \in Letters(q[a], "queue", a, a)
  <2>1. PICK a \in Node : e \in Letters(q[a], "queue", a, a)
    BY <1>2
  <2>2. PICK i \in 1..Len(q[a]) : e[4] = Base(q[a][i])
    BY <2>1, LettersOf
  <2>3. q[a] \in Seq(Message)
    BY DEF Queues
  <2>4. q[a][i] \in Message
    BY <2>2, <2>3
  <2> QED
    BY <2>2, <2>4, MessageIs
<1>3. CASE \E th \in Thread : e = <<"out", th, o[th].to, o[th].msg>>
  BY <1>3 DEF Outs
<1>4. CASE \E th \in Thread : /\ g[th] # NoReply
                              /\ e = <<"got", th, NoNode, [kind |-> "reply", th |-> th, val |-> g[th]]>>
  <2>1. PICK th \in Thread : /\ g[th] # NoReply
                             /\ e = <<"got", th, NoNode, [kind |-> "reply", th |-> th, val |-> g[th]]>>
    BY <1>4
  <2>2. g[th] \in Values
    BY <2>1 DEF Gots
  <2>3. [kind |-> "reply", th |-> th, val |-> g[th]] \in [kind : {"reply"}, th : Thread, val : Values]
    BY <2>2
  <2> QED
    BY <2>1, <2>3 DEF Plain
<1> QED
  BY <1>1, <1>2, <1>3, <1>4, MailIff

LEMMA OutEntry ==
  ASSUME NEW w, NEW q, NEW o, NEW g, NEW e \in Mail(w, q, o, g), e[1] = "out"
  PROVE  e[2] \in Thread /\ e[3] = o[e[2]].to /\ e[4] = o[e[2]].msg
<1>1. \A l \in Node \X Node : e \notin Letters(w[l], "chan", l, l[2])
  BY LettersOf
<1>2. \A a \in Node : e \notin Letters(q[a], "queue", a, a)
  BY LettersOf
<1>3. \A th \in Thread : e # <<"got", th, NoNode, [kind |-> "reply", th |-> th, val |-> g[th]]>>
  OBVIOUS
<1>4. PICK th \in Thread : e = <<"out", th, o[th].to, o[th].msg>>
  BY <1>1, <1>2, <1>3, MailIff
<1> QED
  BY <1>4

\* Thread th, which had nothing on its way, adds message m to the mail, or keeps it until it
\* knows the agent and asks for that one. No other thread is disturbed.
LEMMA Sent ==
  ASSUME MailShape, FitInv, NEW th \in Thread, NEW w, NEW q, Calm(w, q, th), out[th] = NoOut,
         \A t \in Thread \ {th} : pc'[t] = pc[t] /\ out'[t] = out[t],
         NEW m, \A t : Carries(m, t) => Own(Before(w, q, th), t) = {},
         NEW x, NEW y, MailNow' \subseteq Before(w, q, th) \cup {x, y}, x[4] = m,
         y = x \/ (Carries(y[4], th) /\ x[1] = "out" /\ x[2] = th),
         Noted(x, pc', out'), Noted(y, pc', out')
  PROVE  /\ \A t \in Thread \ {th} :
              Own(MailNow', t) \subseteq Own(MailNow, t) \/ (Carries(m, t) /\ Lone(Own(MailNow', t)))
         /\ Lone(Own(MailNow', th))
         /\ FitInv'
<1> DEFINE M == Before(w, q, th)
           M1 == MailNow'
<1>1. M \subseteq MailNow /\ Own(M, th) = {} /\ M1 \subseteq M \cup {x, y}
  BY DEF Calm
<1> HIDE DEF M, M1
<1>2. ASSUME NEW t \in Thread \ {th}
      PROVE  Own(M1, t) \subseteq Own(MailNow, t) \/ (Carries(m, t) /\ Lone(Own(M1, t)))
  <2>1. y = x \/ ~Carries(y[4], t)
    BY DEF Carries
  <2>2. CASE Carries(m, t)
    <3>1. Own(M, t) = {}
      BY <2>2 DEF M
    <3>2. \A e \in Own(M1, t) : e = x
      BY <1>1, <2>1, <3>1 DEF Own
    <3> QED
      BY <2>2, <3>2 DEF Lone
  <2>3. CASE ~Carries(m, t)
    BY <1>1, <2>1, <2>3 DEF Own
  <2> QED
    BY <2>2, <2>3
<1>3. Lone(Own(M1, th))
  BY <1>1 DEF Own, Lone
<1>4. ASSUME NEW e \in M1 PROVE Noted(e, pc', out')
  <2>1. CASE e = x \/ e = y
    BY <2>1
  <2>2. CASE e \in M
    <3>1. e \in MailNow /\ Noted(e, pc, out)
      BY <1>1, <2>2 DEF FitInv
    <3>2. CASE e[4].kind \in Carriers
      <4>1. e[4].th \in Thread
        BY <3>1, <3>2, MailTyped, Kinds DEF MailNow, MailShape
      <4>2. ASSUME e[4].th = th PROVE FALSE
        <5>1. e[1] = "out" /\ e[2] = th
          BY <1>1, <2>2, <3>2, <4>2 DEF Own, Carries
        <5>2. e[4] = Nothing
          BY <3>1, <5>1, OutEntry DEF MailNow, NoOut
        <5> QED
          BY <3>2, <5>2 DEF Nothing, Carriers, ClientKinds
      <4>3. pc'[e[4].th] = pc[e[4].th] /\ out'[e[4].th] = out[e[4].th]
        BY <4>1, <4>2
      <4> QED
        BY <3>1, <4>3 DEF Noted
    <3>3. CASE e[4].kind \notin Carriers
      BY <3>1, <3>3 DEF Noted
    <3> QED
      BY <3>2, <3>3
  <2> QED
    BY <1>1, <2>1, <2>2
<1>5. FitInv'
  BY <1>4 DEF M1, FitInv
<1> QED
  BY <1>2, <1>3, <1>5 DEF M1

LEMMA ChanAdds ==
  ASSUME NEW w \in Links, NEW q, NEW o, NEW g, NEW l \in Node \X Node, NEW m \in Message
  PROVE  LET v == [w EXCEPT ![l] = Append(@, m)]
         IN  /\ v \in Links
             /\ Mail(v, q, o, g) \subseteq Mail(w, q, o, g) \cup {<<"chan", l, Dest(m, l[2]), Base(m)>>}
             /\ Onces(w, q) /\ (\A t : Carries(Base(m), t) => Own(Mail(w, q, o, g), t) = {}) => Onces(v, q)
<1> DEFINE s == w[l]
           r == Append(s, m)
           v == [w EXCEPT ![l] = r]
           x == <<"chan", l, Dest(m, l[2]), Base(m)>>
<1>1. s \in Seq(Message) /\ r \in Seq(Message)
  <2>1. s \in Seq(Message)
    BY DEF Links
  <2> HIDE DEF s
  <2> QED
    BY <2>1
<1>2. Letters(r, "chan", l, l[2]) = Letters(s, "chan", l, l[2]) \cup {x}
  BY <1>1, LettersAppend
<1> HIDE DEF r, x
<1>3. /\ v \in Links
      /\ \A e : e \in Mail(v, q, o, g) <=> \/ e \in Letters(r, "chan", l, l[2])
                                           \/ e \in Mail(w, q, o, g) /\ ~(e[1] = "chan" /\ e[2] = l)
  BY <1>1, MailChan
<1>4. \A e : e \in Letters(s, "chan", l, l[2]) => e \in Mail(w, q, o, g)
  BY MailIff DEF s
<1>5. Mail(v, q, o, g) \subseteq Mail(w, q, o, g) \cup {x}
  BY <1>2, <1>3, <1>4
<1>6. ASSUME Onces(w, q), \A t : Carries(Base(m), t) => Own(Mail(w, q, o, g), t) = {}
      PROVE  Onces(v, q)
  <2> SUFFICES ASSUME NEW t \in Thread, NEW k \in Node \X Node PROVE Once(v[k], t)
    BY <1>6 DEF Onces
  <2>1. Once(w[k], t) /\ Once(s, t)
    BY <1>6 DEF Onces, s
  <2>2. CASE k = l
    <3>1. ASSUME Carries(Base(m), t), NEW e \in Letters(s, "chan", l, l[2]) PROVE ~Carries(e[4], t)
      <4>1. e \in Mail(w, q, o, g) /\ e[1] # "out"
        BY <1>4, <3>1, LettersOf
      <4> QED
        BY <1>6, <3>1, <4>1 DEF Own
    <3>2. Once(r, t)
      BY <1>1, <2>1, <3>1, OnceAppend DEF r
    <3> QED
      BY <2>2, <3>2 DEF Links
  <2>3. CASE k # l
    BY <2>1, <2>3 DEF Links
  <2> QED
    BY <2>2, <2>3
<1> QED
  BY <1>3, <1>5, <1>6 DEF r, s, x

LEMMA QueueAdds ==
  ASSUME NEW w, NEW q \in Queues, NEW o, NEW g, NEW a \in Node, NEW m \in Message
  PROVE  LET v == [q EXCEPT ![a] = Append(@, m)]
         IN  /\ v \in Queues
             /\ Mail(w, v, o, g) \subseteq Mail(w, q, o, g) \cup {<<"queue", a, Dest(m, a), Base(m)>>}
             /\ Onces(w, q) /\ (\A t : Carries(Base(m), t) => Own(Mail(w, q, o, g), t) = {}) => Onces(w, v)
<1> DEFINE s == q[a]
           r == Append(s, m)
           v == [q EXCEPT ![a] = r]
           x == <<"queue", a, Dest(m, a), Base(m)>>
<1>1. s \in Seq(Message) /\ r \in Seq(Message)
  <2>1. s \in Seq(Message)
    BY DEF Queues
  <2> HIDE DEF s
  <2> QED
    BY <2>1
<1>2. Letters(r, "queue", a, a) = Letters(s, "queue", a, a) \cup {x}
  BY <1>1, LettersAppend
<1> HIDE DEF r, x
<1>3. /\ v \in Queues
      /\ \A e : e \in Mail(w, v, o, g) <=> \/ e \in Letters(r, "queue", a, a)
                                           \/ e \in Mail(w, q, o, g) /\ ~(e[1] = "queue" /\ e[2] = a)
  BY <1>1, MailQueue
<1>4. \A e : e \in Letters(s, "queue", a, a) => e \in Mail(w, q, o, g)
  BY MailIff DEF s
<1>5. Mail(w, v, o, g) \subseteq Mail(w, q, o, g) \cup {x}
  BY <1>2, <1>3, <1>4
<1>6. ASSUME Onces(w, q), \A t : Carries(Base(m), t) => Own(Mail(w, q, o, g), t) = {}
      PROVE  Onces(w, v)
  <2> SUFFICES ASSUME NEW t \in Thread, NEW k \in Node PROVE Once(v[k], t)
    BY <1>6 DEF Onces
  <2>1. Once(q[k], t) /\ Once(s, t)
    BY <1>6 DEF Onces, s
  <2>2. CASE k = a
    <3>1. ASSUME Carries(Base(m), t), NEW e \in Letters(s, "queue", a, a) PROVE ~Carries(e[4], t)
      <4>1. e \in Mail(w, q, o, g) /\ e[1] # "out"
        BY <1>4, <3>1, LettersOf
      <4> QED
        BY <1>6, <3>1, <4>1 DEF Own
    <3>2. Once(r, t)
      BY <1>1, <2>1, <3>1, OnceAppend DEF r
    <3> QED
      BY <2>2, <3>2 DEF Queues
  <2>3. CASE k # a
    BY <2>1, <2>3 DEF Queues
  <2> QED
    BY <2>2, <2>3
<1> QED
  BY <1>3, <1>5, <1>6 DEF r, s, x

LEMMA OutAdds ==
  ASSUME NEW w, NEW q, NEW o \in Outs, NEW g, NEW th \in Thread, NEW r
  PROVE  Mail(w, q, [o EXCEPT ![th] = r], g) \subseteq Mail(w, q, o, g) \cup {<<"out", th, r.to, r.msg>>}
BY MailOut

LEMMA GotAdds ==
  ASSUME MailShape, NEW w, NEW q, NEW th \in Thread, NEW v, v # NoReply
  PROVE  Mail(w, q, out, [got EXCEPT ![th] = v])
           \subseteq Before(w, q, th) \cup {<<"got", th, NoNode, [kind |-> "reply", th |-> th, val |-> v]>>}
<1> DEFINE x == <<"got", th, NoNode, [kind |-> "reply", th |-> th, val |-> v]>>
<1>1. \A e : e \in Mail(w, q, out, [got EXCEPT ![th] = v]) <=>
               e = x \/ (e \in Mail(w, q, out, got) /\ ~(e[1] = "got" /\ e[2] = th))
  <2>1. got \in Gots
    BY DEF MailShape
  <2>2. \A e : e \in Mail(w, q, out, [got EXCEPT ![th] = v]) <=>
                 \/ v # NoReply /\ e = x
                 \/ e \in Mail(w, q, out, got) /\ ~(e[1] = "got" /\ e[2] = th)
    BY <2>1, MailGot
  <2> HIDE DEF x
  <2> QED
    BY <2>2
<1>2. \A e : e \in Before(w, q, th) <=> e \in Mail(w, q, out, got) /\ ~(e[1] = "got" /\ e[2] = th)
  BY LetsGo
<1> HIDE DEF x
<1> QED
  BY <1>1, <1>2 DEF x

\* Agents have the tables they look an id up in.
LEMMA AnswerIsNode ==
  ASSUME TableShape, NetShape, NEW a \in Node, NEW id \in Id \cup Node
  PROVE  AnswerHere(a, id) \in Node \cup {NoNode}
<1>1. cache[a][id] \in Node \cup {NoNode}
  BY DEF NetShape
<1>2. Found(id) \in Node \cup {NoNode}
  BY DEF Found, TableShape
<1> QED
  BY <1>1, <1>2 DEF AnswerHere

LEMMA MessagesMade ==
  /\ \A id \in Id \cup Node, th \in Thread : ResolveMsg(id, th) \in Plain
  /\ \A r \in Request, ids \in Seq(Id), th \in ClientThread :
       Len(ids) = r.n => LaunchMsg(r, ids, th) \in Plain
  /\ \A id \in Id, ids \in SUBSET Id, phase \in {1, 2} : MakeMsg(id, ids, phase) \in Plain
  /\ \A op \in {"kill", "wait", "alive"}, id \in Id, th \in ClientThread : CallMsg(op, id, th) \in Plain
  /\ \A op \in {"reg", "unreg"}, id \in Id, th \in ClientThread : ContextMsg(op, id, th) \in Plain
  /\ \A id \in Id : DataMsg(id) \in Plain /\ DeadMsg(id) \in Plain
  /\ \A th \in ClientThread : SizeMsg(th) \in Plain /\ FindMsg(FALSE, th) \in Plain
  /\ FindMsg(TRUE, AdminT(Master)) \in Plain
  /\ \A a, b \in Node : BackLinkMsg(a, b) \in Plain
  /\ \A a \in Node : MakeLinkMsg(a) \in Plain /\ RemoveLinkMsg(a) \in Plain
  /\ \A th \in Thread : \A v : <<v>> \in Values => ReplyMsg(th, v) \in Plain
  /\ Nothing \in Plain
  /\ \A a \in Node, m \in Plain : RoutedMsg(a, m) \in Message
<1>1. \A id \in Id \cup Node, th \in Thread : ResolveMsg(id, th) \in Plain
  BY DEF ResolveMsg, Plain
<1>2. \A r \in Request, ids \in Seq(Id), th \in ClientThread :
        Len(ids) = r.n => LaunchMsg(r, ids, th) \in Plain
  BY DEF LaunchMsg, Plain, Launches
<1>3. \A id \in Id, ids \in SUBSET Id, phase \in {1, 2} : MakeMsg(id, ids, phase) \in Plain
  BY DEF MakeMsg, Plain
<1>4. \A op \in {"kill", "wait", "alive"}, id \in Id, th \in ClientThread : CallMsg(op, id, th) \in Plain
  BY DEF CallMsg, Plain
<1>5. \A op \in {"reg", "unreg"}, id \in Id, th \in ClientThread : ContextMsg(op, id, th) \in Plain
  BY DEF ContextMsg, Plain
<1>6. \A id \in Id : DataMsg(id) \in Plain /\ DeadMsg(id) \in Plain
  BY DEF DataMsg, DeadMsg, Plain
<1>7. \A th \in ClientThread : SizeMsg(th) \in Plain /\ FindMsg(FALSE, th) \in Plain
  BY DEF SizeMsg, FindMsg, Plain
<1>8. FindMsg(TRUE, AdminT(Master)) \in Plain
  BY DEF FindMsg, Plain
<1>9. \A a, b \in Node : BackLinkMsg(a, b) \in Plain
  BY DEF BackLinkMsg, Plain
<1>10. \A a \in Node : MakeLinkMsg(a) \in Plain /\ RemoveLinkMsg(a) \in Plain
  BY DEF MakeLinkMsg, RemoveLinkMsg, Plain
<1>11. \A th \in Thread : \A v : <<v>> \in Values => ReplyMsg(th, v) \in Plain
  BY DEF ReplyMsg, Plain
<1>12. Nothing \in Plain
  BY DEF Plain
<1>13. \A a \in Node, m \in Plain : RoutedMsg(a, m) \in Message
  BY DEF RoutedMsg, Message
<1> QED
  BY <1>1, <1>2, <1>3, <1>4, <1>5, <1>6, <1>7, <1>8, <1>9, <1>10, <1>11, <1>12, <1>13

\* Thread th, which holds r, resolves an agent or a task: its answer is there, or the
\* question on its way.
Asked(w, q, th, r, next) ==
  /\ pc' = [pc EXCEPT ![th] = next]
  /\ chan' \in Links /\ got' \in Gots /\ Onces(chan', q)
  /\ \E y : /\ MailNow' \subseteq Before(w, q, th) \cup {<<"out", th, r.to, r.msg>>, y}
            /\ Carries(y[4], th) /\ Noted(y, pc', out')

LEMMA Resolves ==
  ASSUME MailShape, TableShape, NetShape, pc \in [Thread -> Pcs],
         NEW th \in Thread, AgentOf(th) \in Node, NEW id \in Id \cup Node, NEW next \in {"task", "agent"},
         NEW w, NEW q, Calm(w, q, th), Resolve(th, id, next, w), adminq' = q,
         NEW r, out' = [out EXCEPT ![th] = r]
  PROVE  Asked(w, q, th, r, next)
<1> DEFINE a == AgentOf(th)
           x == <<"out", th, r.to, r.msg>>
           free == [got EXCEPT ![th] = NoReply]
<1>1. pc' = [pc EXCEPT ![th] = next] /\ pc'[th] = next
  BY DEF Resolve
<1>2. w \in Links /\ Onces(w, q) /\ got \in Gots /\ out \in Outs /\ free \in Gots
  BY DEF Calm, MailShape, Gots
<1>3. MailNow' = Mail(chan', q, [out EXCEPT ![th] = r], got')
  BY DEF MailNow
<1>4. MailNow' \subseteq Mail(chan', q, out, got') \cup {x}
  BY <1>2, <1>3, OutAdds
<1> HIDE DEF x
<1>5. CASE KnownHere(a, id)
  <2> DEFINE v == <<AnswerHere(a, id)>>
             y == <<"got", th, NoNode, [kind |-> "reply", th |-> th, val |-> v]>>
  <2>1. got' = [got EXCEPT ![th] = v] /\ chan' = w
    BY <1>5 DEF Resolve
  <2>2. v \in Answers /\ v \in Values /\ v # NoReply
    BY AnswerIsNode DEF Answers, Values, NoReply
  <2> HIDE DEF v
  <2>3. got' \in Gots
    BY <1>2, <2>1, <2>2 DEF Gots
  <2>4. Mail(w, q, out, got') \subseteq Before(w, q, th) \cup {y}
    BY <2>1, <2>2, GotAdds
  <2>5. Carries(y[4], th)
    BY DEF Carries, Carriers
  <2>6. Noted(y, pc', out')
    BY <1>1, <2>2 DEF Noted, Fit, MasterKinds, Waits, ClientKinds
  <2> HIDE DEF y
  <2>7. MailNow' \subseteq Before(w, q, th) \cup {x, y}
    BY <1>4, <2>1, <2>4
  <2> QED
    BY <1>1, <1>2, <2>1, <2>3, <2>5, <2>6, <2>7 DEF x, Asked
<1>6. CASE ~KnownHere(a, id)
  <2> DEFINE l == <<a, Master>>
             m == ResolveMsg(id, th)
             y == <<"chan", l, Master, m>>
  <2>1. got' = free /\ chan' = [w EXCEPT ![l] = Append(@, m)]
    BY <1>6 DEF Resolve
  <2>2. m \in Plain /\ l \in Node \X Node /\ l[2] = Master
    BY MessagesMade, Threads
  <2>3. m \in Message /\ Base(m) = m /\ Dest(m, l[2]) = Master /\ m.kind = "resolve" /\ m.th = th
    BY <2>2, PlainIs DEF Dest, ResolveMsg
  <2> HIDE DEF m, l
  <2>4. \A t : Carries(Base(m), t) => Own(Mail(w, q, out, free), t) = {}
    BY <2>3 DEF Carries, Calm, Before
  <2>5. chan' \in Links /\ Onces(chan', q) /\ Mail(chan', q, out, free) \subseteq Mail(w, q, out, free) \cup {y}
    <3> DEFINE v == [w EXCEPT ![l] = Append(@, m)]
               c == Mail(v, q, out, free) \subseteq
                      Mail(w, q, out, free) \cup {<<"chan", l, Dest(m, l[2]), Base(m)>>}
               o == Onces(w, q) /\ (\A t : Carries(Base(m), t) => Own(Mail(w, q, out, free), t) = {}) => Onces(v, q)
    <3>1. v \in Links /\ c /\ o
      BY <1>2, <2>2, <2>3, ChanAdds, Zenon
    <3>2. Onces(v, q)
      BY <1>2, <2>4, <3>1
    <3> QED
      BY <2>1, <2>3, <3>1, <3>2
  <2>6. Carries(y[4], th)
    BY <2>3 DEF Carries, Carriers
  <2>7. Noted(y, pc', out')
    BY <1>1, <2>3 DEF Noted, Fit, ClientKinds, Waits
  <2> HIDE DEF y
  <2>8. MailNow' \subseteq Before(w, q, th) \cup {x, y}
    BY <1>4, <2>1, <2>5 DEF Before
  <2> QED
    BY <1>1, <1>2, <2>1, <2>5, <2>6, <2>7, <2>8 DEF x, Asked
<1> QED
  BY <1>5, <1>6

\* What a send by thread th of message m comes to.
Nexts == {"idle", "reply", "made", "found"}
Delivered(th, m) ==
  /\ MailShape' /\ Onces(chan', adminq') /\ FitInv'
  /\ \A t \in Thread \ {th} :
       Own(MailNow', t) \subseteq Own(MailNow, t) \/ (Carries(m, t) /\ Lone(Own(MailNow', t)))
  /\ Lone(Own(MailNow', th))
Moved(th, b, m, next) ==
  /\ pc' \in [Thread -> Pcs] /\ \A t \in Thread \ {th} : pc'[t] = pc[t] /\ out'[t] = out[t]
  /\ \/ out'[th] = NoOut /\ (pc'[th] = next \/ (m.kind = "data" /\ pc'[th] = "recursing"))
     \/ pc'[th] = "agent" /\ out'[th] = [to |-> b, msg |-> m, next |-> next]

LEMMA Sends ==
  ASSUME MailShape, TableShape, NetShape, FitInv, pc \in [Thread -> Pcs],
         NEW th \in Thread, AgentOf(th) \in Node, out[th] = NoOut,
         NEW w, NEW q, Calm(w, q, th), NEW b \in Node, NEW m \in Plain, NEW next \in Nexts,
         Send(th, b, m, next, q, w),
         \A t : Carries(m, t) => Own(Before(w, q, th), t) = {},
         m.kind \in MasterKinds => b = Master,
         m.kind \in Carriers => Fit(m, IF m.th = th THEN next ELSE pc[m.th]),
         m.kind = "reply" => m.th # th
  PROVE  Delivered(th, m) /\ Moved(th, b, m, next)
<1> DEFINE a == AgentOf(th)
           free == [got EXCEPT ![th] = NoReply]
<1>1. /\ w \in Links /\ q \in Queues /\ Onces(w, q) /\ got \in Gots /\ out \in Outs /\ free \in Gots
      /\ Before(w, q, th) = Mail(w, q, out, free)
  BY DEF Calm, MailShape, Gots, Before
<1>2. m \in Message /\ Base(m) = m /\ m.kind # "routed" /\ (m.kind \in Carriers => m.th \in Thread)
  BY PlainIs, Kinds
<1>3. next \in Pcs /\ "agent" \in Pcs /\ "recursing" \in Pcs
  BY DEF Nexts, Pcs, Waits
<1>4. \A t : Carries(Base(m), t) => Own(Mail(w, q, out, free), t) = {}
  BY <1>1, <1>2
<1> HIDE DEF free
<1>5. ASSUME Moved(th, b, m, next), NEW x, x[4] = m, x[3] = b \/ m.kind = "reply", m.kind # "data",
             \/ pc'[th] = next /\ x[1] # "out"
             \/ out'[th].next = next /\ x[1] = "out" /\ x[2] = th
      PROVE  Noted(x, pc', out')
  <2>1. m.kind \in Carriers /\ m.th # th => pc'[m.th] = pc[m.th]
    BY <1>2, <1>5 DEF Moved
  <2>2. m.kind = "reply" => m.kind \notin MasterKinds
    BY DEF MasterKinds
  <2> QED
    BY <1>5, <2>1, <2>2 DEF Noted
<1>6. ASSUME Moved(th, b, m, next), NEW x, x[4] = m, x[3] = b, m.kind = "data" PROVE Noted(x, pc', out')
  BY <1>6 DEF Noted, Carriers, ClientKinds, MasterKinds
<1>7. ASSUME Moved(th, b, m, next), MailShape', Onces(chan', adminq'), NEW x, NEW y,
             MailNow' \subseteq Before(w, q, th) \cup {x, y}, x[4] = m,
             y = x \/ (Carries(y[4], th) /\ x[1] = "out" /\ x[2] = th),
             Noted(x, pc', out'), Noted(y, pc', out')
      PROVE  Delivered(th, m)
  <2>1. \A t \in Thread \ {th} : pc'[t] = pc[t] /\ out'[t] = out[t]
    BY <1>7 DEF Moved
  <2> QED
    BY <1>7, <2>1, Sent DEF Delivered
<1>8. CASE /\ b = a /\ m.kind = "reply" /\ UNCHANGED out /\ adminq' = q /\ chan' = w
           /\ got' = [got EXCEPT ![th] = NoReply, ![m.th] = m.val] /\ pc' = [pc EXCEPT ![th] = next]
  <2> DEFINE x == <<"got", m.th, NoNode, [kind |-> "reply", th |-> m.th, val |-> m.val]>>
  <2>1. m = [kind |-> "reply", th |-> m.th, val |-> m.val] /\ m.th \in Thread /\ m.val \in Values
    BY <1>2, <1>8, Kinds DEF Carriers
  <2>2. got' = [free EXCEPT ![m.th] = m.val]
    BY <1>8 DEF free
  <2>3. \A e : e \in Mail(w, q, out, [free EXCEPT ![m.th] = m.val]) <=>
                 \/ m.val # NoReply /\ e = x
                 \/ e \in Mail(w, q, out, free) /\ ~(e[1] = "got" /\ e[2] = m.th)
    <3> HIDE DEF x
    <3>1. \A t \in Thread : \A v : \A e : e \in Mail(w, q, out, [free EXCEPT ![t] = v]) <=>
            \/ v # NoReply /\ e = <<"got", t, NoNode, [kind |-> "reply", th |-> t, val |-> v]>>
            \/ e \in Mail(w, q, out, free) /\ ~(e[1] = "got" /\ e[2] = t)
      BY <1>1, MailGot
    <3> QED
      BY <2>1, <3>1, Zenon DEF x
  <2>4. x[4] = m /\ x[1] = "got"
    BY <2>1
  <2> HIDE DEF x
  <2>5. MailNow' \subseteq Before(w, q, th) \cup {x, x}
    BY <1>1, <1>8, <2>2, <2>3 DEF MailNow
  <2>6. got' \in Gots
    BY <1>1, <2>1, <2>2 DEF Gots
  <2>7. MailShape' /\ Onces(chan', adminq')
    BY <1>1, <1>8, <2>6 DEF MailShape
  <2>8. Moved(th, b, m, next) /\ pc'[th] = next
    BY <1>3, <1>8 DEF Moved
  <2> QED
    BY <1>5, <1>7, <1>8, <2>4, <2>5, <2>7, <2>8
<1>9. CASE /\ b = a /\ m.kind # "reply" /\ UNCHANGED out /\ chan' = w /\ got' = free
           /\ adminq' = IF IsInstant(m) THEN q ELSE [q EXCEPT ![a] = Append(@, m)]
           /\ pc' = [pc EXCEPT ![th] = IF m.kind = "data" THEN "recursing" ELSE next]
  <2> DEFINE x == <<"queue", a, a, m>>
             v == [q EXCEPT ![a] = Append(@, m)]
             c == Mail(w, v, out, free) \subseteq
                    Mail(w, q, out, free) \cup {<<"queue", a, Dest(m, a), Base(m)>>}
             o == Onces(w, q) /\ (\A t : Carries(Base(m), t) => Own(Mail(w, q, out, free), t) = {}) => Onces(w, v)
  <2>1. Dest(m, a) = a
    BY <1>2 DEF Dest
  <2>2. v \in Queues /\ c /\ o
    BY <1>1, <1>2, QueueAdds, Zenon
  <2>3. adminq' \in Queues /\ Onces(chan', adminq') /\ MailNow' \subseteq Before(w, q, th) \cup {x, x}
    <3>1. CASE adminq' = q
      BY <1>1, <1>9, <3>1 DEF MailNow
    <3>2. CASE adminq' = v
      BY <1>1, <1>2, <1>4, <1>9, <2>1, <2>2, <3>2 DEF MailNow
    <3> QED
      BY <1>9, <3>1, <3>2
  <2>4. MailShape'
    BY <1>1, <1>9, <2>3 DEF MailShape
  <2>5. Moved(th, b, m, next) /\ (m.kind # "data" => pc'[th] = next)
    <3>1. CASE m.kind = "data"
      BY <1>3, <1>9, <3>1 DEF Moved
    <3>2. CASE m.kind # "data"
      BY <1>3, <1>9, <3>2 DEF Moved
    <3> QED
      BY <3>1, <3>2
  <2>6. x[4] = m /\ x[3] = b /\ x[1] # "out"
    BY <1>9
  <2> HIDE DEF x
  <2>7. Noted(x, pc', out')
    BY <1>5, <1>6, <2>5, <2>6
  <2> QED
    BY <1>7, <2>3, <2>4, <2>5, <2>6, <2>7
<1>10. CASE /\ b # a /\ chan' = [w EXCEPT ![<<a, b>>] = Append(@, m)] /\ pc' = [pc EXCEPT ![th] = next]
            /\ got' = free /\ adminq' = q /\ UNCHANGED out
  <2> DEFINE l == <<a, b>>
             x == <<"chan", l, b, m>>
             v == [w EXCEPT ![l] = Append(@, m)]
             c == Mail(v, q, out, free) \subseteq
                    Mail(w, q, out, free) \cup {<<"chan", l, Dest(m, l[2]), Base(m)>>}
             o == Onces(w, q) /\ (\A t : Carries(Base(m), t) => Own(Mail(w, q, out, free), t) = {}) => Onces(v, q)
  <2>1. l \in Node \X Node /\ l[2] = b /\ Dest(m, l[2]) = b
    BY <1>2 DEF Dest
  <2> HIDE DEF l
  <2>2. v \in Links /\ c /\ o
    BY <1>1, <1>2, <2>1, ChanAdds, Zenon
  <2>3. chan' = v
    BY <1>10 DEF l
  <2>4. Onces(chan', adminq') /\ chan' \in Links
    BY <1>1, <1>4, <1>10, <2>2, <2>3
  <2>5. MailNow' \subseteq Before(w, q, th) \cup {x, x}
    <3>1. <<"chan", l, Dest(m, l[2]), Base(m)>> = x
      BY <1>2, <2>1
    <3>2. MailNow' = Mail(v, q, out, free)
      BY <1>10, <2>3, Zenon DEF MailNow
    <3> HIDE DEF x, v
    <3> QED
      BY <1>1, <2>2, <3>1, <3>2
  <2>6. MailShape'
    BY <1>1, <1>10, <2>4 DEF MailShape
  <2>7. Moved(th, b, m, next) /\ pc'[th] = next
    BY <1>3, <1>10 DEF Moved
  <2>8. x[4] = m /\ x[3] = b /\ x[1] # "out"
    OBVIOUS
  <2> HIDE DEF x
  <2>9. Noted(x, pc', out')
    BY <1>5, <1>6, <2>7, <2>8
  <2> QED
    BY <1>7, <2>4, <2>5, <2>6, <2>7, <2>8, <2>9
<1>11. CASE b # a /\ Resolve(th, b, "agent", w) /\ adminq' = q
            /\ out' = [out EXCEPT ![th] = [to |-> b, msg |-> m, next |-> next]]
  <2> DEFINE r == [to |-> b, msg |-> m, next |-> next]
             x == <<"out", th, r.to, r.msg>>
  <2>1. /\ pc' = [pc EXCEPT ![th] = "agent"]
        /\ chan' \in Links /\ got' \in Gots /\ Onces(chan', q)
        /\ \E y : /\ MailNow' \subseteq Before(w, q, th) \cup {x, y}
                  /\ Carries(y[4], th) /\ Noted(y, pc', out')
    <3>1. /\ out' = [out EXCEPT ![th] = r] /\ Resolve(th, b, "agent", w) /\ adminq' = q
          /\ b \in Id \cup Node /\ "agent" \in {"task", "agent"}
      BY <1>11
    <3> HIDE DEF r, x
    <3>2. Asked(w, q, th, r, "agent")
      BY <3>1, Resolves
    <3> QED
      BY <3>2 DEF Asked, x
  <2>2. r \in [to : Node \cup {NoNode}, msg : Plain, next : Nexts]
    OBVIOUS
  <2>3. MailShape' /\ Onces(chan', adminq')
    BY <1>1, <1>11, <2>1, <2>2 DEF MailShape, Outs, Nexts
  <2>4. Moved(th, b, m, next) /\ out'[th].next = next
    BY <1>1, <1>3, <1>11, <2>1 DEF Moved, Outs
  <2>5. x[4] = m /\ x[3] = b /\ x[1] = "out" /\ x[2] = th
    OBVIOUS
  <2> HIDE DEF x, r
  <2>6. Noted(x, pc', out')
    BY <1>5, <1>6, <2>4, <2>5
  <2> QED
    BY <1>7, <2>1, <2>3, <2>4, <2>5, <2>6
<1> QED
  BY <1>8, <1>9, <1>10, <1>11 DEF Send, free

-----------------------------------------------------------------------------
(* A step of one thread, put together.                                     *)

FrameShape == /\ TableShape /\ ProcShape /\ NetShape /\ WorkShape /\ HistShape
              /\ ctx \in [Client -> Id \cup {NoId}] /\ proxyat \in [Client -> Node \cup {NoNode}]

LEMMA Together ==
  ASSUME FrameShape', MailShape', pc' \in [Thread -> Pcs], CallShape', Control', Work', FitInv', WaitInv'
  PROVE  MailInv'
BY DEF FrameShape, MailInv, Shape, ThreadShape

LEMMA Apart ==
  ASSUME MailInv
  PROVE  /\ FrameShape /\ TableShape /\ ProcShape /\ NetShape /\ WorkShape /\ HistShape /\ MailShape /\ CallShape
         /\ pc \in [Thread -> Pcs] /\ Control /\ Work /\ FitInv /\ WaitInv
BY DEF FrameShape, MailInv, Shape, ThreadShape

\* The threads and where they go.
LEMMA Courses ==
  ASSUME NEW th \in Thread
  PROVE  /\ NextOf(th) \subseteq PcsOf(th) /\ "idle" \in PcsOf(th) /\ "agent" \in PcsOf(th)
         /\ "idle" \in NextOf(th)
         /\ th[1] # "proxy" => "recursing" \in PcsOf(th)
         /\ NextOf(th) \subseteq Nexts /\ PcsOf(th) \subseteq Pcs
         /\ th \notin ClientThread => "reply" \notin PcsOf(th) /\ "reply" \notin NextOf(th)
         /\ th # AdminT(Master) => PcsOf(th) \cap {"launch", "made", "hunt", "found"} = {}
                                   /\ NextOf(th) \cap {"made", "found"} = {}
         /\ th # <<>>
<1>1. CASE \E c \in Client : th = ClientT(c)
  <2>1. th[1] = "client" /\ th \in ClientThread /\ th # AdminT(Master)
    BY <1>1, Sorts, Threads
  <2>2. th # <<>>
    BY <1>1 DEF ClientT
  <2> QED
    BY <2>1, <2>2 DEF NextOf, PcsOf, Nexts, Pcs, Waits
<1>2. CASE \E c \in Client : th = ProxyT(c)
  <2>1. th[1] = "proxy" /\ th # AdminT(Master)
    BY <1>2, Sorts
  <2>2. th # <<>>
    BY <1>2 DEF ProxyT
  <2> QED
    BY <2>1, <2>2 DEF NextOf, PcsOf, Nexts, Pcs, Waits
<1>3. CASE \E a \in Node : th = AdminT(a)
  <2>1. th[1] = "admin"
    BY <1>3, Sorts
  <2>2. th # <<>>
    BY <1>3 DEF AdminT
  <2> QED
    BY <2>1, <2>2 DEF NextOf, PcsOf, Nexts, Pcs, Waits
<1>4. CASE \E a, b \in Node : th = RecvT(a, b)
  <2>1. th[1] = "recv" /\ th # AdminT(Master)
    BY <1>4, Sorts
  <2>2. th # <<>>
    BY <1>4 DEF RecvT
  <2> QED
    BY <2>1, <2>2 DEF NextOf, PcsOf, Nexts, Pcs, Waits
<1> QED
  BY <1>1, <1>2, <1>3, <1>4, ThreadCases

LEMMA Nobody ==
  ASSUME NEW t \in Thread
  PROVE  NoLaunch.client # t /\ NoHunt.client # t /\ t # <<>>
BY Courses DEF NoLaunch, NoHunt

LEMMA KeptShrinks ==
  ASSUME \A c \in Client : pc'[ProxyT(c)] = "waiting" => pc[ProxyT(c)] = "waiting",
         launch'.client \in {launch.client, <<>>}, hunt'.client \in {hunt.client, <<>>},
         NEW t \in Thread
  PROVE  Kept(pc', launch', hunt', t) \subseteq KeptNow(t)
<1>1. t # <<>>
  BY Nobody
<1> QED
  BY <1>1 DEF Kept, KeptNow

\* The mail of every thread but th is what it was or what the message brings.
LEMMA WaitSent ==
  ASSUME WaitInv, NEW th \in Thread, pc[th] # "reply",
         \A t \in Thread \ {th} : pc'[t] = pc[t],
         \A t \in Thread : Kept(pc', launch', hunt', t) \subseteq KeptNow(t),
         NEW m, \A t \in Thread : Carries(m, t) => Kept(pc', launch', hunt', t) = {},
         \A t \in Thread \ {th} :
              Own(MailNow', t) \subseteq Own(MailNow, t) \/ (Carries(m, t) /\ Lone(Own(MailNow', t))),
         Lone(Own(MailNow', th)), Onces(chan', adminq')
  PROVE  WaitInv'
<1> SUFFICES ASSUME NEW t \in Thread
             PROVE  /\ Lone(Own(MailNow', t)) /\ Lone(Kept(pc', launch', hunt', t))
                    /\ Own(MailNow', t) = {} \/ Kept(pc', launch', hunt', t) = {}
                    /\ Kept(pc', launch', hunt', t) # {} => pc'[t] = "reply"
  BY DEF WaitInv, WaitOf, KeptNow
<1> DEFINE O == Own(MailNow, t)
           O1 == Own(MailNow', t)
           K == KeptNow(t)
           K1 == Kept(pc', launch', hunt', t)
<1>1. Lone(O) /\ Lone(K) /\ (O = {} \/ K = {}) /\ (K # {} => pc[t] = "reply") /\ K1 \subseteq K
  BY DEF WaitInv, WaitOf
<1>2. CASE t = th
  BY <1>1, <1>2 DEF Lone
<1>3. CASE t # th
  <2>1. /\ pc'[t] = pc[t]
        /\ O1 \subseteq O \/ (Carries(m, t) /\ Lone(O1))
        /\ Carries(m, t) => K1 = {}
    BY <1>3
  <2>2. Lone(O1) /\ Lone(K1) /\ (O1 = {} \/ K1 = {}) /\ (K1 # {} => pc'[t] = "reply")
    <3> HIDE DEF O, O1, K, K1
    <3> QED
      BY <1>1, <2>1 DEF Lone
  <2> QED
    BY <2>2
<1> QED
  BY <1>2, <1>3

LEMMA ControlSent ==
  ASSUME Control, NEW th \in Thread, out[th] = NoOut, AgentOf(th) \in Node,
         NEW b \in Node, NEW m, \A c \in Client : th = ProxyT(c) => Carries(m, ClientT(c)),
         NEW next \in NextOf(th), Moved(th, b, m, next), \A t \in Thread \ {th} : call'[t] = call[t], proxyat' = proxyat
  PROVE  Control'
<1>1. \A t \in Thread \ {th} : pc'[t] = pc[t] /\ out'[t] = out[t] /\ call'[t] = call[t]
  BY DEF Moved
<1>2. \A t \in Thread \ {th} : ControlOf(t)'
  BY <1>1 DEF Control, ControlOf, PcsOf, NextOf
<1>3. ControlOf(th)'
  <2>0. m.kind = "data" => th[1] # "proxy"
    BY ThreadCases, Sorts DEF Carries, Carriers, ClientKinds
  <2>1. /\ next \in PcsOf(th) /\ "agent" \in PcsOf(th) /\ (m.kind = "data" => "recursing" \in PcsOf(th))
        /\ next \in {"idle", "reply", "made", "found"}
    BY <2>0, Courses DEF Nexts
  <2>2. CASE out'[th] = NoOut /\ (pc'[th] = next \/ (m.kind = "data" /\ pc'[th] = "recursing"))
    <3>1. pc'[th] \in PcsOf(th) /\ pc'[th] \notin {"agent", "task", "waiting"} /\ out'[th] = NoOut
      BY <2>1, <2>2
    <3> QED
      BY <3>1 DEF ControlOf, PcsOf
  <2>3. CASE pc'[th] = "agent" /\ out'[th] = [to |-> b, msg |-> m, next |-> next]
    <3>1. /\ pc'[th] \in PcsOf(th) /\ pc'[th] = "agent" /\ out'[th].to \in Node
          /\ out'[th].next \in NextOf(th)
      BY <2>1, <2>3
    <3> QED
      BY <3>1 DEF ControlOf, PcsOf, NextOf
  <2> QED
    BY <2>2, <2>3 DEF Moved
<1>4. \A c \in Client : pc'[ProxyT(c)] # "idle" => proxyat'[c] \in Node
  <2> SUFFICES ASSUME NEW c \in Client, pc'[ProxyT(c)] # "idle" PROVE proxyat[c] \in Node
    OBVIOUS
  <2>1. CASE ProxyT(c) = th
    BY <2>1, Sorts DEF AgentOf
  <2>2. CASE ProxyT(c) # th
    BY <1>1, <2>2, Threads DEF Control
  <2> QED
    BY <2>1, <2>2
<1>5. \A c \in Client : pc'[ProxyT(c)] = "agent" => Carries(out'[ProxyT(c)].msg, ClientT(c))
  <2> SUFFICES ASSUME NEW c \in Client, pc'[ProxyT(c)] = "agent"
               PROVE  Carries(out'[ProxyT(c)].msg, ClientT(c))
    OBVIOUS
  <2>1. CASE ProxyT(c) = th
    <3>1. out'[th] = [to |-> b, msg |-> m, next |-> next]
      BY <2>1, Courses DEF Moved, Nexts
    <3> QED
      BY <2>1, <3>1
  <2>2. CASE ProxyT(c) # th
    BY <1>1, <2>2, Threads DEF Control
  <2> QED
    BY <2>1, <2>2
<1> QED
  BY <1>2, <1>3, <1>4, <1>5 DEF Control

\* What thread th must be ready for, to send message m.
Ready(th, w, q, b, m, next) ==
  /\ AgentOf(th) \in Node /\ out[th] = NoOut /\ pc[th] # "reply" /\ Calm(w, q, th)
  /\ b \in Node /\ m \in Plain /\ next \in NextOf(th)
  /\ \A t : Carries(m, t) => Own(Before(w, q, th), t) = {}
  /\ m.kind \in MasterKinds => b = Master
  /\ m.kind \in Carriers => Fit(m, IF m.th = th THEN next ELSE pc[m.th])
  /\ m.kind = "reply" => m.th # th
  /\ \A c \in Client : th = ProxyT(c) => Carries(m, ClientT(c))

LEMMA SendStep ==
  ASSUME MailInv, NEW th \in Thread, NEW w, NEW q, NEW b, NEW m, NEW next,
         Ready(th, w, q, b, m, next), Send(th, b, m, next, q, w),
         \A t \in Thread : Carries(m, t) => Kept(pc', launch', hunt', t) = {},
         launch'.client \in {launch.client, <<>>}, hunt'.client \in {hunt.client, <<>>},
         \A t \in Thread \ {th} : call'[t] = call[t], proxyat' = proxyat
  PROVE  MailShape' /\ pc' \in [Thread -> Pcs] /\ Control' /\ FitInv' /\ WaitInv' /\ Moved(th, b, m, next)
<1>1. /\ MailShape /\ TableShape /\ NetShape /\ FitInv /\ pc \in [Thread -> Pcs] /\ Control /\ WaitInv
  BY Apart
<1>2. /\ AgentOf(th) \in Node /\ out[th] = NoOut /\ pc[th] # "reply" /\ Calm(w, q, th)
      /\ b \in Node /\ m \in Plain /\ next \in NextOf(th) /\ next \in Nexts
      /\ \A t : Carries(m, t) => Own(Before(w, q, th), t) = {}
      /\ m.kind \in MasterKinds => b = Master
      /\ m.kind \in Carriers => Fit(m, IF m.th = th THEN next ELSE pc[m.th])
      /\ m.kind = "reply" => m.th # th
      /\ \A c \in Client : th = ProxyT(c) => Carries(m, ClientT(c))
  BY Courses DEF Ready
<1>3. Delivered(th, m) /\ Moved(th, b, m, next)
  BY <1>1, <1>2, Sends
<1>4. Control'
  BY <1>1, <1>2, <1>3, ControlSent
<1>5. \A c \in Client : pc'[ProxyT(c)] = "waiting" => pc[ProxyT(c)] = "waiting"
  <2> SUFFICES ASSUME NEW c \in Client, pc'[ProxyT(c)] = "waiting" PROVE pc[ProxyT(c)] = "waiting"
    OBVIOUS
  <2>1. ProxyT(c) # th
    BY <1>2, <1>3 DEF Moved, Nexts
  <2> QED
    BY <1>3, <2>1, Threads DEF Moved
<1>6. \A t \in Thread : Kept(pc', launch', hunt', t) \subseteq KeptNow(t)
  BY <1>5, KeptShrinks
<1>7. WaitInv'
  <2>1. /\ \A t \in Thread \ {th} : pc'[t] = pc[t]
        /\ \A t \in Thread \ {th} :
              Own(MailNow', t) \subseteq Own(MailNow, t) \/ (Carries(m, t) /\ Lone(Own(MailNow', t)))
        /\ Lone(Own(MailNow', th)) /\ Onces(chan', adminq')
    BY <1>3 DEF Moved, Delivered
  <2> QED
    BY <1>1, <1>2, <1>6, <2>1, WaitSent
<1> QED
  BY <1>3, <1>4, <1>7 DEF Delivered, Moved

\* The master's admin thread stays where it was, as far as its work goes.
LEMMA WorkSame ==
  ASSUME Work, UNCHANGED <<launch, hunt>>,
         LET p == pc[AdminT(Master)]
             n == out[AdminT(Master)].next
         IN  \/ pc'[AdminT(Master)] = p /\ out'[AdminT(Master)] = out[AdminT(Master)]
             \/ /\ ~Launching /\ ~Hunting
                /\ pc'[AdminT(Master)] \notin {"launch", "made", "hunt", "found"}
                /\ out'[AdminT(Master)].next \notin {"made", "found"}
  PROVE  Work'
BY DEF Work, Launching, Hunting

LEMMA SendSame ==
  ASSUME MailInv, NEW th \in Thread, NEW w, NEW q, NEW b, NEW m, NEW next,
         Ready(th, w, q, b, m, next), Send(th, b, m, next, q, w),
         \A t \in Thread : Carries(m, t) => KeptNow(t) = {},
         UNCHANGED <<launch, hunt>>, th = AdminT(Master) => pc[th] = "idle" /\ next = "idle",
         \A t \in Thread \ {th} : call'[t] = call[t], proxyat' = proxyat, CallShape', FrameShape'
  PROVE  MailInv'
<1>1. \A c \in Client : pc'[ProxyT(c)] = "waiting" => pc[ProxyT(c)] = "waiting"
  <2> SUFFICES ASSUME NEW c \in Client, pc'[ProxyT(c)] = "waiting" PROVE pc[ProxyT(c)] = "waiting"
    OBVIOUS
  <2>0. pc \in [Thread -> Pcs] /\ ProxyT(c) \in Thread /\ next \in Nexts
    BY Apart, Threads, Courses DEF Ready
  <2>1. \E p : pc' = [pc EXCEPT ![th] = p] /\ p # "waiting"
    BY <2>0 DEF Send, Resolve, Nexts
  <2> QED
    BY <2>0, <2>1
<1>2. \A t \in Thread : Kept(pc', launch', hunt', t) \subseteq KeptNow(t)
  BY <1>1, KeptShrinks
<1>3. \A t \in Thread : Carries(m, t) => Kept(pc', launch', hunt', t) = {}
  BY <1>2
<1>4. MailShape' /\ pc' \in [Thread -> Pcs] /\ Control' /\ FitInv' /\ WaitInv' /\ Moved(th, b, m, next)
  BY <1>3, SendStep
<1>5. Work'
  <2>1. Work
    BY Apart
  <2>2. CASE th # AdminT(Master)
    BY <1>4, <2>1, <2>2, Threads, WorkSame DEF Moved
  <2>3. CASE th = AdminT(Master)
    <3>1. pc[th] = "idle" /\ next = "idle" /\ out[th] = NoOut
      BY <2>3 DEF Ready
    <3>2. ~Launching /\ ~Hunting
      BY <2>3, <3>1 DEF Launching, Hunting, NoOut
    <3>3. pc'[th] \notin {"launch", "made", "hunt", "found"} /\ out'[th].next \notin {"made", "found"}
      BY <1>4, <3>1 DEF Moved, NoOut
    <3> QED
      BY <2>1, <2>3, <3>2, <3>3, WorkSame
  <2> QED
    BY <2>2, <2>3
<1> QED
  BY <1>4, <1>5, Together

-----------------------------------------------------------------------------
(* What is taken, and what is done with it.                                *)

LEMMA TakenFacts ==
  ASSUME MailInv, NEW w, NEW q, NEW x, Taken(w, q, x), x[1] # "out"
  PROVE  /\ x[4] \in Plain /\ Noted(x, pc, out)
         /\ x[4].kind \in Carriers => x[4].th \in Thread /\ pc[x[4].th] \in Waits /\ Fit(x[4], pc[x[4].th])
         /\ \A t \in Thread : Carries(x[4], t) => KeptNow(t) = {}
         /\ \A th \in Thread : \A t : Carries(x[4], t) => Own(Before(w, q, th), t) = {}
<1>1. MailShape /\ FitInv /\ WaitInv
  BY Apart
<1>2. x[4] \in Plain
  BY <1>1, MailTyped DEF Taken, MailShape, MailNow
<1>3. Noted(x, pc, out)
  BY <1>1 DEF Taken, FitInv
<1>4. x[4].kind \in Carriers => Fit(x[4], pc[x[4].th])
  BY <1>3, Zenon DEF Noted
<1>5. x[4].kind \in Carriers => x[4].th \in Thread /\ pc[x[4].th] \in Waits
  BY <1>2, <1>4, Kinds DEF Fit, Carriers, Waits
<1>6. ASSUME NEW t \in Thread, Carries(x[4], t) PROVE KeptNow(t) = {}
  <2>1. x \in Own(MailNow, t)
    BY <1>6 DEF Own, Taken
  <2> QED
    BY <1>1, <2>1 DEF WaitInv, WaitOf
<1>7. ASSUME NEW th \in Thread, NEW t, Carries(x[4], t) PROVE Own(Before(w, q, th), t) = {}
  <2>1. Own(Mail(w, q, out, got), t) = {}
    BY <1>7 DEF Taken
  <2>2. \A e : e \in Before(w, q, th) => e \in Mail(w, q, out, got)
    BY <1>1, LetsGo
  <2> QED
    BY <2>1, <2>2 DEF Own
<1> QED
  BY <1>2, <1>3, <1>4, <1>5, <1>6, <1>7

\* The agent whose thread waits is known.
LEMMA WhoWaits ==
  ASSUME Control, NEW t \in Thread, pc[t] # "idle"
  PROVE  AgentOf(t) \in Node
<1>1. t[1] = "proxy" => proxyat[t[2]] \in Node
  <2>1. CASE \E c \in Client : t = ProxyT(c)
    BY <2>1, Sorts DEF Control
  <2>2. CASE ~\E c \in Client : t = ProxyT(c)
    BY <2>2, ThreadCases, Sorts
  <2> QED
    BY <2>1, <2>2
<1> QED
  BY <1>1, AgentIsNode

LEMMA IdleIs ==
  ASSUME MailInv, NEW th \in Thread, pc[th] = "idle", NEW w, NEW q, Less(w, q)
  PROVE  out[th] = NoOut /\ pc[th] # "reply" /\ "idle" \in NextOf(th) /\ Calm(w, q, th) /\ KeptNow(th) = {}
<1>1. out[th] = NoOut
  BY Apart DEF Control, ControlOf
<1>2. KeptNow(th) = {}
  BY Apart DEF WaitInv, WaitOf
<1>3. Calm(w, q, th)
  BY Apart, LessCalm DEF Waits
<1> QED
  BY <1>1, <1>2, <1>3, Courses

\* A reply to what was taken.
LEMMA Answering ==
  ASSUME MailInv, NEW th \in Thread, pc[th] = "idle", AgentOf(th) \in Node, th[1] # "proxy",
         NEW w, NEW q, NEW x, Taken(w, q, x), x[1] # "out", x[4].kind \in Carriers \ {"reply"},
         NEW v, <<v>> \in Values, x[4].kind = "resolve" => <<v>> \in Answers,
         x[4].kind = "subfind" => <<v>> \in Parts
  PROVE  /\ Ready(th, w, q, AgentOf(x[4].th), ReplyMsg(x[4].th, v), "idle")
         /\ \A t \in Thread : Carries(ReplyMsg(x[4].th, v), t) => KeptNow(t) = {}
<1> DEFINE k == x[4].th
           m == ReplyMsg(k, v)
<1>1. /\ k \in Thread /\ pc[k] \in Waits /\ Fit(x[4], pc[k])
      /\ \A t \in Thread : Carries(x[4], t) => KeptNow(t) = {}
      /\ \A t : Carries(x[4], t) => Own(Before(w, q, th), t) = {}
  BY TakenFacts
<1>2. Less(w, q)
  BY DEF Taken
<1>3. /\ out[th] = NoOut /\ pc[th] # "reply" /\ "idle" \in NextOf(th) /\ Calm(w, q, th)
  BY <1>2, IdleIs
<1>4. AgentOf(k) \in Node
  BY <1>1, Apart, WhoWaits DEF Waits
<1>5. m \in Plain
  BY <1>1, MessagesMade
<1>6. m.kind = "reply" /\ m.th = k /\ m.val = <<v>>
  BY DEF ReplyMsg
<1>7. \A t : Carries(m, t) => Carries(x[4], t)
  BY <1>6 DEF Carries
<1>8. k # th
  BY <1>1 DEF Waits
<1>9. Fit(m, pc[k])
  <2>1. x[4].kind \in {"resolve", "make", "subfind"} \cup ClientKinds
    BY DEF Carriers
  <2> QED
    BY <1>1, <1>6, <2>1 DEF Fit, ClientKinds
<1> HIDE DEF m
<1>10. Ready(th, w, q, AgentOf(k), m, "idle")
  BY <1>1, <1>3, <1>4, <1>5, <1>6, <1>7, <1>8, <1>9, Sorts DEF Ready, MasterKinds
<1> QED
  BY <1>1, <1>7, <1>10 DEF m

\* What was taken goes on.
LEMMA Passing ==
  ASSUME MailInv, NEW th \in Thread, pc[th] = "idle", AgentOf(th) \in Node, th[1] # "proxy",
         NEW w, NEW q, NEW x, Taken(w, q, x), x[1] # "out", x[3] \in Node
  PROVE  Ready(th, w, q, x[3], x[4], "idle")
<1> DEFINE m == x[4]
<1>1. /\ m \in Plain /\ Noted(x, pc, out)
      /\ m.kind \in Carriers => m.th \in Thread /\ pc[m.th] \in Waits /\ Fit(m, pc[m.th])
      /\ \A t : Carries(m, t) => Own(Before(w, q, th), t) = {}
  BY TakenFacts
<1>2. Less(w, q)
  BY DEF Taken
<1>3. /\ out[th] = NoOut /\ pc[th] # "reply" /\ "idle" \in NextOf(th) /\ Calm(w, q, th)
  BY <1>2, IdleIs
<1>4. m.kind \in MasterKinds => x[3] = Master
  BY <1>1 DEF Noted
<1>5. m.kind \in Carriers => m.th # th
  BY <1>1 DEF Waits
<1>6. "reply" \in Carriers
  BY DEF Carriers
<1> HIDE DEF m
<1> QED
  BY <1>1, <1>3, <1>4, <1>5, <1>6, Sorts DEF Ready, m

\* An agent's own messages, on its own: no thread is disturbed.
LEMMA Threadless ==
  ASSUME MailInv, UNCHANGED <<pc, out, got, call, launch, hunt, proxyat>>,
         chan' \in Links, adminq' \in Queues, Onces(chan', adminq'),
         NEW m \in Plain, m.kind \notin Carriers, NEW x, x[4] = m, m.kind \in MasterKinds => x[3] = Master,
         MailNow' \subseteq MailNow \cup {x}, FrameShape'
  PROVE  MailInv'
<1>1. MailShape' /\ pc' \in [Thread -> Pcs] /\ CallShape' /\ Control' /\ Work'
  <2>1. MailShape /\ pc \in [Thread -> Pcs] /\ CallShape /\ Control /\ Work
    BY Apart
  <2>2. MailShape' /\ pc' \in [Thread -> Pcs] /\ CallShape'
    BY <2>1 DEF MailShape, CallShape
  <2>3. Control'
    BY <2>1 DEF Control, ControlOf, PcsOf, NextOf
  <2>4. Work'
    BY <2>1, WorkSame
  <2> QED
    BY <2>2, <2>3, <2>4
<1>2. FitInv'
  <2>1. Noted(x, pc, out)
    BY DEF Noted
  <2>2. \A e \in MailNow' : Noted(e, pc, out)
    BY <2>1, Apart DEF FitInv
  <2>3. (\A e \in MailNow : Noted(e, pc, out))' <=> \A e \in MailNow' : Noted(e, pc', out')
    OBVIOUS
  <2> QED
    BY <2>2, <2>3 DEF FitInv
<1>3. WaitInv'
  <2> SUFFICES ASSUME NEW t \in Thread
               PROVE  /\ Lone(Own(MailNow', t)) /\ Lone(Kept(pc', launch', hunt', t))
                      /\ Own(MailNow', t) = {} \/ Kept(pc', launch', hunt', t) = {}
                      /\ Kept(pc', launch', hunt', t) # {} => pc'[t] = "reply"
    BY DEF WaitInv, WaitOf, KeptNow
  <2>1. Own(MailNow', t) \subseteq Own(MailNow, t)
    BY DEF Own, Carries
  <2>2. Kept(pc', launch', hunt', t) = KeptNow(t)
    BY DEF KeptNow
  <2>3. /\ Lone(Own(MailNow, t)) /\ Lone(KeptNow(t)) /\ (Own(MailNow, t) = {} \/ KeptNow(t) = {})
        /\ KeptNow(t) # {} => pc[t] = "reply"
    BY Apart DEF WaitInv, WaitOf
  <2> QED
    BY <2>1, <2>2, <2>3 DEF Lone
<1> QED
  BY <1>1, <1>2, <1>3, Together

LEMMA ResolvesThen ==
  ASSUME MailInv, NEW th \in Thread, AgentOf(th) \in Node, NEW w, NEW q, Calm(w, q, th),
         NEW id \in Id \cup Node, NEW next \in {"task", "agent"}, Resolve(th, id, next, w), adminq' = q,
         NEW r, out' = [out EXCEPT ![th] = r]
  PROVE  Asked(w, q, th, r, next)
<1>1. MailShape /\ TableShape /\ NetShape /\ pc \in [Thread -> Pcs]
  BY Apart
<1> QED
  BY <1>1, Resolves

\* What thread th may hold while it resolves an agent or a task: nothing anybody waits for.
Holding(th, r, next) ==
  /\ r \in [to : Node \cup {NoNode}, msg : Plain, next : Nexts] /\ r.msg.kind \notin Carriers \cup MasterKinds
  /\ next = "agent" => r.to \in Node /\ r.next = "idle"
  /\ next = "task" => r = NoOut /\ call'[th].id \in Id /\ call'[th].op \in {"kill", "wait", "alive", "send"}
                      /\ (th \in ClientThread \/ call'[th].op = "send")

LEMMA ResolveStep ==
  ASSUME MailInv, NEW th \in Thread, AgentOf(th) \in Node, out[th] = NoOut, pc[th] # "reply", th[1] # "proxy",
         NEW w, NEW q, Calm(w, q, th), NEW id \in Id \cup Node, NEW next \in {"task", "agent"} \cap PcsOf(th),
         Resolve(th, id, next, w), adminq' = q,
         NEW r, out' = [out EXCEPT ![th] = r], Holding(th, r, next),
         UNCHANGED <<launch, hunt>>, th = AdminT(Master) => pc[th] = "idle",
         \A t \in Thread \ {th} : call'[t] = call[t], proxyat' = proxyat, CallShape', FrameShape'
  PROVE  MailInv'
<1> DEFINE x == <<"out", th, r.to, r.msg>>
<1>1. /\ MailShape /\ TableShape /\ NetShape /\ FitInv /\ pc \in [Thread -> Pcs] /\ Control /\ WaitInv /\ Work
  BY Apart
<1>2. /\ pc' = [pc EXCEPT ![th] = next]
      /\ chan' \in Links /\ got' \in Gots /\ Onces(chan', q)
      /\ \E y : /\ MailNow' \subseteq Before(w, q, th) \cup {x, y}
                /\ Carries(y[4], th) /\ Noted(y, pc', out')
  <2>0. next \in {"task", "agent"}
    OBVIOUS
  <2>1. Asked(w, q, th, r, next)
    BY <2>0, ResolvesThen
  <2> QED
    BY <2>1 DEF Asked
<1>3. PICK y : /\ MailNow' \subseteq Before(w, q, th) \cup {x, y}
               /\ Carries(y[4], th) /\ Noted(y, pc', out')
  BY <1>2
<1>4. pc' \in [Thread -> Pcs] /\ pc'[th] = next /\ \A t \in Thread \ {th} : pc'[t] = pc[t]
  <2>1. next \in Pcs
    BY DEF Pcs, Waits
  <2> QED
    BY <1>1, <1>2, <2>1
<1>5. out' \in Outs /\ out'[th] = r /\ \A t \in Thread \ {th} : out'[t] = out[t]
  BY <1>1 DEF MailShape, Outs, Nexts, Holding
<1>6. MailShape' /\ Onces(chan', adminq')
  BY <1>2, <1>5, <1>1 DEF MailShape, Calm
<1>7. x[4] = r.msg /\ x[1] = "out" /\ x[2] = th
  OBVIOUS
<1> HIDE DEF x
<1>8. Noted(x, pc', out')
  BY <1>7 DEF Noted, Holding
<1>9. /\ \A t \in Thread \ {th} :
              Own(MailNow', t) \subseteq Own(MailNow, t) \/ (Carries(r.msg, t) /\ Lone(Own(MailNow', t)))
      /\ Lone(Own(MailNow', th)) /\ FitInv'
  <2>1. \A t : Carries(r.msg, t) => Own(Before(w, q, th), t) = {}
    BY DEF Carries, Holding
  <2>2. \A t \in Thread \ {th} : pc'[t] = pc[t] /\ out'[t] = out[t]
    BY <1>4, <1>5
  <2>3. MailShape /\ FitInv
    BY <1>1
  <2>4. /\ MailNow' \subseteq Before(w, q, th) \cup {x, y}
        /\ Carries(y[4], th) /\ Noted(y, pc', out')
    BY <1>3
  <2> DEFINE m == r.msg
  <2>5. /\ x[4] = m /\ (\A t : Carries(m, t) => Own(Before(w, q, th), t) = {})
        /\ y = x \/ (Carries(y[4], th) /\ x[1] = "out" /\ x[2] = th)
    BY <1>7, <2>1, <2>4
  <2>6. Calm(w, q, th) /\ out[th] = NoOut
    OBVIOUS
  <2> HIDE DEF m
  <2>7. /\ \A t \in Thread \ {th} :
              Own(MailNow', t) \subseteq Own(MailNow, t) \/ (Carries(m, t) /\ Lone(Own(MailNow', t)))
        /\ Lone(Own(MailNow', th)) /\ FitInv'
    BY <1>8, <2>2, <2>3, <2>4, <2>5, <2>6, Sent, Zenon
  <2> QED
    BY <2>7 DEF m
<1>10. \A c \in Client : pc'[ProxyT(c)] = "waiting" => pc[ProxyT(c)] = "waiting"
  BY <1>4, Threads
<1>11. WaitInv'
  <2>1. \A t \in Thread : Kept(pc', launch', hunt', t) \subseteq KeptNow(t)
    BY <1>10, KeptShrinks
  <2>2. \A t \in Thread : Carries(r.msg, t) => Kept(pc', launch', hunt', t) = {}
    BY DEF Carries, Holding
  <2>3. \A t \in Thread \ {th} : pc'[t] = pc[t]
    BY <1>4
  <2> QED
    BY <1>1, <1>6, <1>9, <2>1, <2>2, <2>3, WaitSent
<1>12. Control'
  <2>1. \A t \in Thread \ {th} : ControlOf(t)'
    BY <1>1, <1>4, <1>5 DEF Control, ControlOf, PcsOf, NextOf
  <2>2. ControlOf(th)'
    <3>1. CASE next = "agent"
      <4>1. pc'[th] = "agent" /\ pc'[th] \in PcsOf(th) /\ out'[th].to \in Node /\ out'[th].next \in NextOf(th)
        BY <1>4, <1>5, <3>1, Courses DEF Holding
      <4> QED
        BY <4>1 DEF ControlOf, PcsOf, NextOf
    <3>2. CASE next = "task"
      <4>1. /\ pc'[th] = "task" /\ pc'[th] \in PcsOf(th) /\ out'[th] = NoOut
            /\ call'[th].id \in Id /\ call'[th].op \in {"kill", "wait", "alive", "send"}
            /\ (th \in ClientThread \/ call'[th].op = "send")
        BY <1>4, <1>5, <3>2 DEF Holding
      <4> QED
        BY <4>1 DEF ControlOf, PcsOf
    <3> QED
      BY <3>1, <3>2
  <2>3. \A c \in Client : ProxyT(c) \in Thread \ {th}
    BY Threads, Sorts
  <2>4. \A c \in Client : /\ pc'[ProxyT(c)] # "idle" => proxyat'[c] \in Node
                          /\ pc'[ProxyT(c)] = "agent" => Carries(out'[ProxyT(c)].msg, ClientT(c))
    BY <1>1, <1>4, <1>5, <2>3 DEF Control
  <2> QED
    BY <2>1, <2>2, <2>4 DEF Control
<1>13. Work'
  <2>1. CASE th # AdminT(Master)
    BY <1>1, <1>4, <1>5, <2>1, Threads, WorkSame
  <2>2. CASE th = AdminT(Master)
    <3>1. ~Launching /\ ~Hunting
      BY <2>2 DEF Launching, Hunting, NoOut
    <3>2. pc'[th] \notin {"launch", "made", "hunt", "found"} /\ out'[th].next \notin {"made", "found"}
      BY <1>4, <1>5 DEF NoOut, Holding
    <3> QED
      BY <1>1, <2>2, <3>1, <3>2, WorkSame
  <2> QED
    BY <2>1, <2>2
<1> QED
  BY <1>4, <1>6, <1>9, <1>11, <1>12, <1>13, Together

\* A message changes its place.
LEMMA Moves ==
  ASSUME MailInv, UNCHANGED <<pc, out, call, launch, hunt, proxyat>>, MailShape', Onces(chan', adminq'),
         NEW w, NEW q, NEW x, Taken(w, q, x), x[1] # "out",
         NEW y, y[4] = x[4], y[3] = x[3] \/ x[4].kind = "reply", y[1] # "out",
         MailNow' \subseteq Mail(w, q, out, got) \cup {y}, FrameShape'
  PROVE  MailInv'
<1>1. MailShape /\ pc \in [Thread -> Pcs] /\ CallShape /\ Control /\ Work /\ FitInv /\ WaitInv
  BY Apart
<1>2. pc' \in [Thread -> Pcs] /\ CallShape' /\ Control' /\ Work'
  <2>1. pc' \in [Thread -> Pcs] /\ CallShape'
    BY <1>1 DEF CallShape
  <2>2. Control'
    BY <1>1 DEF Control, ControlOf, PcsOf, NextOf
  <2>3. Work'
    BY <1>1, WorkSame
  <2> QED
    BY <2>1, <2>2, <2>3
<1>3. Mail(w, q, out, got) \subseteq MailNow
  BY DEF Taken, Less
<1>4. FitInv'
  <2>1. Noted(y, pc, out)
    <3>1. Noted(x, pc, out)
      BY TakenFacts
    <3> QED
      BY <3>1 DEF Noted, MasterKinds
  <2>2. \A e \in MailNow' : Noted(e, pc, out)
    BY <1>1, <1>3, <2>1 DEF FitInv
  <2>3. (\A e \in MailNow : Noted(e, pc, out))' <=> \A e \in MailNow' : Noted(e, pc', out')
    OBVIOUS
  <2> QED
    BY <2>2, <2>3 DEF FitInv
<1>5. WaitInv'
  <2> SUFFICES ASSUME NEW t \in Thread
               PROVE  /\ Lone(Own(MailNow', t)) /\ Lone(Kept(pc', launch', hunt', t))
                      /\ Own(MailNow', t) = {} \/ Kept(pc', launch', hunt', t) = {}
                      /\ Kept(pc', launch', hunt', t) # {} => pc'[t] = "reply"
    BY DEF WaitInv, WaitOf, KeptNow
  <2>1. Kept(pc', launch', hunt', t) = KeptNow(t)
    BY DEF KeptNow
  <2>2. /\ Lone(Own(MailNow, t)) /\ Lone(KeptNow(t)) /\ (Own(MailNow, t) = {} \/ KeptNow(t) = {})
        /\ KeptNow(t) # {} => pc[t] = "reply"
    BY <1>1 DEF WaitInv, WaitOf
  <2>3. CASE Carries(x[4], t)
    <3>1. KeptNow(t) = {}
      BY <2>3, TakenFacts
    <3>2. Own(Mail(w, q, out, got), t) = {}
      BY <2>3 DEF Taken
    <3>3. Own(MailNow', t) \subseteq {y}
      BY <3>2 DEF Own
    <3> QED
      BY <2>1, <3>1, <3>3 DEF Lone
  <2>4. CASE ~Carries(x[4], t)
    <3>1. Own(MailNow', t) \subseteq Own(MailNow, t)
      BY <1>3, <2>4 DEF Own
    <3> QED
      BY <2>1, <2>2, <3>1 DEF Lone
  <2> QED
    BY <2>3, <2>4
<1> QED
  BY <1>2, <1>4, <1>5, Together

-----------------------------------------------------------------------------
(* The steps of the clients.                                               *)

\* A client's thread puts its question.
LEMMA Asking ==
  ASSUME MailInv, NEW c \in Client, pc[ClientT(c)] = "idle" \/ (pc[ClientT(c)] = "task" /\ got[ClientT(c)] # NoReply),
         NEW m \in Plain, m.kind \in ClientKinds, m.th = ClientT(c),
         NEW b \in Node, m.kind \in MasterKinds => b = Master
  PROVE  /\ Ready(ClientT(c), chan, adminq, b, m, "reply")
         /\ \A t \in Thread : Carries(m, t) => KeptNow(t) = {}
<1> DEFINE th == ClientT(c)
<1>1. th \in Thread /\ AgentOf(th) \in Node /\ th[1] = "client" /\ th # AdminT(Master)
  BY Threads, Sorts DEF AgentOf
<1>2. out[th] = NoOut /\ pc[th] # "reply"
  BY <1>1, Apart DEF Control, ControlOf
<1>3. KeptNow(th) = {}
  BY <1>1, <1>2, Apart DEF WaitInv, WaitOf
<1>4. Calm(chan, adminq, th)
  BY <1>1, Apart, CalmNow DEF Waits
<1>5. "reply" \in NextOf(th) /\ Fit(m, "reply")
  <2>1. "reply" \in NextOf(th)
    BY <1>1 DEF NextOf
  <2>2. Fit(m, "reply")
    BY DEF Fit, ClientKinds
  <2> QED
    BY <2>1, <2>2
<1>6. \A t : Carries(m, t) => t = th
  BY DEF Carries
<1>7. \A d \in Client : th # ProxyT(d)
  BY <1>1, Sorts
<1>8. m.kind # "reply" /\ m.th = th
  BY DEF ClientKinds
<1>9. Own(Before(chan, adminq, th), th) = {}
  BY <1>4 DEF Calm
<1> HIDE DEF th
<1>10. Ready(th, chan, adminq, b, m, "reply")
  BY <1>1, <1>2, <1>4, <1>5, <1>6, <1>7, <1>8, <1>9 DEF Ready
<1> QED
  BY <1>3, <1>6, <1>10 DEF th

LEMMA FreshIs ==
  ASSUME given \subseteq Id, NEW n \in Nat, n <= Cardinality(Id \ given)
  PROVE  /\ Fresh(n) \in Seq(Id) /\ ToSet(Fresh(n)) \subseteq Id \ given /\ Len(Fresh(n)) = n
         /\ \A x, y \in 1..n : Fresh(n)[x] = Fresh(n)[y] => x = y
<1> DEFINE D == Id \ given
           k == Cardinality(D)
<1>1. IsFiniteSet(D)
  BY FS_Subset, ConstantsAssumption DEF ConstantsAssumption
<1>2. k \in Nat /\ ExistsBijection(1..k, D)
  BY <1>1, FS_CardinalityType
<1> HIDE DEF D, k
<1>3. PICK f : f \in [1..k -> D] /\ \A a, b \in 1..k : f[a] = f[b] => a = b
  BY <1>2 DEF ExistsBijection, Bijection, Injection, IsInjective
<1> DEFINE g == [i \in 1..n |-> f[i]]
<1>4. g \in [1..n -> D] /\ IsInjective(g)
  <2>1. n <= k
    BY DEF k, D
  <2> QED
    BY <1>2, <1>3, <2>1 DEF IsInjective
<1>5. Fresh(n) \in [1..n -> D] /\ IsInjective(Fresh(n))
  <2> HIDE DEF g
  <2>1. \E s \in [1..n -> D] : IsInjective(s)
    BY <1>4
  <2> QED
    BY <2>1, Zenon DEF Fresh, D
<1>6. D \subseteq Id
  BY DEF D
<1> QED
  BY <1>5, <1>6 DEF ToSet, D, IsInjective

LEMMA CallSizeKeeps ==
  ASSUME MailInv, NEW c \in Client, CallSize(c)
  PROVE  MailInv'
<1> DEFINE th == ClientT(c)
           m == SizeMsg(th)
<1>1. /\ pc[th] = "idle" /\ Send(th, Master, m, "reply", adminq, chan)
      /\ call' = [call EXCEPT ![th] = [op |-> "size", id |-> NoId]]
      /\ UNCHANGED <<tableVars, procVars, alive, peers, conn, ctx, proxyat, workVars, cache, histVars>>
  BY DEF CallSize, Calling, Idle, ProcSame
<1>2. m \in Plain /\ m.kind = "size" /\ m.th = th /\ Master \in Node /\ th \in Thread /\ th[1] = "client"
  BY MessagesMade, Threads, Sorts DEF SizeMsg
<1>3. CallShape' /\ \A t \in Thread \ {th} : call'[t] = call[t]
  BY <1>1, <1>2, Apart DEF CallShape, Ops
<1>4. FrameShape'
  BY <1>1, Apart DEF FrameShape, TableShape, ProcShape, NetShape, WorkShape, HistShape, tableVars, procVars, workVars, histVars
<1> HIDE DEF m, th
<1>5. Ready(th, chan, adminq, Master, m, "reply") /\ \A t \in Thread : Carries(m, t) => KeptNow(t) = {}
  BY <1>1, <1>2, Asking DEF ClientKinds, th
<1>6. UNCHANGED <<launch, hunt, proxyat>> /\ th # AdminT(Master)
  BY <1>1, <1>2, Sorts DEF workVars
<1> QED
  BY <1>1, <1>2, <1>3, <1>4, <1>5, <1>6, SendSame

LEMMA Requested ==
  ASSUME NEW r \in Requests
  PROVE  r \in Request /\ r.n \in Nat \ {0} /\ r.where \in Node \cup {NoNode} /\ r.slaves \in BOOLEAN
<1>1. r \in Request
  BY ConstantsAssumption DEF ConstantsAssumption
<1> QED
  BY <1>1 DEF Request

LEMMA CallLaunchKeeps ==
  ASSUME MailInv, NEW c \in Client, NEW r \in Requests, CallLaunch(c, r)
  PROVE  MailInv'
<1> DEFINE th == ClientT(c)
           new == IF r.slaves THEN r.n - 1 ELSE r.n
           own == IF r.slaves THEN ctx[c] ELSE NoId
           ids == IF r.slaves THEN <<own>> \o Fresh(new) ELSE Fresh(new)
           m == LaunchMsg(r, ids, th)
<1>1. /\ pc[th] = "idle" /\ Send(th, Master, m, "reply", adminq, chan)
      /\ new <= Cardinality(Id \ given) /\ (r.slaves => own # NoId)
      /\ given' = given \cup ToSet(Fresh(new))
      /\ call' = [call EXCEPT ![th] = [op |-> "launch", id |-> own]]
      /\ UNCHANGED <<tableVars, home, mode, members, killed, alive, peers, conn, cache, ctx, proxyat,
                     workVars, histVars>>
  BY Zenon DEF CallLaunch, Calling, Idle
<1>2. FrameShape /\ given \subseteq Id /\ ctx \in [Client -> Id \cup {NoId}] /\ CallShape
  BY Apart DEF FrameShape, ProcShape
<1>3. new \in Nat
  BY Requested
<1>4. Fresh(new) \in Seq(Id) /\ ToSet(Fresh(new)) \subseteq Id /\ Len(Fresh(new)) = new
  <2> HIDE DEF new
  <2> QED
    BY <1>1, <1>2, <1>3, FreshIs
<1>5. own \in Id \cup {NoId} /\ (r.slaves => own \in Id)
  BY <1>1, <1>2
<1>6. ids \in Seq(Id) /\ Len(ids) = r.n
  <2>0. r.n \in Nat /\ new = IF r.slaves THEN r.n - 1 ELSE r.n
    BY Requested
  <2> HIDE DEF own, new
  <2>1. CASE r.slaves
    BY <1>4, <1>5, <2>0, <2>1
  <2>2. CASE ~r.slaves
    BY <1>4, <2>0, <2>2
  <2> QED
    BY <2>1, <2>2
<1> HIDE DEF ids, own, new
<1>7. m \in Plain /\ m.kind = "launch" /\ m.th = th /\ Master \in Node /\ th \in Thread /\ th[1] = "client"
  BY <1>6, Requested, MessagesMade, Threads, Sorts DEF LaunchMsg
<1>8. CallShape' /\ \A t \in Thread \ {th} : call'[t] = call[t]
  BY <1>1, <1>2, <1>5, <1>7 DEF CallShape, Ops
<1>9. FrameShape'
  <2>1. given' \subseteq Id
    BY <1>1, <1>2, <1>4
  <2> QED
    BY <1>1, <1>2, <2>1 DEF FrameShape, TableShape, ProcShape, NetShape, WorkShape, HistShape, tableVars, workVars, histVars
<1> HIDE DEF m, th
<1>10. Ready(th, chan, adminq, Master, m, "reply") /\ \A t \in Thread : Carries(m, t) => KeptNow(t) = {}
  BY <1>1, <1>7, Asking DEF ClientKinds, th
<1>11. UNCHANGED <<launch, hunt, proxyat>> /\ th # AdminT(Master)
  BY <1>1, <1>7, Sorts DEF workVars
<1> QED
  BY <1>1, <1>7, <1>8, <1>9, <1>10, <1>11, SendSame

LEMMA CallFindKeeps ==
  ASSUME MailInv, NEW c \in Client, CallFind(c)
  PROVE  MailInv'
<1> DEFINE th == ClientT(c)
           m == FindMsg(FALSE, th)
<1>1. /\ pc[th] = "idle" /\ Send(th, Master, m, "reply", adminq, chan)
      /\ call' = [call EXCEPT ![th] = [op |-> "find", id |-> NoId]]
      /\ since' = [since EXCEPT ![c] = {i \in Id : mode[i] \in {"born", "ready"}}]
      /\ UNCHANGED <<tableVars, procVars, alive, peers, conn, ctx, proxyat, workVars, cache, told, slain>>
  BY DEF CallFind, Calling, Idle, ProcSame
<1>2. m \in Plain /\ m.kind = "find" /\ m.th = th /\ Master \in Node /\ th \in Thread /\ th[1] = "client"
  BY MessagesMade, Threads, Sorts DEF FindMsg
<1>3. CallShape' /\ \A t \in Thread \ {th} : call'[t] = call[t]
  BY <1>1, <1>2, Apart DEF CallShape, Ops
<1>4. FrameShape'
  <2>1. since' \in [Client -> SUBSET Id]
    BY <1>1, Apart DEF HistShape
  <2> QED
    BY <1>1, <2>1, Apart DEF FrameShape, TableShape, ProcShape, NetShape, WorkShape, HistShape, tableVars, procVars, workVars
<1> HIDE DEF m, th
<1>5. Ready(th, chan, adminq, Master, m, "reply") /\ \A t \in Thread : Carries(m, t) => KeptNow(t) = {}
  BY <1>1, <1>2, Asking DEF ClientKinds, th
<1>6. UNCHANGED <<launch, hunt, proxyat>> /\ th # AdminT(Master)
  BY <1>1, <1>2, Sorts DEF workVars
<1> QED
  BY <1>1, <1>2, <1>3, <1>4, <1>5, <1>6, SendSame

LEMMA RegContextKeeps ==
  ASSUME MailInv, NEW c \in Client, NEW id \in Id, RegContext(c, id)
  PROVE  MailInv'
<1> DEFINE th == ClientT(c)
           m == ContextMsg("reg", id, th)
<1>1. /\ pc[th] = "idle" /\ Send(th, Master, m, "reply", adminq, chan)
      /\ call' = [call EXCEPT ![th] = [op |-> "reg", id |-> id]]
      /\ given' = given \cup {id}
      /\ home' = [home EXCEPT ![id] = At[c]]
      /\ mode' = [mode EXCEPT ![id] = "context"]
      /\ members' = [members EXCEPT ![id] = {id}]
      /\ ctx' = [ctx EXCEPT ![c] = id]
      /\ UNCHANGED <<tableVars, killed, alive, peers, conn, cache, proxyat, workVars, histVars>>
  BY DEF RegContext, Calling, Idle
<1>2. m \in Plain /\ m.kind = "reg" /\ m.th = th /\ Master \in Node /\ th \in Thread /\ th[1] = "client"
  BY MessagesMade, Threads, Sorts DEF ContextMsg
<1>3. CallShape' /\ \A t \in Thread \ {th} : call'[t] = call[t]
  BY <1>1, <1>2, Apart DEF CallShape, Ops
<1>4. FrameShape'
  <2>1. ProcShape' /\ ctx' \in [Client -> Id \cup {NoId}]
    BY <1>1, Threads, Apart DEF ProcShape, Modes, OnMap, FrameShape
  <2> QED
    BY <1>1, <2>1, Apart DEF FrameShape, TableShape, NetShape, WorkShape, HistShape, tableVars, workVars, histVars
<1> HIDE DEF m, th
<1>5. Ready(th, chan, adminq, Master, m, "reply") /\ \A t \in Thread : Carries(m, t) => KeptNow(t) = {}
  BY <1>1, <1>2, Asking DEF ClientKinds, th
<1>6. UNCHANGED <<launch, hunt, proxyat>> /\ th # AdminT(Master)
  BY <1>1, <1>2, Sorts DEF workVars
<1> QED
  BY <1>1, <1>2, <1>3, <1>4, <1>5, <1>6, SendSame

LEMMA UnregContextKeeps ==
  ASSUME MailInv, NEW c \in Client, UnregContext(c)
  PROVE  MailInv'
<1> DEFINE th == ClientT(c)
           id == ctx[c]
           m == ContextMsg("unreg", id, th)
<1>1. /\ pc[th] = "idle" /\ Send(th, Master, m, "reply", adminq, chan) /\ id # NoId
      /\ call' = [call EXCEPT ![th] = [op |-> "unreg", id |-> id]]
      /\ mode' = [mode EXCEPT ![id] = "gone"]
      /\ UNCHANGED <<tableVars, home, members, killed, given, alive, peers, conn, cache, ctx, proxyat,
                 workVars, histVars>>
  BY DEF UnregContext, Calling, Idle
<1>2. id \in Id
  BY <1>1, Apart DEF FrameShape
<1> HIDE DEF id
<1>3. m \in Plain /\ m.kind = "unreg" /\ m.th = th /\ Master \in Node /\ th \in Thread /\ th[1] = "client"
  BY <1>2, MessagesMade, Threads, Sorts DEF ContextMsg
<1>4. CallShape' /\ \A t \in Thread \ {th} : call'[t] = call[t]
  BY <1>1, <1>2, <1>3, Apart DEF CallShape, Ops
<1>5. FrameShape'
  <2>1. ProcShape'
    BY <1>1, <1>2, Apart DEF ProcShape, Modes, OnMap, FrameShape
  <2> QED
    BY <1>1, <2>1, Apart DEF FrameShape, TableShape, NetShape, WorkShape, HistShape, tableVars, workVars, histVars
<1> HIDE DEF m, th
<1>6. Ready(th, chan, adminq, Master, m, "reply") /\ \A t \in Thread : Carries(m, t) => KeptNow(t) = {}
  BY <1>1, <1>3, Asking DEF ClientKinds, th
<1>7. UNCHANGED <<launch, hunt, proxyat>> /\ th # AdminT(Master)
  BY <1>1, <1>3, Sorts DEF workVars
<1> QED
  BY <1>1, <1>3, <1>4, <1>5, <1>6, <1>7, SendSame

LEMMA CallTaskKeeps ==
  ASSUME MailInv, NEW c \in Client, NEW op \in {"kill", "wait", "alive", "send"}, NEW id \in Id,
         CallTask(c, op, id)
  PROVE  MailInv'
<1> DEFINE th == ClientT(c)
<1>1. /\ pc[th] = "idle" /\ Resolve(th, id, "task", chan)
      /\ call' = [call EXCEPT ![th] = [op |-> op, id |-> id]]
      /\ UNCHANGED <<tableVars, procVars, alive, peers, conn, ctx, proxyat, workVars, adminq, out, cache, histVars>>
  BY DEF CallTask, Calling, Idle, ProcSame
<1>2. /\ th \in Thread /\ th \in ClientThread /\ th[1] = "client" /\ AgentOf(th) \in Node /\ th # AdminT(Master)
  BY Threads, Sorts DEF AgentOf
<1>3. CallShape' /\ (\A t \in Thread \ {th} : call'[t] = call[t]) /\ call'[th] = [op |-> op, id |-> id]
  BY <1>1, <1>2, Apart DEF CallShape, Ops
<1>4. FrameShape'
  BY <1>1, Apart DEF FrameShape, TableShape, ProcShape, NetShape, WorkShape, HistShape, tableVars, procVars, workVars, histVars
<1> HIDE DEF th
<1>5. out[th] = NoOut /\ pc[th] # "reply" /\ Calm(chan, adminq, th)
  BY <1>1, <1>2, IdleIs, LessNow, Apart
<1>6. out' = [out EXCEPT ![th] = NoOut]
  BY <1>1, <1>2, <1>5, Apart DEF MailShape, Outs
<1>7. "task" \in PcsOf(th)
  BY <1>2 DEF PcsOf
<1>8. Holding(th, NoOut, "task")
  BY <1>2, <1>3, MessagesMade DEF Holding, NoOut, Nothing, Nexts, Carriers, MasterKinds, ClientKinds
<1>9. UNCHANGED <<launch, hunt, proxyat>>
  BY <1>1 DEF workVars
<1>10. adminq' = adminq /\ "task" \in {"task", "agent"} \cap PcsOf(th) /\ id \in Id \cup Node
  BY <1>1, <1>7
<1> QED
  BY <1>1, <1>2, <1>3, <1>4, <1>5, <1>6, <1>8, <1>9, <1>10, ResolveStep

\* Thread th has had its reply and waits no longer.
LEMMA Settled ==
  ASSUME MailInv, NEW th \in Thread, got[th] # NoReply, out[th] = NoOut, UNCHANGED <<chan, adminq, out>>,
         got' = [got EXCEPT ![th] = NoReply], NEW p \in {"idle", "launch", "hunt"} \cap PcsOf(th),
         pc' = [pc EXCEPT ![th] = p], launch'.client = launch.client, hunt'.client = hunt.client,
         \A t \in Thread \ {th} : call'[t] = call[t], proxyat' = proxyat,
         \A c \in Client : th # ProxyT(c)
  PROVE  MailShape' /\ pc' \in [Thread -> Pcs] /\ Control' /\ FitInv' /\ WaitInv'
<1>1. MailShape /\ pc \in [Thread -> Pcs] /\ Control /\ FitInv /\ WaitInv
  BY Apart
<1>2. pc' \in [Thread -> Pcs] /\ pc'[th] = p /\ \A t \in Thread \ {th} : pc'[t] = pc[t]
  BY <1>1, Courses
<1>3. MailShape'
  BY <1>1 DEF MailShape, Gots
<1>4. \A e : e \in MailNow' <=> e \in MailNow /\ ~(e[1] = "got" /\ e[2] = th)
  <2>1. MailNow' = Before(chan, adminq, th)
    BY DEF MailNow, Before
  <2> QED
    BY <1>1, <2>1, LetsGo DEF MailNow
<1>5. Calm(chan, adminq, th) /\ MailNow' = Before(chan, adminq, th)
  BY <1>1, CalmNow DEF MailNow, Before
<1>6. KeptNow(th) = {}
  BY <1>1, ReplyIsOwn DEF WaitInv, WaitOf
<1>7. FitInv'
  <2> SUFFICES ASSUME NEW e \in MailNow' PROVE Noted(e, pc', out')
    BY DEF FitInv
  <2>1. e \in MailNow /\ Noted(e, pc, out)
    BY <1>1, <1>4 DEF FitInv
  <2>2. ASSUME e[4].kind \in Carriers, ~(e[1] = "out" /\ e[2] = e[4].th) PROVE e[4].th # th
    <3>1. e[4].th = th => e \in Own(MailNow', th)
      BY <2>2 DEF Own, Carries
    <3> QED
      BY <1>5, <3>1 DEF Calm
  <2>3. e[4].kind \in Carriers => e[4].th \in Thread
    BY <1>1, <2>1, MailTyped, Kinds DEF MailNow, MailShape
  <2>4. e[4].kind \in Carriers /\ ~(e[1] = "out" /\ e[2] = e[4].th) => pc'[e[4].th] = pc[e[4].th]
    BY <1>2, <2>2, <2>3
  <2> QED
    BY <2>1, <2>4 DEF Noted
<1>8. WaitInv'
  <2> SUFFICES ASSUME NEW t \in Thread
               PROVE  /\ Lone(Own(MailNow', t)) /\ Lone(Kept(pc', launch', hunt', t))
                      /\ Own(MailNow', t) = {} \/ Kept(pc', launch', hunt', t) = {}
                      /\ Kept(pc', launch', hunt', t) # {} => pc'[t] = "reply"
    BY <1>1 DEF WaitInv, WaitOf, KeptNow
  <2>1. \A c \in Client : pc'[ProxyT(c)] = pc[ProxyT(c)]
    BY <1>2, Threads
  <2>2. Kept(pc', launch', hunt', t) = KeptNow(t)
    BY <2>1 DEF KeptNow, Kept
  <2>3. /\ Lone(Own(MailNow, t)) /\ Lone(KeptNow(t)) /\ (Own(MailNow, t) = {} \/ KeptNow(t) = {})
        /\ KeptNow(t) # {} => pc[t] = "reply"
    BY <1>1 DEF WaitInv, WaitOf
  <2>4. Own(MailNow', t) \subseteq Own(MailNow, t)
    BY <1>4 DEF Own
  <2>5. KeptNow(t) # {} => pc'[t] = pc[t]
    BY <1>2, <1>6
  <2> QED
    BY <2>2, <2>3, <2>4, <2>5 DEF Lone
<1>9. Control'
  <2>1. \A t \in Thread \ {th} : ControlOf(t)'
    BY <1>1, <1>2 DEF Control, ControlOf, PcsOf, NextOf
  <2>2. ControlOf(th)'
    BY <1>2 DEF ControlOf, PcsOf, NextOf
  <2>3. \A c \in Client : ProxyT(c) \in Thread \ {th}
    BY Threads
  <2>4. \A c \in Client : /\ pc'[ProxyT(c)] # "idle" => proxyat'[c] \in Node
                          /\ pc'[ProxyT(c)] = "agent" => Carries(out'[ProxyT(c)].msg, ClientT(c))
    BY <1>1, <1>2, <2>3 DEF Control
  <2> QED
    BY <2>1, <2>2, <2>4 DEF Control
<1> QED
  BY <1>2, <1>3, <1>7, <1>8, <1>9

LEMMA AnswerCame ==
  ASSUME MailInv, NEW th \in Thread, pc[th] \in {"task", "agent"}, got[th] # NoReply
  PROVE  got[th][1] \in Node \cup {NoNode}
<1> DEFINE e == <<"got", th, NoNode, [kind |-> "reply", th |-> th, val |-> got[th]]>>
<1>1. e \in MailNow
  BY ReplyIsOwn DEF Own
<1>2. Noted(e, pc, out)
  BY <1>1, Apart DEF FitInv
<1>3. got[th] \in Answers
  BY <1>2 DEF Noted, Fit, Carriers
<1> QED
  BY <1>3 DEF Answers

LEMMA CachedShape ==
  ASSUME NetShape, NEW th, AgentOf(th) \in Node, got[th][1] \in Node \cup {NoNode}, NEW id
  PROVE  Cached(th, id) \in [Node -> [Id \cup Node -> Node \cup {NoNode}]]
BY DEF Cached, NetShape

LEMMA ResolvedKeeps ==
  ASSUME MailInv, NEW th \in Thread, Resolved(th)
  PROVE  MailInv'
<1> DEFINE op == call[th].op
           id == call[th].id
           n == got[th][1]
<1>1. /\ pc[th] = "task" /\ got[th] # NoReply /\ cache' = Cached(th, id)
      /\ \/ /\ n = NoNode /\ pc' = [pc EXCEPT ![th] = "idle"] /\ got' = [got EXCEPT ![th] = NoReply]
            /\ call' = [call EXCEPT ![th] = NoCall]
            /\ told' = IF op \in {"wait", "alive"} THEN told \cup {id} ELSE told
            /\ slain' = IF op = "kill" THEN slain \cup {id} ELSE slain
            /\ UNCHANGED <<since, out, chan, adminq>>
         \/ /\ n # NoNode /\ op = "send" /\ Send(th, n, DataMsg(id), "idle", adminq, chan)
            /\ call' = [call EXCEPT ![th] = NoCall] /\ UNCHANGED histVars
         \/ /\ n # NoNode /\ op # "send" /\ Send(th, n, CallMsg(op, id, th), "reply", adminq, chan)
            /\ UNCHANGED <<call, histVars>>
      /\ UNCHANGED <<tableVars, procVars, alive, peers, conn, ctx, proxyat, workVars>>
  BY DEF Resolved, ProcSame
<1>2. /\ id \in Id /\ op \in {"kill", "wait", "alive", "send"} /\ (th \in ClientThread \/ op = "send")
      /\ out[th] = NoOut /\ "task" \in PcsOf(th)
  BY <1>1, Apart DEF Control, ControlOf
<1>3. th[1] # "proxy" /\ th # AdminT(Master)
  <2>1. CASE \E c \in Client : th = ProxyT(c)
    BY <1>2, <2>1, Sorts DEF PcsOf
  <2>2. CASE \E a \in Node : th = AdminT(a)
    BY <1>2, <2>2, Sorts DEF PcsOf
  <2>3. CASE \E c \in Client : th = ClientT(c)
    BY <2>3, Sorts
  <2>4. CASE \E a, b \in Node : th = RecvT(a, b)
    BY <2>4, Sorts
  <2> QED
    BY <2>1, <2>2, <2>3, <2>4, ThreadCases
<1>4. AgentOf(th) \in Node /\ \A c \in Client : th # ProxyT(c)
  BY <1>3, AgentIsNode, Sorts
<1>5. n \in Node \cup {NoNode}
  BY <1>1, AnswerCame
<1>6. NetShape'
  <2>1. cache' \in [Node -> [Id \cup Node -> Node \cup {NoNode}]]
    BY <1>1, <1>4, <1>5, Apart, CachedShape
  <2> QED
    BY <1>1, <2>1, Apart DEF NetShape
<1>7. told' \cup slain' \subseteq Id /\ since' = since
  BY <1>1, <1>2, Apart DEF HistShape, histVars
<1>8. FrameShape'
  BY <1>1, <1>6, <1>7, Apart DEF FrameShape, TableShape, ProcShape, WorkShape, HistShape, tableVars, procVars, workVars
<1>9. UNCHANGED <<launch, hunt, proxyat>>
  BY <1>1 DEF workVars
<1>10. call' \in {call, [call EXCEPT ![th] = NoCall]}
  BY <1>1
<1>11. CallShape' /\ \A t \in Thread \ {th} : call'[t] = call[t]
  BY <1>10, Apart DEF CallShape, Ops, NoCall
<1> HIDE DEF op, id, n
<1>12. CASE /\ n = NoNode /\ pc' = [pc EXCEPT ![th] = "idle"] /\ got' = [got EXCEPT ![th] = NoReply]
            /\ UNCHANGED <<out, chan, adminq>>
  <2>1. "idle" \in {"idle", "launch", "hunt"} \cap PcsOf(th)
    BY Courses
  <2>2. UNCHANGED <<chan, adminq, out>> /\ launch'.client = launch.client /\ hunt'.client = hunt.client /\ proxyat' = proxyat
    BY <1>9, <1>12
  <2>3. MailShape' /\ pc' \in [Thread -> Pcs] /\ Control' /\ FitInv' /\ WaitInv'
    BY <1>1, <1>2, <1>4, <1>11, <1>12, <2>1, <2>2, Settled
  <2>4. Work'
    <3>1. pc'[AdminT(Master)] = pc[AdminT(Master)] /\ out'[AdminT(Master)] = out[AdminT(Master)]
      BY <1>3, <1>12, Threads, Apart
    <3> QED
      BY <1>9, <3>1, Apart, WorkSame
  <2> QED
    BY <1>8, <1>11, <2>3, <2>4, Together
<1>13. CASE n # NoNode /\ op = "send" /\ Send(th, n, DataMsg(id), "idle", adminq, chan)
  <2> DEFINE m == DataMsg(id)
  <2>1. m \in Plain /\ m.kind = "data" /\ m.kind \notin Carriers \cup MasterKinds /\ m.kind # "reply"
    BY <1>2, MessagesMade DEF DataMsg, Carriers, MasterKinds, ClientKinds
  <2>2. Calm(chan, adminq, th) /\ "idle" \in NextOf(th) /\ n \in Node /\ pc[th] # "reply"
    BY <1>1, <1>5, <1>13, CalmNow, Apart, Courses
  <2> HIDE DEF m
  <2>3. Ready(th, chan, adminq, n, m, "idle") /\ \A t \in Thread : Carries(m, t) => KeptNow(t) = {}
    BY <1>2, <1>4, <2>1, <2>2 DEF Ready, Carries
  <2> QED
    BY <1>3, <1>8, <1>9, <1>11, <1>13, <2>3, SendSame DEF m
<1>14. CASE n # NoNode /\ op # "send" /\ Send(th, n, CallMsg(op, id, th), "reply", adminq, chan)
  <2> DEFINE m == CallMsg(op, id, th)
  <2>1. op \in {"kill", "wait", "alive"} /\ th \in ClientThread
    BY <1>2, <1>14
  <2>2. m \in Plain /\ m.kind = op /\ m.th = th
    BY <1>2, <2>1, MessagesMade DEF CallMsg
  <2>3. PICK c \in Client : th = ClientT(c)
    BY <2>1 DEF ClientThread
  <2>4. n \in Node
    BY <1>5, <1>14
  <2>5. m.kind \in ClientKinds /\ m.kind \notin MasterKinds
    BY <2>1, <2>2 DEF ClientKinds, MasterKinds
  <2> HIDE DEF m
  <2>6. Ready(th, chan, adminq, n, m, "reply") /\ \A t \in Thread : Carries(m, t) => KeptNow(t) = {}
    BY <1>1, <2>2, <2>3, <2>4, <2>5, Asking
  <2> QED
    BY <1>3, <1>8, <1>9, <1>11, <1>14, <2>6, SendSame DEF m
<1> QED
  BY <1>1, <1>12, <1>13, <1>14 DEF op, id, n

LEMMA ReturnKeeps ==
  ASSUME MailInv, NEW c \in Client, Return(c)
  PROVE  MailInv'
<1> DEFINE th == ClientT(c)
           id == call[th].id
<1>1. /\ pc[th] = "reply" /\ got[th] # NoReply
      /\ pc' = [pc EXCEPT ![th] = "idle"] /\ got' = [got EXCEPT ![th] = NoReply]
      /\ call' = [call EXCEPT ![th] = NoCall]
      /\ told' \in {told, told \cup {id}} /\ slain' \in {slain, slain \cup {id}}
      /\ \/ members' = members
         \/ id # NoId /\ members' = [members EXCEPT ![id] = UNION {members[i] : i \in {j \in Id : id \in members[j]}}]
      /\ since' = [since EXCEPT ![c] = {}]
      /\ told' = told \/ call[th].op \in {"wait", "alive"}
      /\ slain' = slain \/ call[th].op = "kill"
      /\ UNCHANGED <<tableVars, home, mode, killed, given, netVars, cache, out, ctx, proxyat, workVars>>
  BY DEF Return
<1>2. th \in Thread /\ th[1] = "client" /\ th # AdminT(Master) /\ \A d \in Client : th # ProxyT(d)
  BY Threads, Sorts
<1>3. out[th] = NoOut /\ id \in Id \cup {NoId} /\ (call[th].op \in {"kill", "wait", "alive"} => id \in Id)
  BY <1>1, <1>2, Apart DEF Control, ControlOf, CallShape
<1>4. HistShape'
  <2>1. told' \subseteq Id /\ slain' \subseteq Id
    BY <1>1, <1>3, Apart DEF HistShape
  <2>2. since' \in [Client -> SUBSET Id]
    BY <1>1, Apart DEF HistShape
  <2> QED
    BY <2>1, <2>2 DEF HistShape
<1>5. ProcShape'
  <2> DEFINE all == UNION {members[i] : i \in {j \in Id : id \in members[j]}}
  <2>1. all \subseteq Id
    BY Apart DEF ProcShape
  <2> HIDE DEF all
  <2>2. members' = members \/ members' = [members EXCEPT ![id] = all]
    BY <1>1 DEF all
  <2>3. members' \in [Id -> SUBSET Id]
    BY <2>1, <2>2, Apart DEF ProcShape
  <2> QED
    BY <1>1, <2>3, Apart DEF ProcShape
<1>6. FrameShape'
  BY <1>1, <1>4, <1>5, Apart DEF FrameShape, TableShape, NetShape, WorkShape, tableVars, netVars, workVars
<1>7. CallShape' /\ \A t \in Thread \ {th} : call'[t] = call[t]
  BY <1>1, <1>2, Apart DEF CallShape, Ops, NoCall
<1>8. UNCHANGED <<launch, hunt, proxyat, chan, adminq, out>> /\ launch'.client = launch.client /\ hunt'.client = hunt.client
  BY <1>1 DEF workVars, netVars
<1>9. "idle" \in {"idle", "launch", "hunt"} \cap PcsOf(th)
  BY <1>2, Courses
<1> HIDE DEF th, id
<1>10. MailShape' /\ pc' \in [Thread -> Pcs] /\ Control' /\ FitInv' /\ WaitInv'
  BY <1>1, <1>2, <1>3, <1>7, <1>8, <1>9, Settled
<1>11. Work'
  <2>1. pc'[AdminT(Master)] = pc[AdminT(Master)] /\ out'[AdminT(Master)] = out[AdminT(Master)]
    BY <1>1, <1>2, <1>8, Threads, Apart
  <2> QED
    BY <1>8, <2>1, Apart, WorkSame
<1> QED
  BY <1>6, <1>7, <1>10, <1>11, Together

-----------------------------------------------------------------------------
(* A link to an agent that had none.                                       *)

\* What thread th held before it knew the agent is let go of, and nothing else changes.
PeerFree(th) == Mail(chan, adminq, [out EXCEPT ![th] = NoOut], [got EXCEPT ![th] = NoReply])

LEMMA PeerCalm ==
  ASSUME MailInv, NEW th \in Thread, got[th] # NoReply
  PROVE  /\ \A e : e \in PeerFree(th) => \/ e \in MailNow /\ ~(e[1] = "out" /\ e[2] = th)
                                        \/ e = <<"out", th, NoNode, Nothing>>
         /\ \A t \in Thread : Carries(out[th].msg, t) => Own(PeerFree(th), t) = {}
         /\ Own(PeerFree(th), th) = {}
<1> DEFINE o1 == [out EXCEPT ![th] = NoOut]
           g1 == [got EXCEPT ![th] = NoReply]
           x == <<"out", th, NoNode, Nothing>>
           z == <<"out", th, out[th].to, out[th].msg>>
<1>1. MailShape /\ FitInv /\ WaitInv
  BY Apart
<1>2. \A e : e \in PeerFree(th) <=> e = x \/ (e \in Mail(chan, adminq, out, g1) /\ ~(e[1] = "out" /\ e[2] = th))
  <2>1. out \in Outs /\ x = <<"out", th, NoOut.to, NoOut.msg>>
    BY <1>1 DEF MailShape, NoOut
  <2> QED
    BY <2>1, MailOut DEF PeerFree
<1>3. \A e : e \in Mail(chan, adminq, out, g1) => e \in MailNow
  BY <1>1, LetsGo DEF Before, MailNow
<1>4. \A t : ~Carries(x[4], t)
  BY DEF Carries, Carriers, ClientKinds, Nothing
<1>5. x[4] = Nothing
  OBVIOUS
<1> HIDE DEF x
<1>6. Own(PeerFree(th), th) = {}
  <2>1. Own(Mail(chan, adminq, out, g1), th) = {}
    BY <1>1, CalmNow DEF Calm, Before
  <2> HIDE DEF g1
  <2> QED
    BY <1>2, <1>4, <2>1 DEF Own
<1>7. ASSUME NEW t \in Thread, Carries(out[th].msg, t) PROVE Own(PeerFree(th), t) = {}
  <2>1. CASE t = th
    BY <1>6, <2>1
  <2>2. CASE t # th
    <3>1. z \in MailNow
      BY MailIff DEF MailNow
    <3>2. z \in Own(MailNow, t)
      BY <1>7, <2>2, <3>1 DEF Own
    <3>3. ASSUME NEW e \in Own(PeerFree(th), t) PROVE FALSE
      <4>1. e \in PeerFree(th) /\ Carries(e[4], t) /\ ~(e[1] = "out" /\ e[2] = t)
        BY <3>3 DEF Own
      <4>2. e # x /\ e \in MailNow /\ ~(e[1] = "out" /\ e[2] = th)
        BY <1>2, <1>3, <1>4, <4>1
      <4>3. e \in Own(MailNow, t)
        BY <4>1, <4>2 DEF Own
      <4>4. e = z
        <5> HIDE DEF z
        <5> QED
          BY <1>1, <3>2, <4>3 DEF WaitInv, WaitOf, Lone
      <4> QED
        BY <4>2, <4>4
    <3> QED
      BY <3>3
  <2> QED
    BY <2>1, <2>2
<1>8. \A e : e \in PeerFree(th) => (e \in MailNow /\ ~(e[1] = "out" /\ e[2] = th)) \/ e = x
  BY <1>2, <1>3
<1> QED
  BY <1>6, <1>7, <1>8 DEF x

\* The message is on a link now, or lost, and a link may be asked for, which says nothing
\* of a task.
Telling == Carriers \cup MasterKinds \cup {"data", "removelink"}
PeerSent(th, x) ==
  /\ chan' \in Links /\ adminq' \in Queues /\ Onces(chan', adminq')
  /\ \E y : MailNow' \subseteq PeerFree(th) \cup {x, y} /\ y[4].kind \notin Telling

LEMMA PeerMail ==
  ASSUME MailInv, NEW th \in Thread, AgentOf(th) \in Node, got[th] # NoReply, out[th].to \in Node, NewPeer(th)
  PROVE  \E l : PeerSent(th, <<"chan", l, out[th].to, out[th].msg>>)
<1> DEFINE a == AgentOf(th)
           b == out[th].to
           m == out[th].msg
           o == [out EXCEPT ![th] = NoOut]
           g == [got EXCEPT ![th] = NoReply]
           Free == Mail(chan, adminq, o, g)
<1>1. chan \in Links /\ adminq \in Queues /\ Onces(chan, adminq) /\ m \in Plain /\ Master \in Node /\ m \in Message /\ Base(m) = m
      /\ Dest(m, b) = b
  <2>1. chan \in Links /\ adminq \in Queues /\ Onces(chan, adminq) /\ m \in Plain
    BY Apart DEF MailShape, WaitInv, Outs
  <2> QED
    BY <2>1, Threads, PlainIs DEF Dest
<1>2. \A t : Carries(m, t) => Own(Free, t) = {}
  <2>1. \A t : Carries(m, t) => t \in Thread
    BY <1>1, Kinds DEF Carries
  <2> QED
    BY <2>1, PeerCalm DEF PeerFree
<1>3. out' = o /\ got' = g /\ PeerFree(th) = Free
  BY DEF NewPeer, PeerFree
<1> DEFINE away == chan' = chan /\ adminq' = adminq
           routed == chan' = [chan EXCEPT ![<<a, Master>>] = Append(@, RoutedMsg(b, m))] /\ adminq' = adminq
           w == IF m = Nothing THEN chan ELSE [chan EXCEPT ![<<a, b>>] = Append(@, m)]
           plain == chan' = w /\ adminq' = adminq
           made == chan' = w /\ adminq' = [adminq EXCEPT ![a] = Append(@, MakeLinkMsg(b))]
           back == chan' = w /\ adminq' = [adminq EXCEPT ![a] = Append(@, BackLinkMsg(a, b))]
           far == chan' = [w EXCEPT ![<<a, Master>>] = Append(@, BackLinkMsg(a, b))] /\ adminq' = adminq
<1>4. away \/ routed \/ plain \/ made \/ back \/ far
  BY DEF NewPeer
<1>5. /\ MakeLinkMsg(b) \in Plain /\ MakeLinkMsg(b).kind \notin Telling
      /\ BackLinkMsg(a, b) \in Plain /\ BackLinkMsg(a, b).kind \notin Telling
      /\ Nothing.kind \notin Telling
      /\ RoutedMsg(b, m) \in Message /\ Base(RoutedMsg(b, m)) = m /\ \A c : Dest(RoutedMsg(b, m), c) = b
  <2>1. MakeLinkMsg(b) \in Plain /\ BackLinkMsg(a, b) \in Plain /\ RoutedMsg(b, m) \in Message
    BY <1>1, MessagesMade
  <2>2. MakeLinkMsg(b).kind = "makelink" /\ BackLinkMsg(a, b).kind = "backlink" /\ Nothing.kind = "none"
    BY DEF MakeLinkMsg, BackLinkMsg, Nothing
  <2>3. Base(RoutedMsg(b, m)) = m /\ \A c : Dest(RoutedMsg(b, m), c) = b
    BY DEF Base, Dest, RoutedMsg
  <2> QED
    BY <2>1, <2>2, <2>3 DEF Telling, Carriers, MasterKinds, ClientKinds
<1>6. MailNow' = Mail(chan', adminq', o, g)
  BY <1>3 DEF MailNow
<1> DEFINE x(l) == <<"chan", l, b, m>>
           none == <<"none", NoNode, NoNode, Nothing>>
<1>7. none[4] = Nothing
  OBVIOUS
<1> HIDE DEF o, g, none
<1>8. CASE away
  <2>1. MailNow' \subseteq PeerFree(th) \cup {x(<<a, b>>), none}
    BY <1>3, <1>6, <1>8
  <2>2. PeerSent(th, x(<<a, b>>))
    BY <1>1, <1>5, <1>7, <1>8, <2>1 DEF PeerSent
  <2> QED
    BY <2>2
<1>9. CASE routed
  <2> DEFINE l == <<a, Master>>
             r == RoutedMsg(b, m)
             v == [chan EXCEPT ![l] = Append(@, r)]
             s == Mail(v, adminq, o, g) \subseteq Mail(chan, adminq, o, g) \cup {<<"chan", l, Dest(r, l[2]), Base(r)>>}
             u == Onces(chan, adminq) /\ (\A t : Carries(Base(r), t) => Own(Mail(chan, adminq, o, g), t) = {}) => Onces(v, adminq)
  <2>1. l \in Node \X Node
    BY <1>1
  <2> HIDE DEF l, r
  <2>2. v \in Links /\ s /\ u
    BY <1>1, <1>5, <2>1, ChanAdds, Zenon DEF r
  <2>3. chan' = v /\ adminq' = adminq
    BY <1>9 DEF l, r
  <2>4. Base(r) = m /\ Dest(r, l[2]) = b
    BY <1>5 DEF r
  <2>5. MailNow' \subseteq PeerFree(th) \cup {x(l), none}
    BY <1>3, <1>6, <2>2, <2>3, <2>4
  <2>6. Onces(v, adminq)
    BY <1>1, <1>2, <2>2, <2>4
  <2>7. PeerSent(th, x(l))
    BY <1>1, <1>5, <1>7, <2>2, <2>3, <2>5, <2>6 DEF PeerSent
  <2> QED
    BY <2>7
<1>10. /\ w \in Links /\ Onces(w, adminq)
       /\ Mail(w, adminq, o, g) \subseteq Free \cup {x(<<a, b>>)}
  <2>1. CASE m = Nothing
    BY <1>1, <2>1
  <2>2. CASE m # Nothing
    <3> DEFINE l == <<a, b>>
               v == [chan EXCEPT ![l] = Append(@, m)]
               s == Mail(v, adminq, o, g) \subseteq Mail(chan, adminq, o, g) \cup {<<"chan", l, Dest(m, l[2]), Base(m)>>}
               u == Onces(chan, adminq) /\ (\A t : Carries(Base(m), t) => Own(Mail(chan, adminq, o, g), t) = {}) => Onces(v, adminq)
    <3>1. l \in Node \X Node /\ l[2] = b
      OBVIOUS
    <3>2. w = v
      BY <2>2
    <3> HIDE DEF l
    <3>3. v \in Links /\ s /\ u
      BY <1>1, <3>1, ChanAdds, Zenon
    <3>4. Dest(m, l[2]) = b
      BY <1>1, <3>1
    <3> HIDE DEF w
    <3>5. Onces(v, adminq)
      BY <1>1, <1>2, <3>3
    <3> QED
      BY <1>1, <3>2, <3>3, <3>4, <3>5 DEF l
  <2> QED
    BY <2>1, <2>2
<1> HIDE DEF w
<1>11. ASSUME NEW r \in Plain, r.kind \notin Telling,
              adminq' = [adminq EXCEPT ![a] = Append(@, r)], chan' = w
       PROVE  PeerSent(th, x(<<a, b>>))
  <2> DEFINE v == [adminq EXCEPT ![a] = Append(@, r)]
             s == Mail(w, v, o, g) \subseteq Mail(w, adminq, o, g) \cup {<<"queue", a, Dest(r, a), Base(r)>>}
             u == Onces(w, adminq) /\ (\A t : Carries(Base(r), t) => Own(Mail(w, adminq, o, g), t) = {}) => Onces(w, v)
  <2>1. Base(r) = r /\ r \in Message /\ \A t : ~Carries(Base(r), t)
    BY <1>11, PlainIs DEF Carries, Telling
  <2>2. v \in Queues /\ s /\ u
    BY <1>1, <2>1, QueueAdds, Zenon
  <2> DEFINE y == <<"queue", a, Dest(r, a), Base(r)>>
  <2>3. y[4] = r
    BY <2>1
  <2>4. Onces(w, v)
    BY <1>10, <2>1, <2>2
  <2> HIDE DEF y
  <2>5. MailNow' \subseteq PeerFree(th) \cup {x(<<a, b>>), y}
    BY <1>3, <1>6, <1>10, <1>11, <2>2 DEF y
  <2> QED
    BY <1>10, <1>11, <2>2, <2>3, <2>4, <2>5 DEF PeerSent
<1>12. CASE plain
  <2>1. MailNow' \subseteq PeerFree(th) \cup {x(<<a, b>>), none}
    BY <1>3, <1>6, <1>10, <1>12
  <2>2. PeerSent(th, x(<<a, b>>))
    BY <1>1, <1>5, <1>7, <1>10, <1>12, <2>1 DEF PeerSent
  <2> QED
    BY <2>2
<1>13. CASE made
  BY <1>5, <1>11, <1>13
<1>14. CASE back
  BY <1>5, <1>11, <1>14
<1>15. CASE far
  <2> DEFINE l == <<a, Master>>
             r == BackLinkMsg(a, b)
             v == [w EXCEPT ![l] = Append(@, r)]
             s == Mail(v, adminq, o, g) \subseteq Mail(w, adminq, o, g) \cup {<<"chan", l, Dest(r, l[2]), Base(r)>>}
             u == Onces(w, adminq) /\ (\A t : Carries(Base(r), t) => Own(Mail(w, adminq, o, g), t) = {}) => Onces(v, adminq)
             y == <<"chan", l, Dest(r, l[2]), Base(r)>>
  <2>1. l \in Node \X Node
    BY <1>1
  <2>2. r \in Plain /\ r.kind \notin Telling
    BY <1>5
  <2> HIDE DEF l, r
  <2>3. Base(r) = r /\ r \in Message /\ \A t : ~Carries(Base(r), t)
    BY <2>2, PlainIs DEF Carries, Telling
  <2>4. v \in Links /\ s /\ u
    BY <1>10, <2>1, <2>3, ChanAdds, Zenon
  <2>5. chan' = v /\ adminq' = adminq
    BY <1>15 DEF l, r
  <2>6. y[4] = r
    BY <2>3
  <2>7. Onces(v, adminq)
    BY <1>10, <2>3, <2>4
  <2> HIDE DEF y
  <2>8. MailNow' \subseteq PeerFree(th) \cup {x(<<a, b>>), y}
    BY <1>3, <1>6, <1>10, <2>4, <2>5 DEF y
  <2>9. PeerSent(th, x(<<a, b>>))
    BY <1>1, <2>2, <2>4, <2>5, <2>6, <2>7, <2>8 DEF PeerSent
  <2> QED
    BY <2>9
<1> QED
  BY <1>4, <1>8, <1>9, <1>12, <1>13, <1>14, <1>15

LEMMA NewPeerKeeps ==
  ASSUME MailInv, NEW th \in Thread, NewPeer(th)
  PROVE  MailInv'
<1> DEFINE a == AgentOf(th)
           b == out[th].to
           m == out[th].msg
           p == out[th].next
           z == <<"out", th, b, m>>
<1>1. /\ pc[th] = "agent" /\ got[th] # NoReply /\ pc' = [pc EXCEPT ![th] = p]
      /\ got' = [got EXCEPT ![th] = NoReply] /\ out' = [out EXCEPT ![th] = NoOut] /\ cache' = Cached(th, b)
      /\ peers' \in {peers, [peers EXCEPT ![a] = @ \cup {b}]}
      /\ UNCHANGED <<tableVars, procVars, alive, conn, call, ctx, proxyat, workVars, histVars>>
  BY DEF NewPeer
<1>2. /\ MailShape /\ FitInv /\ WaitInv /\ Control /\ Work /\ CallShape /\ pc \in [Thread -> Pcs]
  BY Apart
<1>3. b \in Node /\ p \in NextOf(th) /\ p \in Nexts /\ p \in PcsOf(th) /\ p \in Pcs
  BY <1>1, <1>2, Courses DEF Control, ControlOf
<1>4. a \in Node
  BY <1>1, <1>2, WhoWaits
<1>5. UNCHANGED <<launch, hunt, proxyat, call>>
  BY <1>1 DEF workVars
<1>6. FrameShape'
  <2>1. cache' \in [Node -> [Id \cup Node -> Node \cup {NoNode}]]
    BY <1>1, <1>4, AnswerCame, CachedShape, Apart
  <2>2. peers' \in [Node -> SUBSET Node]
    BY <1>1, <1>3, <1>4, Apart DEF NetShape
  <2> QED
    BY <1>1, <2>1, <2>2, Apart DEF FrameShape, NetShape, TableShape, ProcShape, WorkShape, HistShape, tableVars, procVars, workVars, histVars
<1>7. PICK l : PeerSent(th, <<"chan", l, b, m>>)
  BY <1>1, <1>3, <1>4, PeerMail
<1> DEFINE x == <<"chan", l, b, m>>
<1>8. PICK y : MailNow' \subseteq PeerFree(th) \cup {x, y} /\ y[4].kind \notin Carriers \cup MasterKinds
  BY <1>7 DEF PeerSent, Telling
<1>9. /\ pc' \in [Thread -> Pcs] /\ pc'[th] = p /\ (\A t \in Thread \ {th} : pc'[t] = pc[t])
      /\ out' \in Outs /\ out'[th] = NoOut /\ \A t \in Thread \ {th} : out'[t] = out[t]
  <2>1. NoOut \in [to : Node \cup {NoNode}, msg : Plain, next : {"idle", "reply", "made", "found"}]
    BY MessagesMade DEF NoOut
  <2> QED
    BY <1>1, <1>2, <1>3, <2>1 DEF MailShape, Outs
<1>10. MailShape' /\ Onces(chan', adminq')
  <2>1. got' \in Gots
    BY <1>1, <1>2 DEF MailShape, Gots
  <2> QED
    BY <1>7, <1>9, <2>1 DEF MailShape, PeerSent
<1>11. /\ \A e : e \in PeerFree(th) => \/ e \in MailNow /\ ~(e[1] = "out" /\ e[2] = th)
                                     \/ e = <<"out", th, NoNode, Nothing>>
       /\ \A t \in Thread : Carries(m, t) => Own(PeerFree(th), t) = {}
       /\ Own(PeerFree(th), th) = {}
  BY <1>1, PeerCalm
<1>12. Nothing.kind \notin Carriers \cup MasterKinds
  BY DEF Nothing, Carriers, MasterKinds, ClientKinds
<1>13. z \in MailNow /\ Noted(z, pc, out)
  <2>1. z \in MailNow
    BY MailIff DEF MailNow
  <2> HIDE DEF z
  <2> QED
    BY <2>1, <1>2 DEF FitInv
<1>14. m \in Plain
  BY <1>2 DEF MailShape, Outs
<1>15. m.kind \in Carriers => m.th \in Thread
  BY <1>14, Kinds
<1>16. x[1] = "chan" /\ x[3] = b /\ x[4] = m /\ z[1] = "out" /\ z[2] = th /\ z[3] = b /\ z[4] = m
  OBVIOUS
<1> HIDE DEF x, z, m, b, p, a
<1>17. Noted(x, pc', out')
  <2>1. /\ m.kind \in MasterKinds => b = Master
        /\ m.kind \in Carriers => Fit(m, IF th = m.th THEN p ELSE pc[m.th])
    BY <1>13, <1>16 DEF Noted, p
  <2> QED
    BY <1>9, <1>15, <1>16, <2>1 DEF Noted
<1>18. FitInv'
  <2> SUFFICES ASSUME NEW e \in MailNow' PROVE Noted(e, pc', out')
    BY DEF FitInv
  <2>1. CASE e = x
    BY <1>17, <2>1
  <2>2. CASE e = y
    BY <1>8, <2>2 DEF Noted
  <2>3. CASE e = <<"out", th, NoNode, Nothing>>
    <3>1. e[4] = Nothing
      BY <2>3
    <3> QED
      BY <1>12, <3>1 DEF Noted
  <2>4. CASE e \in PeerFree(th) /\ e \in MailNow /\ e # <<"out", th, NoNode, Nothing>>
    <3>1. Noted(e, pc, out)
      BY <1>2, <2>4 DEF FitInv
    <3>2. ~(e[1] = "out" /\ e[2] = th)
      BY <1>11, <2>4
    <3>3. e[4].kind \in Carriers => e[4].th \in Thread /\ e[4].th # th
      <4>1. e[4].kind \in Carriers => e[4].th \in Thread
        BY <1>2, <2>4, MailTyped, Kinds DEF MailNow, MailShape
      <4>2. ASSUME e[4].kind \in Carriers, e[4].th = th PROVE FALSE
        <5>1. e \in Own(PeerFree(th), th)
          BY <2>4, <3>2, <4>2 DEF Own, Carries
        <5> QED
          BY <1>11, <5>1
      <4> QED
        BY <4>1, <4>2
    <3> QED
      BY <1>9, <3>1, <3>3 DEF Noted
  <2> QED
    BY <1>8, <1>11, <2>1, <2>2, <2>3, <2>4
<1>19. ~\E c \in Client : pc'[ProxyT(c)] = "waiting" /\ pc[ProxyT(c)] # "waiting"
  <2>1. p # "waiting"
    BY <1>3 DEF Nexts
  <2> QED
    BY <1>9, <2>1, Threads
<1>20. WaitInv'
  <2>1. \A t \in Thread : Kept(pc', launch', hunt', t) \subseteq KeptNow(t)
    BY <1>5, <1>19, KeptShrinks
  <2>2. \A t \in Thread \ {th} : Carries(m, t) => KeptNow(t) = {}
    <3> SUFFICES ASSUME NEW t \in Thread \ {th}, Carries(m, t) PROVE KeptNow(t) = {}
      OBVIOUS
    <3>1. z \in Own(MailNow, t)
      BY <1>13, <1>16 DEF Own
    <3> QED
      BY <1>2, <3>1 DEF WaitInv, WaitOf
  <2>3. KeptNow(th) = {}
    BY <1>1, <1>2, ReplyIsOwn DEF WaitInv, WaitOf
  <2>4. \A t \in Thread : Carries(m, t) => Kept(pc', launch', hunt', t) = {}
    BY <2>1, <2>2, <2>3
  <2>5. \A t \in Thread : \A e \in Own(MailNow', t) : (e = x /\ Carries(m, t)) \/ e \in Own(PeerFree(th), t)
    BY <1>8, <1>16 DEF Own, Carries
  <2>6. \A t \in Thread : Own(PeerFree(th), t) \subseteq Own(MailNow, t)
    <3>1. \A e : e = <<"out", th, NoNode, Nothing>> => e[4].kind \notin Carriers
      BY <1>12
    <3> QED
      BY <1>11, <3>1 DEF Own, Carries
  <2>7. \A t \in Thread \ {th} :
              Own(MailNow', t) \subseteq Own(MailNow, t) \/ (Carries(m, t) /\ Lone(Own(MailNow', t)))
    BY <1>11, <2>5, <2>6 DEF Lone
  <2>8. Lone(Own(MailNow', th))
    BY <1>11, <2>5 DEF Lone
  <2>9. pc[th] # "reply" /\ \A t \in Thread \ {th} : pc'[t] = pc[t]
    BY <1>1, <1>9
  <2> QED
    BY <1>2, <1>10, <2>1, <2>4, <2>7, <2>8, <2>9, WaitSent
<1>21. Control'
  <2>1. \A t \in Thread \ {th} : ControlOf(t)'
    BY <1>2, <1>5, <1>9 DEF Control, ControlOf, PcsOf, NextOf
  <2>2. ControlOf(th)'
    BY <1>3, <1>9 DEF ControlOf, PcsOf, NextOf, Nexts
  <2>3. \A c \in Client : /\ pc'[ProxyT(c)] # "idle" => proxyat'[c] \in Node
                          /\ pc'[ProxyT(c)] = "agent" => Carries(out'[ProxyT(c)].msg, ClientT(c))
    <3> SUFFICES ASSUME NEW c \in Client
                 PROVE  /\ pc'[ProxyT(c)] # "idle" => proxyat'[c] \in Node
                        /\ pc'[ProxyT(c)] = "agent" => Carries(out'[ProxyT(c)].msg, ClientT(c))
      OBVIOUS
    <3>1. CASE ProxyT(c) = th
      BY <1>1, <1>2, <1>3, <1>5, <1>9, <3>1 DEF Control, Nexts
    <3>2. CASE ProxyT(c) # th
      BY <1>2, <1>5, <1>9, <3>2, Threads DEF Control
    <3> QED
      BY <3>1, <3>2
  <2> QED
    BY <2>1, <2>2, <2>3 DEF Control
<1>22. Work'
  <2>1. CASE th # AdminT(Master)
    BY <1>2, <1>5, <1>9, <2>1, Threads, WorkSame
  <2>2. CASE th = AdminT(Master)
    <3>1. p \in {"idle", "made", "found"}
      BY <1>3, <2>2, Sorts DEF NextOf
    <3>2. /\ Launching <=> p = "made"
          /\ Hunting <=> p = "found"
      BY <1>1, <2>2 DEF Launching, Hunting, p
    <3>3. /\ Launching' <=> p = "made"
          /\ Hunting' <=> p = "found"
      BY <1>9, <2>2, <3>1 DEF Launching, Hunting, NoOut
    <3> QED
      BY <1>1, <1>2, <1>5, <1>9, <2>2, <3>1, <3>2, <3>3 DEF Work
  <2> QED
    BY <2>1, <2>2
<1> QED
  BY <1>2, <1>5, <1>6, <1>9, <1>10, <1>18, <1>20, <1>21, <1>22, Together DEF CallShape

-----------------------------------------------------------------------------
(* The steps of the receiving threads.                                     *)

LEMMA RecvTakes ==
  ASSUME MailInv, NEW a \in Node, NEW b \in Node, Takes(a, b)
  PROVE  LET m == Head(chan[b, a])
         IN  /\ m \in Message /\ Taken(Rest(a, b), adminq, <<"chan", <<b, a>>, Dest(m, a), Base(m)>>)
             /\ m.kind # "routed" => m \in Plain /\ Base(m) = m /\ Dest(m, a) = a
<1> DEFINE m == Head(chan[b, a])
<1>1. MailShape /\ WaitInv /\ chan[b, a] # <<>>
  BY Apart DEF Takes
<1>2. m \in Message /\ Taken(Rest(a, b), adminq, <<"chan", <<b, a>>, Dest(m, a), Base(m)>>)
  BY <1>1, TakeChan
<1> HIDE DEF m
<1>3. m.kind # "routed" => m \in Plain /\ Base(m) = m /\ Dest(m, a) = a
  BY <1>2, MessageIs DEF Base, Dest
<1> QED
  BY <1>2, <1>3 DEF m

LEMMA RecvThread ==
  ASSUME NEW a \in Node, NEW b \in Node
  PROVE  /\ AgentOf(RecvT(a, b)) = a /\ RecvT(a, b)[1] = "recv" /\ RecvT(a, b) # AdminT(Master)
         /\ RecvT(a, b) \notin ClientThread
         /\ \A c \in Client : RecvT(a, b) # ProxyT(c)
<1>1. RecvT(a, b)[1] = "recv" /\ RecvT(a, b)[2] = a
  BY Sorts
<1>2. AgentOf(RecvT(a, b)) = a
  BY <1>1 DEF AgentOf
<1>3. RecvT(a, b) \notin ClientThread
  BY <1>1, Sorts DEF ClientThread
<1> QED
  BY <1>1, <1>2, <1>3, Sorts

LEMMA RecvQueuedKeeps ==
  ASSUME MailInv, NEW a \in Node, NEW b \in Node, RecvQueued(a, b)
  PROVE  MailInv'
<1> DEFINE m == Head(chan[b, a])
           w == Rest(a, b)
           x == <<"chan", <<b, a>>, Dest(m, a), Base(m)>>
           y == <<"queue", a, Dest(m, a), Base(m)>>
           v == [adminq EXCEPT ![a] = Append(@, m)]
           s == Mail(w, v, out, got) \subseteq Mail(w, adminq, out, got) \cup {y}
           u == Onces(w, adminq) /\ (\A t : Carries(Base(m), t) => Own(Mail(w, adminq, out, got), t) = {}) => Onces(w, v)
<1>1. /\ Takes(a, b) /\ adminq' = v /\ chan' = w
      /\ UNCHANGED <<tableVars, procVars, alive, peers, conn, cache, threadVars, workVars, histVars>>
  BY DEF RecvQueued
<1>2. m \in Message /\ Taken(w, adminq, x)
  BY <1>1, RecvTakes
<1>3. UNCHANGED <<pc, out, call, launch, hunt, proxyat, got>>
  BY <1>1 DEF threadVars, workVars
<1>4. FrameShape'
  BY <1>1, Apart DEF FrameShape, TableShape, ProcShape, NetShape, WorkShape, HistShape, tableVars, procVars, workVars, histVars, threadVars
<1>5. x[1] = "chan" /\ y[1] = "queue" /\ x[4] = Base(m) /\ y[4] = Base(m) /\ x[3] = y[3]
  OBVIOUS
<1>6. adminq \in Queues /\ w \in Links /\ Onces(w, adminq)
  BY <1>2, Apart DEF Taken, Less, MailShape
<1>7. \A t : Carries(Base(m), t) => Own(Mail(w, adminq, out, got), t) = {}
  BY <1>2, <1>5 DEF Taken
<1> HIDE DEF m, w
<1>8. v \in Queues /\ s /\ u
  BY <1>2, <1>6, QueueAdds, Zenon
<1> HIDE DEF x, y, v
<1>9. MailShape' /\ Onces(chan', adminq')
  BY <1>1, <1>3, <1>6, <1>7, <1>8, Apart DEF MailShape
<1>10. MailNow' \subseteq Mail(w, adminq, out, got) \cup {y}
  BY <1>1, <1>3, <1>8 DEF MailNow
<1> QED
  BY <1>2, <1>3, <1>4, <1>5, <1>9, <1>10, Moves

LEMMA ValuesReal ==
  ASSUME NEW v \in Values
  PROVE  v # NoReply
BY DEF Values, NoReply, Answers, Parts

LEMMA RecvReplyKeeps ==
  ASSUME MailInv, NEW a \in Node, NEW b \in Node, RecvReply(a, b)
  PROVE  MailInv'
<1> DEFINE m == Head(chan[b, a])
           w == Rest(a, b)
           x == <<"chan", <<b, a>>, Dest(m, a), Base(m)>>
           y == <<"got", m.th, NoNode, [kind |-> "reply", th |-> m.th, val |-> m.val]>>
<1>1. /\ Takes(a, b) /\ m.kind = "reply" /\ got' = [got EXCEPT ![m.th] = m.val] /\ chan' = w
      /\ UNCHANGED <<tableVars, procVars, alive, peers, conn, adminq, cache, pc, call, out, ctx,
                     proxyat, workVars, histVars>>
  BY DEF RecvReply
<1>2. m \in Plain /\ Taken(w, adminq, x) /\ Base(m) = m
  BY <1>1, RecvTakes
<1>3. UNCHANGED <<pc, out, call, launch, hunt, proxyat>>
  BY <1>1 DEF workVars
<1>4. FrameShape'
  BY <1>1, Apart DEF FrameShape, TableShape, ProcShape, NetShape, WorkShape, HistShape, tableVars, procVars, workVars, histVars
<1>5. m.th \in Thread /\ m.val \in Values /\ m.val # NoReply /\ m = [kind |-> "reply", th |-> m.th, val |-> m.val]
  BY <1>1, <1>2, Kinds, ValuesReal DEF Carriers
<1>6. x[1] = "chan" /\ x[4] = m /\ y[1] = "got" /\ y[4] = m
  BY <1>2, <1>5
<1> HIDE DEF m, w
<1>7. adminq \in Queues /\ w \in Links /\ Onces(w, adminq)
  BY <1>2, Apart DEF Taken, Less, MailShape
<1>8. Mail(w, adminq, out, [got EXCEPT ![m.th] = m.val]) \subseteq Before(w, adminq, m.th) \cup {y}
  BY <1>5, GotAdds, Apart
<1>9. \A e : e \in Before(w, adminq, m.th) => e \in Mail(w, adminq, out, got)
  BY <1>5, LetsGo, Apart
<1> HIDE DEF x, y
<1>10. MailShape' /\ Onces(chan', adminq')
  <2>1. got' \in Gots
    BY <1>1, <1>5, Apart DEF MailShape, Gots
  <2> QED
    BY <1>1, <1>3, <1>7, <2>1, Apart DEF MailShape
<1>11. MailNow' \subseteq Mail(w, adminq, out, got) \cup {y}
  BY <1>1, <1>3, <1>8, <1>9 DEF MailNow
<1> QED
  BY <1>1, <1>2, <1>3, <1>4, <1>6, <1>10, <1>11, Moves

LEMMA RecvResolveKeeps ==
  ASSUME MailInv, NEW a \in Node, NEW b \in Node, RecvT(a, b) \in Thread, RecvResolve(a, b)
  PROVE  MailInv'
<1> DEFINE m == Head(chan[b, a])
           w == Rest(a, b)
           x == <<"chan", <<b, a>>, Dest(m, a), Base(m)>>
           th == RecvT(a, b)
<1>1. /\ Takes(a, b) /\ m.kind = "resolve" /\ pc[th] = "idle"
      /\ Send(th, AgentOf(m.th), ReplyMsg(m.th, Found(m.id)), "idle", adminq, w)
      /\ UNCHANGED <<tableVars, procVars, alive, peers, conn, ctx, proxyat, workVars, call, cache, histVars>>
  BY DEF RecvResolve, Takes, ProcSame
<1>2. m \in Plain /\ Taken(w, adminq, x) /\ Base(m) = m
  BY <1>1, RecvTakes
<1>3. x[1] = "chan" /\ x[4] = m
  BY <1>2
<1>4. UNCHANGED <<call, launch, hunt, proxyat>>
  BY <1>1 DEF workVars
<1>5. FrameShape' /\ CallShape'
  BY <1>1, Apart DEF FrameShape, TableShape, ProcShape, NetShape, WorkShape, HistShape, tableVars, procVars, workVars, histVars, CallShape
<1>6. th[1] # "proxy" /\ AgentOf(th) \in Node /\ th # AdminT(Master)
  BY RecvThread
<1>7. <<Found(m.id)>> \in Answers /\ <<Found(m.id)>> \in Values
  <2>1. Found(m.id) \in Node \cup {NoNode}
    BY Apart DEF Found, TableShape
  <2> QED
    BY <2>1 DEF Answers, Values
<1> HIDE DEF m, w, x, th
<1>8. x[4].kind \in Carriers \ {"reply"} /\ x[4].kind # "subfind" /\ x[1] # "out"
  BY <1>1, <1>3 DEF Carriers
<1>9. /\ Ready(th, w, adminq, AgentOf(m.th), ReplyMsg(m.th, Found(m.id)), "idle")
      /\ \A t \in Thread : Carries(ReplyMsg(m.th, Found(m.id)), t) => KeptNow(t) = {}
  BY <1>1, <1>2, <1>3, <1>6, <1>7, <1>8, Answering DEF th
<1> QED
  BY <1>1, <1>4, <1>5, <1>6, <1>9, SendSame DEF th

LEMMA MakeShape ==
  ASSUME ProcShape, NEW a \in Node, NEW id \in Id, NEW ids \in SUBSET Id, NEW phase,
         Make(a, id, ids, phase), UNCHANGED <<killed, given>>
  PROVE  ProcShape'
<1>1. CASE phase = 1
  BY <1>1 DEF Make, ProcShape, Modes, OnMap
<1>2. CASE phase # 1
  BY <1>2 DEF Make, ProcShape, Modes, OnMap
<1> QED
  BY <1>1, <1>2

LEMMA RecvMakeKeeps ==
  ASSUME MailInv, NEW a \in Node, NEW b \in Node, RecvT(a, b) \in Thread, RecvMake(a, b)
  PROVE  MailInv'
<1> DEFINE m == Head(chan[b, a])
           w == Rest(a, b)
           x == <<"chan", <<b, a>>, Dest(m, a), Base(m)>>
           th == RecvT(a, b)
<1>1. /\ Takes(a, b) /\ m.kind = "make" /\ pc[th] = "idle" /\ Make(a, m.id, m.ids, m.phase)
      /\ Send(th, AgentOf(m.th), ReplyMsg(m.th, 0), "idle", adminq, w)
      /\ UNCHANGED <<tableVars, killed, given, alive, peers, conn, cache, call, ctx, proxyat,
                     workVars, histVars>>
  BY DEF RecvMake, Takes
<1>2. m \in Plain /\ Taken(w, adminq, x) /\ Base(m) = m
  BY <1>1, RecvTakes
<1>3. x[1] = "chan" /\ x[4] = m
  BY <1>2
<1>4. UNCHANGED <<call, launch, hunt, proxyat>>
  BY <1>1 DEF workVars
<1> HIDE DEF m, w, x, th
<1>5. FrameShape' /\ CallShape'
  <2>1. m.id \in Id /\ m.ids \in SUBSET Id
    BY <1>1, <1>2, Kinds
  <2>2. ProcShape'
    BY <1>1, <2>1, MakeShape, Apart
  <2> QED
    BY <1>1, <2>2, Apart DEF FrameShape, TableShape, NetShape, WorkShape, HistShape, tableVars, workVars, histVars, CallShape
<1>6. th[1] # "proxy" /\ AgentOf(th) \in Node /\ th # AdminT(Master)
  BY RecvThread DEF th
<1>7. <<0>> \in Values
  BY DEF Values
<1>8. x[4].kind \in Carriers \ {"reply"} /\ x[4].kind # "subfind" /\ x[4].kind # "resolve" /\ x[1] # "out"
  BY <1>1, <1>3 DEF Carriers
<1>9. /\ Ready(th, w, adminq, AgentOf(m.th), ReplyMsg(m.th, 0), "idle")
      /\ \A t \in Thread : Carries(ReplyMsg(m.th, 0), t) => KeptNow(t) = {}
  BY <1>1, <1>2, <1>3, <1>6, <1>7, <1>8, Answering DEF th
<1> QED
  BY <1>1, <1>4, <1>5, <1>6, <1>9, SendSame DEF th

LEMMA RecvDataKeeps ==
  ASSUME MailInv, NEW a \in Node, NEW b \in Node, RecvT(a, b) \in Thread, RecvData(a, b)
  PROVE  MailInv'
<1> DEFINE m == Head(chan[b, a])
           w == Rest(a, b)
           x == <<"chan", <<b, a>>, Dest(m, a), Base(m)>>
           th == RecvT(a, b)
<1>1. /\ Takes(a, b) /\ m.kind = "data" /\ pc[th] = "idle"
      /\ \/ chan' = w /\ UNCHANGED <<pc, got, call>>
         \/ Resolve(th, m.id, "task", w) /\ call' = [call EXCEPT ![th] = [op |-> "send", id |-> m.id]]
      /\ UNCHANGED <<tableVars, procVars, alive, peers, conn, adminq, cache, out, ctx, proxyat,
                     workVars, histVars>>
  BY DEF RecvData, Takes
<1>2. m \in Plain /\ Taken(w, adminq, x)
  BY <1>1, RecvTakes
<1>3. Less(w, adminq)
  BY <1>2 DEF Taken
<1>4. UNCHANGED <<launch, hunt, proxyat, out, adminq>>
  BY <1>1 DEF workVars
<1>5. FrameShape'
  BY <1>1, Apart DEF FrameShape, TableShape, ProcShape, NetShape, WorkShape, HistShape, tableVars, procVars, workVars, histVars
<1> HIDE DEF m, w, x
<1>6. m.id \in Id
  BY <1>1, <1>2, Kinds
<1>7. CASE chan' = w /\ UNCHANGED <<pc, got, call>>
  <2> DEFINE y == <<"none", NoNode, NoNode, Nothing>>
  <2>1. Nothing \in Plain /\ Nothing.kind \notin Carriers \cup MasterKinds
    BY MessagesMade DEF Nothing, Carriers, MasterKinds, ClientKinds
  <2>2. y[4] = Nothing
    OBVIOUS
  <2>3. MailNow' \subseteq MailNow \cup {y}
    BY <1>3, <1>4, <1>7 DEF Less, MailNow
  <2>4. chan' \in Links /\ adminq' \in Queues /\ Onces(chan', adminq')
    BY <1>3, <1>4, <1>7 DEF Less
  <2> HIDE DEF y
  <2> QED
    BY <1>4, <1>5, <1>7, <2>1, <2>2, <2>3, <2>4, Threadless
<1>8. CASE Resolve(th, m.id, "task", w) /\ call' = [call EXCEPT ![th] = [op |-> "send", id |-> m.id]]
  <2>1. th[1] = "recv" /\ AgentOf(th) \in Node /\ th # AdminT(Master) /\ th \in Thread
    BY RecvThread
  <2>2. out[th] = NoOut /\ pc[th] # "reply" /\ Calm(w, adminq, th)
    BY <1>1, <1>3, IdleIs
  <2>3. CallShape' /\ (\A t \in Thread \ {th} : call'[t] = call[t]) /\ call'[th] = [op |-> "send", id |-> m.id]
    BY <1>6, <1>8, Apart DEF CallShape, Ops
  <2> HIDE DEF th
  <2>4. out' = [out EXCEPT ![th] = NoOut]
    BY <1>4, <2>1, <2>2, Apart DEF MailShape, Outs
  <2>5. "task" \in PcsOf(th)
    BY <2>1 DEF PcsOf
  <2>6. Holding(th, NoOut, "task")
    BY <1>6, <2>3, MessagesMade DEF Holding, NoOut, Nothing, Nexts, Carriers, MasterKinds, ClientKinds
  <2>7. "task" \in {"task", "agent"} \cap PcsOf(th) /\ m.id \in Id \cup Node
    BY <1>6, <2>5
  <2>8. UNCHANGED <<launch, hunt>> /\ adminq' = adminq /\ proxyat' = proxyat
    BY <1>4
  <2> QED
    BY <1>5, <1>8, <2>1, <2>2, <2>3, <2>4, <2>6, <2>7, <2>8, ResolveStep
<1> QED
  BY <1>1, <1>7, <1>8

LEMMA NoticeLossKeeps ==
  ASSUME MailInv, NEW a \in Node, NEW n \in Node, NoticeLoss(a, n)
  PROVE  MailInv'
<1> DEFINE m == RemoveLinkMsg(n)
           v == [adminq EXCEPT ![a] = Append(@, m)]
           s == Mail(chan, v, out, got) \subseteq Mail(chan, adminq, out, got) \cup {<<"queue", a, Dest(m, a), Base(m)>>}
           u == Onces(chan, adminq) /\ (\A t : Carries(Base(m), t) => Own(Mail(chan, adminq, out, got), t) = {}) => Onces(chan, v)
           x == <<"queue", a, Dest(m, a), Base(m)>>
<1>1. /\ conn' = conn \ {{a, n}} /\ adminq' = v
      /\ UNCHANGED <<tableVars, procVars, alive, peers, chan, cache, threadVars, workVars, histVars>>
  BY DEF NoticeLoss
<1>2. m \in Plain /\ Base(m) = m /\ m \in Message /\ m.kind = "removelink"
  BY MessagesMade, PlainIs DEF RemoveLinkMsg
<1>3. UNCHANGED <<pc, out, got, call, launch, hunt, proxyat, chan>>
  BY <1>1 DEF threadVars, workVars
<1>4. FrameShape'
  BY <1>1, Apart DEF FrameShape, TableShape, ProcShape, NetShape, WorkShape, HistShape, tableVars, procVars, workVars, histVars, threadVars
<1>5. adminq \in Queues /\ chan \in Links /\ Onces(chan, adminq)
  BY Apart DEF MailShape, WaitInv
<1> HIDE DEF m
<1>6. v \in Queues /\ s /\ u
  BY <1>2, <1>5, QueueAdds, Zenon
<1>7. m.kind \notin Carriers /\ m.kind \notin MasterKinds
  BY <1>2 DEF Carriers, MasterKinds, ClientKinds
<1>8. x[4] = m
  BY <1>2
<1> HIDE DEF x
<1>9. \A t : ~Carries(Base(m), t)
  BY <1>2, <1>7 DEF Carries
<1>10. MailNow' \subseteq MailNow \cup {x}
  BY <1>1, <1>3, <1>6 DEF MailNow, x
<1>11. chan' \in Links /\ adminq' \in Queues /\ Onces(chan', adminq')
  BY <1>1, <1>3, <1>5, <1>6, <1>9
<1> QED
  BY <1>2, <1>3, <1>4, <1>7, <1>8, <1>10, <1>11, Threadless

-----------------------------------------------------------------------------
(* The steps of the admin threads.                                         *)

LEMMA AdminThread ==
  ASSUME NEW a \in Node
  PROVE  /\ AdminT(a) \in Thread /\ AgentOf(AdminT(a)) = a /\ AdminT(a)[1] = "admin"
         /\ AdminT(a) \notin ClientThread
         /\ \A c \in Client : AdminT(a) # ProxyT(c)
         /\ AdminT(a) = AdminT(Master) => a = Master
<1>1. AdminT(a)[1] = "admin" /\ AdminT(a)[2] = a
  BY Sorts
<1>2. AgentOf(AdminT(a)) = a
  BY <1>1 DEF AgentOf
<1>3. AdminT(a) \notin ClientThread
  BY <1>1, Sorts DEF ClientThread
<1> QED
  BY <1>1, <1>2, <1>3, Sorts, Threads

LEMMA AdminTakes ==
  ASSUME MailInv, NEW a \in Node, NEW kind, Runs(a, kind)
  PROVE  LET m == Head(adminq[a])
         IN  /\ m \in Message /\ Taken(chan, RestOf(a), <<"queue", a, Dest(m, a), Base(m)>>)
             /\ m.kind = kind /\ pc[AdminT(a)] = "idle"
             /\ m.kind # "routed" => m \in Plain /\ Base(m) = m /\ Dest(m, a) = a
<1> DEFINE m == Head(adminq[a])
<1>1. MailShape /\ WaitInv /\ adminq[a] # <<>>
  BY Apart DEF Runs
<1>2. m \in Message /\ Taken(chan, RestOf(a), <<"queue", a, Dest(m, a), Base(m)>>)
  BY <1>1, TakeQueue
<1>3. m.kind = kind /\ pc[AdminT(a)] = "idle"
  BY DEF Runs
<1> HIDE DEF m
<1>4. m.kind # "routed" => m \in Plain /\ Base(m) = m /\ Dest(m, a) = a
  BY <1>2, MessageIs DEF Base, Dest
<1> QED
  BY <1>2, <1>3, <1>4 DEF m

\* The admin thread replies to what it took.
LEMMA AdminReplies ==
  ASSUME MailInv, NEW a \in Node, NEW kind \in ClientKinds \cup {"subfind"}, Runs(a, kind),
         NEW v, <<v>> \in Values, kind = "subfind" => <<v>> \in Parts,
         ReplyFrom(a, Head(adminq[a]).th, v),
         UNCHANGED <<call, launch, hunt, proxyat>>, FrameShape'
  PROVE  MailInv'
<1> DEFINE m == Head(adminq[a])
           q == RestOf(a)
           x == <<"queue", a, Dest(m, a), Base(m)>>
           th == AdminT(a)
<1>1. kind # "routed" /\ kind # "resolve" /\ kind \in Carriers \ {"reply"}
  BY DEF Carriers, ClientKinds
<1>2. m \in Plain /\ Taken(chan, q, x) /\ Base(m) = m /\ m.kind = kind /\ pc[th] = "idle"
  BY <1>1, AdminTakes
<1>3. x[1] = "queue" /\ x[4] = m
  BY <1>2
<1>4. th[1] # "proxy" /\ AgentOf(th) \in Node /\ th \in Thread
  BY AdminThread
<1>5. Send(th, AgentOf(m.th), ReplyMsg(m.th, v), "idle", q, chan)
  BY DEF ReplyFrom
<1>6. CallShape'
  BY Apart DEF CallShape
<1> HIDE DEF m, q, x, th
<1>7. /\ Ready(th, chan, q, AgentOf(m.th), ReplyMsg(m.th, v), "idle")
      /\ \A t \in Thread : Carries(ReplyMsg(m.th, v), t) => KeptNow(t) = {}
  BY <1>1, <1>2, <1>3, <1>4, Answering
<1> QED
  BY <1>2, <1>4, <1>5, <1>6, <1>7, SendSame

LEMMA AdminKillKeeps ==
  ASSUME MailInv, NEW a \in Node, AdminKill(a)
  PROVE  MailInv'
<1> DEFINE m == Head(adminq[a])
<1>1. /\ Runs(a, "kill") /\ ReplyFrom(a, m.th, 0)
      /\ killed' \subseteq killed \cup {m.id}
      /\ UNCHANGED <<tableVars, home, mode, members, given, alive, peers, conn, cache, call, ctx,
                     proxyat, workVars, histVars>>
  BY DEF AdminKill
<1>2. m.id \in Id
  <2>1. Runs(a, "kill")
    BY <1>1
  <2>2. m.kind = "kill" /\ (m.kind # "routed" => m \in Plain)
    BY <2>1, AdminTakes, Zenon
  <2> HIDE DEF m
  <2> QED
    BY <2>2, Kinds
<1>3. FrameShape'
  BY <1>1, <1>2, Apart DEF FrameShape, TableShape, ProcShape, NetShape, WorkShape, HistShape, tableVars, procVars, workVars, histVars
<1>4. UNCHANGED <<call, launch, hunt, proxyat>>
  BY <1>1 DEF workVars
<1>5. <<0>> \in Values /\ "kill" \in ClientKinds \cup {"subfind"}
  BY DEF Values, ClientKinds
<1> QED
  BY <1>1, <1>3, <1>4, <1>5, AdminReplies

LEMMA AdminAliveKeeps ==
  ASSUME MailInv, NEW a \in Node, AdminAlive(a)
  PROVE  MailInv'
<1> DEFINE m == Head(adminq[a])
           v == IF m.id \in ps(a) THEN 0 ELSE 1
<1>1. /\ Runs(a, "alive") /\ ReplyFrom(a, m.th, v)
      /\ UNCHANGED <<tableVars, procVars, alive, peers, conn, ctx, proxyat, workVars, call, cache, histVars>>
  BY DEF AdminAlive, ProcSame
<1>2. FrameShape'
  BY <1>1, Apart DEF FrameShape, TableShape, ProcShape, NetShape, WorkShape, HistShape, tableVars, procVars, workVars, histVars
<1>3. UNCHANGED <<call, launch, hunt, proxyat>>
  BY <1>1 DEF workVars
<1>4. <<v>> \in Values /\ "alive" \in ClientKinds \cup {"subfind"}
  BY DEF Values, ClientKinds
<1> QED
  BY <1>1, <1>2, <1>3, <1>4, AdminReplies

LEMMA AdminSizeKeeps ==
  ASSUME MailInv, NEW a \in Node, AdminSize(a)
  PROVE  MailInv'
<1>1. /\ Runs(a, "size") /\ ReplyFrom(a, Head(adminq[a]).th, Cpus(nodes))
      /\ UNCHANGED <<tableVars, procVars, alive, peers, conn, ctx, proxyat, workVars, call, cache, histVars>>
  BY DEF AdminSize, ProcSame
<1>2. FrameShape'
  BY <1>1, Apart DEF FrameShape, TableShape, ProcShape, NetShape, WorkShape, HistShape, tableVars, procVars, workVars, histVars
<1>3. UNCHANGED <<call, launch, hunt, proxyat>>
  BY <1>1 DEF workVars
<1>4. nodes \in SUBSET Node
  BY Apart DEF TableShape
<1>5. <<Cpus(nodes)>> \in Values /\ "size" \in ClientKinds \cup {"subfind"}
  BY <1>4 DEF Values, ClientKinds
<1> QED
  BY <1>1, <1>2, <1>3, <1>5, AdminReplies

LEMMA AdminSubFindKeeps ==
  ASSUME MailInv, NEW a \in Node, AdminSubFind(a)
  PROVE  MailInv'
<1>1. /\ Runs(a, "subfind") /\ ReplyFrom(a, Head(adminq[a]).th, Serving(a))
      /\ UNCHANGED <<tableVars, procVars, alive, peers, conn, ctx, proxyat, workVars, call, cache, histVars>>
  BY DEF AdminSubFind, ProcSame
<1>2. FrameShape'
  BY <1>1, Apart DEF FrameShape, TableShape, ProcShape, NetShape, WorkShape, HistShape, tableVars, procVars, workVars, histVars
<1>3. UNCHANGED <<call, launch, hunt, proxyat>>
  BY <1>1 DEF workVars
<1>4. Serving(a) \in SUBSET Id
  BY DEF Serving, ps
<1>5. <<Serving(a)>> \in Parts /\ <<Serving(a)>> \in Values /\ "subfind" \in ClientKinds \cup {"subfind"}
  BY <1>4 DEF Values, Parts
<1> QED
  BY <1>1, <1>2, <1>3, <1>5, AdminReplies

LEMMA AdminContextKeeps ==
  ASSUME MailInv, NEW a \in Node, AdminContext(a)
  PROVE  MailInv'
<1> DEFINE m == Head(adminq[a])
<1>1. /\ Runs(a, "reg") \/ Runs(a, "unreg")
      /\ ReplyFrom(a, m.th, 0)
      /\ owner' = [owner EXCEPT ![m.id] = IF m.kind = "reg" THEN AgentOf(m.th) ELSE NoNode]
      /\ UNCHANGED <<nodes, load, procVars, alive, peers, conn, cache, call, ctx, proxyat, workVars,
                     histVars>>
  BY DEF AdminContext
<1>2. UNCHANGED <<call, launch, hunt, proxyat>>
  BY <1>1 DEF workVars
<1>3. <<0>> \in Values /\ "reg" \in ClientKinds \cup {"subfind"} /\ "unreg" \in ClientKinds \cup {"subfind"}
  BY DEF Values, ClientKinds
<1>4. m \in Plain /\ m.kind \in {"reg", "unreg"}
  <2>1. CASE Runs(a, "reg")
    <3>1. m.kind = "reg" /\ (m.kind # "routed" => m \in Plain)
      BY <2>1, AdminTakes, Zenon
    <3> QED
      BY <3>1
  <2>2. CASE Runs(a, "unreg")
    <3>1. m.kind = "unreg" /\ (m.kind # "routed" => m \in Plain)
      BY <2>2, AdminTakes, Zenon
    <3> QED
      BY <3>1
  <2> QED
    BY <1>1, <2>1, <2>2
<1>5. AgentOf(m.th) \in Node
  <2>1. m.th \in ClientThread
    BY <1>4, Kinds DEF ClientKinds
  <2> QED
    BY <2>1, Sorts, Threads DEF ClientThread, AgentOf
<1>6. FrameShape'
  <2>1. owner' \in [Id -> Node \cup {NoNode}]
    BY <1>1, <1>5, Apart DEF TableShape
  <2> QED
    BY <1>1, <2>1, Apart DEF FrameShape, TableShape, ProcShape, NetShape, WorkShape, HistShape, procVars, workVars, histVars
<1> QED
  BY <1>1, <1>2, <1>3, <1>6, AdminReplies

\* Messages go, and no thread is disturbed.
LEMMA Fewer ==
  ASSUME MailInv, UNCHANGED <<pc, out, got, call, launch, hunt, proxyat>>,
         NEW w, NEW q, Less(w, q), chan' = w, adminq' = q, FrameShape'
  PROVE  MailInv'
<1> DEFINE y == <<"none", NoNode, NoNode, Nothing>>
<1>1. Nothing \in Plain /\ Nothing.kind \notin Carriers \cup MasterKinds
  BY MessagesMade DEF Nothing, Carriers, MasterKinds, ClientKinds
<1>2. y[4] = Nothing
  OBVIOUS
<1>3. MailNow' \subseteq MailNow \cup {y}
  BY DEF Less, MailNow
<1>4. chan' \in Links /\ adminq' \in Queues /\ Onces(chan', adminq')
  BY DEF Less
<1> HIDE DEF y
<1> QED
  BY <1>1, <1>2, <1>3, <1>4, Threadless

LEMMA AdminDeadKeeps ==
  ASSUME MailInv, NEW a \in Node, AdminDead(a)
  PROVE  MailInv'
<1> DEFINE id == Head(adminq[a]).id
           n == owner[id]
<1>1. /\ Runs(a, "dead") /\ adminq' = RestOf(a) /\ owner' = [owner EXCEPT ![id] = NoNode]
      /\ load' = IF n \in nodes THEN [load EXCEPT ![n] = @ \ {id}] ELSE load
      /\ UNCHANGED <<nodes, procVars, alive, peers, conn, chan, cache, threadVars, workVars, histVars>>
  BY DEF AdminDead
<1>2. UNCHANGED <<pc, out, got, call, launch, hunt, proxyat, chan>>
  BY <1>1 DEF threadVars, workVars
<1>3. TableShape'
  BY <1>1, Apart DEF TableShape
<1>4. FrameShape'
  BY <1>1, <1>3, Apart DEF FrameShape, ProcShape, NetShape, WorkShape, HistShape, procVars, workVars, histVars, threadVars
<1>5. Less(chan, RestOf(a))
  BY <1>1, AdminTakes DEF Taken
<1> QED
  BY <1>1, <1>2, <1>4, <1>5, Fewer

LEMMA AdminMakeLinkKeeps ==
  ASSUME MailInv, NEW a \in Node, AdminMakeLink(a)
  PROVE  MailInv'
<1> DEFINE b == Head(adminq[a]).to
<1>1. /\ Runs(a, "makelink") /\ adminq' = RestOf(a)
      /\ IF b \in alive /\ {a, b} \notin conn
         THEN conn' = conn \cup {{a, b}} /\ peers' = [peers EXCEPT ![b] = @ \cup {a}]
         ELSE UNCHANGED <<conn, peers>>
      /\ UNCHANGED <<tableVars, procVars, alive, chan, cache, threadVars, workVars, histVars>>
  BY DEF AdminMakeLink
<1>2. UNCHANGED <<pc, out, got, call, launch, hunt, proxyat, chan>>
  BY <1>1 DEF threadVars, workVars
<1>3. NetShape'
  <2>1. CASE b \in alive /\ {a, b} \notin conn
    <3>1. conn' = conn \cup {{a, b}} /\ peers' = [peers EXCEPT ![b] = @ \cup {a}] /\ UNCHANGED <<alive, cache>> /\ b \in Node
      BY <1>1, <2>1, Apart DEF NetShape
    <3> HIDE DEF b
    <3>2. peers' \in [Node -> SUBSET Node]
      BY <3>1, Apart DEF NetShape
    <3> QED
      BY <3>1, <3>2, Apart DEF NetShape
  <2>2. CASE ~(b \in alive /\ {a, b} \notin conn)
    BY <1>1, <2>2, Apart DEF NetShape
  <2> QED
    BY <2>1, <2>2
<1>4. FrameShape'
  BY <1>1, <1>3, Apart DEF FrameShape, TableShape, ProcShape, WorkShape, HistShape, tableVars, procVars, workVars, histVars, threadVars
<1>5. Less(chan, RestOf(a))
  BY <1>1, AdminTakes DEF Taken
<1> QED
  BY <1>1, <1>2, <1>4, <1>5, Fewer

\* A link is emptied.
LEMMA LessFlushed ==
  ASSUME NEW w, NEW q, Less(w, q), NEW l \in Node \X Node
  PROVE  Less([w EXCEPT ![l] = <<>>], q)
<1> DEFINE v == [w EXCEPT ![l] = <<>>]
<1>1. w \in Links /\ q \in Queues /\ Onces(w, q) /\ Mail(w, q, out, got) \subseteq MailNow
  BY DEF Less
<1>2. <<>> \in Seq(Message)
  OBVIOUS
<1>3. v \in Links /\ \A e : e \in Mail(v, q, out, got) <=>
              \/ e \in Letters(<<>>, "chan", l, l[2])
              \/ e \in Mail(w, q, out, got) /\ ~(e[1] = "chan" /\ e[2] = l)
  BY <1>1, <1>2, MailChan
<1>4. Letters(<<>>, "chan", l, l[2]) = {}
  BY DEF Letters
<1>5. Onces(v, q)
  <2>1. \A t : Once(<<>>, t)
    BY DEF Once
  <2>2. \A k \in Node \X Node : v[k] = w[k] \/ v[k] = <<>>
    BY <1>1 DEF Links
  <2> HIDE DEF v
  <2> QED
    BY <1>1, <2>1, <2>2, Zenon DEF Onces
<1>6. Mail(v, q, out, got) \subseteq MailNow
  BY <1>1, <1>3, <1>4
<1> QED
  BY <1>1, <1>3, <1>5, <1>6 DEF Less

LEMMA AdminRemoveLinkKeeps ==
  ASSUME MailInv, NEW a \in Node, AdminRemoveLink(a)
  PROVE  MailInv'
<1> DEFINE b == Head(adminq[a]).to
           w == [chan EXCEPT ![<<a, b>>] = <<>>]
<1>1. /\ Runs(a, "removelink") /\ adminq' = RestOf(a) /\ chan' = w
      /\ IF a = Master /\ b \in nodes
         THEN /\ nodes' = nodes \ {b}
              /\ owner' = [i \in Id |-> IF i \in load[b] THEN NoNode ELSE owner[i]]
              /\ load' = [load EXCEPT ![b] = {}]
         ELSE UNCHANGED tableVars
      /\ cache' = [cache EXCEPT ![a] = [i \in Id \cup Node |-> NoNode]]
      /\ peers' = [peers EXCEPT ![a] = @ \ {b}]
      /\ UNCHANGED <<procVars, alive, conn, threadVars, workVars, histVars>>
  BY DEF AdminRemoveLink
<1>2. UNCHANGED <<pc, out, got, call, launch, hunt, proxyat>>
  BY <1>1 DEF threadVars, workVars
<1>3. b \in Node
  <2>1. Head(adminq[a]).kind = "removelink" /\ (Head(adminq[a]).kind # "routed" => Head(adminq[a]) \in Plain)
    BY <1>1, AdminTakes, Zenon
  <2> QED
    BY <2>1, Kinds
<1> HIDE DEF b
<1>4. FrameShape'
  <2>1. TableShape'
    BY <1>1, Apart DEF TableShape, tableVars
  <2>2. NetShape'
    BY <1>1, Apart DEF NetShape
  <2> QED
    BY <1>1, <2>1, <2>2, Apart DEF FrameShape, ProcShape, WorkShape, HistShape, procVars, workVars, histVars, threadVars
<1>5. Less(chan, RestOf(a))
  BY <1>1, AdminTakes DEF Taken
<1>6. Less(w, RestOf(a))
  BY <1>3, <1>5, LessFlushed
<1> QED
  BY <1>1, <1>2, <1>4, <1>6, Fewer

LEMMA AdminRoutedKeeps ==
  ASSUME MailInv, NEW a \in Node, AdminRouted(a)
  PROVE  MailInv'
<1> DEFINE m == Head(adminq[a])
           x == <<"queue", a, Dest(m, a), Base(m)>>
           th == AdminT(a)
<1>1. /\ Runs(a, "routed") /\ Send(th, m.to, m.msg, "idle", RestOf(a), chan)
      /\ UNCHANGED <<tableVars, procVars, alive, peers, conn, ctx, proxyat, workVars, call, cache, histVars>>
  BY DEF AdminRouted, ProcSame
<1>2. UNCHANGED <<call, launch, hunt, proxyat>>
  BY <1>1 DEF workVars
<1>3. FrameShape' /\ CallShape'
  BY <1>1, Apart DEF FrameShape, TableShape, ProcShape, NetShape, WorkShape, HistShape, tableVars, procVars, workVars, histVars, CallShape
<1>4. m \in Message /\ Taken(chan, RestOf(a), x) /\ m.kind = "routed" /\ pc[th] = "idle"
  BY <1>1, AdminTakes, Zenon
<1>5. th[1] # "proxy" /\ AgentOf(th) \in Node /\ th \in Thread
  BY AdminThread
<1> HIDE DEF m, th
<1>6. x[1] = "queue" /\ x[3] = m.to /\ x[4] = m.msg /\ m.to \in Node
  BY <1>4, MessageIs DEF Dest, Base
<1> HIDE DEF x
<1>7. Ready(th, chan, RestOf(a), m.to, m.msg, "idle")
  BY <1>4, <1>5, <1>6, Passing
<1>8. \A t \in Thread : Carries(m.msg, t) => KeptNow(t) = {}
  BY <1>4, <1>6, TakenFacts
<1> QED
  BY <1>1, <1>2, <1>3, <1>4, <1>5, <1>7, <1>8, SendSame

LEMMA AdminBackLinkKeeps ==
  ASSUME MailInv, NEW a \in Node, AdminBackLink(a)
  PROVE  MailInv'
<1> DEFINE m == Head(adminq[a])
           x == <<"queue", a, Dest(m, a), Base(m)>>
           th == AdminT(a)
           r == [to |-> m.to, msg |-> Nothing, next |-> "idle"]
<1>1. /\ Runs(a, "backlink")
      /\ \/ Send(th, m.from, m, "idle", RestOf(a), chan)
         \/ Resolve(th, m.to, "agent", chan) /\ out' = [out EXCEPT ![th] = r] /\ adminq' = RestOf(a)
      /\ UNCHANGED <<tableVars, procVars, alive, peers, conn, ctx, proxyat, workVars, call, cache, histVars>>
  BY DEF AdminBackLink, ProcSame
<1>2. UNCHANGED <<call, launch, hunt, proxyat>>
  BY <1>1 DEF workVars
<1>3. FrameShape' /\ CallShape'
  BY <1>1, Apart DEF FrameShape, TableShape, ProcShape, NetShape, WorkShape, HistShape, tableVars, procVars, workVars, histVars, CallShape
<1>4. m \in Plain /\ Taken(chan, RestOf(a), x) /\ m.kind = "backlink" /\ pc[th] = "idle"
  BY <1>1, AdminTakes
<1>5. th[1] # "proxy" /\ AgentOf(th) \in Node /\ th \in Thread /\ \A c \in Client : th # ProxyT(c)
  BY AdminThread
<1> HIDE DEF m, th, x
<1>6. m.to \in Node /\ m.from \in Node
  BY <1>4, Kinds
<1>7. Less(chan, RestOf(a))
  BY <1>4 DEF Taken
<1>8. out[th] = NoOut /\ pc[th] # "reply" /\ "idle" \in NextOf(th) /\ Calm(chan, RestOf(a), th)
  BY <1>4, <1>5, <1>7, IdleIs
<1>9. m.kind \notin Carriers \cup MasterKinds /\ m.kind # "reply"
  BY <1>4 DEF Carriers, MasterKinds, ClientKinds
<1>10. \A t : ~Carries(m, t)
  BY <1>9 DEF Carriers, Carries
<1>11. CASE Send(th, m.from, m, "idle", RestOf(a), chan)
  <2>1. Ready(th, chan, RestOf(a), m.from, m, "idle")
    BY <1>4, <1>5, <1>6, <1>8, <1>9, <1>10 DEF Ready
  <2> QED
    BY <1>2, <1>3, <1>4, <1>5, <1>10, <1>11, <2>1, SendSame
<1>12. CASE Resolve(th, m.to, "agent", chan) /\ out' = [out EXCEPT ![th] = r] /\ adminq' = RestOf(a)
  <2>1. Holding(th, r, "agent")
    BY <1>6, MessagesMade DEF Holding, Nothing, Nexts, Carriers, MasterKinds, ClientKinds
  <2>2. "agent" \in {"task", "agent"} \cap PcsOf(th) /\ m.to \in Id \cup Node
    BY <1>5, <1>6, Courses
  <2> HIDE DEF r
  <2> QED
    BY <1>2, <1>3, <1>4, <1>5, <1>8, <1>12, <2>1, <2>2, ResolveStep
<1> QED
  BY <1>1, <1>11, <1>12

\* The worker that is to wait for a client is free: the client waits for one thing at a time.
LEMMA ProxyFree ==
  ASSUME MailInv, NEW c \in Client, NEW w, NEW q, NEW x, Taken(w, q, x), x[1] # "out", Carries(x[4], ClientT(c))
  PROVE  pc[ProxyT(c)] = "idle"
<1> DEFINE th == ProxyT(c)
           t == ClientT(c)
           y == <<"out", th, out[th].to, out[th].msg>>
<1>1. th \in Thread /\ t \in Thread /\ th # t
  BY Threads, Sorts
<1>2. KeptNow(t) = {}
  BY <1>1, TakenFacts
<1>3. pc[th] # "waiting"
  BY <1>2 DEF KeptNow, Kept
<1>4. pc[th] # "agent"
  <2> SUFFICES ASSUME pc[th] = "agent" PROVE FALSE
    OBVIOUS
  <2>1. Carries(out[th].msg, t)
    BY Apart DEF Control
  <2>2. y \in MailNow
    BY <1>1, MailIff DEF MailNow
  <2>3. y[1] = "out" /\ y[2] = th /\ y[4] = out[th].msg
    OBVIOUS
  <2> HIDE DEF y, t, th
  <2>4. y \in Own(MailNow, t) /\ x \in Own(MailNow, t)
    BY <1>1, <2>1, <2>2, <2>3 DEF Own, Taken, t
  <2>5. Lone(Own(MailNow, t))
    BY <1>1, Apart DEF WaitInv, WaitOf
  <2> QED
    BY <2>3, <2>4, <2>5 DEF Lone
<1>5. pc[th] \in {"idle", "waiting", "agent"}
  <2>1. ControlOf(th) /\ th[1] = "proxy" /\ th # AdminT(Master)
    BY <1>1, Sorts, Apart DEF Control
  <2> HIDE DEF th
  <2>2. pc[th] \in PcsOf(th)
    BY <2>1 DEF ControlOf
  <2> QED
    BY <2>1, <2>2 DEF PcsOf
<1> QED
  BY <1>3, <1>4, <1>5

LEMMA AdminWaitKeeps ==
  ASSUME MailInv, NEW a \in Node, AdminWait(a)
  PROVE  MailInv'
<1> DEFINE m == Head(adminq[a])
           x == <<"queue", a, Dest(m, a), Base(m)>>
           q == RestOf(a)
<1>1. /\ Runs(a, "wait") /\ adminq' = q
      /\ proxyat' = [proxyat EXCEPT ![m.th[2]] = a]
      /\ call' = [call EXCEPT ![ProxyT(m.th[2])] = [op |-> "wait", id |-> m.id]]
      /\ pc' = [pc EXCEPT ![ProxyT(m.th[2])] = "waiting"]
      /\ UNCHANGED <<tableVars, procVars, alive, peers, conn, chan, cache, out, got, ctx, workVars,
                     histVars>>
  BY DEF AdminWait
<1>2. m \in Plain /\ Taken(chan, q, x) /\ m.kind = "wait" /\ Base(m) = m
  BY <1>1, AdminTakes
<1>3. m.id \in Id /\ m.th \in ClientThread
  BY <1>2, Kinds DEF ClientKinds
<1>4. PICK c \in Client : m.th = ClientT(c)
  BY <1>3 DEF ClientThread
<1> DEFINE th == ProxyT(c)
           t == ClientT(c)
<1>5. m.th[2] = c /\ th \in Thread /\ t \in Thread /\ th # t /\ th # AdminT(Master) /\ th[1] = "proxy"
  BY <1>4, Threads, Sorts
<1>6. x[1] = "queue" /\ x[4] = m
  BY <1>2
<1> HIDE DEF x, m, q
<1>7. Carries(x[4], t)
  BY <1>2, <1>4, <1>6 DEF Carries, Carriers, ClientKinds
<1>8. pc[th] = "idle"
  BY <1>2, <1>6, <1>7, ProxyFree
<1>9. Less(chan, q)
  BY <1>2 DEF Taken
<1>10. out[th] = NoOut /\ Own(MailNow, th) = {}
  <2>1. pc[th] \notin Waits
    BY <1>8 DEF Waits
  <2> QED
    BY <1>5, <1>8, <1>9, <2>1, IdleIs, OwnsNone, Apart
<1>11. pc \in [Thread -> Pcs] /\ Control /\ Work /\ FitInv /\ WaitInv /\ MailShape /\ CallShape
  BY Apart
<1> HIDE DEF th, t
<1>12. /\ pc' \in [Thread -> Pcs] /\ pc'[th] = "waiting" /\ (\A s \in Thread \ {th} : pc'[s] = pc[s])
       /\ call'[th] = [op |-> "wait", id |-> m.id] /\ \A s \in Thread \ {th} : call'[s] = call[s]
  BY <1>1, <1>5, <1>11 DEF Pcs, CallShape, th
<1>13. CallShape'
  BY <1>1, <1>3, <1>5, <1>11 DEF CallShape, Ops, th
<1>14. proxyat'[c] = a /\ (\A d \in Client : proxyat'[d] = proxyat[d] \/ d = c)
       /\ proxyat' \in [Client -> Node \cup {NoNode}]
  BY <1>1, <1>5, Apart DEF FrameShape
<1>15. FrameShape'
  BY <1>1, <1>14, Apart DEF FrameShape, TableShape, ProcShape, NetShape, WorkShape, HistShape, tableVars, procVars, workVars, histVars
<1>16. MailShape' /\ Onces(chan', adminq') /\ MailNow' \subseteq MailNow /\ MailNow' = Mail(chan, q, out, got)
  BY <1>1, <1>9, <1>11 DEF Less, MailShape, MailNow
<1>17. Control'
  <2>1. \A s \in Thread \ {th} : ControlOf(s)'
    BY <1>1, <1>11, <1>12 DEF Control, ControlOf, PcsOf, NextOf
  <2>2. ControlOf(th)'
    BY <1>1, <1>3, <1>5, <1>10, <1>12 DEF ControlOf, PcsOf
  <2>3. \A d \in Client : /\ pc'[ProxyT(d)] # "idle" => proxyat'[d] \in Node
                          /\ pc'[ProxyT(d)] = "agent" => Carries(out'[ProxyT(d)].msg, ClientT(d))
    BY <1>1, <1>11, <1>12, <1>14, Threads, Sorts DEF Control, th
  <2> QED
    BY <2>1, <2>2, <2>3 DEF Control
<1>18. Work'
  <2>1. UNCHANGED <<launch, hunt, out>> /\ pc'[AdminT(Master)] = pc[AdminT(Master)]
    BY <1>1, <1>5, <1>12, Threads DEF workVars
  <2> QED
    BY <1>11, <2>1, WorkSame
<1>19. FitInv'
  <2>1. \A e \in MailNow : Noted(e, pc', out')
    <3> SUFFICES ASSUME NEW e \in MailNow PROVE Noted(e, pc', out')
      OBVIOUS
    <3>1. Noted(e, pc, out) /\ out' = out
      BY <1>1, <1>11 DEF FitInv
    <3>2. ~Carries(e[4], th)
      <4>1. e[1] = "out" /\ e[2] = th => e[4] = Nothing
        BY <1>10, OutEntry DEF MailNow, NoOut
      <4> QED
        BY <1>10, <4>1 DEF Own, Carries, Nothing, Carriers, ClientKinds
    <3>3. e[4].kind \in Carriers => e[4].th \in Thread
      <4>1. e[4] \in Plain
        BY <1>11, MailTyped DEF MailNow, MailShape
      <4> QED
        BY <4>1, Kinds
    <3>4. e[4].kind \in Carriers => pc'[e[4].th] = pc[e[4].th]
      BY <1>12, <3>2, <3>3 DEF Carries
    <3> QED
      BY <3>1, <3>4 DEF Noted
  <2>2. (\A e \in MailNow : Noted(e, pc, out))' <=> \A e \in MailNow' : Noted(e, pc', out')
    OBVIOUS
  <2> QED
    BY <1>16, <2>1, <2>2 DEF FitInv
<1>20. \A s \in Thread : WaitOf(s)'
  <2> SUFFICES ASSUME NEW s \in Thread
               PROVE  /\ Lone(Own(MailNow', s)) /\ Lone(Kept(pc', launch', hunt', s))
                      /\ Own(MailNow', s) = {} \/ Kept(pc', launch', hunt', s) = {}
                      /\ Kept(pc', launch', hunt', s) # {} => pc'[s] = "reply"
    BY DEF WaitOf, KeptNow
  <2>1. UNCHANGED <<launch, hunt>>
    BY <1>1 DEF workVars
  <2>2. WaitOf(s)
    BY <1>11 DEF WaitInv
  <2>3. CASE s = t
    <3>1. KeptNow(s) = {}
      BY <1>2, <1>6, <1>7, <2>3, TakenFacts
    <3>2. Own(MailNow', s) = {}
      BY <1>2, <1>7, <1>16, <2>3 DEF Taken
    <3>3. Kept(pc', launch', hunt', s) \subseteq {"proxy"}
      BY <2>1, <3>1 DEF KeptNow, Kept
    <3>4. pc'[s] = "reply"
      <4>1. Fit(m, pc[s])
        BY <1>2, <1>4, <1>6, <1>7, <2>3, TakenFacts DEF Carries, t
      <4> QED
        BY <1>2, <1>5, <1>12, <2>3, <4>1 DEF Fit, ClientKinds
    <3> QED
      BY <3>2, <3>3, <3>4 DEF Lone
  <2>4. CASE s # t
    <3>1. \A d \in Client : s = ClientT(d) => pc'[ProxyT(d)] = pc[ProxyT(d)]
      BY <1>12, <2>4, Threads, Sorts DEF t, th
    <3>2. Kept(pc', launch', hunt', s) = KeptNow(s)
      BY <2>1, <3>1 DEF KeptNow, Kept
    <3>3. Own(MailNow', s) \subseteq Own(MailNow, s)
      BY <1>16 DEF Own
    <3>4. KeptNow(s) # {} => s # th
      <4>1. pc[th] # "reply"
        BY <1>8
      <4> QED
        BY <2>2, <4>1 DEF WaitOf
    <3>5. s # th => pc'[s] = pc[s]
      BY <1>12
    <3> QED
      BY <2>2, <3>2, <3>3, <3>4, <3>5 DEF Lone, WaitOf
  <2> QED
    BY <2>3, <2>4
<1>21. WaitInv'
  BY <1>16, <1>20 DEF WaitInv
<1> QED
  BY <1>12, <1>13, <1>15, <1>16, <1>17, <1>18, <1>19, <1>21, Together

\* The master's admin thread takes over the transaction of client thread t.
LEMMA TakesOver ==
  ASSUME MailInv, NEW q, NEW x, Taken(chan, q, x), x[1] # "out", adminq' = q,
         NEW t \in ClientThread, Carries(x[4], t), x[4].kind \in ClientKinds,
         pc[AdminT(Master)] = "idle", UNCHANGED <<chan, out, got, call, proxyat>>,
         NEW p \in {"launch", "hunt"}, pc' = [pc EXCEPT ![AdminT(Master)] = p],
         launch'.client = IF p = "launch" THEN t ELSE launch.client,
         hunt'.client = IF p = "hunt" THEN t ELSE hunt.client, FrameShape', Work'
  PROVE  MailInv'
<1> DEFINE th == AdminT(Master)
<1>1. /\ th \in Thread /\ t \in Thread /\ th # t /\ \A c \in Client : th # ProxyT(c)
      /\ \A c \in Client : th # ClientT(c)
  BY Threads, Sorts, AdminThread DEF ClientThread
<1>2. Less(chan, q)
  BY DEF Taken
<1>3. out[th] = NoOut /\ Own(MailNow, th) = {} /\ KeptNow(th) = {}
  <2>1. pc[th] \notin Waits
    BY DEF Waits
  <2> QED
    BY <1>1, <1>2, <2>1, IdleIs, OwnsNone, Apart
<1>4. pc \in [Thread -> Pcs] /\ Control /\ Work /\ FitInv /\ WaitInv /\ MailShape /\ CallShape
  BY Apart
<1>5. launch.client = <<>> /\ hunt.client = <<>>
  <2>1. ~Launching /\ ~Hunting
    BY <1>3 DEF Launching, Hunting, NoOut
  <2> QED
    BY <1>4, <2>1 DEF Work, NoLaunch, NoHunt
<1>6. th[1] = "admin"
  BY Sorts
<1> HIDE DEF th
<1>7. pc' \in [Thread -> Pcs] /\ pc'[th] = p /\ (\A s \in Thread \ {th} : pc'[s] = pc[s])
  BY <1>1, <1>4 DEF Pcs, th
<1>8. MailShape' /\ Onces(chan', adminq') /\ MailNow' \subseteq MailNow /\ MailNow' = Mail(chan, q, out, got)
  BY <1>2, <1>4 DEF Less, MailShape, MailNow
<1>9. Control'
  <2>1. \A s \in Thread \ {th} : ControlOf(s)'
    BY <1>4, <1>7 DEF Control, ControlOf, PcsOf, NextOf
  <2>2. ControlOf(th)'
    <3>1. pc'[th] \in PcsOf(th)
      BY <1>6, <1>7 DEF PcsOf, th
    <3> QED
      BY <1>3, <1>7, <3>1 DEF ControlOf, PcsOf, NextOf
  <2>3. \A d \in Client : /\ pc'[ProxyT(d)] # "idle" => proxyat'[d] \in Node
                          /\ pc'[ProxyT(d)] = "agent" => Carries(out'[ProxyT(d)].msg, ClientT(d))
    BY <1>1, <1>4, <1>7, Threads DEF Control
  <2> QED
    BY <2>1, <2>2, <2>3 DEF Control
<1>10. FitInv'
  <2>1. \A e \in MailNow : Noted(e, pc', out')
    <3> SUFFICES ASSUME NEW e \in MailNow PROVE Noted(e, pc', out')
      OBVIOUS
    <3>1. Noted(e, pc, out) /\ out' = out
      BY <1>4 DEF FitInv
    <3>2. ~Carries(e[4], th)
      <4>1. e[1] = "out" /\ e[2] = th => e[4] = Nothing
        BY <1>3, OutEntry DEF MailNow, NoOut
      <4> QED
        BY <1>3, <4>1 DEF Own, Carries, Nothing, Carriers, ClientKinds
    <3>3. e[4].kind \in Carriers => e[4].th \in Thread
      <4>1. e[4] \in Plain
        BY <1>4, MailTyped DEF MailNow, MailShape
      <4> QED
        BY <4>1, Kinds
    <3>4. e[4].kind \in Carriers => pc'[e[4].th] = pc[e[4].th]
      BY <1>7, <3>2, <3>3 DEF Carries
    <3> QED
      BY <3>1, <3>4 DEF Noted
  <2>2. (\A e \in MailNow : Noted(e, pc, out))' <=> \A e \in MailNow' : Noted(e, pc', out')
    OBVIOUS
  <2> QED
    BY <1>8, <2>1, <2>2 DEF FitInv
<1>11. \A s \in Thread : WaitOf(s)'
  <2> SUFFICES ASSUME NEW s \in Thread
               PROVE  /\ Lone(Own(MailNow', s)) /\ Lone(Kept(pc', launch', hunt', s))
                      /\ Own(MailNow', s) = {} \/ Kept(pc', launch', hunt', s) = {}
                      /\ Kept(pc', launch', hunt', s) # {} => pc'[s] = "reply"
    BY DEF WaitOf, KeptNow
  <2>1. WaitOf(s)
    BY <1>4 DEF WaitInv
  <2>2. \A c \in Client : pc'[ProxyT(c)] = pc[ProxyT(c)]
    BY <1>1, <1>7, Threads
  <2>3. CASE s = t
    <3>1. KeptNow(s) = {}
      BY <2>3, TakenFacts
    <3>2. Own(MailNow', s) = {}
      BY <1>8, <2>3 DEF Taken
    <3>3. Kept(pc', launch', hunt', s) \subseteq {p}
      BY <1>1, <2>2, <3>1, <2>3 DEF KeptNow, Kept
    <3>4. pc'[s] = "reply"
      <4>1. Fit(x[4], pc[s])
        BY <2>3, TakenFacts DEF Carries
      <4> QED
        BY <1>1, <1>7, <2>3, <4>1 DEF Fit
    <3> QED
      BY <3>2, <3>3, <3>4 DEF Lone
  <2>4. CASE s # t
    <3>1. s # <<>>
      BY Nobody
    <3>2. Kept(pc', launch', hunt', s) = KeptNow(s)
      BY <1>5, <2>2, <2>4, <3>1 DEF KeptNow, Kept
    <3>3. Own(MailNow', s) \subseteq Own(MailNow, s)
      BY <1>8 DEF Own
    <3>4. s # th => pc'[s] = pc[s]
      BY <1>7
    <3> QED
      BY <1>3, <2>1, <3>2, <3>3, <3>4 DEF Lone, WaitOf
  <2> QED
    BY <2>3, <2>4
<1>12. WaitInv'
  BY <1>8, <1>11 DEF WaitInv
<1> QED
  BY <1>4, <1>7, <1>8, <1>9, <1>10, <1>12, Together DEF CallShape

LEMMA StartFindKeeps ==
  ASSUME MailInv, NEW a \in Node, StartFind(a)
  PROVE  MailInv'
<1> DEFINE m == Head(adminq[a])
           x == <<"queue", a, Dest(m, a), Base(m)>>
           q == RestOf(a)
<1>1. /\ Runs(a, "find") /\ adminq' = q
      /\ hunt' = [client |-> m.th, left |-> peers[a], found |-> Serving(a)]
      /\ pc' = [pc EXCEPT ![AdminT(a)] = "hunt"]
      /\ UNCHANGED <<tableVars, procVars, alive, peers, conn, chan, cache, call, out, got, ctx, proxyat,
                     launch, histVars>>
  BY DEF StartFind
<1>2. m \in Plain /\ Taken(chan, q, x) /\ m.kind = "find" /\ Base(m) = m /\ Dest(m, a) = a /\ pc[AdminT(a)] = "idle"
  BY <1>1, AdminTakes
<1>3. m.th \in ClientThread
  BY <1>2, Kinds DEF ClientKinds
<1>4. x[1] = "queue" /\ x[4] = m /\ x[3] = a
  BY <1>2
<1> HIDE DEF x, m, q
<1>5. x[4].kind \in ClientKinds /\ Carries(x[4], m.th) /\ x[4].kind \in MasterKinds
  BY <1>2, <1>4 DEF Carries, Carriers, ClientKinds, MasterKinds
<1>6. a = Master
  BY <1>2, <1>4, <1>5, TakenFacts DEF Noted
<1>7. WorkShape' /\ hunt'.client = m.th /\ launch' = launch
  <2>1. Serving(a) \in SUBSET Id /\ peers[a] \in SUBSET Node
    BY Apart DEF Serving, ps, NetShape
  <2> QED
    BY <1>1, <1>3, <2>1, Apart DEF WorkShape
<1>8. FrameShape'
  BY <1>1, <1>7, Apart DEF FrameShape, TableShape, ProcShape, NetShape, HistShape, tableVars, procVars, histVars
<1>9. Work'
  <2>1. out[AdminT(Master)] = NoOut
    BY <1>2, <1>6, AdminThread, IdleIs DEF Taken
  <2>2. pc'[AdminT(Master)] = "hunt" /\ out'[AdminT(Master)] = NoOut /\ pc[AdminT(Master)] = "idle"
    BY <1>1, <1>2, <1>6, <2>1, AdminThread, Apart
  <2>3. launch = NoLaunch
    BY <2>1, <2>2, Apart DEF Work, Launching, NoOut
  <2> QED
    BY <1>3, <1>7, <2>2, <2>3 DEF Work, Launching, Hunting, NoOut
<1> QED
  BY <1>1, <1>2, <1>3, <1>4, <1>5, <1>6, <1>7, <1>8, <1>9, TakesOver

\* The node of task x of a launch, when f is that of those before it.
NodeFor(f, x, first, src) ==
  IF x < first THEN NoNode
  ELSE BestNode([k \in nodes |-> Cardinality(load[k])
                   + Cardinality({y \in first..(x - 1) : f[y] = k})], src)

\* The recursive function of a placement exists.
LEMMA Placed ==
  ASSUME NEW n \in Nat, NEW first \in Nat \ {0}, NEW src
  PROVE  LET p == Placement(n, first, src)
         IN  p = [x \in 1..n |-> NodeFor(p, x, first, src)]
<1> DEFINE Good(k, f) == f = [x \in 1..k |-> NodeFor(f, x, first, src)]
           S == {k \in Nat : \E f : Good(k, f)}
<1>1. 0 \in S
  <2> DEFINE f == [x \in 1..0 |-> NoNode]
  <2>1. Good(0, f)
    OBVIOUS
  <2> HIDE DEF f, Good
  <2> QED
    BY <2>1
<1>2. ASSUME NEW k \in Nat, k \in S PROVE k + 1 \in S
  <2>1. PICK f : Good(k, f)
    BY <1>2
  <2> DEFINE g == [x \in 1..(k + 1) |-> IF x <= k THEN f[x] ELSE NodeFor(f, k + 1, first, src)]
  <2>2. ASSUME NEW x \in 1..(k + 1) PROVE NodeFor(g, x, first, src) = NodeFor(f, x, first, src)
    <3>1. \A y \in first..(x - 1) : g[y] = f[y]
      BY <2>2
    <3> HIDE DEF g
    <3>2. \A v : {y \in first..(x - 1) : g[y] = v} = {y \in first..(x - 1) : f[y] = v}
      BY <3>1
    <3> QED
      BY <3>2 DEF NodeFor
  <2>3. ASSUME NEW x \in 1..(k + 1) PROVE g[x] = NodeFor(g, x, first, src)
    <3>1. CASE x <= k
      <4>1. x \in 1..k
        BY <2>3, <3>1
      <4>2. g[x] = f[x]
        BY <3>1
      <4>3. f[x] = NodeFor(f, x, first, src)
        BY <2>1, <4>1
      <4> QED
        BY <2>2, <4>2, <4>3
    <3>2. CASE ~(x <= k)
      <4>1. x = k + 1
        BY <2>3, <3>2
      <4>2. g[x] = NodeFor(f, k + 1, first, src)
        BY <3>2
      <4> QED
        BY <2>2, <4>1, <4>2
    <3> QED
      BY <3>1, <3>2
  <2>4. Good(k + 1, g)
    <3>1. g = [x \in 1..(k + 1) |-> g[x]]
      OBVIOUS
    <3> HIDE DEF g
    <3> QED
      BY <2>3, <3>1
  <2> HIDE DEF g, Good
  <2> QED
    BY <2>4
<1> HIDE DEF S
<1>3. n \in S
  BY <1>1, <1>2, Numbers
<1>4. \E f : Good(n, f)
  BY <1>3 DEF S
<1>5. Placement(n, first, src) = CHOOSE f : Good(n, f)
  BY DEF Placement, NodeFor
<1> HIDE DEF Good
<1>6. Good(n, Placement(n, first, src))
  BY <1>4, <1>5
<1> QED
  BY <1>6 DEF Good

LEMMA BestIsNode ==
  ASSUME nodes \subseteq Node, NEW busy, NEW src
  PROVE  BestNode(busy, src) \in nodes \cup {NoNode}
<1>1. \A S \in SUBSET Node : S # {} =>
        /\ \E n \in S : \A k \in S : n <= k
        /\ \E n \in S : \A k \in S : k <= n
  <2> SUFFICES ASSUME NEW S \in SUBSET Node, S # {}
               PROVE  /\ \E n \in S : \A k \in S : n <= k
                      /\ \E n \in S : \A k \in S : k <= n
    OBVIOUS
  <2>1. IsFiniteSet(S) /\ S \in SUBSET Nat /\ S \in SUBSET Int
    <3>1. IsFiniteSet(Node) /\ Node \subseteq Nat
      BY ConstantsAssumption DEF ConstantsAssumption
    <3>2. S \in SUBSET Nat
      BY <3>1
    <3>3. S \in SUBSET Int
      BY <3>2
    <3>4. IsFiniteSet(S)
      BY <3>1, FS_Subset
    <3> QED
      BY <3>2, <3>3, <3>4
  <2> QED
    BY <2>1, Least, Greatest
<1> DEFINE free(n) == NumCpu[n] - busy[n]
           accepting == {n \in nodes : Accepts(n, src)}
           most == {n \in accepting : \A k \in accepting : free(k) <= free(n)}
           others == nodes \ {src}
           low == CHOOSE n \in most : \A k \in most : n <= k
           high == CHOOSE n \in others : \A k \in others : k <= n
<1>2. /\ most \in SUBSET Node /\ others \in SUBSET Node
      /\ most \subseteq nodes /\ others \subseteq nodes
  OBVIOUS
<1>3. BestNode(busy, src) = IF most # {} THEN low ELSE IF others # {} THEN high ELSE NoNode
  BY DEF BestNode
<1> HIDE DEF most, others
<1>4. most # {} => low \in most
  BY <1>1, <1>2, Zenon
<1>5. others # {} => high \in others
  BY <1>1, <1>2, Zenon
<1> HIDE DEF low, high
<1>6. CASE most # {}
  BY <1>2, <1>3, <1>4, <1>5, <1>6
<1>7. CASE most = {} /\ others # {}
  BY <1>2, <1>3, <1>5, <1>7
<1>8. CASE most = {} /\ others = {}
  BY <1>3, <1>8
<1> QED
  BY <1>6, <1>7, <1>8

LEMMA StartLaunchKeeps ==
  ASSUME MailInv, NEW a \in Node, StartLaunch(a)
  PROVE  MailInv'
<1> DEFINE m == Head(adminq[a])
           x == <<"queue", a, Dest(m, a), Base(m)>>
           q == RestOf(a)
           r == m.req
           first == IF r.slaves THEN 2 ELSE 1
           auto == r.where \notin nodes
           src == AgentOf(m.th)
           place == IF auto THEN Placement(r.n, first, src) ELSE [y \in 1..r.n |-> r.where]
           at(k) == {m.ids[z] : z \in {y \in first..r.n : place[y] = k}}
<1>1. /\ Runs(a, "launch") /\ adminq' = q
      /\ \A z \in first..r.n : place[z] # NoNode
      /\ owner' = [i \in Id |-> IF \E k \in nodes : i \in at(k)
                               THEN CHOOSE k \in nodes : i \in at(k) ELSE owner[i]]
      /\ load' = [k \in Node |-> load[k] \cup at(k)]
      /\ launch' = [client |-> m.th, ids |-> m.ids, place |-> place, src |-> src,
                    auto |-> auto, first |-> first, x |-> first, phase |-> 1]
      /\ pc' = [pc EXCEPT ![AdminT(a)] = "launch"]
      /\ UNCHANGED <<nodes, procVars, alive, peers, conn, chan, cache, call, out, got, ctx, proxyat,
                     hunt, histVars>>
  BY Zenon DEF StartLaunch
<1>2. m \in Plain /\ Taken(chan, q, x) /\ m.kind = "launch" /\ Base(m) = m /\ Dest(m, a) = a /\ pc[AdminT(a)] = "idle"
  <2>1. Runs(a, "launch") /\ "launch" # "routed"
    BY <1>1
  <2> QED
    BY <2>1, AdminTakes
<1>3. m.th \in ClientThread /\ r \in Request /\ m.ids \in Seq(Id) /\ Len(m.ids) = r.n
  BY <1>2, Kinds DEF ClientKinds
<1>4. x[1] = "queue" /\ x[4] = m /\ x[3] = a
  BY <1>2
<1> HIDE DEF x, m, q
<1>5. x[4].kind \in ClientKinds /\ Carries(x[4], m.th) /\ x[4].kind \in MasterKinds
  BY <1>2, <1>4 DEF Carries, Carriers, ClientKinds, MasterKinds
<1>6. a = Master
  BY <1>2, <1>4, <1>5, TakenFacts DEF Noted
<1>7. src \in Node /\ r.n \in Nat \ {0} /\ r.where \in Node \cup {NoNode} /\ first \in {1, 2} /\ auto \in BOOLEAN
  <2>1. src \in Node
    BY <1>3, Sorts, Threads DEF ClientThread, AgentOf
  <2> QED
    BY <1>3, <2>1 DEF Request
<1>8. nodes \subseteq Node
  BY Apart DEF TableShape
<1>9. \A z \in first..r.n : place[z] \in Node
  <2> SUFFICES ASSUME NEW z \in first..r.n PROVE place[z] \in Node
    OBVIOUS
  <2>1. z \in 1..r.n
    BY <1>7
  <2>2. CASE auto
    <3> DEFINE p == Placement(r.n, first, src)
    <3>1. p = [y \in 1..r.n |-> NodeFor(p, y, first, src)]
      <4>1. r.n \in Nat /\ first \in Nat \ {0}
        BY <1>7
      <4> HIDE DEF first, src, r
      <4> QED
        BY <4>1, Placed, Zenon
    <3>2. place = p
      BY <2>2
    <3> HIDE DEF p, place, r, first, src, auto
    <3>3. p[z] = NodeFor(p, z, first, src)
      BY <2>1, <3>1
    <3>4. NodeFor(p, z, first, src) \in Node \cup {NoNode}
      BY <1>8, BestIsNode DEF NodeFor
    <3>5. place[z] # NoNode
      BY <1>1
    <3> QED
      BY <3>2, <3>3, <3>4, <3>5
  <2>3. CASE ~auto
    <3>1. place = [y \in 1..r.n |-> r.where] /\ r.where \in nodes
      BY <2>3
    <3> HIDE DEF place, r
    <3> QED
      BY <1>8, <2>1, <3>1
  <2> QED
    BY <2>2, <2>3
<1> HIDE DEF auto, src, place
<1>10. \A k : at(k) \subseteq Id
  <2> HIDE DEF r
  <2> QED
    BY <1>3, <1>7
<1> HIDE DEF at
<1>11. TableShape'
  <2>1. load' \in [Node -> SUBSET Id]
    BY <1>1, <1>10, Apart DEF TableShape
  <2>2. \A i \in Id : (\E k \in nodes : i \in at(k)) => (CHOOSE k \in nodes : i \in at(k)) \in nodes
    OBVIOUS
  <2>3. owner' \in [Id -> Node \cup {NoNode}]
    BY <1>1, <1>8, <2>2, Apart DEF TableShape
  <2> QED
    BY <1>1, <1>8, <2>1, <2>3 DEF TableShape
<1> HIDE DEF first, r
<1>12. /\ launch'.client = m.th /\ launch'.ids = m.ids /\ launch'.place = place /\ launch'.first = first
       /\ launch'.x = first /\ hunt' = hunt
  BY <1>1
<1>13. WorkShape'
  <2>1. hunt \in [client : ClientThread \cup {<<>>}, left : SUBSET Node, found : SUBSET Id]
    BY Apart DEF WorkShape
  <2>2. launch' \in [client : ClientThread \cup {<<>>}, ids : Seq(Id), place : {place},
                     src : Node \cup {NoNode}, auto : BOOLEAN, first : {1, 2}, x : Nat \ {0}, phase : {1, 2}]
    BY <1>1, <1>3, <1>7
  <2> QED
    BY <1>12, <2>1, <2>2 DEF WorkShape
<1>14. FrameShape'
  BY <1>1, <1>11, <1>13, Apart DEF FrameShape, ProcShape, NetShape, HistShape, procVars, histVars
<1>15. Work'
  <2>1. out[AdminT(Master)] = NoOut
    BY <1>2, <1>6, AdminThread, IdleIs DEF Taken
  <2>2. pc'[AdminT(Master)] = "launch" /\ out'[AdminT(Master)] = NoOut /\ pc[AdminT(Master)] = "idle"
    BY <1>1, <1>2, <1>6, <2>1, AdminThread, Apart
  <2>3. hunt = NoHunt
    BY <2>1, <2>2, Apart DEF Work, Hunting, NoOut
  <2>4. Launching' /\ ~Hunting'
    BY <2>2 DEF Launching, Hunting, NoOut
  <2>5. first <= first /\ first <= Len(m.ids) + 1
    BY <1>3, <1>7
  <2>6. \A y \in first..Len(m.ids) : place[y] \in Node
    BY <1>3, <1>9
  <2> QED
    BY <1>3, <1>12, <2>2, <2>3, <2>4, <2>5, <2>6 DEF Work
<1> QED
  BY <1>1, <1>2, <1>3, <1>4, <1>5, <1>6, <1>12, <1>14, <1>15, TakesOver

-----------------------------------------------------------------------------
(* The work of the master's admin thread.                                  *)

LEMMA WorkerFacts ==
  ASSUME MailInv
  PROVE  LET th == AdminT(Master)
         IN  /\ th \in Thread /\ AgentOf(th) = Master /\ Master \in Node /\ th \notin ClientThread
             /\ \A c \in Client : th # ProxyT(c)
             /\ NextOf(th) = {"idle", "made", "found"}
             /\ {"launch", "hunt"} \subseteq PcsOf(th)
             /\ pc[th] # "agent" => out[th] = NoOut
             /\ pc[th] \in {"launch", "made"} => Launching /\ ~Hunting
             /\ pc[th] \in {"hunt", "found"} => Hunting /\ ~Launching
<1> DEFINE th == AdminT(Master)
<1>1. /\ th \in Thread /\ AgentOf(th) = Master /\ Master \in Node /\ th \notin ClientThread
      /\ \A c \in Client : th # ProxyT(c)
  BY AdminThread, Threads
<1>2. th[1] = "admin"
  BY Sorts
<1>3. NextOf(th) = {"idle", "made", "found"} /\ {"launch", "hunt"} \subseteq PcsOf(th)
  BY <1>2 DEF NextOf, PcsOf
<1>4. pc[th] # "agent" => out[th] = NoOut
  BY <1>1, Apart DEF Control, ControlOf
<1> QED
  BY <1>1, <1>3, <1>4 DEF Launching, Hunting, NoOut

\* Nobody but a client is kept waiting by another thread.
LEMMA KeptAreClients ==
  ASSUME WorkShape, NEW p, NEW t \in Thread \ ClientThread
  PROVE  Kept(p, launch, hunt, t) = {}
<1>1. launch.client \in ClientThread \cup {<<>>} /\ hunt.client \in ClientThread \cup {<<>>}
  BY DEF WorkShape
<1>2. t # <<>>
  BY Nobody
<1>3. \A c \in Client : t # ClientT(c)
  BY DEF ClientThread
<1> QED
  BY <1>1, <1>2, <1>3 DEF Kept

LEMMA KeptWaits ==
  ASSUME MailInv, NEW t \in Thread, NEW k \in KeptNow(t)
  PROVE  KeptNow(t) = {k} /\ Own(MailNow, t) = {} /\ pc[t] = "reply"
<1>1. WaitOf(t)
  BY Apart DEF WaitInv
<1> QED
  BY <1>1 DEF WaitOf, Lone

\* Work goes on, and no thread is disturbed.
LEMMA Quiet ==
  ASSUME MailInv, UNCHANGED <<pc, out, got, chan, adminq, call, proxyat>>,
         launch'.client = launch.client, hunt'.client = hunt.client, FrameShape', Work'
  PROVE  MailInv'
<1>1. MailShape /\ pc \in [Thread -> Pcs] /\ CallShape /\ Control /\ FitInv /\ WaitInv
  BY Apart
<1>2. MailShape' /\ pc' \in [Thread -> Pcs] /\ CallShape'
  BY <1>1 DEF MailShape, CallShape
<1>3. Control'
  BY <1>1 DEF Control, ControlOf, PcsOf, NextOf
<1>4. MailNow' = MailNow
  BY DEF MailNow
<1>5. FitInv'
  BY <1>1, <1>4 DEF FitInv, Noted
<1>6. \A t \in Thread : WaitOf(t)'
  <2>1. \A t \in Thread : Kept(pc', launch', hunt', t) = KeptNow(t)
    BY DEF KeptNow, Kept
  <2> QED
    BY <1>1, <1>4, <2>1 DEF WaitInv, WaitOf, KeptNow
<1>7. WaitInv'
  BY <1>1, <1>6 DEF WaitInv
<1> QED
  BY <1>2, <1>3, <1>5, <1>7, Together

\* The master's admin thread asks another agent for a part of its work.
LEMMA Delegates ==
  ASSUME MailInv, NEW b \in Node, NEW m \in Plain, NEW next \in {"made", "found"},
         \/ pc[AdminT(Master)] = "launch" /\ m.kind = "make" /\ next = "made"
         \/ pc[AdminT(Master)] = "hunt" /\ m.kind = "subfind" /\ next = "found",
         Send(AdminT(Master), b, m, next, adminq, chan),
         launch' = launch, hunt'.client = hunt.client,
         call' = call, proxyat' = proxyat
  PROVE  /\ MailShape' /\ pc' \in [Thread -> Pcs] /\ Control' /\ FitInv' /\ WaitInv' /\ CallShape'
         /\ pc'[AdminT(Master)] = next \/ (pc'[AdminT(Master)] = "agent" /\ out'[AdminT(Master)].next = next)
         /\ pc'[AdminT(Master)] # "agent" => out'[AdminT(Master)] = NoOut
<1> DEFINE th == AdminT(Master)
<1>1. /\ th \in Thread /\ AgentOf(th) = Master /\ Master \in Node /\ th \notin ClientThread
      /\ \A c \in Client : th # ProxyT(c)
      /\ NextOf(th) = {"idle", "made", "found"}
      /\ pc[th] # "agent" => out[th] = NoOut
  BY WorkerFacts
<1>2. pc[th] \in {"launch", "hunt"} /\ m.kind \in {"make", "subfind"} /\ m.th = th
  BY Kinds
<1>3. out[th] = NoOut /\ pc[th] # "reply" /\ pc[th] \notin Waits
  BY <1>1, <1>2 DEF Waits
<1>4. Calm(chan, adminq, th)
  BY <1>1, <1>3, CalmNow, Apart
<1>5. m.kind \in Carriers /\ m.kind \notin MasterKinds /\ m.kind # "reply"
  BY <1>2 DEF Carriers, MasterKinds
<1>6. Fit(m, next)
  BY <1>2 DEF Fit, ClientKinds
<1> HIDE DEF th
<1>7. \A t : Carries(m, t) => t = th
  BY <1>2 DEF Carries
<1>8. Ready(th, chan, adminq, b, m, next)
  <2>1. \A t : Carries(m, t) => Own(Before(chan, adminq, th), t) = {}
    BY <1>4, <1>7 DEF Calm
  <2> QED
    BY <1>1, <1>2, <1>3, <1>4, <1>5, <1>6, <2>1 DEF Ready
<1>9. Kept(pc', launch', hunt', th) = {}
  <2>1. launch.client \in ClientThread \cup {<<>>} /\ hunt.client \in ClientThread \cup {<<>>}
    BY Apart DEF WorkShape
  <2>2. th # <<>> /\ \A c \in Client : th # ClientT(c)
    BY <1>1, Nobody DEF ClientThread
  <2> QED
    BY <1>1, <2>1, <2>2 DEF Kept
<1>10. /\ MailShape' /\ pc' \in [Thread -> Pcs] /\ Control' /\ FitInv' /\ WaitInv' /\ Moved(th, b, m, next)
  <2>1. \A t \in Thread : Carries(m, t) => Kept(pc', launch', hunt', t) = {}
    BY <1>7, <1>9
  <2> QED
    BY <1>1, <1>8, <2>1, SendStep DEF th
<1>11. CallShape'
  BY Apart DEF CallShape
<1>12. m.kind # "data" /\ next # "agent"
  BY <1>2
<1> QED
  BY <1>10, <1>11, <1>12 DEF Moved, th

LEMMA LaunchStepKeeps ==
  ASSUME MailInv, LaunchStep
  PROVE  MailInv'
<1> DEFINE th == AdminT(Master)
           i == launch.ids[launch.x]
           ids == ToSet(launch.ids)
           b == launch.place[launch.x]
<1>1. /\ pc[th] = "launch" /\ launch.x <= Len(launch.ids)
      /\ \/ /\ Make(Master, i, ids, launch.phase)
            /\ launch' = [launch EXCEPT !.x = @ + 1]
            /\ UNCHANGED <<pc, got, out, chan, adminq>>
         \/ /\ Send(th, b, MakeMsg(i, ids, launch.phase), "made", adminq, chan)
            /\ UNCHANGED <<launch, home, mode, members>>
      /\ UNCHANGED <<tableVars, killed, given, alive, peers, conn, cache, call, ctx, proxyat,
                     hunt, histVars>>
  BY DEF LaunchStep
<1>2. /\ launch.client \in ClientThread /\ launch.first <= launch.x
      /\ \A y \in launch.first..Len(launch.ids) : launch.place[y] \in Node
      /\ hunt = NoHunt
  BY <1>1, WorkerFacts, Apart DEF Work
<1>3. launch.ids \in Seq(Id) /\ launch.x \in Nat \ {0} /\ launch.first \in {1, 2} /\ launch.phase \in {1, 2}
  BY Apart DEF WorkShape
<1>4. i \in Id /\ ids \in SUBSET Id /\ b \in Node /\ Len(launch.ids) \in Nat
  <2>1. launch.x \in 1..Len(launch.ids) /\ launch.x \in launch.first..Len(launch.ids)
    BY <1>1, <1>2, <1>3
  <2> QED
    BY <1>2, <1>3, <2>1 DEF ToSet
<1>5. Master \in Node
  BY Threads
<1> HIDE DEF i, ids, b
<1>6. CASE /\ Make(Master, i, ids, launch.phase)
           /\ launch' = [launch EXCEPT !.x = @ + 1]
           /\ UNCHANGED <<pc, got, out, chan, adminq>>
  <2>1. ProcShape'
    BY <1>1, <1>4, <1>5, <1>6, MakeShape, Apart
  <2>2. WorkShape'
    BY <1>1, <1>3, <1>6, Apart DEF WorkShape
  <2>3. FrameShape'
    BY <1>1, <2>1, <2>2, Apart DEF FrameShape, TableShape, NetShape, HistShape, tableVars, histVars
  <2>4. /\ launch'.client = launch.client /\ launch'.ids = launch.ids /\ launch'.place = launch.place
        /\ launch'.first = launch.first /\ launch'.x = launch.x + 1
    BY <1>6, Apart DEF WorkShape
  <2>5. Launching' /\ ~Hunting'
    BY <1>1, <1>6, WorkerFacts DEF Launching, Hunting
  <2>6. launch.first <= launch.x + 1 /\ launch.x + 1 <= Len(launch.ids) + 1
    BY <1>1, <1>2, <1>3, <1>4
  <2>7. Work'
    BY <1>1, <1>2, <1>6, <2>4, <2>5, <2>6 DEF Work
  <2> QED
    BY <1>1, <1>6, <2>3, <2>4, <2>7, Quiet
<1>7. CASE /\ Send(th, b, MakeMsg(i, ids, launch.phase), "made", adminq, chan)
           /\ UNCHANGED <<launch, home, mode, members>>
  <2> DEFINE m == MakeMsg(i, ids, launch.phase)
  <2>1. m \in Plain
    BY <1>3, <1>4, MessagesMade
  <2>2. m.kind = "make"
    BY DEF MakeMsg
  <2> HIDE DEF m
  <2>3. /\ MailShape' /\ pc' \in [Thread -> Pcs] /\ Control' /\ FitInv' /\ WaitInv' /\ CallShape'
        /\ pc'[th] = "made" \/ (pc'[th] = "agent" /\ out'[th].next = "made")
        /\ pc'[th] # "agent" => out'[th] = NoOut
    BY <1>1, <1>4, <1>7, <2>1, <2>2, Delegates DEF m
  <2>4. FrameShape'
    BY <1>1, <1>7, Apart DEF FrameShape, TableShape, ProcShape, NetShape, WorkShape, HistShape, tableVars, histVars
  <2>5. Launching' /\ ~Hunting' /\ pc'[th] # "launch"
    BY <2>3 DEF Launching, Hunting, NoOut
  <2>6. Work'
    <3>1. launch.x <= Len(launch.ids) + 1
      BY <1>1, <1>3, <1>4
    <3> QED
      BY <1>1, <1>2, <1>7, <2>5, <3>1 DEF Work
  <2> QED
    BY <2>3, <2>4, <2>6, Together
<1> QED
  BY <1>1, <1>6, <1>7

LEMMA LaunchReplyKeeps ==
  ASSUME MailInv, LaunchReply
  PROVE  MailInv'
<1> DEFINE th == AdminT(Master)
<1>1. /\ pc[th] = "made" /\ got[th] # NoReply /\ got' = [got EXCEPT ![th] = NoReply]
      /\ pc' = [pc EXCEPT ![th] = "launch"]
      /\ launch' = [launch EXCEPT !.x = @ + 1]
      /\ UNCHANGED <<tableVars, procVars, netVars, cache, call, out, ctx, proxyat, hunt, histVars>>
  BY DEF LaunchReply
<1>2. /\ launch.client \in ClientThread /\ launch.first <= launch.x /\ launch.x <= Len(launch.ids)
      /\ \A y \in launch.first..Len(launch.ids) : launch.place[y] \in Node
      /\ hunt = NoHunt
  BY <1>1, WorkerFacts, Apart DEF Work
<1>3. launch.ids \in Seq(Id) /\ launch.x \in Nat \ {0} /\ launch.first \in {1, 2} /\ Len(launch.ids) \in Nat
  BY Apart DEF WorkShape
<1>4. /\ th \in Thread /\ out[th] = NoOut /\ "launch" \in {"idle", "launch", "hunt"} \cap PcsOf(th)
      /\ \A c \in Client : th # ProxyT(c)
  BY <1>1, WorkerFacts
<1>5. UNCHANGED <<chan, adminq, out, call>> /\ proxyat' = proxyat
  BY <1>1 DEF netVars
<1>6. /\ launch'.client = launch.client /\ launch'.ids = launch.ids /\ launch'.place = launch.place
      /\ launch'.first = launch.first /\ launch'.x = launch.x + 1
  BY <1>1, Apart DEF WorkShape
<1> HIDE DEF th
<1>7. MailShape' /\ pc' \in [Thread -> Pcs] /\ Control' /\ FitInv' /\ WaitInv'
  BY <1>1, <1>4, <1>5, <1>6, Settled
<1>8. CallShape'
  BY <1>5, Apart DEF CallShape
<1>9. FrameShape'
  <2>1. WorkShape'
    BY <1>1, <1>3, Apart DEF WorkShape
  <2> QED
    BY <1>1, <2>1, Apart DEF FrameShape, TableShape, ProcShape, NetShape, HistShape, tableVars, procVars, netVars, histVars
<1>10. Work'
  <2>1. pc'[th] = "launch" /\ out'[th] = NoOut
    BY <1>1, <1>4, <1>5, Apart
  <2>2. Launching' /\ ~Hunting'
    BY <2>1 DEF Launching, Hunting, NoOut, th
  <2>3. launch.first <= launch.x + 1 /\ launch.x + 1 <= Len(launch.ids) + 1
    BY <1>2, <1>3
  <2> QED
    BY <1>1, <1>2, <1>6, <2>1, <2>2, <2>3 DEF Work, th
<1> QED
  BY <1>7, <1>8, <1>9, <1>10, Together

LEMMA NextPhaseKeeps ==
  ASSUME MailInv, NextPhase
  PROVE  MailInv'
<1>1. /\ pc[AdminT(Master)] = "launch"
      /\ launch' = [launch EXCEPT !.x = launch.first, !.phase = 2]
      /\ UNCHANGED <<tableVars, procVars, netVars, cache, threadVars, hunt, histVars>>
  BY DEF NextPhase
<1>2. /\ launch.client \in ClientThread /\ launch.first <= launch.x /\ launch.x <= Len(launch.ids) + 1
      /\ \A y \in launch.first..Len(launch.ids) : launch.place[y] \in Node
      /\ hunt = NoHunt
  BY <1>1, WorkerFacts, Apart DEF Work
<1>3. launch.ids \in Seq(Id) /\ launch.x \in Nat \ {0} /\ launch.first \in {1, 2} /\ Len(launch.ids) \in Nat
  BY Apart DEF WorkShape
<1>4. /\ launch'.client = launch.client /\ launch'.ids = launch.ids /\ launch'.place = launch.place
      /\ launch'.first = launch.first /\ launch'.x = launch.first
  BY <1>1, Apart DEF WorkShape
<1>5. UNCHANGED <<pc, out, got, chan, adminq, call, proxyat>>
  BY <1>1 DEF threadVars, netVars
<1>6. FrameShape'
  <2>1. WorkShape'
    <3> DEFINE R == [client : ClientThread \cup {<<>>}, ids : Seq(Id), place : {launch.place},
                     src : Node \cup {NoNode}, auto : BOOLEAN, first : {1, 2}, x : Nat \ {0}, phase : {1, 2}]
    <3>1. launch \in R /\ hunt \in [client : ClientThread \cup {<<>>}, left : SUBSET Node, found : SUBSET Id]
      BY Apart DEF WorkShape
    <3>2. launch' \in R
      <4>1. launch.first \in Nat \ {0} /\ 2 \in {1, 2}
        BY <1>3
      <4>2. \A l \in R, n \in Nat \ {0} : [l EXCEPT !.x = n] \in R
        OBVIOUS
      <4>3. \A l \in R, p \in {1, 2} : [l EXCEPT !.phase = p] \in R
        OBVIOUS
      <4>4. launch' = [[launch EXCEPT !.x = launch.first] EXCEPT !.phase = 2]
        BY <1>1, <3>1
      <4> HIDE DEF R
      <4> QED
        BY <3>1, <4>1, <4>2, <4>3, <4>4
    <3> QED
      BY <1>1, <1>4, <3>1, <3>2 DEF WorkShape
  <2> QED
    BY <1>1, <2>1, Apart DEF FrameShape, TableShape, ProcShape, NetShape, HistShape, tableVars, procVars, netVars, histVars, threadVars
<1>7. Work'
  <2>1. Launching' /\ ~Hunting' /\ pc'[AdminT(Master)] = "launch"
    BY <1>1, <1>5, WorkerFacts DEF Launching, Hunting
  <2>2. launch.first <= launch.first /\ launch.first <= Len(launch.ids) + 1
    BY <1>2, <1>3
  <2> QED
    BY <1>1, <1>2, <1>4, <2>1, <2>2 DEF Work
<1> QED
  BY <1>1, <1>4, <1>5, <1>6, <1>7, Quiet

\* The thread that took over a client's transaction may reply to it.
LEMMA RepliesTo ==
  ASSUME MailInv, NEW th \in Thread, NEW t \in ClientThread, NEW k \in KeptNow(t),
         AgentOf(th) \in Node, out[th] = NoOut, pc[th] \in {"launch", "hunt", "waiting"},
         NEW v, <<v>> \in Values, \A c \in Client : th = ProxyT(c) => t = ClientT(c)
  PROVE  Ready(th, chan, adminq, AgentOf(t), ReplyMsg(t, v), "idle") /\ KeptNow(t) = {k}
<1> DEFINE m == ReplyMsg(t, v)
<1>1. t \in Thread /\ AgentOf(t) \in Node
  BY Threads, Sorts DEF ClientThread, AgentOf
<1>2. KeptNow(t) = {k} /\ Own(MailNow, t) = {} /\ pc[t] = "reply"
  BY <1>1, KeptWaits
<1>3. m \in Plain /\ m.kind = "reply" /\ m.th = t
  BY <1>1, MessagesMade DEF ReplyMsg
<1>4. pc[th] \notin Waits /\ pc[th] # "reply" /\ th # t
  BY <1>2 DEF Waits
<1>5. Calm(chan, adminq, th)
  BY <1>4, CalmNow, Apart
<1>6. "idle" \in NextOf(th)
  BY Courses
<1> HIDE DEF m
<1>7. \A s : Carries(m, s) => s = t
  BY <1>3 DEF Carries
<1>8. Own(Before(chan, adminq, th), t) = {}
  BY <1>2, <1>5 DEF Calm, Own
<1>9. Fit(m, pc[t])
  BY <1>2, <1>3 DEF Fit, ClientKinds, Waits
<1>10. m.kind \notin MasterKinds
  BY <1>3 DEF MasterKinds
<1>11. \A c \in Client : th = ProxyT(c) => Carries(m, ClientT(c))
  BY <1>3 DEF Carries, Carriers
<1> QED
  BY <1>1, <1>2, <1>3, <1>4, <1>5, <1>6, <1>7, <1>8, <1>9, <1>10, <1>11 DEF Ready, m

LEMMA EndLaunchKeeps ==
  ASSUME MailInv, EndLaunch
  PROVE  MailInv'
<1> DEFINE th == AdminT(Master)
           t == launch.client
           m == ReplyMsg(t, 0)
<1>1. /\ pc[th] = "launch" /\ Send(th, AgentOf(t), m, "idle", adminq, chan) /\ launch' = NoLaunch
      /\ UNCHANGED <<tableVars, procVars, alive, peers, conn, cache, call, ctx, proxyat, hunt, histVars>>
  BY DEF EndLaunch
<1>2. t \in ClientThread /\ hunt = NoHunt
  BY <1>1, WorkerFacts, Apart DEF Work
<1>3. /\ th \in Thread /\ AgentOf(th) \in Node /\ out[th] = NoOut /\ \A c \in Client : th # ProxyT(c)
  BY <1>1, WorkerFacts
<1>4. "launch" \in KeptNow(t)
  BY DEF KeptNow, Kept
<1>5. <<0>> \in Values
  BY DEF Values
<1>6. m.kind = "reply" /\ m.th = t
  BY DEF ReplyMsg
<1> HIDE DEF th
<1>7. Ready(th, chan, adminq, AgentOf(t), m, "idle") /\ KeptNow(t) = {"launch"}
  BY <1>1, <1>2, <1>3, <1>4, <1>5, RepliesTo
<1> HIDE DEF m, t
<1>9. \A s \in Thread \ {th} : pc'[s] = pc[s]
  BY <1>1, Apart DEF Send, Resolve
<1>10. Kept(pc', launch', hunt', t) = {}
  <2>1. \A c \in Client : pc'[ProxyT(c)] = pc[ProxyT(c)]
    BY <1>3, <1>9, Threads
  <2>2. launch'.client # t
    BY <1>1, <1>2, Nobody, Threads DEF NoLaunch
  <2> QED
    BY <1>1, <1>7, <2>1, <2>2 DEF KeptNow, Kept
<1>11. launch'.client \in {launch.client, <<>>} /\ hunt'.client \in {hunt.client, <<>>} /\ call' = call
       /\ proxyat' = proxyat
  BY <1>1 DEF NoLaunch
<1>12. MailShape' /\ pc' \in [Thread -> Pcs] /\ Control' /\ FitInv' /\ WaitInv' /\ Moved(th, AgentOf(t), m, "idle")
  <2>1. \A s \in Thread : Carries(m, s) => Kept(pc', launch', hunt', s) = {}
    BY <1>6, <1>10 DEF Carries
  <2> QED
    BY <1>1, <1>3, <1>7, <1>11, <2>1, SendStep
<1>13. CallShape'
  BY <1>11, Apart DEF CallShape
<1>14. FrameShape'
  <2>1. WorkShape'
    BY <1>1, Apart DEF WorkShape, NoLaunch
  <2> QED
    BY <1>1, <2>1, Apart DEF FrameShape, TableShape, ProcShape, NetShape, HistShape, tableVars, procVars, histVars
<1>15. Work'
  <2>1. pc'[th] = "idle" \/ (pc'[th] = "agent" /\ out'[th].next = "idle")
    BY <1>6, <1>12 DEF Moved
  <2>2. pc'[th] # "agent" => out'[th] = NoOut
    BY <1>12 DEF Moved
  <2>3. ~Launching' /\ ~Hunting'
    BY <2>1, <2>2 DEF Launching, Hunting, NoOut, th
  <2> QED
    BY <1>1, <1>2, <2>3 DEF Work
<1> QED
  BY <1>12, <1>13, <1>14, <1>15, Together

LEMMA EndFindKeeps ==
  ASSUME MailInv, EndFind
  PROVE  MailInv'
<1> DEFINE th == AdminT(Master)
           t == hunt.client
           m == ReplyMsg(t, hunt.found)
<1>1. /\ pc[th] = "hunt" /\ Send(th, AgentOf(t), m, "idle", adminq, chan) /\ hunt' = NoHunt
      /\ UNCHANGED <<tableVars, procVars, alive, peers, conn, cache, call, ctx, proxyat, launch, histVars>>
  BY DEF EndFind
<1>2. t \in ClientThread /\ launch = NoLaunch
  BY <1>1, WorkerFacts, Apart DEF Work
<1>3. /\ th \in Thread /\ AgentOf(th) \in Node /\ out[th] = NoOut /\ \A c \in Client : th # ProxyT(c)
  BY <1>1, WorkerFacts
<1>4. "hunt" \in KeptNow(t)
  BY DEF KeptNow, Kept
<1>5. <<hunt.found>> \in Values
  BY Apart DEF Values, Parts, WorkShape
<1>6. m.kind = "reply" /\ m.th = t
  BY DEF ReplyMsg
<1> HIDE DEF th
<1>7. Ready(th, chan, adminq, AgentOf(t), m, "idle") /\ KeptNow(t) = {"hunt"}
  BY <1>1, <1>2, <1>3, <1>4, <1>5, RepliesTo
<1> HIDE DEF m, t
<1>9. \A s \in Thread \ {th} : pc'[s] = pc[s]
  BY <1>1, Apart DEF Send, Resolve
<1>10. Kept(pc', launch', hunt', t) = {}
  <2>1. \A c \in Client : pc'[ProxyT(c)] = pc[ProxyT(c)]
    BY <1>3, <1>9, Threads
  <2>2. hunt'.client # t
    BY <1>1, <1>2, Nobody, Threads DEF NoHunt
  <2> QED
    BY <1>1, <1>7, <2>1, <2>2 DEF KeptNow, Kept
<1>11. launch'.client \in {launch.client, <<>>} /\ hunt'.client \in {hunt.client, <<>>} /\ call' = call
       /\ proxyat' = proxyat
  BY <1>1 DEF NoHunt
<1>12. MailShape' /\ pc' \in [Thread -> Pcs] /\ Control' /\ FitInv' /\ WaitInv' /\ Moved(th, AgentOf(t), m, "idle")
  <2>1. \A s \in Thread : Carries(m, s) => Kept(pc', launch', hunt', s) = {}
    BY <1>6, <1>10 DEF Carries
  <2> QED
    BY <1>1, <1>3, <1>7, <1>11, <2>1, SendStep
<1>13. CallShape'
  BY <1>11, Apart DEF CallShape
<1>14. FrameShape'
  <2>1. WorkShape'
    BY <1>1, Apart DEF WorkShape, NoHunt
  <2> QED
    BY <1>1, <2>1, Apart DEF FrameShape, TableShape, ProcShape, NetShape, HistShape, tableVars, procVars, histVars
<1>15. Work'
  <2>1. pc'[th] = "idle" \/ (pc'[th] = "agent" /\ out'[th].next = "idle")
    BY <1>6, <1>12 DEF Moved
  <2>2. pc'[th] # "agent" => out'[th] = NoOut
    BY <1>12 DEF Moved
  <2>3. ~Launching' /\ ~Hunting'
    BY <2>1, <2>2 DEF Launching, Hunting, NoOut, th
  <2> QED
    BY <1>1, <1>2, <2>3 DEF Work
<1> QED
  BY <1>12, <1>13, <1>14, <1>15, Together

LEMMA FindStepKeeps ==
  ASSUME MailInv, FindStep
  PROVE  MailInv'
<1> DEFINE th == AdminT(Master)
           b == CHOOSE n \in hunt.left : \A k \in hunt.left : n <= k
           m == FindMsg(TRUE, th)
<1>1. /\ pc[th] = "hunt" /\ hunt.left # {} /\ hunt' = [hunt EXCEPT !.left = @ \ {b}]
      /\ Send(th, b, m, "found", adminq, chan)
      /\ UNCHANGED <<tableVars, procVars, alive, peers, conn, cache, call, ctx, proxyat, launch, histVars>>
  BY DEF FindStep
<1>2. hunt.client \in ClientThread /\ launch = NoLaunch
  BY <1>1, WorkerFacts, Apart DEF Work
<1>3. hunt.left \in SUBSET Node /\ hunt.left \in SUBSET Nat
  BY ConstantsAssumption, Apart DEF WorkShape, ConstantsAssumption
<1>4. b \in Node
  <2>1. \E n \in hunt.left : \A k \in hunt.left : n <= k
    BY <1>1, <1>3, Least
  <2> QED
    BY <1>3, <2>1, Zenon
<1>5. m \in Plain /\ m.kind = "subfind"
  BY MessagesMade DEF FindMsg
<1>6. hunt'.client = hunt.client
  BY <1>1, Apart DEF WorkShape
<1> HIDE DEF m, b
<1>7. /\ MailShape' /\ pc' \in [Thread -> Pcs] /\ Control' /\ FitInv' /\ WaitInv' /\ CallShape'
      /\ pc'[th] = "found" \/ (pc'[th] = "agent" /\ out'[th].next = "found")
      /\ pc'[th] # "agent" => out'[th] = NoOut
  BY <1>1, <1>4, <1>5, <1>6, Delegates
<1>8. FrameShape'
  <2>1. WorkShape'
    BY <1>1, <1>3, Apart DEF WorkShape
  <2> QED
    BY <1>1, <2>1, Apart DEF FrameShape, TableShape, ProcShape, NetShape, HistShape, tableVars, procVars, histVars
<1>9. Work'
  <2>1. ~Launching' /\ Hunting'
    BY <1>7 DEF Launching, Hunting, NoOut
  <2> QED
    BY <1>1, <1>2, <1>6, <2>1 DEF Work
<1> QED
  BY <1>7, <1>8, <1>9, Together

LEMMA FindReplyKeeps ==
  ASSUME MailInv, FindReply
  PROVE  MailInv'
<1> DEFINE th == AdminT(Master)
           e == <<"got", th, NoNode, [kind |-> "reply", th |-> th, val |-> got[th]]>>
<1>1. /\ pc[th] = "found" /\ got[th] # NoReply
      /\ hunt' = [hunt EXCEPT !.found = @ \cup got[th][1]]
      /\ got' = [got EXCEPT ![th] = NoReply]
      /\ pc' = [pc EXCEPT ![th] = "hunt"]
      /\ UNCHANGED <<tableVars, procVars, netVars, cache, call, out, ctx, proxyat, launch, histVars>>
  BY DEF FindReply
<1>2. hunt.client \in ClientThread /\ launch = NoLaunch
  BY <1>1, WorkerFacts, Apart DEF Work
<1>3. /\ th \in Thread /\ out[th] = NoOut /\ "hunt" \in {"idle", "launch", "hunt"} \cap PcsOf(th)
      /\ \A c \in Client : th # ProxyT(c)
  BY <1>1, WorkerFacts
<1>4. UNCHANGED <<chan, adminq, out, call>> /\ proxyat' = proxyat /\ launch'.client = launch.client
  BY <1>1 DEF netVars
<1>5. hunt'.client = hunt.client
  BY <1>1, Apart DEF WorkShape
<1>6. got[th] \in Parts
  <2>1. e \in MailNow
    BY <1>1, <1>3, MailIff DEF MailNow
  <2>2. Noted(e, pc, out)
    BY <2>1, Apart DEF FitInv
  <2>3. e[1] = "got" /\ e[4].kind = "reply" /\ e[4].th = th /\ e[4].val = got[th]
    OBVIOUS
  <2> HIDE DEF e, th
  <2>4. Fit(e[4], pc[th])
    BY <2>2, <2>3 DEF Noted, Carriers
  <2> QED
    BY <1>1, <2>3, <2>4 DEF Fit
<1>7. got[th][1] \in SUBSET Id
  BY <1>6 DEF Parts
<1> HIDE DEF th
<1>8. MailShape' /\ pc' \in [Thread -> Pcs] /\ Control' /\ FitInv' /\ WaitInv'
  BY <1>1, <1>3, <1>4, <1>5, Settled
<1>9. CallShape'
  BY <1>4, Apart DEF CallShape
<1>10. FrameShape'
  <2>1. WorkShape'
    BY <1>1, <1>7, Apart DEF WorkShape
  <2> QED
    BY <1>1, <2>1, Apart DEF FrameShape, TableShape, ProcShape, NetShape, HistShape, tableVars, procVars, netVars, histVars
<1>11. Work'
  <2>1. pc'[th] = "hunt" /\ out'[th] = NoOut
    BY <1>1, <1>3, <1>4, Apart
  <2>2. ~Launching' /\ Hunting'
    BY <2>1 DEF Launching, Hunting, NoOut, th
  <2> QED
    BY <1>1, <1>2, <1>5, <2>2 DEF Work
<1> QED
  BY <1>8, <1>9, <1>10, <1>11, Together

LEMMA ProxyReplyKeeps ==
  ASSUME MailInv, NEW c \in Client, ProxyReply(c)
  PROVE  MailInv'
<1> DEFINE th == ProxyT(c)
           t == ClientT(c)
           m == ReplyMsg(t, 0)
<1>1. /\ pc[th] = "waiting" /\ Send(th, At[c], m, "idle", adminq, chan)
      /\ call' = [call EXCEPT ![th] = NoCall]
      /\ UNCHANGED <<tableVars, procVars, alive, peers, conn, cache, ctx, proxyat, workVars, histVars>>
  BY DEF ProxyReply
<1>2. /\ th \in Thread /\ t \in ClientThread /\ t \in Thread /\ th # AdminT(Master) /\ th # t
      /\ AgentOf(t) = At[c] /\ \A d \in Client : th = ProxyT(d) => d = c
  BY Threads, Sorts DEF AgentOf
<1>3. AgentOf(th) \in Node /\ out[th] = NoOut
  BY <1>1, <1>2, WhoWaits, Apart DEF Control, ControlOf
<1>4. "proxy" \in KeptNow(t)
  BY <1>1 DEF KeptNow, Kept
<1>5. <<0>> \in Values
  BY DEF Values
<1>6. m.kind = "reply" /\ m.th = t
  BY DEF ReplyMsg
<1> HIDE DEF th, t
<1>7. Ready(th, chan, adminq, At[c], m, "idle") /\ KeptNow(t) = {"proxy"}
  <2>1. \A d \in Client : th = ProxyT(d) => t = ClientT(d)
    BY <1>2 DEF t
  <2> QED
    BY <1>1, <1>2, <1>3, <1>4, <1>5, <2>1, RepliesTo
<1> HIDE DEF m
<1>8. pc'[th] # "waiting" /\ \A s \in Thread \ {th} : pc'[s] = pc[s]
  BY <1>1, <1>2, Apart DEF Send, Resolve
<1>9. Kept(pc', launch', hunt', t) = {}
  <2>1. \A d \in Client : t = ClientT(d) => ProxyT(d) = th
    BY Sorts DEF th, t
  <2> QED
    BY <1>1, <1>7, <1>8, <2>1 DEF KeptNow, Kept, workVars
<1>10. launch'.client \in {launch.client, <<>>} /\ hunt'.client \in {hunt.client, <<>>}
       /\ proxyat' = proxyat /\ UNCHANGED <<launch, hunt>>
  BY <1>1 DEF workVars
<1>11. CallShape' /\ \A s \in Thread \ {th} : call'[s] = call[s]
  BY <1>1, <1>2, Apart DEF CallShape, NoCall, NoId, Ops
<1>12. MailShape' /\ pc' \in [Thread -> Pcs] /\ Control' /\ FitInv' /\ WaitInv' /\ Moved(th, At[c], m, "idle")
  <2>1. \A s \in Thread : Carries(m, s) => Kept(pc', launch', hunt', s) = {}
    BY <1>6, <1>9 DEF Carries
  <2> QED
    BY <1>1, <1>2, <1>7, <1>10, <1>11, <2>1, SendStep
<1>13. FrameShape'
  BY <1>1, Apart DEF FrameShape, TableShape, ProcShape, NetShape, WorkShape, HistShape, tableVars, procVars, workVars, histVars
<1>14. Work'
  <2>1. pc'[AdminT(Master)] = pc[AdminT(Master)] /\ out'[AdminT(Master)] = out[AdminT(Master)]
    BY <1>2, <1>12, Threads DEF Moved
  <2> QED
    BY <1>10, <2>1, WorkSame, Apart
<1> QED
  BY <1>11, <1>12, <1>13, <1>14, Together

-----------------------------------------------------------------------------
(* Tasks that end and agents that leave.                                   *)

LEMMA TaskEndsKeeps ==
  ASSUME MailInv, NEW a \in Node, NEW i \in Id, TaskEnds(a, i)
  PROVE  MailInv'
<1>1. /\ mode' = [mode EXCEPT ![i] = "ended"]
      /\ UNCHANGED <<tableVars, home, members, killed, given, netVars, cache, threadVars, workVars, histVars>>
  BY DEF TaskEnds
<1>2. UNCHANGED <<pc, out, got, chan, adminq, call, launch, hunt, proxyat>>
  BY <1>1 DEF threadVars, netVars, workVars
<1>3. FrameShape'
  BY <1>1, Apart DEF FrameShape, TableShape, ProcShape, NetShape, WorkShape, HistShape, tableVars, netVars, workVars, histVars, threadVars, Modes
<1> QED
  BY <1>2, <1>3, LessNow, Fewer, Apart

LEMMA LeaveKeeps ==
  ASSUME MailInv, NEW n \in Node, Leave(n)
  PROVE  MailInv'
<1>1. /\ alive' = alive \ {n}
      /\ UNCHANGED <<tableVars, procVars, peers, conn, chan, adminq, cache, threadVars, workVars, histVars>>
  BY DEF Leave
<1>2. UNCHANGED <<pc, out, got, chan, adminq, call, launch, hunt, proxyat>>
  BY <1>1 DEF threadVars, workVars
<1>3. FrameShape'
  BY <1>1, Apart DEF FrameShape, TableShape, ProcShape, NetShape, WorkShape, HistShape, tableVars, procVars, workVars, histVars, threadVars
<1> QED
  BY <1>2, <1>3, LessNow, Fewer, Apart

LEMMA TailLost ==
  ASSUME MailShape, WaitInv, NEW n \in Node, NEW a \in Node, chan[n, a] # <<>>
  PROVE  Less([chan EXCEPT ![<<n, a>>] = Front(@)], adminq)
<1> DEFINE l == <<n, a>>
           s == Front(chan[l])
           w == [chan EXCEPT ![l] = s]
<1>1. chan \in Links /\ adminq \in Queues /\ Onces(chan, adminq) /\ l \in Node \X Node /\ chan[l] # <<>>
  BY DEF MailShape, WaitInv
<1>2. chan[l] \in Seq(Message)
  BY <1>1 DEF Links
<1> HIDE DEF l
<1>3. /\ s \in Seq(Message) /\ Letters(s, "chan", l, l[2]) \subseteq Letters(chan[l], "chan", l, l[2])
      /\ \A t : Once(chan[l], t) => Once(s, t)
  BY <1>1, <1>2, LettersFront
<1> HIDE DEF s
<1>4. w \in Links /\ \A e : e \in Mail(w, adminq, out, got) <=>
              \/ e \in Letters(s, "chan", l, l[2])
              \/ e \in Mail(chan, adminq, out, got) /\ ~(e[1] = "chan" /\ e[2] = l)
  BY <1>1, <1>3, MailChan
<1>5. Letters(chan[l], "chan", l, l[2]) \subseteq MailNow
  BY <1>1, MailIff DEF MailNow
<1>6. Mail(w, adminq, out, got) \subseteq MailNow
  BY <1>3, <1>4, <1>5 DEF MailNow
<1>7. Onces(w, adminq)
  <2>1. \A k \in Node \X Node : w[k] = IF k = l THEN s ELSE chan[k]
    BY <1>1 DEF Links
  <2> HIDE DEF w
  <2> QED
    BY <1>1, <1>3, <2>1 DEF Onces
<1>8. Less(w, adminq)
  BY <1>1, <1>4, <1>6, <1>7 DEF Less
<1> QED
  BY <1>8 DEF s, l

LEMMA LoseTailKeeps ==
  ASSUME MailInv, NEW n \in Node, NEW a \in Node, LoseTail(n, a)
  PROVE  MailInv'
<1> DEFINE w == [chan EXCEPT ![<<n, a>>] = Front(@)]
<1>1. /\ chan[n, a] # <<>> /\ chan' = w
      /\ UNCHANGED <<tableVars, procVars, alive, peers, conn, adminq, cache, threadVars, workVars, histVars>>
  BY DEF LoseTail
<1>2. UNCHANGED <<pc, out, got, adminq, call, launch, hunt, proxyat>>
  BY <1>1 DEF threadVars, workVars
<1>3. FrameShape'
  BY <1>1, Apart DEF FrameShape, TableShape, ProcShape, NetShape, WorkShape, HistShape, tableVars, procVars, workVars, histVars, threadVars
<1>4. Less(w, adminq)
  BY <1>1, TailLost, Apart
<1> HIDE DEF w
<1> QED
  BY <1>1, <1>2, <1>3, <1>4, Fewer

LEMMA ReportDeathKeeps ==
  ASSUME MailInv, NEW a \in Node, NEW i \in Id, ReportDeath(a, i)
  PROVE  MailInv'
<1> DEFINE m == DeadMsg(i)
           l == <<a, Master>>
           w == [chan EXCEPT ![l] = Append(@, m)]
           v == [adminq EXCEPT ![a] = Append(@, m)]
           x == <<"chan", l, Dest(m, l[2]), Base(m)>>
           y == <<"queue", a, Dest(m, a), Base(m)>>
           s == Mail(chan, v, out, got) \subseteq Mail(chan, adminq, out, got) \cup {y}
           u == Onces(chan, adminq) /\ (\A t : Carries(Base(m), t) => Own(Mail(chan, adminq, out, got), t) = {}) => Onces(chan, v)
           sw == Mail(w, adminq, out, got) \subseteq Mail(chan, adminq, out, got) \cup {x}
           uw == Onces(chan, adminq) /\ (\A t : Carries(Base(m), t) => Own(Mail(chan, adminq, out, got), t) = {}) => Onces(w, adminq)
<1>1. /\ mode' = [mode EXCEPT ![i] = "gone"]
      /\ \/ a = Master /\ adminq' = v /\ chan' = chan
         \/ chan' = w /\ adminq' = adminq
      /\ UNCHANGED <<tableVars, home, members, killed, given, alive, peers, conn, cache, threadVars,
                     workVars, histVars>>
  BY DEF ReportDeath
<1>2. m \in Plain /\ Base(m) = m /\ Dest(m, a) = a /\ Dest(m, l[2]) = Master /\ m \in Message /\ m.kind = "dead"
  BY MessagesMade, PlainIs DEF DeadMsg, Dest
<1>3. UNCHANGED <<pc, out, got, call, launch, hunt, proxyat>>
  BY <1>1 DEF threadVars, workVars
<1>4. FrameShape'
  BY <1>1, Apart DEF FrameShape, TableShape, ProcShape, NetShape, WorkShape, HistShape, tableVars, workVars, histVars, threadVars, Modes
<1>5. adminq \in Queues /\ chan \in Links /\ Onces(chan, adminq) /\ l \in Node \X Node
  BY Threads, Apart DEF MailShape, WaitInv
<1>6. x[3] = Master /\ x[4] = m /\ (a = Master => y[3] = Master) /\ y[4] = m
  BY <1>2
<1> HIDE DEF m, l
<1>7. v \in Queues /\ s /\ u
  BY <1>2, <1>5, QueueAdds, Zenon
<1>8. w \in Links /\ sw /\ uw
  BY <1>2, <1>5, ChanAdds, Zenon
<1>9. m.kind \notin Carriers
  BY <1>2 DEF Carriers, ClientKinds
<1>10. \A t : ~Carries(Base(m), t)
  BY <1>2, <1>9 DEF Carries
<1> HIDE DEF x, y, v, w
<1>11. CASE a = Master /\ adminq' = v /\ chan' = chan
  <2>1. MailNow' \subseteq MailNow \cup {y}
    BY <1>3, <1>7, <1>11 DEF MailNow
  <2>2. chan' \in Links /\ adminq' \in Queues /\ Onces(chan', adminq')
    BY <1>5, <1>7, <1>10, <1>11
  <2> QED
    BY <1>2, <1>3, <1>4, <1>6, <1>9, <1>11, <2>1, <2>2, Threadless
<1>12. CASE chan' = w /\ adminq' = adminq
  <2>1. MailNow' \subseteq MailNow \cup {x}
    BY <1>3, <1>8, <1>12 DEF MailNow
  <2>2. chan' \in Links /\ adminq' \in Queues /\ Onces(chan', adminq')
    BY <1>5, <1>8, <1>10, <1>12
  <2> QED
    BY <1>2, <1>3, <1>4, <1>6, <1>9, <2>1, <2>2, Threadless
<1> QED
  BY <1>1, <1>11, <1>12

-----------------------------------------------------------------------------
(* The specification.                                                      *)

\* Nothing is on its way when the system starts.
LEMMA NoMailYet ==
  ASSUME Init
  PROVE  \A e \in MailNow : e[1] = "out" /\ e[4] = Nothing
<1> SUFFICES ASSUME NEW e \in MailNow PROVE e[1] = "out" /\ e[4] = Nothing
  OBVIOUS
<1>1. \A l \in Node \X Node : Letters(chan[l], "chan", l, l[2]) = {}
  BY DEF Init, Letters
<1>2. \A a \in Node : Letters(adminq[a], "queue", a, a) = {}
  BY DEF Init, Letters
<1>3. \A th \in Thread : got[th] = NoReply /\ out[th].msg = Nothing
  BY DEF Init, NoOut
<1>4. \/ \E l \in Node \X Node : e \in Letters(chan[l], "chan", l, l[2])
      \/ \E a \in Node : e \in Letters(adminq[a], "queue", a, a)
      \/ \E th \in Thread : e = <<"out", th, out[th].to, out[th].msg>>
      \/ \E th \in Thread : got[th] # NoReply
  <2>1. e \in Mail(chan, adminq, out, got)
    BY DEF MailNow
  <2> QED
    BY <2>1, MailIff
<1>5. \E th \in Thread : e = <<"out", th, out[th].to, out[th].msg>>
  BY <1>1, <1>2, <1>3, <1>4, Zenon
<1> QED
  BY <1>3, <1>5

LEMMA MailStarts ==
  ASSUME Init
  PROVE  MailInv
<1>1. \A e \in MailNow : e[1] = "out" /\ e[4] = Nothing
  BY NoMailYet
<1>2. Nothing.kind \notin Carriers \cup MasterKinds
  BY DEF Nothing, Carriers, MasterKinds, ClientKinds
<1>3. FitInv
  BY <1>1, <1>2 DEF FitInv, Noted
<1>4. WaitInv
  <2>1. \A t \in Thread : Own(MailNow, t) = {}
    BY <1>1, <1>2 DEF Own, Carries
  <2>2. \A t \in Thread : KeptNow(t) = {}
    <3> SUFFICES ASSUME NEW t \in Thread PROVE KeptNow(t) = {}
      OBVIOUS
    <3>1. launch.client # t /\ hunt.client # t
      BY Nobody DEF Init
    <3>2. \A c \in Client : pc[ProxyT(c)] = "idle"
      BY Threads DEF Init
    <3> QED
      BY <3>1, <3>2 DEF KeptNow, Kept
  <2>3. Onces(chan, adminq)
    BY DEF Init, Onces, Once
  <2> QED
    BY <2>1, <2>2, <2>3 DEF WaitInv, WaitOf, Lone
<1>5. Control
  <2>1. \A th \in Thread : pc[th] = "idle" /\ out[th] = NoOut
    BY DEF Init
  <2>2. \A th \in Thread : ControlOf(th)
    BY <2>1, Courses DEF ControlOf
  <2> QED
    BY <2>1, <2>2, Threads DEF Control
<1>6. Work
  <2>1. pc[AdminT(Master)] = "idle" /\ out[AdminT(Master)] = NoOut
    BY Threads DEF Init
  <2> QED
    BY <2>1 DEF Init, Work, Launching, Hunting, NoOut
<1>7. TableShape /\ ProcShape /\ HistShape
  BY DEF Init, TableShape, ProcShape, HistShape, Modes, OnMap
<1>8. NetShape
  <2>1. Master \in Node
    BY Threads
  <2>2. peers \in [Node -> SUBSET Node]
    BY <2>1 DEF Init
  <2>3. conn \subseteq SUBSET Node
    BY <2>1 DEF Init
  <2>4. alive \subseteq Node /\ cache \in [Node -> [Id \cup Node -> Node \cup {NoNode}]]
    BY DEF Init
  <2> QED
    BY <2>2, <2>3, <2>4 DEF NetShape
<1>9. MailShape
  <2>1. NoOut \in [to : Node \cup {NoNode}, msg : Plain, next : {"idle", "reply", "made", "found"}]
    BY MessagesMade DEF NoOut
  <2>2. out \in Outs /\ got \in Gots
    BY <2>1 DEF Init, Outs, Gots
  <2>3. <<>> \in Seq(Message)
    OBVIOUS
  <2>4. chan \in Links /\ adminq \in Queues
    BY <2>3 DEF Init, Links, Queues
  <2> QED
    BY <2>2, <2>4 DEF MailShape
<1>10. ThreadShape
  <2>1. pc \in [Thread -> Pcs]
    BY DEF Init, Pcs
  <2>2. CallShape
    BY DEF Init, CallShape, NoCall, NoId, Ops
  <2> QED
    BY <2>1, <2>2 DEF Init, ThreadShape
<1>11. WorkShape
  <2>1. <<>> \in Seq(Id)
    OBVIOUS
  <2> QED
    BY <2>1 DEF Init, WorkShape, NoLaunch, NoHunt
<1> QED
  BY <1>3, <1>4, <1>5, <1>6, <1>7, <1>8, <1>9, <1>10, <1>11 DEF MailInv, Shape

LEMMA MailStep ==
  ASSUME MailInv, [Act]_agentVars
  PROVE  MailInv'
<1>1. CASE \E c \in Client : Start(c)
  BY <1>1, CallLaunchKeeps, CallTaskKeeps, RegContextKeeps, UnregContextKeeps, CallSizeKeeps, CallFindKeeps
  DEF Start
<1>2. ASSUME NEW th \in Thread, Step(th) PROVE MailInv'
  <2>1. CASE Resolved(th) \/ NewPeer(th)
    BY <2>1, ResolvedKeeps, NewPeerKeeps
  <2>2. CASE \E c \in Client : th = ClientT(c) /\ Return(c)
    BY <2>2, ReturnKeeps
  <2>3. CASE \E c \in Client : th = ProxyT(c) /\ ProxyReply(c)
    BY <2>3, ProxyReplyKeeps
  <2>4. ASSUME NEW a \in Node, Admin(a) PROVE MailInv'
    BY <2>4, AdminKillKeeps, AdminAliveKeeps, AdminWaitKeeps, AdminSizeKeeps, AdminContextKeeps, AdminDeadKeeps,
       AdminRoutedKeeps, AdminBackLinkKeeps, AdminMakeLinkKeeps, AdminRemoveLinkKeeps, AdminSubFindKeeps,
       StartFindKeeps, StartLaunchKeeps
    DEF Admin
  <2>5. ASSUME NEW a \in Node, Working(a) PROVE MailInv'
    BY <2>5, LaunchStepKeeps, LaunchReplyKeeps, NextPhaseKeeps, EndLaunchKeeps, FindStepKeeps, FindReplyKeeps,
       EndFindKeeps
    DEF Working
  <2>6. ASSUME NEW a \in Node, NEW b \in Node, th = RecvT(a, b), Recv(a, b) PROVE MailInv'
    BY <2>6, RecvQueuedKeeps, RecvResolveKeeps, RecvMakeKeeps, RecvDataKeeps, RecvReplyKeeps, NoticeLossKeeps
    DEF Recv
  <2> QED
    BY <1>2, <2>1, <2>2, <2>3, <2>4, <2>5, <2>6 DEF Step
<1>3. CASE \E a \in Node, i \in Id : TaskEnds(a, i) \/ ReportDeath(a, i)
  BY <1>3, TaskEndsKeeps, ReportDeathKeeps
<1>4. CASE \E a \in Node : Leave(a)
  BY <1>4, LeaveKeeps
<1>5. CASE \E n, a \in Node : LoseTail(n, a)
  BY <1>5, LoseTailKeeps
<1>6. CASE UNCHANGED agentVars
  <2>1. UNCHANGED <<pc, out, got, chan, adminq, call, launch, hunt, proxyat>>
    BY <1>6 DEF agentVars, threadVars, netVars, workVars
  <2>2. FrameShape'
    BY <1>6, Apart DEF FrameShape, TableShape, ProcShape, NetShape, WorkShape, HistShape, agentVars, tableVars, procVars,
       netVars, workVars, histVars, threadVars
  <2> QED
    BY <2>1, <2>2, LessNow, Fewer, Apart
<1> QED
  BY <1>1, <1>2, <1>3, <1>4, <1>5, <1>6 DEF Act

\* A step after which no message was sent twice is one of the agents.
LEMMA OnceIsAct ==
  ASSUME [Next]_vars, ~twice'
  PROVE  ~twice /\ [Act]_agentVars
<1>1. CASE Next
  <2>1. Double => twice'
    BY DEF Double
  <2> QED
    BY <1>1, <2>1 DEF Next
<1>2. CASE UNCHANGED vars
  <2>1. UNCHANGED agentVars /\ UNCHANGED twice
    BY <1>2 DEF vars
  <2> QED
    BY <2>1
<1> QED
  BY <1>1, <1>2

\* As long as no message was sent twice, the messages, the threads and the work of the
\* master fit together: the types, where each thread can be, and one place for each
\* transaction. A request that was sent twice has two.
THEOREM MailHolds == Spec => [](~twice => MailInv)
<1>1. Init => (~twice => MailInv)
  BY MailStarts
<1>2. (~twice => MailInv) /\ [Next]_vars => (~twice => MailInv)'
  BY OnceIsAct, MailStep
<1> QED
  BY <1>1, <1>2, PTL DEF Spec

\* As long as no message was sent twice, a reply on its way finds the thread that waits
\* for it, with no reply so far: what reply_msg asserts when it looks its transaction up.
THEOREM RepliesFindTheirs == Spec => []RepliesAreAwaited
<1>1. ASSUME ~twice => MailInv PROVE RepliesAreAwaited
  <2> SUFFICES ASSUME ~twice, NEW l \in Node \X Node, NEW m \in ToSet(chan[l]), m.kind = "reply"
               PROVE  /\ pc[m.th] \in {"task", "agent", "reply", "made", "found"}
                      /\ got[m.th] = NoReply
    BY DEF RepliesAreAwaited
  <2>0. MailInv
    BY <1>1
  <2>1. PICK i \in 1..Len(chan[l]) : m = chan[l][i]
    BY DEF ToSet
  <2> DEFINE e == <<"chan", l, Dest(m, l[2]), Base(m)>>
  <2>2. chan[l] \in Seq(Message)
    BY <2>0, Apart DEF MailShape, Links
  <2>3. m \in Message
    BY <2>1, <2>2
  <2>4. Base(m) = m /\ m \in Plain
    BY <2>3, MessageIs DEF Base
  <2>5. e \in Letters(chan[l], "chan", l, l[2])
    BY <2>1 DEF Letters
  <2>6. e \in MailNow
    BY <2>5, MailIff DEF MailNow
  <2>7. e[1] = "chan" /\ e[4] = m
    BY <2>4
  <2> HIDE DEF e
  <2>8. m.th \in Thread /\ Carries(m, m.th)
    BY <2>4, Kinds DEF Carries, Carriers
  <2>9. Fit(m, pc[m.th])
    BY <2>0, <2>6, <2>7, <2>8, Apart DEF FitInv, Noted, Carries
  <2>10. got[m.th] = NoReply
    <3> SUFFICES ASSUME got[m.th] # NoReply PROVE FALSE
      OBVIOUS
    <3> DEFINE g == <<"got", m.th, NoNode, [kind |-> "reply", th |-> m.th, val |-> got[m.th]]>>
    <3>1. g \in Own(MailNow, m.th)
      BY <2>8, ReplyIsOwn
    <3>2. g[1] = "got"
      OBVIOUS
    <3> HIDE DEF g
    <3>3. e \in Own(MailNow, m.th)
      BY <2>6, <2>7, <2>8 DEF Own
    <3>4. Lone(Own(MailNow, m.th))
      BY <2>0, <2>8, Apart DEF WaitInv, WaitOf
    <3> QED
      BY <2>7, <3>1, <3>2, <3>3, <3>4 DEF Lone
  <2> QED
    BY <2>9, <2>10 DEF Fit, Waits
<1> QED
  BY <1>1, MailHolds, PTL
=============================================================================
