---------------------------- MODULE ClusterMaster ----------------------------
(***************************************************************************)
(* Proofs about the work of the master of Cluster, for any nodes, clients, *)
(* requests, filters and crashes. First its launches: what the ids of one  *)
(* are, how far it is, and what the groups it makes consist of. Then what  *)
(* its tables say and what the clients are told from them: where a task    *)
(* is, that it is over, that it was killed, and who has a service.         *)
(***************************************************************************)
EXTENDS ClusterMail

-----------------------------------------------------------------------------
(* The inductive invariant of the launches.                                *)

MasterT == AdminT(Master)

\* What is said in all messages there are, wherever they are.
Said == {e[4] : e \in MailNow}
Orders == {m \in Said : m.kind = "launch"}

\* The new ids of a launch; ids[1] is the context when slaves are launched.
FirstOf(m) == IF m.req.slaves THEN 2 ELSE 1
New(m) == {m.ids[y] : y \in FirstOf(m)..Len(m.ids)}
Distinct(s, first) == \A x, y \in first..Len(s) : s[x] = s[y] => x = y

\* What there is has an id that was given out. A context belongs to one client, which
\* is in no other call while it launches slaves.
ContextInv ==
  /\ \A i \in Id : mode[i] # "none" => i \in given
  /\ \A n \in Node : load[n] \subseteq given
  /\ \A c, d \in Client : ctx[c] = ctx[d] /\ ctx[c] # NoId => c = d
  /\ \A c \in Client : ctx[c] # NoId => ctx[c] \in given
  /\ \A c \in Client :
       call[ClientT(c)].op = "launch" /\ call[ClientT(c)].id # NoId =>
         ctx[c] = call[ClientT(c)].id /\ mode[ctx[c]] = "context"

\* The ids of a launch the master has not begun with are those of nothing.
Untouched(i) == i \in given /\ mode[i] = "none" /\ \A n \in Node : i \notin load[n]
OrderOk(m) ==
  /\ Distinct(m.ids, FirstOf(m)) /\ \A i \in New(m) : Untouched(i)
  /\ call[m.th].op = "launch"
  /\ m.req.slaves => m.ids[1] = call[m.th].id
OrderInv ==
  /\ \A m \in Orders : OrderOk(m)
  /\ \A m, k \in Orders : m.th # k.th => New(m) \cap New(k) = {}

\* How far the launch is that the master works on.
Group == ToSet(launch.ids)
Made(i) == mode[i] \in {"born"} \cup Started /\ members[i] = Group
Undone(i) == mode[i] = IF launch.phase = 1 THEN "none" ELSE "born"
Done(i) == Made(i) /\ mode[i] \in IF launch.phase = 1 THEN {"born"} ELSE Started
Reached(y) ==
  /\ y < launch.x => Done(launch.ids[y])
  /\ y = launch.x => Undone(launch.ids[y]) \/ Done(launch.ids[y])
  /\ y > launch.x => Undone(launch.ids[y])
  /\ launch.phase = 2 => Made(launch.ids[y])
LaunchInv ==
  Launching =>
    /\ Distinct(launch.ids, launch.first)
    /\ \A y \in launch.first..Len(launch.ids) : launch.ids[y] \in given /\ Reached(y)
    /\ \A m \in Orders : New(m) \cap {launch.ids[y] : y \in launch.first..Len(launch.ids)} = {}
    /\ call[launch.client].op = "launch"
    /\ launch.first = 2 => launch.ids[1] = call[launch.client].id

\* The message that makes a process is of the id the launch is at, which is done once
\* the reply is there.
MakeInv ==
  /\ out[MasterT].next = "made" => out[MasterT].msg.kind = "make"
  /\ pc[MasterT] = "launch" /\ launch.x <= Len(launch.ids) => Undone(launch.ids[launch.x])
  /\ \A m \in Said :
       /\ m.kind = "make" => /\ m = MakeMsg(launch.ids[launch.x], Group, launch.phase)
                             /\ Undone(launch.ids[launch.x])
       /\ m.kind = "reply" /\ m.th = MasterT /\ pc[MasterT] = "made" => Done(launch.ids[launch.x])

\* Who runs, or is a context, has a group that is made, and who was born one that is
\* being launched.
Whole(i) == \A j \in members[i] : mode[j] # "none"
WholeInv ==
  \A i \in Id :
    /\ mode[i] \in Started \cup {"context"} => Whole(i)
    /\ mode[i] = "born" => Whole(i) \/ (Launching /\ members[i] = Group)
    /\ mode[i] = "none" => members[i] = {}

LaunchesInv == ContextInv /\ OrderInv /\ LaunchInv /\ MakeInv /\ WholeInv

-----------------------------------------------------------------------------
(* What is new in the mail after a step.                                   *)

\* The question of a thread for an id, or its answer, which was there.
Asks(e, th, id) ==
  \/ e[4] = ResolveMsg(id, th) /\ e[3] = Master
  \/ KnownHere(AgentOf(th), id) /\ e[4] = ReplyMsg(th, AnswerHere(AgentOf(th), id))
Posted(e, b, m) == e[4] = m /\ (m.kind = "reply" \/ e[3] = b)

LEMMA ResolveNews ==
  ASSUME MailShape, TableShape, NetShape, NEW th \in Thread, AgentOf(th) \in Node,
         NEW id \in Id \cup Node, NEW next, NEW w \in Links, NEW q, Resolve(th, id, next, w), adminq' = q,
         NEW r, out' = [out EXCEPT ![th] = r]
  PROVE  \A e \in MailNow' : e \in Before(w, q, th) \/ e = <<"out", th, r.to, r.msg>> \/ Asks(e, th, id)
<1> DEFINE a == AgentOf(th)
           x == <<"out", th, r.to, r.msg>>
           free == [got EXCEPT ![th] = NoReply]
<1>1. /\ out \in Outs /\ MailNow' = Mail(chan', q, [out EXCEPT ![th] = r], got')
  BY DEF MailNow, MailShape
<1>2. MailNow' \subseteq Mail(chan', q, out, got') \cup {x}
  BY <1>1, OutAdds
<1> HIDE DEF x
<1>3. CASE KnownHere(a, id)
  <2> DEFINE v == <<AnswerHere(a, id)>>
             y == <<"got", th, NoNode, [kind |-> "reply", th |-> th, val |-> v]>>
  <2>1. got' = [got EXCEPT ![th] = v] /\ chan' = w
    BY <1>3 DEF Resolve
  <2>2. v # NoReply
    BY DEF NoReply
  <2>3. y[4] = ReplyMsg(th, AnswerHere(a, id))
    BY DEF ReplyMsg
  <2> HIDE DEF v
  <2>4. Mail(w, q, out, got') \subseteq Before(w, q, th) \cup {y}
    BY <2>1, <2>2, GotAdds
  <2>5. Asks(y, th, id)
    BY <1>3, <2>3 DEF Asks
  <2> HIDE DEF y
  <2> QED
    BY <1>2, <2>1, <2>4, <2>5 DEF x
<1>4. CASE ~KnownHere(a, id)
  <2> DEFINE l == <<a, Master>>
             m == ResolveMsg(id, th)
             y == <<"chan", l, Master, m>>
             v == [w EXCEPT ![l] = Append(@, m)]
             c == Mail(v, q, out, free) \subseteq
                    Mail(w, q, out, free) \cup {<<"chan", l, Dest(m, l[2]), Base(m)>>}
  <2>1. got' = free /\ chan' = v
    BY <1>4 DEF Resolve
  <2>2. m \in Plain /\ l \in Node \X Node /\ l[2] = Master
    BY MessagesMade, Threads
  <2>3. m \in Message /\ Base(m) = m /\ Dest(m, l[2]) = Master
    BY <2>2, PlainIs DEF Dest, ResolveMsg
  <2>4. Asks(y, th, id)
    BY DEF Asks
  <2> HIDE DEF m, l
  <2>5. c
    BY <2>2, <2>3, ChanAdds, Zenon
  <2>6. Mail(chan', q, out, got') \subseteq Before(w, q, th) \cup {y}
    BY <2>1, <2>3, <2>5 DEF Before
  <2> HIDE DEF y
  <2> QED
    BY <1>2, <2>4, <2>6 DEF x
<1> QED
  BY <1>3, <1>4

LEMMA SendNews ==
  ASSUME MailShape, TableShape, NetShape, NEW th \in Thread, AgentOf(th) \in Node,
         NEW w \in Links, NEW q \in Queues, NEW b \in Node, NEW m \in Plain, NEW next,
         Send(th, b, m, next, q, w)
  PROVE  \A e \in MailNow' : \/ e \in Before(w, q, th) \/ Posted(e, b, m)
                             \/ Asks(e, th, b) /\ pc' = [pc EXCEPT ![th] = "agent"]
<1> DEFINE a == AgentOf(th)
           free == [got EXCEPT ![th] = NoReply]
<1>1. /\ got \in Gots /\ out \in Outs /\ free \in Gots /\ Before(w, q, th) = Mail(w, q, out, free)
  BY DEF MailShape, Gots, Before
<1>2. m \in Message /\ Base(m) = m /\ m.kind # "routed" /\ (m.kind \in Carriers => m.th \in Thread)
  BY PlainIs, Kinds
<1> HIDE DEF free
<1>3. CASE /\ b = a /\ m.kind = "reply" /\ UNCHANGED out /\ adminq' = q /\ chan' = w
           /\ got' = [free EXCEPT ![m.th] = m.val]
  <2> DEFINE x == <<"got", m.th, NoNode, [kind |-> "reply", th |-> m.th, val |-> m.val]>>
  <2>1. m = [kind |-> "reply", th |-> m.th, val |-> m.val] /\ m.th \in Thread
    BY <1>2, <1>3, Kinds DEF Carriers
  <2>2. Posted(x, b, m)
    BY <1>3, <2>1 DEF Posted
  <2>3. \A e : e \in Mail(w, q, out, [free EXCEPT ![m.th] = m.val]) => e = x \/ e \in Mail(w, q, out, free)
    <3> HIDE DEF x
    <3>1. \A t \in Thread : \A v : \A e : e \in Mail(w, q, out, [free EXCEPT ![t] = v]) <=>
            \/ v # NoReply /\ e = <<"got", t, NoNode, [kind |-> "reply", th |-> t, val |-> v]>>
            \/ e \in Mail(w, q, out, free) /\ ~(e[1] = "got" /\ e[2] = t)
      BY <1>1, MailGot
    <3> QED
      BY <2>1, <3>1, Zenon DEF x
  <2> HIDE DEF x
  <2> QED
    BY <1>1, <1>3, <2>2, <2>3 DEF MailNow
<1>4. CASE /\ b = a /\ UNCHANGED out /\ chan' = w /\ got' = free
           /\ adminq' = IF IsInstant(m) THEN q ELSE [q EXCEPT ![a] = Append(@, m)]
  <2> DEFINE x == <<"queue", a, a, m>>
             v == [q EXCEPT ![a] = Append(@, m)]
             c == Mail(w, v, out, free) \subseteq
                    Mail(w, q, out, free) \cup {<<"queue", a, Dest(m, a), Base(m)>>}
  <2>1. Dest(m, a) = a
    BY <1>2 DEF Dest
  <2>2. c
    BY <1>2, QueueAdds, Zenon
  <2>3. Posted(x, b, m)
    BY <1>4 DEF Posted
  <2>4. MailNow' = Mail(w, q, out, free) \/ MailNow' = Mail(w, v, out, free)
    BY <1>4 DEF MailNow
  <2>5. <<"queue", a, Dest(m, a), Base(m)>> = x
    BY <1>2, <2>1
  <2> HIDE DEF x, v
  <2> QED
    BY <1>1, <2>2, <2>3, <2>4, <2>5
<1>5. CASE /\ b # a /\ chan' = [w EXCEPT ![<<a, b>>] = Append(@, m)]
           /\ got' = free /\ adminq' = q /\ UNCHANGED out
  <2> DEFINE l == <<a, b>>
             x == <<"chan", l, b, m>>
             v == [w EXCEPT ![l] = Append(@, m)]
             c == Mail(v, q, out, free) \subseteq
                    Mail(w, q, out, free) \cup {<<"chan", l, Dest(m, l[2]), Base(m)>>}
  <2>1. l \in Node \X Node /\ l[2] = b /\ Dest(m, l[2]) = b
    BY <1>2 DEF Dest
  <2>2. Posted(x, b, m)
    BY DEF Posted
  <2>3. MailNow' = Mail(v, q, out, free)
    BY <1>5 DEF MailNow
  <2> HIDE DEF l
  <2>4. c
    BY <1>2, <2>1, ChanAdds, Zenon
  <2>5. <<"chan", l, Dest(m, l[2]), Base(m)>> = x
    BY <1>2, <2>1
  <2> HIDE DEF x, v
  <2> QED
    BY <1>1, <2>2, <2>3, <2>4, <2>5
<1>6. CASE b # a /\ Resolve(th, b, "agent", w) /\ adminq' = q
            /\ out' = [out EXCEPT ![th] = [to |-> b, msg |-> m, next |-> next]]
  <2> DEFINE r == [to |-> b, msg |-> m, next |-> next]
  <2>1. pc' = [pc EXCEPT ![th] = "agent"]
    BY <1>6 DEF Resolve
  <2>2. out' = [out EXCEPT ![th] = r] /\ r.to = b /\ r.msg = m
    BY <1>6
  <2> HIDE DEF r
  <2>3. \A e \in MailNow' : e \in Before(w, q, th) \/ e = <<"out", th, r.to, r.msg>> \/ Asks(e, th, b)
    BY <1>6, <2>2, ResolveNews
  <2> QED
    BY <2>1, <2>2, <2>3 DEF Posted
<1> QED
  BY <1>3, <1>4, <1>5, <1>6 DEF Send, free

-----------------------------------------------------------------------------
(* Steps that are no part of a launch.                                     *)

LEMMA OrderWaits ==
  ASSUME MailInv
  PROVE  /\ MasterT \in Thread /\ MasterT \notin ClientThread
         /\ \A m \in Said : m \in Plain
         /\ \A m \in Orders : m.th \in ClientThread /\ m.th \in Thread /\ pc[m.th] \in {"reply", "agent"}
                              /\ m \in Launches
         /\ Launching => launch.client \in ClientThread /\ pc[launch.client] = "reply"
<1>1. /\ MailShape /\ Control /\ Work /\ FitInv /\ WaitInv
  BY Apart
<1>2. MasterT \in Thread /\ MasterT \notin ClientThread /\ ClientThread \subseteq Thread
  BY Threads, Sorts, ConstantsAssumption DEF MasterT, ClientThread, ConstantsAssumption
<1>3. \A m \in Said : m \in Plain
  BY <1>1, MailTyped DEF Said, MailNow, MailShape
<1>4. ASSUME NEW m \in Orders
      PROVE  m.th \in ClientThread /\ pc[m.th] \in {"reply", "agent"} /\ m \in Launches
  <2>1. PICK e \in MailNow : e[4] = m
    BY DEF Orders, Said
  <2>2. m \in Plain /\ m.kind = "launch"
    BY <1>3 DEF Orders
  <2>3. m \in Launches
    BY <2>2 DEF Plain, Nothing, Launches
  <2>4. m.th \in ClientThread
    BY <2>3 DEF Launches
  <2>5. CASE e[1] = "out" /\ e[2] = m.th
    <3>1. m = out[m.th].msg
      BY <2>1, <2>5, OutEntry DEF MailNow
    <3>2. out[m.th] # NoOut
      BY <2>2, <3>1 DEF NoOut, Nothing
    <3> QED
      BY <1>1, <1>2, <2>3, <2>4, <3>2 DEF Control, ControlOf
  <2>6. CASE ~(e[1] = "out" /\ e[2] = m.th)
    <3>1. m.kind \in Carriers /\ m.kind \in ClientKinds
      BY <2>2 DEF Carriers, ClientKinds
    <3>2. Fit(m, pc[m.th])
      BY <1>1, <2>1, <2>6, <3>1, Zenon DEF FitInv, Noted
    <3> QED
      BY <2>3, <2>4, <3>1, <3>2 DEF Fit
  <2> QED
    BY <2>3, <2>4, <2>5, <2>6
<1>5. ASSUME Launching PROVE launch.client \in ClientThread /\ pc[launch.client] = "reply"
  <2>1. launch.client \in ClientThread
    BY <1>1, <1>5 DEF Work
  <2>2. "launch" \in KeptNow(launch.client)
    BY DEF Kept, KeptNow
  <2> QED
    BY <1>1, <1>2, <2>1, <2>2 DEF WaitInv, WaitOf
<1> QED
  BY <1>2, <1>3, <1>4, <1>5

\* Nothing is said that belongs to a launch, and was not said before.
NoNews ==
  \A m \in Said' :
    /\ m.kind \in {"launch", "make"} => m \in Said
    /\ m.kind = "reply" /\ m.th = MasterT /\ pc'[MasterT] = "made" => m \in Said /\ pc[MasterT] = "made"
\* The clients that launch something go on to do so.
SameCalls ==
  \A t \in ClientThread : call'[t] = call[t] \/ (pc[t] \in {"idle", "task"} /\ call'[t].op # "launch")
\* The master's thread works on what it worked on.
SameWork == /\ Launching' = Launching /\ (pc'[MasterT] = "launch" => pc[MasterT] = "launch")
            /\ out'[MasterT] = out[MasterT] \/ out'[MasterT].next # "made"

LEMMA SameLaunches ==
  ASSUME MailInv, LaunchesInv, NoNews, SameCalls, SameWork,
         UNCHANGED <<mode, given, members, ctx, launch>>, \A n \in Node : load'[n] \subseteq load[n]
  PROVE  LaunchesInv'
<1>1. ContextInv /\ OrderInv /\ LaunchInv /\ MakeInv /\ WholeInv
  BY DEF LaunchesInv
<1>2. \A m \in Orders : call'[m.th] = call[m.th]
  BY OrderWaits DEF SameCalls
<1>3. Launching => call'[launch.client] = call[launch.client]
  BY OrderWaits DEF SameCalls
<1>4. \A m \in Orders' : m \in Orders
  BY DEF NoNews, Orders
<1>5. ContextInv'
  <2>1. ASSUME NEW c \in Client, call'[ClientT(c)].op = "launch" PROVE call'[ClientT(c)] = call[ClientT(c)]
    BY <2>1 DEF SameCalls, ClientThread
  <2> QED
    BY <1>1, <2>1 DEF ContextInv
<1>6. OrderInv'
  <2>1. \A m \in Orders' : OrderOk(m)'
    BY <1>1, <1>2, <1>4 DEF OrderInv, OrderOk, Untouched
  <2> QED
    BY <1>1, <1>4, <2>1 DEF OrderInv
<1>7. LaunchInv'
  <2>1. \A y : Reached(y)' = Reached(y)
    BY DEF Reached, Done, Undone, Made, Group
  <2> QED
    BY <1>1, <1>3, <1>4, <2>1 DEF LaunchInv, SameWork
<1>8. MakeInv'
  BY <1>1 DEF MakeInv, NoNews, SameWork, Done, Undone, Made, Group
<1>9. WholeInv'
  BY <1>1 DEF WholeInv, Whole, SameWork, Group
<1> QED
  BY <1>5, <1>6, <1>7, <1>8, <1>9 DEF LaunchesInv

\* A thread sends something that is no part of a launch, or was said before.
LEMMA SendQuiet ==
  ASSUME MailInv, NEW th \in Thread, AgentOf(th) \in Node, NEW w, NEW q, Less(w, q),
         NEW b \in Node, NEW m \in Plain, NEW next, Send(th, b, m, next, q, w),
         m.kind \in {"launch", "make"} => m \in Said,
         m.kind = "reply" /\ m.th = MasterT => m \in Said \/ pc[MasterT] # "made",
         th = MasterT => pc[th] \notin {"launch", "made"} /\ out[th] = NoOut /\ next \in {"idle", "found"}
  PROVE  NoNews /\ SameWork
<1>1. MailShape /\ TableShape /\ NetShape /\ pc \in [Thread -> Pcs] /\ MasterT \in Thread
  BY Apart, OrderWaits
<1>2. w \in Links /\ q \in Queues /\ Mail(w, q, out, got) \subseteq MailNow
  BY DEF Less
<1>3. \A e \in MailNow' : \/ e \in Before(w, q, th) \/ Posted(e, b, m)
                          \/ Asks(e, th, b) /\ pc' = [pc EXCEPT ![th] = "agent"]
  BY <1>1, <1>2, SendNews
<1>4. \A e : e \in Before(w, q, th) => e \in MailNow
  BY <1>1, <1>2, LetsGo
<1>5. \E p : /\ pc' = [pc EXCEPT ![th] = p] /\ p \in {next, "recursing", "agent"}
             /\ out' = out \/ out' = [out EXCEPT ![th] = [to |-> b, msg |-> m, next |-> next]]
  BY DEF Send, Resolve
<1>6. th = MasterT => /\ pc'[MasterT] \notin {"launch", "made"} /\ ~Launching /\ ~Launching'
                      /\ out'[MasterT].next # "made"
  <2> SUFFICES ASSUME th = MasterT
               PROVE  /\ pc'[MasterT] \notin {"launch", "made"} /\ ~Launching /\ ~Launching'
                      /\ out'[MasterT].next # "made"
    OBVIOUS
  <2>1. pc'[th] \notin {"launch", "made"}
    BY <1>1, <1>5
  <2>2. out'[th].next \in {"idle", "found"} /\ out[th].next = "idle"
    BY <1>1, <1>5 DEF NoOut, MailShape, Outs
  <2> QED
    BY <2>1, <2>2 DEF Launching, MasterT
<1>7. th # MasterT => pc'[MasterT] = pc[MasterT] /\ out'[MasterT] = out[MasterT]
  BY <1>1, <1>5 DEF MailShape, Outs
<1>8. SameWork
  BY <1>6, <1>7 DEF SameWork, Launching, MasterT
<1>9. NoNews
  <2> SUFFICES ASSUME NEW e \in MailNow'
               PROVE  /\ e[4].kind \in {"launch", "make"} => e[4] \in Said
                      /\ e[4].kind = "reply" /\ e[4].th = MasterT /\ pc'[MasterT] = "made"
                           => e[4] \in Said /\ pc[MasterT] = "made"
    BY DEF NoNews, Said
  <2>1. CASE e \in Before(w, q, th)
    BY <1>4, <1>6, <1>7, <2>1 DEF Said
  <2>2. CASE Posted(e, b, m)
    <3>1. e[4] = m
      BY <2>2 DEF Posted
    <3> QED
      BY <1>6, <1>7, <3>1
  <2>3. CASE Asks(e, th, b)
    <3>1. e[4].kind \in {"resolve", "reply"} /\ e[4].th = th
      BY <2>3 DEF Asks, ResolveMsg, ReplyMsg
    <3> QED
      BY <1>6, <3>1
  <2> QED
    BY <1>3, <2>1, <2>2, <2>3
<1> QED
  BY <1>8, <1>9

\* No message goes out but such as has nothing to do with a launch.
LEMMA LittleNews ==
  ASSUME NEW Y, MailNow' \subseteq MailNow \cup Y, \A y \in Y : y[4].kind \notin {"launch", "make", "reply"},
         pc'[MasterT] = "made" => pc[MasterT] = "made"
  PROVE  NoNews
<1> SUFFICES ASSUME NEW e \in MailNow'
             PROVE  /\ e[4].kind \in {"launch", "make"} => e[4] \in Said
                    /\ e[4].kind = "reply" /\ e[4].th = MasterT /\ pc'[MasterT] = "made"
                         => e[4] \in Said /\ pc[MasterT] = "made"
  BY DEF NoNews, Said
<1> QED
  BY DEF Said

LEMMA CallsGoOn ==
  ASSUME MailInv, NEW th \in Thread, NEW v, call' = [call EXCEPT ![th] = v],
         th \in ClientThread => pc[th] \in {"idle", "task"} /\ v.op # "launch"
  PROVE  SameCalls
<1>1. call \in [Thread -> [op : Ops, id : Id \cup {NoId}]] /\ ClientThread \subseteq Thread
  BY Apart, Threads DEF CallShape
<1> QED
  BY <1>1 DEF SameCalls

\* What a step that is no part of a launch leaves alone.
LaunchSame == /\ UNCHANGED <<mode, given, members, ctx, launch>>
              /\ \A n \in Node : load'[n] \subseteq load[n]

LEMMA SendLeaves ==
  ASSUME MailInv, LaunchesInv, LaunchSame, SameCalls,
         NEW th \in Thread, AgentOf(th) \in Node, NEW w, NEW q, Less(w, q),
         NEW b \in Node, NEW m \in Plain, NEW next, Send(th, b, m, next, q, w),
         m.kind \in {"launch", "make"} => m \in Said,
         m.kind = "reply" /\ m.th = MasterT => m \in Said \/ pc[MasterT] # "made",
         th = MasterT => pc[th] \notin {"launch", "made"} /\ out[th] = NoOut /\ next \in {"idle", "found"}
  PROVE  LaunchesInv'
<1>1. NoNews /\ SameWork
  BY SendQuiet
<1> QED
  BY <1>1, SameLaunches DEF LaunchSame

\* A client asks for something that is no launch.
LEMMA CallLeaves ==
  ASSUME MailInv, LaunchesInv, LaunchSame, NEW c \in Client, pc[ClientT(c)] = "idle",
         NEW v, call' = [call EXCEPT ![ClientT(c)] = v], v.op # "launch",
         NEW m \in Plain, m.kind \in ClientKinds \ {"launch"},
         Send(ClientT(c), Master, m, "reply", adminq, chan)
  PROVE  LaunchesInv'
<1> DEFINE th == ClientT(c)
<1>1. th \in Thread /\ AgentOf(th) \in Node /\ th # MasterT /\ Master \in Node
  BY Threads, Sorts DEF AgentOf, MasterT
<1>2. SameCalls
  BY <1>1, CallsGoOn
<1>3. Less(chan, adminq)
  BY LessNow, Apart
<1>4. m.kind \notin {"launch", "make", "reply"}
  BY DEF ClientKinds
<1> HIDE DEF th
<1> QED
  BY <1>1, <1>2, <1>3, <1>4, SendLeaves DEF th

LEMMA CallSizeLeaves ==
  ASSUME MailInv, LaunchesInv, NEW c \in Client, CallSize(c)
  PROVE  LaunchesInv'
<1> DEFINE th == ClientT(c)
           m == SizeMsg(th)
           v == [op |-> "size", id |-> NoId]
<1>1. /\ pc[th] = "idle" /\ Send(th, Master, m, "reply", adminq, chan)
      /\ call' = [call EXCEPT ![ClientT(c)] = v] /\ LaunchSame /\ v.op # "launch"
  BY DEF CallSize, Calling, Idle, ProcSame, LaunchSame, tableVars, procVars, workVars
<1>2. m \in Plain /\ m.kind \in ClientKinds \ {"launch"}
  BY MessagesMade, Threads DEF SizeMsg, ClientKinds
<1> HIDE DEF m, v
<1> QED
  BY <1>1, <1>2, CallLeaves

LEMMA CallFindLeaves ==
  ASSUME MailInv, LaunchesInv, NEW c \in Client, CallFind(c)
  PROVE  LaunchesInv'
<1> DEFINE th == ClientT(c)
           m == FindMsg(FALSE, th)
           v == [op |-> "find", id |-> NoId]
<1>1. /\ pc[th] = "idle" /\ Send(th, Master, m, "reply", adminq, chan)
      /\ call' = [call EXCEPT ![ClientT(c)] = v] /\ LaunchSame /\ v.op # "launch"
  BY DEF CallFind, Calling, Idle, ProcSame, LaunchSame, tableVars, procVars, workVars
<1>2. m \in Plain /\ m.kind \in ClientKinds \ {"launch"}
  BY MessagesMade, Threads DEF FindMsg, ClientKinds
<1> HIDE DEF m, v
<1> QED
  BY <1>1, <1>2, CallLeaves

\* A thread asks for the agent of an id, or knows it.
LEMMA ResolveQuiet ==
  ASSUME MailInv, NEW th \in Thread, AgentOf(th) \in Node, out[th] = NoOut, NEW w, NEW q, Less(w, q),
         NEW id \in Id \cup Node, NEW next \in {"task", "agent"}, Resolve(th, id, next, w), adminq' = q,
         NEW r, out' = [out EXCEPT ![th] = r], r.next = "idle", r.msg.kind = "none",
         pc[th] \notin {"launch", "made"}
  PROVE  NoNews /\ SameWork
<1>1. MailShape /\ TableShape /\ NetShape /\ pc \in [Thread -> Pcs] /\ MasterT \in Thread /\ out \in Outs
  BY Apart, OrderWaits DEF MailShape
<1>2. w \in Links /\ Mail(w, q, out, got) \subseteq MailNow
  BY DEF Less
<1>3. \A e \in MailNow' : e \in Before(w, q, th) \/ e = <<"out", th, r.to, r.msg>> \/ Asks(e, th, id)
  BY <1>1, <1>2, ResolveNews
<1>4. \A e : e \in Before(w, q, th) => e \in MailNow
  BY <1>1, <1>2, LetsGo
<1>5. pc' = [pc EXCEPT ![th] = next]
  BY DEF Resolve
<1>6. th = MasterT => pc'[MasterT] \notin {"launch", "made"} /\ out'[MasterT] = r /\ out[MasterT].next = "idle"
  BY <1>1, <1>5 DEF NoOut, Outs
<1>7. th # MasterT => pc'[MasterT] = pc[MasterT] /\ out'[MasterT] = out[MasterT]
  BY <1>1, <1>5 DEF Outs
<1>8. SameWork
  BY <1>6, <1>7 DEF SameWork, Launching, MasterT
<1>9. NoNews
  <2> SUFFICES ASSUME NEW e \in MailNow'
               PROVE  /\ e[4].kind \in {"launch", "make"} => e[4] \in Said
                      /\ e[4].kind = "reply" /\ e[4].th = MasterT /\ pc'[MasterT] = "made"
                           => e[4] \in Said /\ pc[MasterT] = "made"
    BY DEF NoNews, Said
  <2>1. CASE e \in Before(w, q, th)
    BY <1>4, <1>6, <1>7, <2>1 DEF Said
  <2>2. CASE e = <<"out", th, r.to, r.msg>>
    BY <2>2
  <2>3. CASE Asks(e, th, id)
    <3>1. e[4].kind \in {"resolve", "reply"} /\ e[4].th = th
      BY <2>3 DEF Asks, ResolveMsg, ReplyMsg
    <3> QED
      BY <1>6, <3>1
  <2> QED
    BY <1>3, <2>1, <2>2, <2>3
<1> QED
  BY <1>8, <1>9

LEMMA ResolveLeaves ==
  ASSUME MailInv, LaunchesInv, LaunchSame, SameCalls,
         NEW th \in Thread, AgentOf(th) \in Node, pc[th] = "idle", NEW w, NEW q, Less(w, q),
         NEW id \in Id \cup Node, Resolve(th, id, "task", w), adminq' = q, UNCHANGED out
  PROVE  LaunchesInv'
<1> DEFINE next == "task"
<1>1. out[th] = NoOut /\ out' = [out EXCEPT ![th] = NoOut]
  BY IdleIs, Apart DEF MailShape, Outs
<1>2. NoOut.next = "idle" /\ NoOut.msg.kind = "none" /\ next \in {"task", "agent"} /\ Resolve(th, id, next, w)
  BY DEF NoOut, Nothing
<1> HIDE DEF next
<1>3. NoNews /\ SameWork
  BY <1>1, <1>2, ResolveQuiet
<1> QED
  BY <1>3, SameLaunches DEF LaunchSame

LEMMA CallTaskLeaves ==
  ASSUME MailInv, LaunchesInv, NEW c \in Client, NEW op \in {"kill", "wait", "alive", "send"}, NEW id \in Id,
         CallTask(c, op, id)
  PROVE  LaunchesInv'
<1> DEFINE th == ClientT(c)
           v == [op |-> op, id |-> id]
<1>1. /\ pc[th] = "idle" /\ Resolve(th, id, "task", chan) /\ UNCHANGED <<adminq, out>>
      /\ call' = [call EXCEPT ![th] = v] /\ LaunchSame
  BY DEF CallTask, Calling, Idle, ProcSame, LaunchSame, tableVars, procVars, workVars
<1>2. th \in Thread /\ AgentOf(th) \in Node /\ th # MasterT /\ v.op # "launch"
  BY Threads, Sorts DEF AgentOf, MasterT
<1> HIDE DEF th, v
<1>3. SameCalls
  BY <1>1, <1>2, CallsGoOn
<1>4. Less(chan, adminq)
  BY LessNow, Apart
<1> QED
  BY <1>1, <1>2, <1>3, <1>4, ResolveLeaves

LEMMA ResolvedLeaves ==
  ASSUME MailInv, LaunchesInv, NEW th \in Thread, Resolved(th)
  PROVE  LaunchesInv'
<1> DEFINE op == call[th].op
           id == call[th].id
           n == got[th][1]
           ended == /\ pc' = [pc EXCEPT ![th] = "idle"] /\ got' = [got EXCEPT ![th] = NoReply]
                    /\ UNCHANGED <<out, chan, adminq>>
           sent == op = "send" /\ Send(th, n, DataMsg(id), "idle", adminq, chan)
           asked == op # "send" /\ Send(th, n, CallMsg(op, id, th), "reply", adminq, chan)
<1>1. /\ pc[th] = "task" /\ got[th] # NoReply /\ LaunchSame
      /\ ended \/ (n # NoNode /\ (sent \/ asked))
      /\ call' = call \/ call' = [call EXCEPT ![th] = NoCall]
  BY DEF Resolved, ProcSame, LaunchSame, tableVars, procVars, workVars
<1>2. /\ id \in Id /\ op \in {"kill", "wait", "alive", "send"} /\ (th \in ClientThread \/ op = "send")
      /\ out[th] = NoOut /\ "task" \in PcsOf(th)
  BY <1>1, Apart DEF Control, ControlOf
<1>3. th # MasterT /\ AgentOf(th) \in Node /\ n \in Node \cup {NoNode}
  <2>1. "task" \notin PcsOf(MasterT)
    BY Sorts DEF PcsOf, MasterT
  <2> QED
    BY <1>1, <1>2, <2>1, Apart, WhoWaits, AnswerCame
<1>4. SameCalls
  <2>1. CASE call' = call
    BY <2>1 DEF SameCalls
  <2>2. CASE call' = [call EXCEPT ![th] = NoCall]
    BY <1>1, <2>2, CallsGoOn DEF NoCall
  <2> QED
    BY <1>1, <2>1, <2>2
<1>5. Less(chan, adminq)
  BY LessNow, Apart
<1> HIDE DEF op, id, n
<1>6. CASE ended
  <2>1. MailNow' = Before(chan, adminq, th)
    BY <1>6 DEF MailNow, Before
  <2> DEFINE none == {}
  <2>2. MailNow' \subseteq MailNow \cup none /\ \A y \in none : y[4].kind = "none"
    BY <2>1, LetsGo, Apart DEF MailNow
  <2>3. pc'[MasterT] = pc[MasterT] /\ out' = out
    BY <1>3, <1>6, OrderWaits, Apart
  <2> HIDE DEF none
  <2>4. NoNews
    BY <2>2, <2>3, LittleNews
  <2>5. SameWork
    BY <2>3 DEF SameWork, Launching, MasterT
  <2> QED
    BY <1>1, <1>4, <2>4, <2>5, SameLaunches DEF LaunchSame
<1>7. CASE n # NoNode /\ sent
  <2>1. DataMsg(id) \in Plain /\ DataMsg(id).kind = "data"
    BY <1>2, MessagesMade DEF DataMsg
  <2> QED
    BY <1>1, <1>3, <1>4, <1>5, <1>7, <2>1, SendLeaves
<1>8. CASE n # NoNode /\ asked
  <2> DEFINE m == CallMsg(op, id, th)
  <2>1. op \in {"kill", "wait", "alive"} /\ th \in ClientThread
    BY <1>2, <1>8
  <2>2. m \in Plain /\ m.kind = op
    BY <1>2, <2>1, MessagesMade DEF CallMsg
  <2>3. m.kind \notin {"launch", "make", "reply"}
    BY <2>1, <2>2
  <2> HIDE DEF m
  <2> QED
    BY <1>1, <1>3, <1>4, <1>5, <1>8, <2>2, <2>3, SendLeaves DEF m
<1> QED
  BY <1>1, <1>6, <1>7, <1>8

LEMMA NewPeerLeaves ==
  ASSUME MailInv, LaunchesInv, NEW th \in Thread, NewPeer(th)
  PROVE  LaunchesInv'
<1> DEFINE p == out[th].next
           none == <<"out", th, NoNode, Nothing>>
<1>1. /\ pc[th] = "agent" /\ got[th] # NoReply /\ pc' = [pc EXCEPT ![th] = p]
      /\ out' = [out EXCEPT ![th] = NoOut] /\ call' = call /\ LaunchSame
  BY DEF NewPeer, LaunchSame, tableVars, procVars, workVars
<1>2. out[th].to \in Node /\ p \in NextOf(th) /\ AgentOf(th) \in Node
  BY <1>1, Apart, WhoWaits DEF Control, ControlOf
<1>3. PICK l : PeerSent(th, <<"chan", l, out[th].to, out[th].msg>>)
  BY <1>1, <1>2, PeerMail
<1>4. PICK y : /\ MailNow' \subseteq PeerFree(th) \cup {<<"chan", l, out[th].to, out[th].msg>>, y}
               /\ y[4].kind \notin Carriers \cup MasterKinds
  BY <1>3 DEF PeerSent, Telling
<1>5. /\ \A e : e \in PeerFree(th) => e \in MailNow \/ e = none
      /\ \A e : e \in PeerFree(th) /\ e[1] = "out" /\ e[2] = th => e = none
      /\ Own(PeerFree(th), th) = {}
  BY <1>1, PeerCalm
<1>6. out[th].msg \in Said
  <2> DEFINE z == <<"out", th, out[th].to, out[th].msg>>
  <2>1. z \in MailNow /\ z[4] = out[th].msg
    BY MailIff DEF MailNow
  <2> HIDE DEF z
  <2> QED
    BY <2>1 DEF Said
<1>7. none[4].kind = "none"
  BY DEF Nothing
<1> HIDE DEF none
<1>8. \A m \in Said' : m \in Said \/ m.kind \notin Carriers
  BY <1>4, <1>5, <1>6, <1>7 DEF Said, Carriers, ClientKinds
<1>9. MasterT \in Thread /\ pc \in [Thread -> Pcs] /\ out \in Outs
  BY Apart, OrderWaits DEF MailShape
<1>10. "launch" \notin NextOf(MasterT) /\ NoOut.next = "idle"
  BY Sorts DEF NextOf, MasterT, NoOut
<1>11. SameWork
  <2>1. CASE th = MasterT
    BY <1>1, <1>2, <1>9, <1>10, <2>1 DEF SameWork, Launching, MasterT, Outs
  <2>2. CASE th # MasterT
    BY <1>1, <1>9, <2>2 DEF SameWork, Launching, MasterT, Outs
  <2> QED
    BY <2>1, <2>2
<1>12. ASSUME NEW m \in Said', m.kind = "reply", m.th = MasterT, pc'[MasterT] = "made"
       PROVE  m \in Said /\ pc[MasterT] = "made"
  <2>1. m \in Said /\ m.kind \in Carriers
    BY <1>8, <1>12 DEF Carriers
  <2>2. CASE th # MasterT
    BY <1>1, <1>9, <1>12, <2>1, <2>2
  <2>3. CASE th = MasterT
    <3>1. p = "made"
      BY <1>1, <1>9, <1>12, <2>3
    <3>2. out[th].msg.kind = "make"
      BY <2>3, <3>1 DEF LaunchesInv, MakeInv
    <3>3. PICK e \in MailNow' : e[4] = m
      BY DEF Said
    <3>4. e \in PeerFree(th)
      BY <1>4, <1>12, <2>1, <3>2, <3>3
    <3>5. Carries(e[4], th)
      BY <1>12, <2>1, <2>3, <3>3 DEF Carries
    <3>6. e[1] = "out" /\ e[2] = th
      BY <1>5, <3>4, <3>5 DEF Own
    <3> QED
      BY <1>5, <1>7, <1>12, <3>3, <3>4, <3>6
  <2> QED
    BY <2>2, <2>3
<1>13. NoNews
  BY <1>8, <1>12 DEF NoNews, Carriers, ClientKinds
<1>14. SameCalls
  BY <1>1 DEF SameCalls
<1> QED
  BY <1>1, <1>11, <1>13, <1>14, SameLaunches DEF LaunchSame

LEMMA ProxyReplyLeaves ==
  ASSUME MailInv, LaunchesInv, NEW c \in Client, ProxyReply(c)
  PROVE  LaunchesInv'
<1> DEFINE th == ProxyT(c)
           m == ReplyMsg(ClientT(c), 0)
<1>1. /\ pc[th] = "waiting" /\ Send(th, At[c], m, "idle", adminq, chan)
      /\ call' = [call EXCEPT ![th] = NoCall] /\ LaunchSame
  BY DEF ProxyReply, LaunchSame, tableVars, procVars, workVars
<1>2. th \in Thread /\ th \notin ClientThread /\ th # MasterT /\ At[c] \in Node
  BY Threads, Sorts DEF MasterT, ClientThread
<1>3. m \in Plain /\ m.kind = "reply" /\ m.th # MasterT
  <2>1. <<0>> \in Values
    BY DEF Values
  <2> QED
    BY <2>1, MessagesMade, Threads, Sorts DEF ReplyMsg, MasterT
<1>4. AgentOf(th) \in Node
  BY <1>1, <1>2, Apart, WhoWaits
<1> HIDE DEF th, m
<1>5. SameCalls
  BY <1>1, <1>2, CallsGoOn
<1>6. Less(chan, adminq)
  BY LessNow, Apart
<1> QED
  BY <1>1, <1>2, <1>3, <1>4, <1>5, <1>6, SendLeaves

\* The admin thread replies to what it took.
LEMMA AnswerLeaves ==
  ASSUME MailInv, LaunchesInv, LaunchSame, NEW a \in Node, NEW kind \in ClientKinds \cup {"subfind"},
         Runs(a, kind), NEW v, <<v>> \in Values, ReplyFrom(a, Head(adminq[a]).th, v), UNCHANGED call
  PROVE  LaunchesInv'
<1> DEFINE m == Head(adminq[a])
           q == RestOf(a)
           x == <<"queue", a, Dest(m, a), Base(m)>>
           th == AdminT(a)
           r == ReplyMsg(m.th, v)
<1>1. kind # "routed" /\ kind \in Carriers
  BY DEF Carriers, ClientKinds
<1>2. m \in Plain /\ Taken(chan, q, x) /\ Base(m) = m /\ m.kind = kind /\ pc[th] = "idle"
  BY <1>1, AdminTakes
<1>3. x[1] = "queue" /\ x[4] = m
  BY <1>2
<1>4. AgentOf(th) \in Node /\ th \in Thread /\ Send(th, AgentOf(m.th), r, "idle", q, chan)
  BY AdminThread DEF ReplyFrom
<1> HIDE DEF m, q, x, th
<1>5. m.th \in Thread /\ pc[m.th] \in Waits /\ Fit(m, pc[m.th])
  BY <1>1, <1>2, <1>3, TakenFacts
<1>6. pc[m.th] # "made"
  BY <1>2, <1>5 DEF Fit, ClientKinds
<1>7. AgentOf(m.th) \in Node
  BY <1>5, Apart, WhoWaits DEF Waits
<1>8. r \in Plain /\ r.kind = "reply" /\ r.th = m.th
  BY <1>5, MessagesMade DEF ReplyMsg
<1>9. Less(chan, q)
  BY <1>2 DEF Taken
<1>10. out[th] = NoOut
  BY <1>2, <1>4, <1>9, IdleIs
<1>11. SameCalls
  BY DEF SameCalls
<1> HIDE DEF r
<1> QED
  BY <1>2, <1>4, <1>6, <1>7, <1>8, <1>9, <1>10, <1>11, SendLeaves

LEMMA AdminKillLeaves ==
  ASSUME MailInv, LaunchesInv, NEW a \in Node, AdminKill(a)
  PROVE  LaunchesInv'
<1>1. Runs(a, "kill") /\ ReplyFrom(a, Head(adminq[a]).th, 0) /\ UNCHANGED call /\ LaunchSame
  BY DEF AdminKill, LaunchSame, tableVars, workVars
<1>2. <<0>> \in Values /\ "kill" \in ClientKinds \cup {"subfind"}
  BY DEF Values, ClientKinds
<1> QED
  BY <1>1, <1>2, AnswerLeaves

LEMMA AdminAliveLeaves ==
  ASSUME MailInv, LaunchesInv, NEW a \in Node, AdminAlive(a)
  PROVE  LaunchesInv'
<1> DEFINE v == IF Head(adminq[a]).id \in ps(a) THEN 0 ELSE 1
<1>1. Runs(a, "alive") /\ ReplyFrom(a, Head(adminq[a]).th, v) /\ UNCHANGED call /\ LaunchSame
  BY DEF AdminAlive, ProcSame, LaunchSame, tableVars, procVars, workVars
<1>2. <<v>> \in Values /\ "alive" \in ClientKinds \cup {"subfind"}
  BY DEF Values, ClientKinds
<1> QED
  BY <1>1, <1>2, AnswerLeaves

LEMMA AdminSizeLeaves ==
  ASSUME MailInv, LaunchesInv, NEW a \in Node, AdminSize(a)
  PROVE  LaunchesInv'
<1>1. Runs(a, "size") /\ ReplyFrom(a, Head(adminq[a]).th, Cpus(nodes)) /\ UNCHANGED call /\ LaunchSame
  BY DEF AdminSize, ProcSame, LaunchSame, tableVars, procVars, workVars
<1>2. nodes \in SUBSET Node
  BY Apart DEF TableShape
<1>3. <<Cpus(nodes)>> \in Values /\ "size" \in ClientKinds \cup {"subfind"}
  BY <1>2 DEF Values, ClientKinds
<1> QED
  BY <1>1, <1>3, AnswerLeaves

LEMMA AdminSubFindLeaves ==
  ASSUME MailInv, LaunchesInv, NEW a \in Node, AdminSubFind(a)
  PROVE  LaunchesInv'
<1>1. Runs(a, "subfind") /\ ReplyFrom(a, Head(adminq[a]).th, Serving(a)) /\ UNCHANGED call /\ LaunchSame
  BY DEF AdminSubFind, ProcSame, LaunchSame, tableVars, procVars, workVars
<1>2. Serving(a) \in SUBSET Id
  BY DEF Serving, ps
<1>3. <<Serving(a)>> \in Values /\ "subfind" \in ClientKinds \cup {"subfind"}
  BY <1>2 DEF Values, Parts
<1> QED
  BY <1>1, <1>3, AnswerLeaves

LEMMA AdminContextLeaves ==
  ASSUME MailInv, LaunchesInv, NEW a \in Node, AdminContext(a)
  PROVE  LaunchesInv'
<1>1. /\ Runs(a, "reg") \/ Runs(a, "unreg")
      /\ ReplyFrom(a, Head(adminq[a]).th, 0) /\ UNCHANGED call /\ LaunchSame
  BY DEF AdminContext, LaunchSame, procVars, workVars
<1>2. <<0>> \in Values /\ "reg" \in ClientKinds \cup {"subfind"} /\ "unreg" \in ClientKinds \cup {"subfind"}
  BY DEF Values, ClientKinds
<1> QED
  BY <1>1, <1>2, AnswerLeaves

\* Messages go, and no thread goes on but perhaps one that is no part of a launch.
LEMMA FewerLeaves ==
  ASSUME MailInv, LaunchesInv, LaunchSame, SameCalls, NEW w, NEW q, Less(w, q), chan' = w, adminq' = q,
         UNCHANGED <<out, got>>, pc'[MasterT] = "made" => pc[MasterT] = "made", SameWork
  PROVE  LaunchesInv'
<1> DEFINE none == {}
<1>1. MailNow' \subseteq MailNow \cup none /\ \A y \in none : y[4].kind = "none"
  BY DEF Less, MailNow
<1> HIDE DEF none
<1>2. NoNews
  BY <1>1, LittleNews
<1> QED
  BY <1>2, SameLaunches DEF LaunchSame

LEMMA AdminWaitLeaves ==
  ASSUME MailInv, LaunchesInv, NEW a \in Node, AdminWait(a)
  PROVE  LaunchesInv'
<1> DEFINE m == Head(adminq[a])
           d == m.th[2]
           th == ProxyT(d)
           v == [op |-> "wait", id |-> m.id]
           x == <<"queue", a, Dest(m, a), Base(m)>>
<1>1. /\ Runs(a, "wait") /\ adminq' = RestOf(a) /\ call' = [call EXCEPT ![th] = v]
      /\ pc' = [pc EXCEPT ![th] = "waiting"] /\ UNCHANGED <<chan, out, got>> /\ LaunchSame
  BY DEF AdminWait, LaunchSame, tableVars, procVars, workVars
<1>2. Runs(a, "wait")
  BY <1>1
<1>3. m \in Plain /\ m.kind = "wait" /\ Taken(chan, RestOf(a), x)
  BY <1>2, AdminTakes
<1>4. m.th \in ClientThread
  BY <1>3, Kinds DEF ClientKinds
<1>5. PICK c \in Client : m.th = ClientT(c)
  BY <1>4 DEF ClientThread
<1>6. d = c
  BY <1>5, Sorts
<1>7. th \in Thread /\ th \notin ClientThread /\ th # MasterT
  BY <1>6, Threads, Sorts DEF MasterT, ClientThread
<1>8. Less(chan, RestOf(a))
  BY <1>3 DEF Taken
<1> HIDE DEF th, v
<1>9. SameCalls
  BY <1>1, <1>7, CallsGoOn
<1>10. pc'[MasterT] = pc[MasterT] /\ out' = out
  BY <1>1, <1>7, OrderWaits, Apart
<1>11. SameWork
  BY <1>10 DEF SameWork, Launching, MasterT
<1> QED
  BY <1>1, <1>8, <1>9, <1>10, <1>11, FewerLeaves

\* A message of no thread is dealt with, and nothing comes of it.
LEMMA TakenLeaves ==
  ASSUME MailInv, LaunchesInv, LaunchSame, UNCHANGED <<pc, call, out, got>>,
         NEW w, NEW q, Less(w, q), chan' = w, adminq' = q
  PROVE  LaunchesInv'
<1>1. SameCalls /\ SameWork
  BY DEF SameCalls, SameWork, Launching
<1> QED
  BY <1>1, FewerLeaves

LEMMA AdminDeadLeaves ==
  ASSUME MailInv, LaunchesInv, NEW a \in Node, AdminDead(a)
  PROVE  LaunchesInv'
<1>1. /\ Runs(a, "dead") /\ adminq' = RestOf(a) /\ UNCHANGED <<pc, call, out, got, chan>>
      /\ UNCHANGED <<mode, given, members, ctx, launch>>
      /\ load' = load \/ \E n \in nodes : \E id : load' = [load EXCEPT ![n] = @ \ {id}]
  BY DEF AdminDead, procVars, threadVars, workVars
<1>2. Runs(a, "dead")
  BY <1>1
<1>3. \E x : Taken(chan, RestOf(a), x)
  BY <1>2, AdminTakes
<1>4. Less(chan, RestOf(a))
  BY <1>3 DEF Taken
<1>5. LaunchSame
  BY <1>1, Apart DEF LaunchSame, TableShape
<1> QED
  BY <1>1, <1>4, <1>5, TakenLeaves

LEMMA AdminMakeLinkLeaves ==
  ASSUME MailInv, LaunchesInv, NEW a \in Node, AdminMakeLink(a)
  PROVE  LaunchesInv'
<1>1. /\ Runs(a, "makelink") /\ adminq' = RestOf(a) /\ UNCHANGED <<pc, call, out, got, chan>> /\ LaunchSame
  BY DEF AdminMakeLink, LaunchSame, tableVars, procVars, threadVars, workVars
<1>2. Runs(a, "makelink")
  BY <1>1
<1>3. \E x : Taken(chan, RestOf(a), x)
  BY <1>2, AdminTakes
<1>4. Less(chan, RestOf(a))
  BY <1>3 DEF Taken
<1> QED
  BY <1>1, <1>4, TakenLeaves

LEMMA AdminRemoveLinkLeaves ==
  ASSUME MailInv, LaunchesInv, NEW a \in Node, AdminRemoveLink(a)
  PROVE  LaunchesInv'
<1> DEFINE b == Head(adminq[a]).to
           w == [chan EXCEPT ![<<a, b>>] = <<>>]
<1>1. /\ Runs(a, "removelink") /\ adminq' = RestOf(a) /\ chan' = w /\ UNCHANGED <<pc, call, out, got>>
      /\ UNCHANGED <<mode, given, members, ctx, launch>>
      /\ load' = load \/ load' = [load EXCEPT ![b] = {}]
  BY DEF AdminRemoveLink, tableVars, procVars, threadVars, workVars
<1>2. Runs(a, "removelink")
  BY <1>1
<1>3. b \in Node
  <2>1. Head(adminq[a]).kind = "removelink" /\ (Head(adminq[a]).kind # "routed" => Head(adminq[a]) \in Plain)
    BY <1>2, AdminTakes, Zenon
  <2> QED
    BY <2>1, Kinds
<1>4. \E x : Taken(chan, RestOf(a), x)
  BY <1>2, AdminTakes
<1> HIDE DEF b
<1>5. Less(w, RestOf(a))
  BY <1>3, <1>4, LessFlushed DEF Taken
<1>6. LaunchSame
  BY <1>1, Apart DEF LaunchSame, TableShape
<1> HIDE DEF w
<1> QED
  BY <1>1, <1>5, <1>6, TakenLeaves

LEMMA AdminRoutedLeaves ==
  ASSUME MailInv, LaunchesInv, NEW a \in Node, AdminRouted(a)
  PROVE  LaunchesInv'
<1> DEFINE m == Head(adminq[a])
           x == <<"queue", a, Dest(m, a), Base(m)>>
           th == AdminT(a)
<1>1. /\ Runs(a, "routed") /\ Send(th, m.to, m.msg, "idle", RestOf(a), chan) /\ UNCHANGED call /\ LaunchSame
  BY DEF AdminRouted, ProcSame, LaunchSame, tableVars, procVars, workVars
<1>2. Runs(a, "routed")
  BY <1>1
<1>3. m \in Message /\ Taken(chan, RestOf(a), x) /\ m.kind = "routed" /\ pc[th] = "idle"
  BY <1>2, AdminTakes, Zenon
<1>4. AgentOf(th) \in Node /\ th \in Thread
  BY AdminThread
<1> HIDE DEF m, th
<1>5. x[1] = "queue" /\ x[4] = m.msg /\ m.to \in Node /\ m.msg \in Plain
  BY <1>3, MessageIs DEF Base
<1> HIDE DEF x
<1>6. Less(chan, RestOf(a)) /\ x \in MailNow
  BY <1>3 DEF Taken
<1>7. m.msg \in Said
  BY <1>5, <1>6 DEF Said
<1>8. out[th] = NoOut
  BY <1>3, <1>4, <1>6, IdleIs
<1>9. SameCalls
  BY <1>1 DEF SameCalls
<1> QED
  BY <1>1, <1>3, <1>4, <1>5, <1>6, <1>7, <1>8, <1>9, SendLeaves

LEMMA AdminBackLinkLeaves ==
  ASSUME MailInv, LaunchesInv, NEW a \in Node, AdminBackLink(a)
  PROVE  LaunchesInv'
<1> DEFINE m == Head(adminq[a])
           x == <<"queue", a, Dest(m, a), Base(m)>>
           th == AdminT(a)
           r == [to |-> m.to, msg |-> Nothing, next |-> "idle"]
           q == RestOf(a)
<1>1. /\ Runs(a, "backlink") /\ UNCHANGED call /\ LaunchSame
      /\ \/ Send(th, m.from, m, "idle", q, chan)
         \/ Resolve(th, m.to, "agent", chan) /\ out' = [out EXCEPT ![th] = r] /\ adminq' = q
  BY DEF AdminBackLink, ProcSame, LaunchSame, tableVars, procVars, workVars
<1>2. Runs(a, "backlink")
  BY <1>1
<1>3. m \in Plain /\ Taken(chan, q, x) /\ m.kind = "backlink" /\ pc[th] = "idle"
  BY <1>2, AdminTakes
<1>4. AgentOf(th) \in Node /\ th \in Thread
  BY AdminThread
<1> HIDE DEF m, th, q
<1>5. m.to \in Node /\ m.from \in Node
  BY <1>3, Kinds
<1> HIDE DEF x
<1>6. Less(chan, q)
  BY <1>3 DEF Taken
<1>7. out[th] = NoOut
  BY <1>3, <1>4, <1>6, IdleIs
<1>8. SameCalls
  BY <1>1 DEF SameCalls
<1>9. CASE Send(th, m.from, m, "idle", q, chan)
  BY <1>1, <1>3, <1>4, <1>5, <1>6, <1>7, <1>8, <1>9, SendLeaves
<1>10. CASE Resolve(th, m.to, "agent", chan) /\ out' = [out EXCEPT ![th] = r] /\ adminq' = q
  <2>1. r.next = "idle" /\ r.msg.kind = "none"
    BY DEF Nothing
  <2> HIDE DEF r
  <2>2. NoNews /\ SameWork
    BY <1>3, <1>4, <1>5, <1>6, <1>7, <1>10, <2>1, ResolveQuiet
  <2> QED
    BY <1>1, <1>8, <2>2, SameLaunches DEF LaunchSame
<1> QED
  BY <1>1, <1>9, <1>10

\* What else the receiving threads do.
LEMMA RecvQueuedLeaves ==
  ASSUME MailInv, LaunchesInv, NEW a \in Node, NEW b \in Node, RecvQueued(a, b)
  PROVE  LaunchesInv'
<1> DEFINE m == Head(chan[b, a])
           w == Rest(a, b)
           x == <<"chan", <<b, a>>, Dest(m, a), Base(m)>>
           y == <<"queue", a, Dest(m, a), Base(m)>>
           v == [adminq EXCEPT ![a] = Append(@, m)]
           s == Mail(w, v, out, got) \subseteq Mail(w, adminq, out, got) \cup {y}
<1>1. /\ Takes(a, b) /\ adminq' = v /\ chan' = w /\ UNCHANGED <<pc, out, got, call>> /\ LaunchSame
  BY DEF RecvQueued, LaunchSame, tableVars, procVars, threadVars, workVars
<1>2. m \in Message /\ Taken(w, adminq, x)
  BY <1>1, RecvTakes
<1>3. x[4] = Base(m) /\ y[4] = Base(m)
  OBVIOUS
<1>4. adminq \in Queues /\ Mail(w, adminq, out, got) \subseteq MailNow /\ x \in MailNow
  BY <1>2, Apart DEF Taken, Less, MailShape
<1> HIDE DEF m, w
<1>5. s
  BY <1>2, <1>4, QueueAdds, Zenon
<1> HIDE DEF x, y, v
<1>6. MailNow' \subseteq MailNow \cup {y}
  BY <1>1, <1>4, <1>5 DEF MailNow
<1>7. Said' \subseteq Said
  BY <1>3, <1>4, <1>6 DEF Said
<1>8. NoNews /\ SameWork /\ SameCalls
  BY <1>1, <1>7 DEF NoNews, SameWork, SameCalls, Launching
<1> QED
  BY <1>1, <1>8, SameLaunches DEF LaunchSame

LEMMA RecvReplyLeaves ==
  ASSUME MailInv, LaunchesInv, NEW a \in Node, NEW b \in Node, RecvReply(a, b)
  PROVE  LaunchesInv'
<1> DEFINE m == Head(chan[b, a])
           w == Rest(a, b)
           x == <<"chan", <<b, a>>, Dest(m, a), Base(m)>>
           y == <<"got", m.th, NoNode, [kind |-> "reply", th |-> m.th, val |-> m.val]>>
<1>1. /\ Takes(a, b) /\ m.kind = "reply" /\ got' = [got EXCEPT ![m.th] = m.val] /\ chan' = w
      /\ UNCHANGED <<adminq, pc, call, out>> /\ LaunchSame
  BY DEF RecvReply, LaunchSame, tableVars, procVars, workVars
<1>2. m \in Plain /\ Taken(w, adminq, x) /\ Base(m) = m
  BY <1>1, RecvTakes
<1>3. m.th \in Thread /\ m.val \in Values /\ m.val # NoReply /\ m = [kind |-> "reply", th |-> m.th, val |-> m.val]
  BY <1>1, <1>2, Kinds, ValuesReal DEF Carriers
<1>4. x[4] = m /\ y[4] = m
  BY <1>2, <1>3
<1> HIDE DEF m, w
<1>5. Mail(w, adminq, out, [got EXCEPT ![m.th] = m.val]) \subseteq Before(w, adminq, m.th) \cup {y}
  BY <1>3, GotAdds, Apart
<1>6. \A e : e \in Before(w, adminq, m.th) => e \in Mail(w, adminq, out, got)
  BY <1>3, LetsGo, Apart
<1> HIDE DEF x, y
<1>7. MailNow' \subseteq MailNow \cup {y} /\ x \in MailNow
  BY <1>1, <1>2, <1>5, <1>6 DEF MailNow, Taken, Less
<1>8. Said' \subseteq Said
  BY <1>4, <1>7 DEF Said
<1>9. NoNews /\ SameWork /\ SameCalls
  BY <1>1, <1>8 DEF NoNews, SameWork, SameCalls, Launching
<1> QED
  BY <1>1, <1>9, SameLaunches DEF LaunchSame

LEMMA RecvResolveLeaves ==
  ASSUME MailInv, LaunchesInv, NEW a \in Node, NEW b \in Node, RecvT(a, b) \in Thread, RecvResolve(a, b)
  PROVE  LaunchesInv'
<1> DEFINE m == Head(chan[b, a])
           w == Rest(a, b)
           x == <<"chan", <<b, a>>, Dest(m, a), Base(m)>>
           th == RecvT(a, b)
           r == ReplyMsg(m.th, Found(m.id))
<1>1. /\ Takes(a, b) /\ m.kind = "resolve" /\ Send(th, AgentOf(m.th), r, "idle", adminq, w)
      /\ UNCHANGED call /\ LaunchSame
  BY DEF RecvResolve, ProcSame, LaunchSame, tableVars, procVars, workVars
<1>2. m \in Plain /\ Taken(w, adminq, x) /\ Base(m) = m
  BY <1>1, RecvTakes
<1>3. x[1] = "chan" /\ x[4] = m
  BY <1>2
<1>4. AgentOf(th) \in Node /\ th # MasterT
  BY RecvThread DEF MasterT
<1>5. <<Found(m.id)>> \in Values
  <2>1. Found(m.id) \in Node \cup {NoNode}
    BY Apart DEF Found, TableShape
  <2> QED
    BY <2>1 DEF Answers, Values
<1> HIDE DEF m, w, x, th
<1>6. m.th \in Thread /\ pc[m.th] \in Waits /\ Fit(m, pc[m.th])
  BY <1>1, <1>2, <1>3, TakenFacts DEF Carriers
<1>7. pc[m.th] # "made"
  BY <1>1, <1>6 DEF Fit
<1>8. AgentOf(m.th) \in Node
  BY <1>6, Apart, WhoWaits DEF Waits
<1>9. r \in Plain /\ r.kind = "reply" /\ r.th = m.th
  BY <1>5, <1>6, MessagesMade DEF ReplyMsg
<1>10. Less(w, adminq) /\ SameCalls /\ th \in Thread
  BY <1>1, <1>2 DEF Taken, SameCalls, th
<1> HIDE DEF r
<1> QED
  BY <1>1, <1>4, <1>7, <1>8, <1>9, <1>10, SendLeaves

LEMMA RecvDataLeaves ==
  ASSUME MailInv, LaunchesInv, NEW a \in Node, NEW b \in Node, RecvT(a, b) \in Thread, RecvData(a, b)
  PROVE  LaunchesInv'
<1> DEFINE m == Head(chan[b, a])
           w == Rest(a, b)
           x == <<"chan", <<b, a>>, Dest(m, a), Base(m)>>
           th == RecvT(a, b)
           v == [op |-> "send", id |-> m.id]
<1>1. /\ Takes(a, b) /\ m.kind = "data" /\ pc[th] = "idle" /\ UNCHANGED <<adminq, out>> /\ LaunchSame
      /\ \/ chan' = w /\ UNCHANGED <<pc, got, call>>
         \/ Resolve(th, m.id, "task", w) /\ call' = [call EXCEPT ![th] = v]
  BY DEF RecvData, Takes, LaunchSame, tableVars, procVars, workVars
<1>2. m \in Plain /\ Taken(w, adminq, x)
  BY <1>1, RecvTakes
<1>3. Less(w, adminq)
  BY <1>2 DEF Taken
<1>4. AgentOf(th) \in Node /\ th \in Thread /\ th \notin ClientThread
  BY RecvThread
<1> HIDE DEF m, w, x, v, th
<1>5. m.id \in Id
  BY <1>1, <1>2, Kinds
<1>6. CASE chan' = w /\ UNCHANGED <<pc, got, call>>
  BY <1>1, <1>3, <1>6, TakenLeaves
<1>7. CASE Resolve(th, m.id, "task", w) /\ call' = [call EXCEPT ![th] = v]
  <2>1. SameCalls
    BY <1>4, <1>7, CallsGoOn
  <2>2. m.id \in Id \cup Node /\ adminq' = adminq /\ UNCHANGED out
    BY <1>1, <1>5
  <2> QED
    BY <1>1, <1>3, <1>4, <1>7, <2>1, <2>2, ResolveLeaves
<1> QED
  BY <1>1, <1>6, <1>7

LEMMA NoticeLossLeaves ==
  ASSUME MailInv, LaunchesInv, NEW a \in Node, NEW n \in Node, NoticeLoss(a, n)
  PROVE  LaunchesInv'
<1> DEFINE m == RemoveLinkMsg(n)
           v == [adminq EXCEPT ![a] = Append(@, m)]
           x == <<"queue", a, Dest(m, a), Base(m)>>
           s == Mail(chan, v, out, got) \subseteq Mail(chan, adminq, out, got) \cup {x}
<1>1. adminq' = v /\ UNCHANGED <<pc, call, out, got, chan>> /\ LaunchSame
  BY DEF NoticeLoss, LaunchSame, tableVars, procVars, threadVars, workVars
<1>2. Base(m) = m /\ m \in Message /\ m.kind = "removelink"
  BY MessagesMade, PlainIs DEF RemoveLinkMsg
<1>3. adminq \in Queues
  BY Apart DEF MailShape
<1>4. x[4].kind = "removelink"
  BY <1>2
<1> HIDE DEF m
<1>5. s
  BY <1>2, <1>3, QueueAdds, Zenon
<1> HIDE DEF x, v
<1> DEFINE Y == {x}
<1>6. MailNow' \subseteq MailNow \cup Y /\ \A y \in Y : y[4].kind = "removelink"
  BY <1>1, <1>4, <1>5 DEF MailNow
<1> HIDE DEF Y
<1>7. NoNews
  BY <1>1, <1>6, LittleNews
<1>8. SameWork /\ SameCalls
  BY <1>1 DEF SameWork, SameCalls, Launching
<1> QED
  BY <1>1, <1>7, <1>8, SameLaunches DEF LaunchSame

LEMMA LeaveLeaves ==
  ASSUME MailInv, LaunchesInv, NEW n \in Node, Leave(n)
  PROVE  LaunchesInv'
<1>1. UNCHANGED <<pc, call, out, got, chan, adminq>> /\ LaunchSame
  BY DEF Leave, LaunchSame, tableVars, procVars, threadVars, workVars
<1>2. Less(chan, adminq)
  BY LessNow, Apart
<1> QED
  BY <1>1, <1>2, TakenLeaves

LEMMA LoseTailLeaves ==
  ASSUME MailInv, LaunchesInv, NEW n \in Node, NEW a \in Node, LoseTail(n, a)
  PROVE  LaunchesInv'
<1> DEFINE w == [chan EXCEPT ![<<n, a>>] = Front(@)]
<1>1. chan[n, a] # <<>> /\ chan' = w /\ UNCHANGED <<pc, call, out, got, adminq>> /\ LaunchSame
  BY DEF LoseTail, LaunchSame, tableVars, procVars, threadVars, workVars
<1>2. Less(w, adminq)
  BY <1>1, TailLost, Apart
<1> HIDE DEF w
<1> QED
  BY <1>1, <1>2, TakenLeaves

\* The master's admin thread looks for services: it launches nothing meanwhile.
LEMMA StartFindLeaves ==
  ASSUME MailInv, LaunchesInv, NEW a \in Node, StartFind(a)
  PROVE  LaunchesInv'
<1> DEFINE th == AdminT(a)
<1>1. /\ Runs(a, "find") /\ adminq' = RestOf(a) /\ pc' = [pc EXCEPT ![th] = "hunt"]
      /\ UNCHANGED <<chan, call, out, got>> /\ LaunchSame
  BY DEF StartFind, LaunchSame, tableVars, procVars
<1>2. Runs(a, "find")
  BY <1>1
<1>3. (\E x : Taken(chan, RestOf(a), x)) /\ pc[th] = "idle" /\ th \in Thread
  BY <1>2, AdminTakes, AdminThread
<1>4. Less(chan, RestOf(a))
  BY <1>3 DEF Taken
<1>5. out[th] = NoOut
  BY <1>3, <1>4, IdleIs
<1>6. pc \in [Thread -> Pcs] /\ MasterT \in Thread
  BY Apart, OrderWaits
<1>7. pc'[MasterT] = "made" => pc[MasterT] = "made"
  BY <1>1, <1>6
<1>8. SameWork /\ SameCalls
  BY <1>1, <1>3, <1>5, <1>6 DEF SameWork, SameCalls, Launching, MasterT, NoOut
<1> QED
  BY <1>1, <1>4, <1>7, <1>8, FewerLeaves

LEMMA FindStepLeaves ==
  ASSUME MailInv, LaunchesInv, FindStep
  PROVE  LaunchesInv'
<1> DEFINE b == CHOOSE n \in hunt.left : \A k \in hunt.left : n <= k
           m == FindMsg(TRUE, MasterT)
<1>1. /\ pc[MasterT] = "hunt" /\ hunt.left # {} /\ Send(MasterT, b, m, "found", adminq, chan)
      /\ UNCHANGED call /\ LaunchSame
  BY DEF FindStep, LaunchSame, tableVars, procVars, MasterT
<1>2. b \in Node
  <2>1. hunt.left \in SUBSET Node /\ hunt.left # {} /\ Node \subseteq Nat
    BY <1>1, Apart, ConstantsAssumption DEF WorkShape, ConstantsAssumption
  <2>2. \E n \in hunt.left : \A k \in hunt.left : n <= k
    BY <2>1, Least
  <2> QED
    BY <2>1, <2>2
<1>3. m \in Plain /\ m.kind = "subfind"
  BY MessagesMade DEF FindMsg, MasterT
<1>4. MasterT \in Thread /\ AgentOf(MasterT) \in Node /\ out[MasterT] = NoOut
  BY <1>1, WorkerFacts DEF MasterT
<1>5. Less(chan, adminq) /\ SameCalls
  BY <1>1, LessNow, Apart DEF SameCalls
<1> HIDE DEF b, m
<1> QED
  BY <1>1, <1>2, <1>3, <1>4, <1>5, SendLeaves

LEMMA FindReplyLeaves ==
  ASSUME MailInv, LaunchesInv, FindReply
  PROVE  LaunchesInv'
<1> DEFINE none == {}
<1>1. /\ pc[MasterT] = "found" /\ got' = [got EXCEPT ![MasterT] = NoReply] /\ pc' = [pc EXCEPT ![MasterT] = "hunt"]
      /\ UNCHANGED <<chan, adminq, call, out>> /\ LaunchSame
  BY DEF FindReply, LaunchSame, tableVars, procVars, netVars, MasterT
<1>2. MasterT \in Thread /\ out[MasterT] = NoOut /\ pc \in [Thread -> Pcs] /\ MailShape
  BY <1>1, WorkerFacts, Apart DEF MasterT
<1>3. MailNow' = Before(chan, adminq, MasterT)
  BY <1>1 DEF MailNow, Before
<1>4. MailNow' \subseteq MailNow \cup none /\ \A y \in none : y[4].kind = "none"
  BY <1>2, <1>3, LetsGo DEF MailNow
<1> HIDE DEF none
<1>5. NoNews
  BY <1>1, <1>2, <1>4, LittleNews
<1>6. SameWork /\ SameCalls
  BY <1>1, <1>2 DEF SameWork, SameCalls, Launching, MasterT, NoOut
<1> QED
  BY <1>1, <1>5, <1>6, SameLaunches DEF LaunchSame

LEMMA EndFindLeaves ==
  ASSUME MailInv, LaunchesInv, EndFind
  PROVE  LaunchesInv'
<1> DEFINE m == ReplyMsg(hunt.client, hunt.found)
<1>1. /\ pc[MasterT] = "hunt" /\ Send(MasterT, AgentOf(hunt.client), m, "idle", adminq, chan)
      /\ UNCHANGED call /\ LaunchSame
  BY DEF EndFind, LaunchSame, tableVars, procVars, MasterT
<1>2. MasterT \in Thread /\ AgentOf(MasterT) \in Node /\ out[MasterT] = NoOut /\ Hunting
  BY <1>1, WorkerFacts DEF MasterT
<1>3. hunt.client \in ClientThread /\ <<hunt.found>> \in Values
  <2>1. hunt.client \in ClientThread /\ hunt.found \in SUBSET Id
    BY <1>2, Apart DEF Work, WorkShape
  <2> QED
    BY <2>1 DEF Values, Parts
<1>4. hunt.client # MasterT /\ hunt.client \in Thread /\ AgentOf(hunt.client) \in Node
  BY <1>3, OrderWaits, Threads, Sorts DEF ClientThread, AgentOf
<1>5. m \in Plain /\ m.kind = "reply" /\ m.th # MasterT
  BY <1>3, <1>4, MessagesMade DEF ReplyMsg
<1>6. Less(chan, adminq) /\ SameCalls
  BY <1>1, LessNow, Apart DEF SameCalls
<1> HIDE DEF m
<1> QED
  BY <1>1, <1>2, <1>4, <1>5, <1>6, SendLeaves

-----------------------------------------------------------------------------
(* A process is over, or a context is given up.                            *)

LEMMA OverLeaves ==
  ASSUME MailInv, LaunchesInv, NoNews, SameCalls, SameWork,
         UNCHANGED <<given, members, ctx, launch, load>>,
         NEW i \in Id, NEW v \in {"ended", "gone"}, mode' = [mode EXCEPT ![i] = v],
         mode[i] \in {"ready", "ended", "context"},
         mode[i] = "context" => \A c \in Client : call'[ClientT(c)].op = "launch" => ctx[c] # i
  PROVE  LaunchesInv'
<1>1. ContextInv /\ OrderInv /\ LaunchInv /\ MakeInv /\ WholeInv /\ mode \in [Id -> Modes]
  BY Apart DEF LaunchesInv, FrameShape, ProcShape
<1>2. \A m \in Orders : call'[m.th] = call[m.th]
  BY OrderWaits DEF SameCalls
<1>3. Launching => call'[launch.client] = call[launch.client]
  BY OrderWaits DEF SameCalls
<1>4. \A m \in Orders' : m \in Orders
  BY DEF NoNews, Orders
<1>5. \A j \in Id : /\ mode'[j] = mode[j] \/ (j = i /\ mode'[j] = v)
                    /\ mode[j] \notin {"ready", "ended", "context"} => mode'[j] = mode[j]
                    /\ mode[j] = "none" <=> mode'[j] = "none"
                    /\ mode[j] = "born" <=> mode'[j] = "born"
                    /\ mode[j] \in Started => mode'[j] \in Started
                    /\ mode'[j] \in Started \cup {"context"} => mode[j] \in Started \cup {"context"}
  BY <1>1 DEF Started
<1>6. ContextInv'
  <2>1. ASSUME NEW c \in Client, call'[ClientT(c)].op = "launch", call'[ClientT(c)].id # NoId
        PROVE  ctx[c] = call'[ClientT(c)].id /\ mode'[ctx[c]] = "context"
    <3>1. call'[ClientT(c)] = call[ClientT(c)]
      BY <2>1 DEF SameCalls, ClientThread
    <3>2. ctx[c] = call[ClientT(c)].id /\ mode[ctx[c]] = "context" /\ ctx[c] \in Id \cup {NoId}
      BY <1>1, <2>1, <3>1, Apart DEF ContextInv, FrameShape
    <3>3. ctx[c] # i
      BY <2>1, <3>2
    <3> QED
      BY <2>1, <3>1, <3>2, <3>3, <1>5, <1>1
  <2> QED
    BY <1>1, <1>5, <2>1 DEF ContextInv
<1>7. OrderInv'
  <2>1. ASSUME NEW m \in Orders PROVE New(m) \subseteq Id
    <3>1. m \in Launches /\ FirstOf(m) \in {1, 2}
      BY <2>1, OrderWaits DEF FirstOf
    <3>2. m.ids \in Seq(Id)
      BY <3>1 DEF Launches
    <3>3. \A y \in FirstOf(m)..Len(m.ids) : y \in 1..Len(m.ids)
      BY <3>1, <3>2
    <3> QED
      BY <3>2, <3>3 DEF New
  <2>2. \A m \in Orders' : OrderOk(m)'
    BY <1>1, <1>2, <1>4, <1>5, <2>1 DEF OrderInv, OrderOk, Untouched
  <2> QED
    BY <1>1, <1>4, <2>2 DEF OrderInv
<1>8. \A j \in Id : /\ Undone(j) => Undone(j)'
                    /\ Made(j) => Made(j)'
                    /\ Done(j) => Done(j)'
  <2> SUFFICES ASSUME NEW j \in Id PROVE (Undone(j) => Undone(j)') /\ (Made(j) => Made(j)') /\ (Done(j) => Done(j)')
    OBVIOUS
  <2>1. Undone(j) => Undone(j)'
    BY <1>5 DEF Undone
  <2>2. Made(j) => Made(j)'
    BY <1>5 DEF Made, Group
  <2> QED
    BY <1>5, <2>1, <2>2 DEF Done
<1>9. ASSUME Launching
      PROVE  /\ \A y \in launch.first..Len(launch.ids) : launch.ids[y] \in Id
             /\ launch.x <= Len(launch.ids) => launch.ids[launch.x] \in Id
  <2>1. launch.first \in {1, 2} /\ launch.ids \in Seq(Id) /\ launch.x \in Nat \ {0}
    BY Apart DEF WorkShape
  <2> QED
    BY <2>1
<1>10. LaunchInv'
  BY <1>1, <1>3, <1>4, <1>8, <1>9 DEF LaunchInv, SameWork, Reached
<1>11. MakeInv'
  <2>1. ASSUME NEW m \in Said, m.kind = "make" PROVE launch.ids[launch.x] \in Id
    <3>1. m.id \in Id /\ m = MakeMsg(launch.ids[launch.x], Group, launch.phase)
      BY <1>1, <2>1, OrderWaits, Kinds DEF MakeInv
    <3> QED
      BY <3>1 DEF MakeMsg
  <2>2. pc[MasterT] \in {"launch", "made"} => Launching
    BY DEF Launching, MasterT
  <2>3. pc[MasterT] = "made" => launch.x <= Len(launch.ids)
    BY <2>2, Apart DEF Work, MasterT
  <2>4. Group' = Group
    BY DEF Group
  <2> QED
    BY <1>1, <1>8, <1>9, <2>1, <2>2, <2>3, <2>4 DEF MakeInv, NoNews, SameWork
<1>12. WholeInv'
  BY <1>1, <1>5, Apart DEF WholeInv, Whole, SameWork, Group, FrameShape, ProcShape
<1> QED
  BY <1>6, <1>7, <1>10, <1>11, <1>12 DEF LaunchesInv

LEMMA TaskEndsLeaves ==
  ASSUME MailInv, LaunchesInv, NEW a \in Node, NEW i \in Id, TaskEnds(a, i)
  PROVE  LaunchesInv'
<1> DEFINE none == {}
<1>1. /\ mode[i] = "ready" /\ mode' = [mode EXCEPT ![i] = "ended"]
      /\ UNCHANGED <<given, members, ctx, launch, load>>
      /\ UNCHANGED <<pc, out, got, chan, adminq, call>>
  BY DEF TaskEnds, tableVars, netVars, threadVars, workVars
<1>2. MailNow' \subseteq MailNow \cup none /\ \A y \in none : y[4].kind = "none"
  BY <1>1 DEF MailNow
<1> HIDE DEF none
<1>3. NoNews
  BY <1>1, <1>2, LittleNews
<1>4. SameWork /\ SameCalls
  BY <1>1 DEF SameWork, SameCalls, Launching, MasterT
<1> QED
  BY <1>1, <1>3, <1>4, OverLeaves

LEMMA ReportDeathLeaves ==
  ASSUME MailInv, LaunchesInv, NEW a \in Node, NEW i \in Id, ReportDeath(a, i)
  PROVE  LaunchesInv'
<1> DEFINE m == DeadMsg(i)
           l == <<a, Master>>
           w == [chan EXCEPT ![l] = Append(@, m)]
           v == [adminq EXCEPT ![a] = Append(@, m)]
           x == <<"chan", l, Dest(m, l[2]), Base(m)>>
           y == <<"queue", a, Dest(m, a), Base(m)>>
           s == Mail(chan, v, out, got) \subseteq Mail(chan, adminq, out, got) \cup {y}
           sw == Mail(w, adminq, out, got) \subseteq Mail(chan, adminq, out, got) \cup {x}
           Y == {x, y}
<1>1. /\ mode[i] = "ended" /\ mode' = [mode EXCEPT ![i] = "gone"]
      /\ (adminq' = v /\ chan' = chan) \/ (chan' = w /\ adminq' = adminq)
      /\ UNCHANGED <<given, members, ctx, launch, load>>
      /\ UNCHANGED <<pc, out, got, call>>
  BY DEF ReportDeath, tableVars, threadVars, workVars
<1>2. m \in Plain /\ Base(m) = m /\ m \in Message /\ m.kind = "dead"
  BY MessagesMade, PlainIs DEF DeadMsg
<1>3. adminq \in Queues /\ chan \in Links /\ l \in Node \X Node
  BY Threads, Apart DEF MailShape
<1>4. x[4].kind = "dead" /\ y[4].kind = "dead"
  BY <1>2
<1> HIDE DEF m, l
<1>5. s
  BY <1>2, <1>3, QueueAdds, Zenon
<1>6. sw
  BY <1>2, <1>3, ChanAdds, Zenon
<1> HIDE DEF x, y, v, w
<1>7. MailNow' \subseteq MailNow \cup Y /\ \A e \in Y : e[4].kind \notin {"launch", "make", "reply"}
  BY <1>1, <1>4, <1>5, <1>6 DEF MailNow
<1> HIDE DEF Y
<1>8. NoNews
  BY <1>1, <1>7, LittleNews
<1>9. SameWork /\ SameCalls
  BY <1>1 DEF SameWork, SameCalls, Launching, MasterT
<1> QED
  BY <1>1, <1>8, <1>9, OverLeaves

LEMMA UnregContextLeaves ==
  ASSUME MailInv, LaunchesInv, NEW c \in Client, UnregContext(c)
  PROVE  LaunchesInv'
<1> DEFINE th == ClientT(c)
           i == ctx[c]
           m == ContextMsg("unreg", i, th)
<1>1. /\ pc[th] = "idle" /\ i # NoId /\ mode[i] = "context" /\ mode' = [mode EXCEPT ![i] = "gone"]
      /\ call' = [call EXCEPT ![th] = [op |-> "unreg", id |-> i]]
      /\ Send(th, Master, m, "reply", adminq, chan)
      /\ UNCHANGED <<given, members, ctx, launch, load>>
  BY DEF UnregContext, Calling, Idle, tableVars, workVars
<1>2. i \in Id /\ th \in Thread /\ AgentOf(th) \in Node /\ th # MasterT /\ Master \in Node
  BY <1>1, Apart, Threads, Sorts DEF FrameShape, AgentOf, MasterT
<1>3. m \in Plain /\ m.kind = "unreg"
  BY <1>2, MessagesMade, Threads DEF ContextMsg
<1>4. call \in [Thread -> [op : Ops, id : Id \cup {NoId}]]
  BY Apart DEF CallShape
<1>5. ASSUME NEW d \in Client, call'[ClientT(d)].op = "launch" PROVE ctx[d] # i
  <2>1. d # c
    BY <1>1, <1>2, <1>4, <1>5
  <2> QED
    BY <1>1, <2>1 DEF LaunchesInv, ContextInv
<1>6. Less(chan, adminq)
  BY LessNow, Apart
<1> HIDE DEF th, i, m
<1>7. SameCalls
  BY <1>1, <1>2, CallsGoOn
<1>8. NoNews /\ SameWork
  BY <1>1, <1>2, <1>3, <1>6, SendQuiet
<1> QED
  BY <1>1, <1>2, <1>5, <1>7, <1>8, OverLeaves

-----------------------------------------------------------------------------
(* New ids.                                                                *)

LEMMA NewIds ==
  ASSUME MailInv, NEW m \in Orders
  PROVE  /\ m.ids \in Seq(Id) /\ Len(m.ids) = m.req.n /\ FirstOf(m) \in {1, 2} /\ New(m) \subseteq Id
         /\ m.th \in ClientThread /\ m.th \in Thread /\ m.req \in Request
<1>1. m \in Launches /\ FirstOf(m) \in {1, 2} /\ m.th \in ClientThread /\ m.th \in Thread
  BY OrderWaits DEF FirstOf
<1>2. m.ids \in Seq(Id) /\ Len(m.ids) = m.req.n /\ m.req \in Request
  BY <1>1 DEF Launches
<1>3. \A y \in FirstOf(m)..Len(m.ids) : m.ids[y] \in Id
  BY <1>1, <1>2
<1> QED
  BY <1>1, <1>2, <1>3 DEF New

\* The launch there is, when its message is on its way or its thread works on it.
LEMMA AtWork ==
  ASSUME MailInv
  PROVE  /\ \A m \in Said : m.kind = "make" => Launching /\ launch.x <= Len(launch.ids)
         /\ pc[MasterT] \in {"launch", "made"} => Launching
         /\ pc[MasterT] = "made" => launch.x <= Len(launch.ids)
         /\ Launching => /\ launch.first \in {1, 2} /\ launch.ids \in Seq(Id) /\ launch.x \in Nat
                         /\ launch.first <= launch.x /\ launch.x <= Len(launch.ids) + 1
                         /\ launch.client \in ClientThread
                         /\ \A y \in launch.first..Len(launch.ids) : launch.ids[y] \in Id
                         /\ launch.x <= Len(launch.ids) => launch.x \in launch.first..Len(launch.ids)
<1>1. /\ MailShape /\ Control /\ Work /\ FitInv /\ WorkShape
  BY Apart
<1>2. pc[MasterT] \in {"launch", "made"} => Launching
  BY DEF Launching, MasterT
<1>3. pc[MasterT] = "made" => launch.x <= Len(launch.ids)
  BY <1>1, <1>2 DEF Work, MasterT
<1>4. ASSUME NEW m \in Said, m.kind = "make" PROVE Launching /\ launch.x <= Len(launch.ids)
  <2>1. PICK e \in MailNow : e[4] = m
    BY DEF Said
  <2>2. m.th = MasterT /\ m.kind \in Carriers
    BY <1>4, OrderWaits, Kinds DEF Carriers, MasterT
  <2>3. CASE e[1] = "out" /\ e[2] = m.th
    <3>1. Fit(m, out[MasterT].next)
      BY <1>1, <2>1, <2>2, <2>3, Zenon DEF FitInv, Noted
    <3>2. out[MasterT].next = "made"
      BY <1>4, <3>1 DEF Fit
    <3>3. out[MasterT] # NoOut
      BY <3>2 DEF NoOut
    <3>4. pc[MasterT] = "agent"
      BY <1>1, <3>3, OrderWaits DEF Control, ControlOf
    <3>5. Launching
      BY <3>2 DEF Launching, MasterT
    <3> QED
      BY <1>1, <3>4, <3>5 DEF Work, MasterT
  <2>4. CASE ~(e[1] = "out" /\ e[2] = m.th)
    <3>1. Fit(m, pc[MasterT])
      BY <1>1, <2>1, <2>2, <2>4, Zenon DEF FitInv, Noted
    <3> QED
      BY <1>2, <1>3, <1>4, <3>1 DEF Fit
  <2> QED
    BY <2>3, <2>4
<1>5. ASSUME Launching
      PROVE  /\ launch.first \in {1, 2} /\ launch.ids \in Seq(Id) /\ launch.x \in Nat
             /\ launch.first <= launch.x /\ launch.x <= Len(launch.ids) + 1
             /\ launch.client \in ClientThread
  BY <1>1, <1>5 DEF Work, WorkShape
<1>6. ASSUME Launching
      PROVE  /\ \A y \in launch.first..Len(launch.ids) : launch.ids[y] \in Id
             /\ launch.x <= Len(launch.ids) => launch.x \in launch.first..Len(launch.ids)
  BY <1>5, <1>6
<1> QED
  BY <1>2, <1>3, <1>4, <1>5, <1>6

LEMMA RegContextLeaves ==
  ASSUME MailInv, LaunchesInv, NEW c \in Client, NEW id \in Id, RegContext(c, id)
  PROVE  LaunchesInv'
<1> DEFINE th == ClientT(c)
           m == ContextMsg("reg", id, th)
<1>1. /\ pc[th] = "idle" /\ ctx[c] = NoId /\ id \notin given /\ given' = given \cup {id}
      /\ mode' = [mode EXCEPT ![id] = "context"]
      /\ members' = [members EXCEPT ![id] = {id}]
      /\ ctx' = [ctx EXCEPT ![c] = id]
      /\ call' = [call EXCEPT ![th] = [op |-> "reg", id |-> id]]
      /\ Send(th, Master, m, "reply", adminq, chan)
      /\ UNCHANGED <<launch, load>>
  BY DEF RegContext, Calling, Idle, tableVars, workVars
<1>2. th \in Thread /\ AgentOf(th) \in Node /\ th # MasterT /\ Master \in Node
  BY <1>1, Apart, Threads, Sorts DEF AgentOf, MasterT
<1>3. m \in Plain /\ m.kind = "reg"
  BY MessagesMade, Threads DEF ContextMsg
<1>4. call \in [Thread -> [op : Ops, id : Id \cup {NoId}]] /\ NoId \notin Id
  BY Apart, ConstantsAssumption DEF CallShape, ConstantsAssumption, NoId
<1>5. call'[ClientT(c)].op # "launch"
  BY <1>1, <1>2, <1>4
<1>6. Less(chan, adminq)
  BY LessNow, Apart
<1> HIDE DEF th, m
<1>7. SameCalls
  BY <1>1, <1>2, CallsGoOn
<1>8. NoNews /\ SameWork
  BY <1>1, <1>2, <1>3, <1>6, SendQuiet
<1>9. ContextInv /\ OrderInv /\ LaunchInv /\ MakeInv /\ WholeInv
  BY DEF LaunchesInv
<1>10. /\ mode \in [Id -> Modes] /\ members \in [Id -> SUBSET Id] /\ given \subseteq Id
       /\ ctx \in [Client -> Id \cup {NoId}] /\ load \in [Node -> SUBSET Id]
  BY Apart DEF FrameShape, ProcShape, TableShape
<1>11. mode[id] = "none" /\ \A j : j # id => mode'[j] = mode[j] /\ members'[j] = members[j]
  BY <1>1, <1>9, <1>10 DEF ContextInv
<1>12. mode'[id] = "context" /\ members'[id] = {id}
  BY <1>1, <1>10
<1>13. \A k \in Orders : call'[k.th] = call[k.th]
  BY <1>7, OrderWaits DEF SameCalls
<1>14. Launching => call'[launch.client] = call[launch.client]
  BY <1>7, OrderWaits DEF SameCalls
<1>15. \A k \in Orders' : k \in Orders
  BY <1>8 DEF NoNews, Orders
<1>16. ContextInv'
  <2>1. \A d \in Client : d # c => ctx'[d] = ctx[d] /\ call'[ClientT(d)] \in {call[ClientT(d)]} \cup {v \in {call'[ClientT(d)]} : v.op # "launch"}
    BY <1>1, <1>7 DEF SameCalls, ClientThread
  <2>2. ctx'[c] = id
    BY <1>1, <1>10
  <2>3. \A i \in Id : mode'[i] # "none" => i \in given'
    BY <1>1, <1>9, <1>11 DEF ContextInv
  <2>4. \A d, e \in Client : ctx'[d] = ctx'[e] /\ ctx'[d] # NoId => d = e
    BY <1>1, <1>9, <2>1, <2>2 DEF ContextInv
  <2>5. \A d \in Client : ctx'[d] # NoId => ctx'[d] \in given'
    BY <1>1, <1>9, <2>1, <2>2 DEF ContextInv
  <2>6. ASSUME NEW d \in Client, call'[ClientT(d)].op = "launch", call'[ClientT(d)].id # NoId
        PROVE  ctx'[d] = call'[ClientT(d)].id /\ mode'[ctx'[d]] = "context"
    <3>1. d # c /\ ctx'[d] = ctx[d] /\ call'[ClientT(d)] = call[ClientT(d)]
      BY <1>5, <2>1, <2>6
    <3>2. ctx[d] = call[ClientT(d)].id /\ mode[ctx[d]] = "context"
      BY <1>9, <2>6, <3>1 DEF ContextInv
    <3> QED
      BY <1>11, <3>1, <3>2
  <2> QED
    BY <1>1, <1>9, <2>3, <2>4, <2>5, <2>6 DEF ContextInv
<1>17. OrderInv'
  <2>1. \A i : i # id => (Untouched(i) => Untouched(i)')
    BY <1>1, <1>11 DEF Untouched
  <2>2. \A i : Untouched(i) => i # id
    BY <1>1 DEF Untouched
  <2>3. \A k \in Orders' : OrderOk(k)'
    BY <1>9, <1>13, <1>15, <2>1, <2>2 DEF OrderInv, OrderOk
  <2> QED
    BY <1>9, <1>15, <2>3 DEF OrderInv
<1>18. \A j : j # id => (Undone(j)' = Undone(j)) /\ (Made(j)' = Made(j)) /\ (Done(j)' = Done(j))
  BY <1>1, <1>11 DEF Undone, Made, Done, Group
<1>19. Launching => /\ \A y \in launch.first..Len(launch.ids) : launch.ids[y] # id
                    /\ launch.x <= Len(launch.ids) => launch.ids[launch.x] # id
  BY <1>1, <1>9, AtWork DEF LaunchInv
<1>20. LaunchInv'
  BY <1>1, <1>8, <1>9, <1>14, <1>15, <1>18, <1>19 DEF LaunchInv, SameWork, Reached
<1>21. MakeInv'
  <2>1. \A k \in Said : k.kind = "make" => launch.ids[launch.x] # id
    BY <1>19, AtWork
  <2>2. pc[MasterT] = "made" => launch.ids[launch.x] # id
    BY <1>19, AtWork
  <2>3. pc[MasterT] = "launch" /\ launch.x <= Len(launch.ids) => launch.ids[launch.x] # id
    BY <1>19, AtWork
  <2> QED
    BY <1>1, <1>8, <1>9, <1>18, <2>1, <2>2, <2>3 DEF MakeInv, NoNews, SameWork, Group
<1>22. WholeInv'
  <2>1. \A i \in Id : i # id => (Whole(i) => Whole(i)')
    BY <1>11, <1>12 DEF Whole
  <2>2. Whole(id)'
    BY <1>12 DEF Whole
  <2> QED
    BY <1>1, <1>8, <1>9, <1>11, <1>12, <2>1, <2>2 DEF WholeInv, SameWork, Group
<1> QED
  BY <1>16, <1>17, <1>20, <1>21, <1>22 DEF LaunchesInv

LEMMA JoinOf ==
  ASSUME NEW S, NEW s \in Seq(S), NEW t \in Seq(S)
  PROVE  /\ s \o t \in Seq(S) /\ Len(s \o t) = Len(s) + Len(t)
         /\ \A y \in 1..Len(s) : (s \o t)[y] = s[y]
         /\ \A y \in (Len(s) + 1)..(Len(s) + Len(t)) : (s \o t)[y] = t[y - Len(s)]
  OBVIOUS

LEMMA RangeOf ==
  ASSUME NEW S, NEW s \in Seq(S)
  PROVE  \A y \in 1..Len(s) : s[y] \in ToSet(s)
BY DEF ToSet

\* The ids of a new order: a context, when slaves are launched, and fresh ones.
Join(own, s) == <<own>> \o s
AreDrawn(ids, n, first, own, fresh) ==
  /\ ids \in Seq(Id) /\ Len(ids) = n /\ Distinct(ids, first) /\ (first = 2 => ids[1] = own)
  /\ \A y \in first..n : ids[y] \in ToSet(fresh)
  /\ ToSet(fresh) \subseteq Id \ given

LEMMA Drawn ==
  ASSUME given \subseteq Id, NEW n \in Nat, NEW new \in Nat, new <= Cardinality(Id \ given),
         NEW first \in {1, 2}, NEW own \in Id \cup {NoId}, NEW ids,
         first = 2 => own \in Id /\ new = n - 1 /\ ids = Join(own, Fresh(new)),
         first = 1 => new = n /\ ids = Fresh(new)
  PROVE  AreDrawn(ids, n, first, own, Fresh(new))
<1> DEFINE f == Fresh(new)
<1>1. /\ f \in Seq(Id) /\ ToSet(f) \subseteq Id \ given /\ Len(f) = new
      /\ \A x, y \in 1..new : f[x] = f[y] => x = y
  BY FreshIs
<1>2. (first = 2 => ids = <<own>> \o f) /\ (first = 1 => ids = f)
  BY DEF Join
<1> HIDE DEF f
<1>3. \A y \in 1..new : f[y] \in ToSet(f)
  BY <1>1, RangeOf
<1>4. CASE first = 2
  <2> DEFINE e == <<own>>
  <2>1. e \in Seq(Id) /\ Len(e) = 1 /\ e[1] = own /\ ids = e \o f /\ n = new + 1
    BY <1>2, <1>4
  <2> HIDE DEF e
  <2>2. /\ ids \in Seq(Id) /\ Len(ids) = 1 + new /\ \A y \in 1..1 : ids[y] = e[y]
        /\ \A y \in 2..(1 + new) : ids[y] = f[y - 1]
    <3>1. /\ ids \in Seq(Id) /\ Len(ids) = Len(e) + Len(f) /\ \A y \in 1..Len(e) : ids[y] = e[y]
          /\ \A y \in (Len(e) + 1)..(Len(e) + Len(f)) : ids[y] = f[y - Len(e)]
      <4>1. /\ e \o f \in Seq(Id) /\ Len(e \o f) = Len(e) + Len(f) /\ \A y \in 1..Len(e) : (e \o f)[y] = e[y]
            /\ \A y \in (Len(e) + 1)..(Len(e) + Len(f)) : (e \o f)[y] = f[y - Len(e)]
        <5>1. e \in Seq(Id) /\ f \in Seq(Id)
          BY <1>1, <2>1
        <5> QED
          BY <5>1, JoinOf
      <4> QED
        BY <2>1, <4>1, Zenon
    <3> QED
      BY <1>1, <2>1, <3>1
  <2>3. ids[1] = own /\ \A y \in 2..n : ids[y] = f[y - 1] /\ y - 1 \in 1..new
    BY <2>1, <2>2
  <2>4. Distinct(ids, 2)
    BY <1>1, <2>1, <2>2, <2>3 DEF Distinct
  <2>5. \A y \in 2..n : ids[y] \in ToSet(f)
    BY <1>3, <2>3
  <2> QED
    BY <1>1, <1>4, <2>1, <2>2, <2>3, <2>4, <2>5 DEF f, AreDrawn
<1>5. CASE first = 1
  <2>1. Distinct(f, 1) /\ new = n /\ ids = f
    BY <1>1, <1>2, <1>5 DEF Distinct
  <2> QED
    BY <1>1, <1>3, <1>5, <2>1 DEF f, AreDrawn
<1> QED
  BY <1>4, <1>5

LEMMA CallLaunchLeaves ==
  ASSUME MailInv, LaunchesInv, NEW c \in Client, NEW r \in Requests, CallLaunch(c, r)
  PROVE  LaunchesInv'
<1> DEFINE th == ClientT(c)
           new == IF r.slaves THEN r.n - 1 ELSE r.n
           first == IF r.slaves THEN 2 ELSE 1
           own == IF r.slaves THEN ctx[c] ELSE NoId
           ids == IF r.slaves THEN <<own>> \o Fresh(new) ELSE Fresh(new)
           drawn == ToSet(Fresh(new))
           m == LaunchMsg(r, ids, th)
<1>1. /\ pc[th] = "idle" /\ Send(th, Master, m, "reply", adminq, chan)
      /\ new <= Cardinality(Id \ given) /\ (r.slaves => own # NoId /\ own = ctx[c] /\ mode[ctx[c]] = "context")
      /\ given' = given \cup drawn
      /\ call' = [call EXCEPT ![th] = [op |-> "launch", id |-> own]]
      /\ UNCHANGED <<mode, members, ctx, launch, load>>
  BY Zenon DEF CallLaunch, Calling, Idle, tableVars, workVars
<1>2. /\ given \subseteq Id /\ ctx \in [Client -> Id \cup {NoId}] /\ MailShape /\ TableShape /\ NetShape
      /\ call \in [Thread -> [op : Ops, id : Id \cup {NoId}]]
  BY Apart DEF FrameShape, ProcShape, CallShape
<1>3. new \in Nat /\ r.n \in Nat /\ r.slaves \in BOOLEAN /\ r \in Request
  BY Requested
<1>4. own \in Id \cup {NoId} /\ (r.slaves => own \in Id) /\ (~r.slaves => own = NoId)
  BY <1>1, <1>2
<1>5. /\ ids \in Seq(Id) /\ Len(ids) = r.n /\ Distinct(ids, first) /\ (r.slaves => ids[1] = own)
      /\ \A y \in first..r.n : ids[y] \in drawn
      /\ drawn \subseteq Id \ given
  <2>1. /\ first \in {1, 2} /\ (first = 2 <=> r.slaves)
        /\ first = 2 => new = r.n - 1 /\ ids = Join(own, Fresh(new))
        /\ first = 1 => new = r.n /\ ids = Fresh(new)
    BY DEF Join
  <2>2. new <= Cardinality(Id \ given) /\ given \subseteq Id
    BY <1>1, <1>2
  <2> HIDE DEF own, new, ids, first
  <2>3. r.n \in Nat /\ own \in Id \cup {NoId} /\ (first = 2 => own \in Id) /\ new \in Nat
    BY <1>3, <1>4, <2>1
  <2>4. AreDrawn(ids, r.n, first, own, Fresh(new))
    BY <2>1, <2>2, <2>3, Drawn
  <2> QED
    BY <2>1, <2>4 DEF AreDrawn, drawn
<1> HIDE DEF ids, own, new, drawn
<1>6. /\ m \in Plain /\ m.kind = "launch" /\ m.th = th /\ m.ids = ids /\ m.req = r
      /\ th \in Thread /\ th \in ClientThread /\ th # MasterT /\ AgentOf(th) \in Node
  <2>1. m \in Plain
    BY <1>3, <1>5, MessagesMade, Threads DEF LaunchMsg
  <2> QED
    BY <2>1, Threads, Sorts DEF LaunchMsg, AgentOf, MasterT
<1> HIDE DEF m
<1>0. PICK o : o = m
  OBVIOUS
<1>7. New(o) \subseteq drawn /\ FirstOf(o) = first
  BY <1>0, <1>5, <1>6 DEF New, FirstOf
<1> HIDE DEF th, first
<1>8. Less(chan, adminq)
  BY LessNow, Apart
<1>9. \A k \in Said' : k \in Said \/ k = o \/ (k.kind \in {"resolve", "reply"} /\ k.th = th)
  <2>1. \A e \in MailNow' : \/ e \in Before(chan, adminq, th) \/ Posted(e, Master, o)
                            \/ Asks(e, th, Master) /\ pc' = [pc EXCEPT ![th] = "agent"]
    BY <1>0, <1>1, <1>2, <1>6, <1>8, Threads, SendNews DEF MailShape
  <2>2. \A e : e \in Before(chan, adminq, th) => e \in MailNow
    BY <1>2, <1>6, LetsGo DEF MailNow, MailShape
  <2>3. \A e : Asks(e, th, Master) => e[4].kind \in {"resolve", "reply"} /\ e[4].th = th
    BY DEF Asks, ResolveMsg, ReplyMsg
  <2> QED
    BY <2>1, <2>2, <2>3 DEF Said, Posted
<1>10. \A k \in Orders' : k \in Orders \/ k = o
  BY <1>9 DEF Orders
<1>11. pc'[MasterT] = pc[MasterT] /\ out'[MasterT] = out[MasterT] /\ SameWork
  <2>1. \E p : /\ pc' = [pc EXCEPT ![th] = p]
               /\ out' = out \/ out' = [out EXCEPT ![th] = [to |-> Master, msg |-> o, next |-> "reply"]]
    BY <1>0, <1>1 DEF Send, Resolve
  <2>2. pc'[MasterT] = pc[MasterT] /\ out'[MasterT] = out[MasterT]
    BY <1>2, <1>6, <2>1, OrderWaits, Apart DEF MailShape, Outs
  <2> QED
    BY <2>2 DEF SameWork, Launching, MasterT
<1>12. ContextInv /\ OrderInv /\ LaunchInv /\ MakeInv /\ WholeInv
  BY DEF LaunchesInv
<1>13. \A t \in Thread : t # th => call'[t] = call[t]
  BY <1>1, <1>2
<1>14. call'[th].op = "launch" /\ call'[th].id = own
  BY <1>1, <1>2, <1>6
<1>15. \A k \in Orders : k.th # th /\ call'[k.th] = call[k.th]
  BY <1>1, <1>13, OrderWaits
<1>16. Launching => call'[launch.client] = call[launch.client]
  BY <1>1, <1>6, <1>13, OrderWaits, Threads
<1>17. ContextInv'
  <2>1. ASSUME NEW d \in Client, call'[ClientT(d)].op = "launch", call'[ClientT(d)].id # NoId
        PROVE  ctx[d] = call'[ClientT(d)].id /\ mode[ctx[d]] = "context"
    <3>1. CASE d = c
      BY <1>1, <1>4, <1>14, <2>1, <3>1 DEF th
    <3>2. CASE d # c
      <4>1. ClientT(d) # th /\ ClientT(d) \in Thread
        BY <3>2, Threads, Sorts DEF th
      <4> QED
        BY <1>12, <1>13, <2>1, <4>1 DEF ContextInv
    <3> QED
      BY <3>1, <3>2
  <2> QED
    BY <1>1, <1>12, <2>1 DEF ContextInv
<1>18. OrderInv'
  <2>1. \A i : Untouched(i) => Untouched(i)' /\ i \in given
    BY <1>1 DEF Untouched
  <2>2. \A k \in Orders : OrderOk(k)' /\ New(k) \cap New(o) = {}
    BY <1>5, <1>7, <1>12, <1>15, <2>1 DEF OrderInv, OrderOk
  <2>3. \A i \in New(o) : Untouched(i)'
    BY <1>1, <1>5, <1>7, <1>12 DEF ContextInv, Untouched
  <2>4. OrderOk(o)'
    BY <1>0, <1>5, <1>6, <1>7, <1>14, <2>3 DEF OrderOk
  <2> QED
    BY <1>10, <1>12, <2>2, <2>4 DEF OrderInv
<1>19. LaunchInv'
  <2>1. \A y : Reached(y)' = Reached(y)
    BY <1>1 DEF Reached, Done, Undone, Made, Group
  <2>2. Launching => New(o) \cap {launch.ids[y] : y \in launch.first..Len(launch.ids)} = {}
    BY <1>5, <1>7, <1>12 DEF LaunchInv
  <2> QED
    BY <1>1, <1>10, <1>11, <1>12, <1>16, <2>1, <2>2 DEF LaunchInv, SameWork
<1>20. MakeInv'
  BY <1>0, <1>1, <1>6, <1>9, <1>11, <1>12 DEF MakeInv, Done, Undone, Made, Group
<1>21. WholeInv'
  BY <1>1, <1>11, <1>12 DEF WholeInv, Whole, SameWork, Group
<1> QED
  BY <1>17, <1>18, <1>19, <1>20, <1>21 DEF LaunchesInv

-----------------------------------------------------------------------------
(* A launch_slaves returns: its context gets the new peers.                *)

\* What is said of a thread's transaction is what the thread owns.
LEMMA NoneSaid ==
  ASSUME MailInv, NEW th \in Thread, out[th] = NoOut, NEW M \in SUBSET MailNow, Own(M, th) = {}
  PROVE  \A e \in M : e[4].kind \in Carriers => e[4].th # th
<1> SUFFICES ASSUME NEW e \in M, e[4].kind \in Carriers, e[4].th = th PROVE FALSE
  OBVIOUS
<1>1. e[1] = "out" /\ e[2] = th /\ e \in MailNow
  BY DEF Own, Carries
<1>2. e[4] = Nothing
  BY <1>1, OutEntry DEF MailNow, NoOut
<1> QED
  BY <1>2 DEF Nothing, Carriers, ClientKinds

LEMMA ReturnLeaves ==
  ASSUME MailInv, LaunchesInv, NEW c \in Client, Return(c)
  PROVE  LaunchesInv'
<1> DEFINE th == ClientT(c)
           id == call[th].id
           none == {}
           new == UNION {members[i] : i \in {j \in Id : id \in members[j]}}
           slaves == call[th].op = "launch" /\ id # NoId
<1>1. /\ pc[th] = "reply" /\ got[th] # NoReply
      /\ pc' = [pc EXCEPT ![th] = "idle"]
      /\ got' = [got EXCEPT ![th] = NoReply]
      /\ call' = [call EXCEPT ![th] = NoCall]
      /\ members' = IF slaves THEN [members EXCEPT ![id] = new] ELSE members
      /\ UNCHANGED <<mode, given, ctx, launch, load, out, chan, adminq>>
  BY Zenon DEF Return, tableVars, netVars, workVars
<1>2. /\ th \in Thread /\ AgentOf(th) \in Node /\ th # MasterT /\ MailShape /\ FitInv /\ WaitInv /\ Control
      /\ call \in [Thread -> [op : Ops, id : Id \cup {NoId}]] /\ pc \in [Thread -> Pcs]
      /\ mode \in [Id -> Modes] /\ members \in [Id -> SUBSET Id] /\ ctx \in [Client -> Id \cup {NoId}]
  BY Apart, Threads, Sorts DEF AgentOf, MasterT, FrameShape, ProcShape, CallShape
<1> HIDE DEF id, new
<1>3. MailNow' = Before(chan, adminq, th)
  BY <1>1 DEF MailNow, Before
<1>4. Calm(chan, adminq, th) /\ out[th] = NoOut
  BY <1>1, <1>2, CalmNow DEF Control, ControlOf
<1>5. MailNow' \subseteq MailNow \cup none /\ \A y \in none : y[4].kind = "none"
  BY <1>3, <1>4 DEF Calm
<1> HIDE DEF none
<1>6. pc'[MasterT] = pc[MasterT] /\ SameWork
  BY <1>1, <1>2, OrderWaits DEF SameWork, Launching, MasterT
<1>7. NoNews
  BY <1>5, <1>6, LittleNews
<1>8. \A k \in Orders' : k \in Orders /\ k.th # th /\ k.th \in Thread
  <2>1. \A e \in MailNow' : e[4].kind \in Carriers => e[4].th # th
    BY <1>2, <1>3, <1>4, NoneSaid DEF Calm
  <2>2. \A k \in Orders' : k \in Orders
    BY <1>7 DEF NoNews, Orders
  <2> QED
    BY <2>1, <2>2, OrderWaits DEF Orders, Said, Carriers, ClientKinds
<1>9. Launching => launch.client # th /\ launch.client \in Thread
  <2>1. Own(MailNow, th) # {}
    BY <1>1, <1>2, ReplyIsOwn
  <2>2. "launch" \notin KeptNow(th)
    BY <1>2, <2>1, KeptWaits
  <2>3. launch.client # th
    BY <2>2 DEF KeptNow, Kept
  <2> QED
    BY <2>3, OrderWaits, Threads
<1>10. \A t \in Thread : t # th => call'[t] = call[t]
  BY <1>1, <1>2
<1>11. call'[th].op = "none"
  BY <1>1, <1>2 DEF NoCall
<1>12. ContextInv /\ OrderInv /\ LaunchInv /\ MakeInv /\ WholeInv
  BY DEF LaunchesInv
<1>13. \A i : members'[i] = members[i] \/ (slaves /\ i = id /\ mode[i] = "context" /\ ctx[c] = id /\ i \in Id)
  <2>1. CASE slaves
    <3>1. ctx[c] = id /\ mode[id] = "context" /\ id \in Id
      BY <1>2, <1>12, <2>1 DEF ContextInv, id
    <3> QED
      BY <1>1, <1>2, <2>1, <3>1
  <2>2. CASE ~slaves
    BY <1>1, <2>2
  <2> QED
    BY <2>1, <2>2
<1>14. slaves => members'[id] = new
  BY <1>1, <1>2, <1>12 DEF ContextInv, id
<1> HIDE DEF th, slaves
<1>15. ContextInv'
  <2>1. \A d \in Client : call'[ClientT(d)].op = "launch" => call'[ClientT(d)] = call[ClientT(d)]
    BY <1>10, <1>11, Threads
  <2> QED
    BY <1>1, <1>12, <2>1 DEF ContextInv
<1>16. OrderInv'
  <2>1. \A k \in Orders' : OrderOk(k)'
    BY <1>1, <1>8, <1>10, <1>12 DEF OrderInv, OrderOk, Untouched
  <2> QED
    BY <1>8, <1>12, <2>1 DEF OrderInv
<1>17. \A i : /\ Undone(i)' = Undone(i)
              /\ Made(i) => Made(i)'
              /\ Done(i) => Done(i)'
  <2>1. \A i : mode[i] # "context" => members'[i] = members[i]
    BY <1>13
  <2>2. \A i : Undone(i)' = Undone(i)
    BY <1>1 DEF Undone
  <2>3. \A i : Made(i) => Made(i)'
    BY <1>1, <2>1 DEF Made, Group, Started
  <2> QED
    BY <1>1, <2>2, <2>3 DEF Done
<1>18. LaunchInv'
  <2>1. \A y : Reached(y) => Reached(y)'
    BY <1>1, <1>17 DEF Reached
  <2>2. Launching => call'[launch.client] = call[launch.client]
    BY <1>9, <1>10
  <2> QED
    BY <1>1, <1>6, <1>8, <1>12, <2>1, <2>2 DEF LaunchInv, SameWork
<1>19. MakeInv'
  BY <1>1, <1>6, <1>7, <1>12, <1>17 DEF MakeInv, NoNews, SameWork, Group
<1>20. \A i \in Id : Whole(i) /\ members'[i] = members[i] => Whole(i)'
  BY <1>1 DEF Whole
<1>21. \A i \in Id : slaves /\ id \in members[i] => Whole(i)
  <2> SUFFICES ASSUME NEW i \in Id, slaves, id \in members[i] PROVE Whole(i)
    OBVIOUS
  <2>1. mode[i] # "none"
    BY <1>12 DEF WholeInv
  <2>2. ctx[c] = id /\ mode[id] = "context" /\ id # NoId
    BY <1>2, <1>12 DEF ContextInv, id, slaves, th
  <2>3. ASSUME Launching, members[i] = Group PROVE FALSE
    <3>1. PICK y \in 1..Len(launch.ids) : launch.ids[y] = id
      BY <2>3 DEF Group, ToSet
    <3>2. CASE y >= launch.first
      <4>1. y \in launch.first..Len(launch.ids)
        BY <2>3, <3>1, <3>2, AtWork
      <4>2. Reached(y) /\ launch.x \in Nat
        BY <1>12, <2>3, <4>1, AtWork DEF LaunchInv
      <4>3. Undone(id) \/ Done(id)
        BY <3>1, <4>2 DEF Reached
      <4> QED
        BY <2>2, <4>3 DEF Undone, Done, Made, Started
    <3>3. CASE ~(y >= launch.first)
      <4>1. launch.first = 2 /\ y = 1
        BY <2>3, <3>3, AtWork
      <4>2. call[launch.client].op = "launch" /\ id = call[launch.client].id
        BY <1>12, <2>3, <3>1, <4>1 DEF LaunchInv
      <4>3. PICK d \in Client : launch.client = ClientT(d)
        BY <2>3, AtWork DEF ClientThread
      <4>4. ctx[d] = id
        BY <1>12, <2>2, <4>2, <4>3 DEF ContextInv
      <4>5. d = c
        BY <1>12, <2>2, <4>4 DEF ContextInv
      <4> QED
        BY <1>9, <2>3, <4>3, <4>5 DEF th
    <3> QED
      BY <3>2, <3>3
  <2>4. mode[i] \in Started \cup {"context", "born"}
    BY <1>2, <2>1 DEF Modes, OnMap, Started
  <2> QED
    BY <1>12, <2>3, <2>4 DEF WholeInv
<1>22. \A k : slaves /\ k = id => Whole(k)'
  <2> SUFFICES ASSUME slaves, NEW k, k = id, NEW j \in members'[k] PROVE mode'[j] # "none"
    BY DEF Whole
  <2> SUFFICES mode[j] # "none"
    BY <1>1
  <2>1. PICK i \in Id : id \in members[i] /\ j \in members[i]
    BY <1>14 DEF new
  <2> QED
    BY <1>21, <2>1 DEF Whole
<1>23. WholeInv'
  <2>1. \A i \in Id : Whole(i) => Whole(i)'
    BY <1>13, <1>20, <1>22
  <2>2. \A i \in Id : mode[i] # "context" => members'[i] = members[i]
    BY <1>13
  <2> QED
    BY <1>1, <1>6, <1>12, <2>1, <2>2 DEF WholeInv, SameWork, Group
<1> QED
  BY <1>15, <1>16, <1>18, <1>19, <1>23 DEF LaunchesInv

-----------------------------------------------------------------------------
(* The launch that the master works on.                                    *)

\* While the master's thread launches tasks, and waits for nothing, nothing is on its way
\* for it.
LEMMA MasterAlone ==
  ASSUME MailInv, pc[MasterT] \in {"idle", "launch"} \/ (pc[MasterT] = "made" /\ got[MasterT] # NoReply)
  PROVE  /\ out[MasterT] = NoOut /\ Before(chan, adminq, MasterT) \subseteq MailNow
         /\ \A e \in Before(chan, adminq, MasterT) : e[4].kind \in Carriers => e[4].th # MasterT
         /\ pc[MasterT] # "made" => \A e \in MailNow : e[4].kind \in Carriers => e[4].th # MasterT
<1>1. MasterT \in Thread /\ out[MasterT] = NoOut /\ MailShape /\ FitInv /\ WaitInv
  BY WorkerFacts, Apart DEF MasterT
<1>2. Calm(chan, adminq, MasterT)
  BY <1>1, CalmNow DEF Waits
<1>3. \A e \in Before(chan, adminq, MasterT) : e[4].kind \in Carriers => e[4].th # MasterT
  BY <1>1, <1>2, NoneSaid DEF Calm
<1>4. ASSUME pc[MasterT] # "made" PROVE \A e \in MailNow : e[4].kind \in Carriers => e[4].th # MasterT
  BY <1>1, <1>4, OwnsNone, NoneSaid DEF Waits
<1> QED
  BY <1>1, <1>2, <1>3, <1>4 DEF Calm

\* The thread goes on to another task of the launch.
LEMMA WorkGoesOn ==
  ASSUME MailInv, LaunchesInv, UNCHANGED <<mode, members, given, ctx, load, call>>,
         Launching, Launching', pc'[MasterT] = "launch", out'[MasterT] = NoOut,
         launch'.client = launch.client, launch'.ids = launch.ids, launch'.first = launch.first,
         MailNow' \subseteq MailNow, \A e \in MailNow' : e[4].kind \in Carriers => e[4].th # MasterT,
         \A y \in launch.first..Len(launch.ids) : Reached(y)',
         \A i : launch'.x <= Len(launch.ids) /\ i = launch.ids[launch'.x] => Undone(i)'
  PROVE  LaunchesInv'
<1>1. ContextInv /\ OrderInv /\ LaunchInv /\ MakeInv /\ WholeInv
  BY DEF LaunchesInv
<1>2. \A m \in Said' : m \in Said /\ (m.kind \in Carriers => m.th # MasterT) /\ m \in Plain
  BY OrderWaits DEF Said
<1>3. \A m \in Orders' : m \in Orders
  BY <1>2 DEF Orders
<1>4. ContextInv'
  BY <1>1 DEF ContextInv
<1>5. OrderInv'
  BY <1>1, <1>3 DEF OrderInv, OrderOk, Untouched
<1>6. LaunchInv'
  BY <1>1, <1>3 DEF LaunchInv
<1>7. MakeInv'
  <2>1. \A m \in Said' : m.kind # "make" /\ ~(m.kind = "reply" /\ m.th = MasterT)
    BY <1>2, Kinds DEF Carriers, MasterT
  <2>2. launch'.x <= Len(launch'.ids) => Undone(launch.ids[launch.x])'
    OBVIOUS
  <2> QED
    BY <2>1, <2>2 DEF MakeInv, NoOut
<1>8. WholeInv'
  BY <1>1 DEF WholeInv, Whole, Group
<1> QED
  BY <1>4, <1>5, <1>6, <1>7, <1>8 DEF LaunchesInv

LEMMA LaunchReplyLeaves ==
  ASSUME MailInv, LaunchesInv, LaunchReply
  PROVE  LaunchesInv'
<1>1. /\ pc[MasterT] = "made" /\ got[MasterT] # NoReply /\ got' = [got EXCEPT ![MasterT] = NoReply]
      /\ pc' = [pc EXCEPT ![MasterT] = "launch"]
      /\ launch' = [launch EXCEPT !.x = @ + 1]
      /\ UNCHANGED <<mode, members, given, ctx, load, call, out, chan, adminq>>
  BY DEF LaunchReply, tableVars, procVars, netVars, MasterT
<1>2. MasterT \in Thread /\ pc \in [Thread -> Pcs] /\ WorkShape
  BY OrderWaits, Apart
<1>3. /\ launch'.client = launch.client /\ launch'.ids = launch.ids /\ launch'.first = launch.first
      /\ launch'.x = launch.x + 1 /\ launch'.phase = launch.phase
  BY <1>1, <1>2 DEF WorkShape
<1>4. Launching /\ pc'[MasterT] = "launch" /\ launch.x <= Len(launch.ids)
  BY <1>1, <1>2, AtWork
<1>5. Launching'
  BY <1>4 DEF Launching, MasterT
<1>6. MailNow' = Before(chan, adminq, MasterT)
  BY <1>1 DEF MailNow, Before
<1>7. /\ out'[MasterT] = NoOut /\ MailNow' \subseteq MailNow
      /\ \A e \in MailNow' : e[4].kind \in Carriers => e[4].th # MasterT
  BY <1>1, <1>6, MasterAlone
<1>8. LaunchInv /\ MakeInv
  BY DEF LaunchesInv
<1>9. Done(launch.ids[launch.x])
  <2> DEFINE v == got[MasterT]
             e == <<"got", MasterT, NoNode, [kind |-> "reply", th |-> MasterT, val |-> v]>>
  <2>1. e \in MailNow
    BY <1>1, <1>2, ReplyIsOwn DEF Own
  <2>2. e[4].kind = "reply" /\ e[4].th = MasterT
    OBVIOUS
  <2> HIDE DEF e
  <2>3. e[4] \in Said
    BY <2>1 DEF Said
  <2> QED
    BY <1>1, <1>8, <2>2, <2>3 DEF MakeInv
<1>10. \A i : (Undone(i)' <=> Undone(i)) /\ (Done(i)' <=> Done(i)) /\ (Made(i)' <=> Made(i))
  BY <1>1, <1>3 DEF Undone, Done, Made, Group
<1>11. \A y \in launch.first..Len(launch.ids) : Reached(y)'
  <2> SUFFICES ASSUME NEW y \in launch.first..Len(launch.ids) PROVE Reached(y)'
    OBVIOUS
  <2>1. Reached(y) /\ y \in Int /\ launch.x \in Int
    BY <1>4, <1>8, AtWork DEF LaunchInv
  <2>2. y < launch.x + 1 => Done(launch.ids[y])
    BY <1>9, <2>1 DEF Reached
  <2>3. y >= launch.x + 1 => Undone(launch.ids[y])
    BY <2>1 DEF Reached
  <2>4. launch.phase = 2 => Made(launch.ids[y])
    BY <2>1 DEF Reached
  <2> QED
    BY <1>3, <1>10, <2>1, <2>2, <2>3, <2>4 DEF Reached
<1>12. launch.x + 1 <= Len(launch.ids) => Undone(launch.ids[launch.x + 1])
  <2> SUFFICES ASSUME launch.x + 1 <= Len(launch.ids) PROVE Undone(launch.ids[launch.x + 1])
    OBVIOUS
  <2>1. /\ launch.x \in Int /\ launch.x + 1 \in launch.first..Len(launch.ids) /\ launch.x + 1 > launch.x
    BY <1>4, AtWork
  <2> QED
    BY <1>4, <1>8, <2>1 DEF LaunchInv, Reached
<1>13. \A i : launch'.x <= Len(launch.ids) /\ i = launch.ids[launch'.x] => Undone(i)'
  BY <1>3, <1>10, <1>12
<1> QED
  BY <1>1, <1>3, <1>4, <1>5, <1>7, <1>11, <1>13, WorkGoesOn

LEMMA NextPhaseLeaves ==
  ASSUME MailInv, LaunchesInv, NextPhase
  PROVE  LaunchesInv'
<1>1. /\ pc[MasterT] = "launch" /\ launch.x > Len(launch.ids) /\ launch.phase = 1
      /\ launch' = [launch EXCEPT !.x = launch.first, !.phase = 2]
      /\ UNCHANGED <<mode, members, given, ctx, load, call, out, chan, adminq, pc, got>>
  BY DEF NextPhase, tableVars, procVars, netVars, threadVars, MasterT
<1>2. /\ launch'.client = launch.client /\ launch'.ids = launch.ids /\ launch'.first = launch.first
      /\ launch'.x = launch.first /\ launch'.phase = 2
  BY <1>1, Apart DEF WorkShape
<1>3. Launching /\ Launching' /\ pc'[MasterT] = "launch"
  BY <1>1, AtWork DEF Launching
<1>4. /\ out'[MasterT] = NoOut /\ MailNow' \subseteq MailNow
      /\ \A e \in MailNow' : e[4].kind \in Carriers => e[4].th # MasterT
  BY <1>1, MasterAlone DEF MailNow
<1>5. ASSUME NEW y \in launch.first..Len(launch.ids)
      PROVE  mode[launch.ids[y]] = "born" /\ members[launch.ids[y]] = Group
  <2>1. Reached(y) /\ y < launch.x
    BY <1>1, <1>3, AtWork DEF LaunchesInv, LaunchInv
  <2> QED
    BY <1>1, <2>1 DEF Reached, Done, Made
<1>6. \A y \in launch.first..Len(launch.ids) : \A i : i = launch.ids[y] => Undone(i)' /\ Made(i)'
  BY <1>1, <1>2, <1>5 DEF Undone, Made, Group
<1>7. \A y \in launch.first..Len(launch.ids) : Reached(y)'
  <2>1. \A y \in launch.first..Len(launch.ids) : ~(y < launch.first)
    BY <1>3, AtWork
  <2> QED
    BY <1>2, <1>6, <2>1 DEF Reached
<1>8. \A i : launch'.x <= Len(launch.ids) /\ i = launch.ids[launch'.x] => Undone(i)'
  <2>1. launch.first <= Len(launch.ids) => launch.first \in launch.first..Len(launch.ids)
    BY <1>3, AtWork
  <2> QED
    BY <1>2, <1>6, <2>1
<1> QED
  BY <1>1, <1>2, <1>3, <1>4, <1>7, <1>8, WorkGoesOn

\* In the second phase the group is whole, and so it is when that ends.
LEMMA GroupStands ==
  ASSUME MailInv, LaunchesInv, Launching, launch.phase = 2
  PROVE  \A j \in Group : mode[j] # "none"
<1> SUFFICES ASSUME NEW j \in Group PROVE mode[j] # "none"
  OBVIOUS
<1>1. ContextInv /\ LaunchInv
  BY DEF LaunchesInv
<1>2. PICK y \in 1..Len(launch.ids) : launch.ids[y] = j
  BY DEF Group, ToSet
<1>3. CASE y >= launch.first
  <2>1. y \in launch.first..Len(launch.ids)
    BY <1>2, <1>3, AtWork
  <2> QED
    BY <1>1, <1>2, <2>1 DEF LaunchInv, Reached, Made, Started
<1>4. CASE ~(y >= launch.first)
  <2>1. launch.first = 2 /\ y = 1 /\ j \in Id
    BY <1>2, <1>4, AtWork
  <2>2. call[launch.client].op = "launch" /\ j = call[launch.client].id
    BY <1>1, <1>2, <2>1 DEF LaunchInv
  <2>3. PICK d \in Client : launch.client = ClientT(d)
    BY AtWork DEF ClientThread
  <2>4. j # NoId
    BY <2>1, ConstantsAssumption DEF ConstantsAssumption, NoId
  <2>5. ctx[d] = j /\ mode[j] = "context"
    BY <1>1, <2>2, <2>3, <2>4 DEF ContextInv
  <2> QED
    BY <2>5
<1> QED
  BY <1>3, <1>4

\* A process of the launch is made, and the thread goes on at once, or once it is told.
LEMMA MakeDoes ==
  ASSUME MailInv, LaunchesInv, Launching, launch.x <= Len(launch.ids), NEW a,
         NEW i, i = launch.ids[launch.x], Undone(i),
         Make(a, i, Group, launch.phase), UNCHANGED <<given, ctx, load, call>>, Launching',
         launch'.client = launch.client, launch'.ids = launch.ids, launch'.first = launch.first,
         launch'.phase = launch.phase, launch'.x \in {launch.x, launch.x + 1},
         \A k \in Orders' : k \in Orders
  PROVE  /\ ContextInv' /\ OrderInv' /\ LaunchInv' /\ WholeInv'
         /\ Done(i)'
         /\ \A k : launch'.x = launch.x + 1 /\ launch'.x <= Len(launch.ids) /\ k = launch.ids[launch'.x] => Undone(k)'
<1>1. ContextInv /\ OrderInv /\ LaunchInv /\ WholeInv
  BY DEF LaunchesInv
<1>2. /\ mode \in [Id -> Modes] /\ members \in [Id -> SUBSET Id] /\ ctx \in [Client -> Id \cup {NoId}]
      /\ launch.phase \in {1, 2}
  BY Apart DEF FrameShape, ProcShape, WorkShape
<1>3. launch.x \in launch.first..Len(launch.ids) /\ i \in Id /\ launch.x \in Int
  BY AtWork
<1>4. Reached(launch.x) /\ i \in given
  BY <1>1, <1>3 DEF LaunchInv
<1>5. launch.phase = 2 => Made(i)
  BY <1>4 DEF Reached
<1>6. Group' = Group
  BY DEF Group
<1>7. /\ \A j : j # i => mode'[j] = mode[j] /\ members'[j] = members[j]
      /\ mode'[i] = IF launch.phase = 1 THEN "born" ELSE "ready"
      /\ members'[i] = Group
  <2>1. Group \subseteq Id
    BY AtWork DEF Group, ToSet
  <2>2. CASE launch.phase = 1
    <3>1. mode' = [mode EXCEPT ![i] = "born"] /\ members' = [members EXCEPT ![i] = Group]
      BY <2>2 DEF Make
    <3>2. i \in Id /\ mode \in [Id -> Modes] /\ members \in [Id -> SUBSET Id]
      BY <1>2, <1>3
    <3> QED
      BY <2>2, <3>1, <3>2
  <2>3. CASE launch.phase = 2
    <3>1. mode' = [mode EXCEPT ![i] = "ready"] /\ members' = members /\ members[i] = Group
      BY <1>5, <2>3 DEF Make, Made
    <3>2. i \in Id /\ mode \in [Id -> Modes]
      BY <1>2, <1>3
    <3> QED
      BY <2>3, <3>1, <3>2
  <2> QED
    BY <1>2, <2>2, <2>3
<1>8. mode[i] \in {"none", "born"} /\ mode'[i] # "none"
  BY <1>2, <1>7 DEF Undone
<1>9. Done(i)' /\ Made(i)'
  BY <1>2, <1>6, <1>7 DEF Done, Made, Started
<1>10. \A j : j # i => (Undone(j)' <=> Undone(j)) /\ (Done(j)' <=> Done(j)) /\ (Made(j)' <=> Made(j))
  BY <1>6, <1>7 DEF Undone, Done, Made
<1>11. \A y \in launch.first..Len(launch.ids) : y # launch.x => launch.ids[y] # i
  BY <1>1, <1>3 DEF LaunchInv, Distinct
<1>12. ContextInv'
  <2>1. \A c \in Client : ctx[c] # NoId /\ mode[ctx[c]] = "context" => mode'[ctx[c]] = "context"
    BY <1>7, <1>8
  <2>2. \A c \in Client : call[ClientT(c)].op = "launch" /\ call[ClientT(c)].id # NoId =>
             ctx[c] = call[ClientT(c)].id /\ mode'[ctx[c]] = "context"
    BY <1>1, <2>1 DEF ContextInv
  <2>3. \A j \in Id : mode'[j] # "none" => j \in given
    BY <1>1, <1>4, <1>7 DEF ContextInv
  <2> QED
    BY <1>1, <2>2, <2>3 DEF ContextInv
<1>13. OrderInv'
  <2>1. \A m \in Orders : i \notin New(m)
    BY <1>1, <1>3 DEF LaunchInv
  <2>2. \A j : j # i /\ Untouched(j) => Untouched(j)'
    BY <1>7 DEF Untouched
  <2>3. \A m \in Orders' : OrderOk(m)'
    BY <1>1, <2>1, <2>2 DEF OrderInv, OrderOk
  <2> QED
    BY <1>1, <2>3 DEF OrderInv
<1>14. ASSUME NEW y \in launch.first..Len(launch.ids) PROVE Reached(y)'
  <2>1. Reached(y) /\ y \in Int
    BY <1>1 DEF LaunchInv
  <2>2. CASE y = launch.x
    BY <1>3, <1>9, <2>2 DEF Reached
  <2>3. CASE y # launch.x
    <3>1. launch.ids[y] # i
      BY <1>11, <2>3
    <3>2. /\ y < launch.x => Done(launch.ids[y])
          /\ y > launch.x => Undone(launch.ids[y])
          /\ launch.phase = 2 => Made(launch.ids[y])
      BY <2>1 DEF Reached
    <3>3. \A j : j = launch.ids[y] => /\ y < launch.x => Done(j)'
                                      /\ y > launch.x => Undone(j)'
                                      /\ launch.phase = 2 => Made(j)'
      BY <1>10, <3>1, <3>2
    <3>4. (y < launch'.x => y < launch.x) /\ (y >= launch'.x => y > launch.x)
      BY <1>3, <2>1, <2>3
    <3>5. \A j : j = launch.ids[y] => /\ y < launch'.x => Done(j)'
                                      /\ y >= launch'.x => Undone(j)'
                                      /\ launch'.phase = 2 => Made(j)'
      BY <3>3, <3>4
    <3>6. launch'.x \in Int
      BY <1>3
    <3>7. /\ y < launch'.x => Done(launch.ids[y])'
          /\ y >= launch'.x => Undone(launch.ids[y])'
          /\ launch'.phase = 2 => Made(launch.ids[y])'
      BY <3>5
    <3> QED
      BY <2>1, <3>6, <3>7 DEF Reached
  <2> QED
    BY <2>2, <2>3
<1>15. LaunchInv'
  BY <1>1, <1>14 DEF LaunchInv
<1>16. WholeInv'
  <2>1. \A j \in Id : Whole(j) /\ members'[j] = members[j] => Whole(j)'
    BY <1>7, <1>8 DEF Whole
  <2>2. launch.phase = 2 => \A j \in Group : mode'[j] # "none"
    BY <1>7, <1>8, GroupStands
  <2>3. launch.phase = 2 => Whole(i)'
    BY <1>7, <2>2 DEF Whole
  <2>4. ASSUME NEW j \in Id, j # i
        PROVE  /\ mode'[j] \in Started \cup {"context"} => Whole(j)'
               /\ mode'[j] = "born" => Whole(j)' \/ (Launching' /\ members'[j] = Group')
               /\ mode'[j] = "none" => members'[j] = {}
    BY <1>1, <1>6, <1>7, <2>1, <2>4 DEF WholeInv
  <2>5. /\ mode'[i] \in Started \cup {"context"} => Whole(i)'
        /\ mode'[i] = "born" => Whole(i)' \/ (Launching' /\ members'[i] = Group')
        /\ mode'[i] = "none" => members'[i] = {}
    BY <1>2, <1>6, <1>7, <2>3 DEF Started
  <2> QED
    BY <2>4, <2>5 DEF WholeInv
<1>17. ASSUME NEW k, launch'.x = launch.x + 1, launch'.x <= Len(launch.ids), k = launch.ids[launch'.x]
       PROVE  Undone(k)'
  <2>1. launch.x + 1 \in launch.first..Len(launch.ids) /\ launch.x + 1 > launch.x /\ launch.x + 1 # launch.x
    BY <1>3, <1>17, AtWork
  <2>2. Undone(k) /\ k # i
    BY <1>1, <1>11, <1>17, <2>1 DEF LaunchInv, Reached
  <2> QED
    BY <1>10, <2>2
<1> QED
  BY <1>9, <1>12, <1>13, <1>15, <1>16, <1>17

\* The thread sends the message that makes a process, or its last one.
LEMMA MasterSends ==
  ASSUME MailInv, pc[MasterT] = "launch", NEW b \in Node, NEW m \in Plain, m.kind # "data", NEW next,
         Send(MasterT, b, m, next, adminq, chan)
  PROVE  /\ \A k \in Said' : \/ k \in Said /\ (k.kind \in Carriers => k.th # MasterT)
                             \/ k = m
                             \/ k.kind \in {"resolve", "reply"} /\ k.th = MasterT /\ pc'[MasterT] = "agent"
         /\ pc'[MasterT] \in {next, "agent"}
         /\ out'[MasterT] = NoOut \/ (out'[MasterT].msg = m /\ out'[MasterT].next = next)
         /\ pc'[MasterT] = next \/ out'[MasterT].next = next
<1>1. MasterT \in Thread /\ AgentOf(MasterT) \in Node /\ MailShape /\ TableShape /\ NetShape /\ pc \in [Thread -> Pcs]
  BY WorkerFacts, Apart DEF MasterT
<1>2. /\ out[MasterT] = NoOut /\ Before(chan, adminq, MasterT) \subseteq MailNow
      /\ \A e \in Before(chan, adminq, MasterT) : e[4].kind \in Carriers => e[4].th # MasterT
  BY MasterAlone
<1>3. \A e \in MailNow' : \/ e \in Before(chan, adminq, MasterT) \/ Posted(e, b, m)
                          \/ Asks(e, MasterT, b) /\ pc' = [pc EXCEPT ![MasterT] = "agent"]
  BY <1>1, SendNews DEF MailShape
<1>4. \A e : Asks(e, MasterT, b) => e[4].kind \in {"resolve", "reply"} /\ e[4].th = MasterT
  BY DEF Asks, ResolveMsg, ReplyMsg
<1>5. \A k \in Said' : \/ k \in Said /\ (k.kind \in Carriers => k.th # MasterT)
                       \/ k = m
                       \/ k.kind \in {"resolve", "reply"} /\ k.th = MasterT /\ pc'[MasterT] = "agent"
  BY <1>1, <1>2, <1>3, <1>4 DEF Said, Posted
<1>6. \/ pc' = [pc EXCEPT ![MasterT] = next] /\ out' = out
      \/ /\ pc' = [pc EXCEPT ![MasterT] = "agent"]
         /\ out' = [out EXCEPT ![MasterT] = [to |-> b, msg |-> m, next |-> next]]
  BY DEF Send, Resolve
<1> QED
  BY <1>1, <1>2, <1>5, <1>6 DEF MailShape, Outs

LEMMA EndLaunchLeaves ==
  ASSUME MailInv, LaunchesInv, EndLaunch
  PROVE  LaunchesInv'
<1> DEFINE m == ReplyMsg(launch.client, 0)
<1>1. /\ pc[MasterT] = "launch" /\ launch.x > Len(launch.ids) /\ launch.phase = 2 /\ launch' = NoLaunch
      /\ Send(MasterT, AgentOf(launch.client), m, "idle", adminq, chan)
      /\ UNCHANGED <<mode, members, given, ctx, load, call>>
  BY DEF EndLaunch, tableVars, procVars, MasterT
<1>2. ContextInv /\ OrderInv /\ LaunchInv /\ MakeInv /\ WholeInv /\ Launching
  BY <1>1, AtWork DEF LaunchesInv
<1>3. launch.client \in ClientThread /\ <<0>> \in Values
  BY <1>2, AtWork DEF Values
<1>4. launch.client # MasterT /\ launch.client \in Thread /\ AgentOf(launch.client) \in Node
  BY <1>3, OrderWaits, Threads, Sorts DEF ClientThread, AgentOf
<1>5. m \in Plain /\ m.kind = "reply" /\ m.th # MasterT
  BY <1>3, <1>4, MessagesMade DEF ReplyMsg
<1> HIDE DEF m
<1>6. m.kind # "data"
  BY <1>5
<1>7. /\ \A k \in Said' : \/ k \in Said /\ (k.kind \in Carriers => k.th # MasterT)
                          \/ k = m
                          \/ k.kind \in {"resolve", "reply"} /\ k.th = MasterT /\ pc'[MasterT] = "agent"
      /\ pc'[MasterT] \in {"idle", "agent"}
      /\ out'[MasterT] = NoOut \/ out'[MasterT].next = "idle"
  BY <1>1, <1>4, <1>5, <1>6, MasterSends
<1>8. ~Launching'
  BY <1>7 DEF Launching, MasterT, NoOut
<1>9. \A k \in Orders' : k \in Orders
  BY <1>5, <1>7 DEF Orders
<1>10. ContextInv' /\ OrderInv'
  BY <1>1, <1>2, <1>9 DEF ContextInv, OrderInv, OrderOk, Untouched
<1>11. LaunchInv'
  BY <1>8 DEF LaunchInv
<1>12. MakeInv'
  <2>1. \A k \in Said : k.kind = "make" => k.th = MasterT
    BY OrderWaits, Kinds DEF MasterT
  <2>2. \A k \in Said' : k.kind # "make"
    BY <1>5, <1>7, <2>1 DEF Carriers
  <2> QED
    BY <1>7, <2>2 DEF MakeInv, NoOut
<1>13. WholeInv'
  <2>1. \A j \in Group : mode[j] # "none"
    BY <1>1, <1>2, GroupStands
  <2>2. \A i \in Id : members[i] = Group => Whole(i)
    BY <2>1 DEF Whole
  <2> QED
    BY <1>1, <1>2, <2>2 DEF WholeInv, Whole
<1> QED
  BY <1>10, <1>11, <1>12, <1>13 DEF LaunchesInv

LEMMA LaunchStepLeaves ==
  ASSUME MailInv, LaunchesInv, LaunchStep
  PROVE  LaunchesInv'
<1> DEFINE i == launch.ids[launch.x]
           b == launch.place[launch.x]
           m == MakeMsg(i, Group, launch.phase)
           here == /\ Make(Master, i, Group, launch.phase)
                   /\ launch' = [launch EXCEPT !.x = @ + 1]
                   /\ UNCHANGED <<pc, got, out, chan, adminq>>
           there == /\ Send(MasterT, b, m, "made", adminq, chan)
                    /\ UNCHANGED <<launch, home, mode, members>>
<1>1. /\ pc[MasterT] = "launch" /\ launch.x <= Len(launch.ids) /\ (here \/ there)
      /\ UNCHANGED <<given, ctx, load, call>>
  BY DEF LaunchStep, tableVars, MasterT, Group
<1>2. ContextInv /\ OrderInv /\ LaunchInv /\ MakeInv /\ WholeInv /\ Launching
  BY <1>1, AtWork DEF LaunchesInv
<1>3. Undone(i)
  BY <1>1, <1>2 DEF MakeInv
<1>4. launch.x \in launch.first..Len(launch.ids) /\ i \in Id /\ Group \in SUBSET Id /\ b \in Node /\ launch.phase \in {1, 2}
  <2>1. launch.x \in launch.first..Len(launch.ids) /\ i \in Id /\ Group \in SUBSET Id
    BY <1>1, <1>2, AtWork DEF Group, ToSet
  <2> QED
    BY <1>2, <2>1, Apart DEF Work, WorkShape
<1>5. CASE here
  <2>1. /\ launch'.client = launch.client /\ launch'.ids = launch.ids /\ launch'.first = launch.first
        /\ launch'.phase = launch.phase /\ launch'.x = launch.x + 1
    BY <1>5, Apart DEF WorkShape
  <2>2. pc'[MasterT] = "launch" /\ out'[MasterT] = NoOut /\ Launching' /\ MailNow' = MailNow
    BY <1>1, <1>2, <1>5, MasterAlone DEF Launching, MailNow
  <2>3. \A e \in MailNow : e[4].kind \in Carriers => e[4].th # MasterT
    BY <1>1, MasterAlone
  <2>4. \A k \in Said' : k \in Said /\ (k.kind \in Carriers => k.th # MasterT)
    BY <2>2, <2>3 DEF Said
  <2>5. \A k \in Orders' : k \in Orders
    BY <2>4 DEF Orders
  <2>6. Make(Master, i, Group, launch.phase)
    BY <1>5
  <2>7. PICK k : k = i
    OBVIOUS
  <2> HIDE DEF i
  <2>8. k = launch.ids[launch.x] /\ Undone(k) /\ Make(Master, k, Group, launch.phase)
    BY <1>3, <2>6, <2>7 DEF i
  <2>9. /\ ContextInv' /\ OrderInv' /\ LaunchInv' /\ WholeInv'
        /\ \A j : launch'.x = launch.x + 1 /\ launch'.x <= Len(launch.ids) /\ j = launch.ids[launch'.x] => Undone(j)'
    BY <1>1, <1>2, <2>1, <2>2, <2>5, <2>8, MakeDoes
  <2>10. MakeInv'
    <3>1. \A j \in Said' : j.kind # "make" /\ ~(j.kind = "reply" /\ j.th = MasterT)
      BY <2>4, OrderWaits, Kinds DEF Carriers, MasterT
    <3>2. launch'.x <= Len(launch'.ids) => Undone(launch.ids[launch.x])'
      BY <2>1, <2>9
    <3> QED
      BY <2>2, <3>1, <3>2 DEF MakeInv, NoOut
  <2> QED
    BY <2>9, <2>10 DEF LaunchesInv
<1>6. CASE there
  <2>1. m \in Plain /\ m.kind = "make" /\ m.kind # "data" /\ m.kind # "launch"
    BY <1>4, MessagesMade DEF MakeMsg
  <2>2. PICK k : k = m
    OBVIOUS
  <2> HIDE DEF m
  <2>3. /\ \A j \in Said' : \/ j \in Said /\ (j.kind \in Carriers => j.th # MasterT)
                            \/ j = m
                            \/ j.kind \in {"resolve", "reply"} /\ j.th = MasterT /\ pc'[MasterT] = "agent"
        /\ pc'[MasterT] \in {"made", "agent"}
        /\ out'[MasterT] = NoOut \/ (out'[MasterT].msg = m /\ out'[MasterT].next = "made")
        /\ pc'[MasterT] = "made" \/ out'[MasterT].next = "made"
    BY <1>1, <1>4, <1>6, <2>1, MasterSends
  <2>4. \A j \in Orders' : j \in Orders
    BY <2>1, <2>3 DEF Orders
  <2>5. UNCHANGED <<mode, members, launch>> /\ Launching'
    BY <1>6, <2>3 DEF Launching, MasterT
  <2>6. ContextInv' /\ OrderInv'
    BY <1>1, <1>2, <2>4, <2>5 DEF ContextInv, OrderInv, OrderOk, Untouched
  <2>7. LaunchInv'
    <3>1. \A y : Reached(y)' = Reached(y)
      BY <2>5 DEF Reached, Done, Undone, Made, Group
    <3> QED
      BY <1>1, <1>2, <2>4, <2>5, <3>1 DEF LaunchInv
  <2>8. MakeInv'
    <3>1. \A j \in Said' : j.kind = "make" => j = m
      BY <2>3, OrderWaits, Kinds DEF Carriers, MasterT
    <3>2. m = MakeMsg(launch.ids[launch.x], Group, launch.phase) /\ Undone(launch.ids[launch.x])
      BY <1>3 DEF m
    <3>3. \A j \in Said' : ~(j.kind = "reply" /\ j.th = MasterT /\ pc'[MasterT] = "made")
      BY <2>1, <2>3 DEF Carriers
    <3>4. out'[MasterT].next = "made" => out'[MasterT].msg.kind = "make"
      BY <2>1, <2>3 DEF NoOut
    <3>5. Group' = Group /\ (Undone(launch.ids[launch.x])' <=> Undone(launch.ids[launch.x]))
      BY <2>5 DEF Group, Undone
    <3>6. pc'[MasterT] # "launch"
      BY <2>3
    <3> QED
      BY <2>5, <3>1, <3>2, <3>3, <3>4, <3>5, <3>6 DEF MakeInv
  <2>9. WholeInv'
    BY <1>2, <2>5 DEF WholeInv, Whole, Group
  <2> QED
    BY <2>6, <2>7, <2>8, <2>9 DEF LaunchesInv
<1> QED
  BY <1>1, <1>5, <1>6

\* Another agent makes the process: the thread waits to be told, and there is no other
\* message for it.
LEMMA RecvMakeLeaves ==
  ASSUME MailInv, LaunchesInv, NEW a \in Node, NEW b \in Node, RecvT(a, b) \in Thread, RecvMake(a, b)
  PROVE  LaunchesInv'
<1> DEFINE m == Head(chan[b, a])
           w == Rest(a, b)
           x == <<"chan", <<b, a>>, Dest(m, a), Base(m)>>
           th == RecvT(a, b)
<1>1. /\ Takes(a, b) /\ m.kind = "make" /\ Make(a, m.id, m.ids, m.phase)
      /\ Send(th, AgentOf(m.th), ReplyMsg(m.th, 0), "idle", adminq, w)
      /\ UNCHANGED <<given, ctx, load, call, launch>>
  BY DEF RecvMake, tableVars, workVars
<1>2. m \in Plain /\ Taken(w, adminq, x) /\ Base(m) = m
  BY <1>1, RecvTakes
<1>3. x[1] # "out" /\ x[4] = m
  BY <1>2
<1>4. m \in Said /\ m.th = MasterT /\ Carries(m, MasterT)
  BY <1>1, <1>2, <1>3, Kinds DEF Taken, Said, MasterT, Carries, Carriers
<1>5. MailShape /\ TableShape /\ NetShape /\ MasterT \in Thread /\ pc \in [Thread -> Pcs] /\ Control
  BY Apart, OrderWaits
<1> HIDE DEF x
<1>6. pc[MasterT] = "made"
  <2>1. Fit(m, pc[MasterT])
    BY <1>2, <1>3, <1>4, TakenFacts DEF Carries
  <2> QED
    BY <1>1, <2>1 DEF Fit
<1>7. Own(Before(w, adminq, th), MasterT) = {}
  BY <1>2, <1>3, <1>4, TakenFacts
<1>8. out[MasterT] = NoOut
  BY <1>5, <1>6 DEF Control, ControlOf
<1>9. Before(w, adminq, th) \subseteq MailNow
  BY <1>2, <1>5, LetsGo DEF Taken, Less
<1>10. \A e \in Before(w, adminq, th) : e[4].kind \in Carriers => e[4].th # MasterT
  BY <1>5, <1>7, <1>8, <1>9, NoneSaid
<1>11. /\ m = MakeMsg(launch.ids[launch.x], Group, launch.phase) /\ Undone(launch.ids[launch.x])
       /\ Launching /\ launch.x <= Len(launch.ids)
  BY <1>1, <1>4, AtWork DEF LaunchesInv, MakeInv
<1>12. PICK i : i = launch.ids[launch.x]
  OBVIOUS
<1>13. Undone(i) /\ Make(a, i, Group, launch.phase)
  <2>1. \A k : k = MakeMsg(launch.ids[launch.x], Group, launch.phase) =>
               k.id = launch.ids[launch.x] /\ k.ids = Group /\ k.phase = launch.phase
    BY DEF MakeMsg
  <2>2. m.id = i /\ m.ids = Group /\ m.phase = launch.phase
    BY <1>11, <1>12, <2>1
  <2>3. Make(a, m.id, m.ids, m.phase)
    BY <1>1
  <2> HIDE DEF m
  <2> QED
    BY <1>11, <1>12, <2>2, <2>3
<1>14. AgentOf(th) = a /\ AgentOf(m.th) \in Node /\ th # MasterT
  BY <1>4, RecvThread, WorkerFacts DEF MasterT
<1> DEFINE r == ReplyMsg(m.th, 0)
<1>15. r \in Plain /\ r.kind = "reply" /\ r.th = MasterT
  <2>1. <<0>> \in Values
    BY DEF Values
  <2> QED
    BY <1>4, <1>5, <2>1, MessagesMade DEF ReplyMsg
<1> HIDE DEF m, w, th, r
<1>16. \A k \in Said' : \/ k \in Said /\ (k.kind \in Carriers => k.th # MasterT)
                        \/ k = r
                        \/ k.kind \in {"resolve", "reply"} /\ k.th = th
  <2>1. \A e \in MailNow' : \/ e \in Before(w, adminq, th) \/ Posted(e, AgentOf(m.th), r)
                            \/ Asks(e, th, AgentOf(m.th)) /\ pc' = [pc EXCEPT ![th] = "agent"]
    <3>1. w \in Links /\ adminq \in Queues /\ th \in Thread
      BY <1>2 DEF Taken, Less, th
    <3> QED
      BY <1>1, <1>5, <1>14, <1>15, <3>1, SendNews DEF r
  <2>2. \A e : Asks(e, th, AgentOf(m.th)) => e[4].kind \in {"resolve", "reply"} /\ e[4].th = th
    BY DEF Asks, ResolveMsg, ReplyMsg
  <2> QED
    BY <1>9, <1>10, <2>1, <2>2 DEF Said, Posted
<1>17. pc'[MasterT] = pc[MasterT] /\ out'[MasterT] = out[MasterT]
  <2>1. \E p, y : pc' = [pc EXCEPT ![th] = p] /\ (out' = out \/ out' = [out EXCEPT ![th] = y])
    BY <1>1 DEF Send, Resolve
  <2> QED
    BY <1>5, <1>14, <2>1 DEF MailShape, Outs
<1>18. Launching'
  BY <1>11, <1>17 DEF Launching, MasterT
<1>19. \A k \in Orders' : k \in Orders
  BY <1>15, <1>16 DEF Orders
<1>20. ContextInv' /\ OrderInv' /\ LaunchInv' /\ WholeInv' /\ Done(i)'
  BY <1>1, <1>11, <1>12, <1>13, <1>18, <1>19, MakeDoes
<1>21. MakeInv'
  <2>1. \A k \in Said' : k.kind # "make"
    BY <1>15, <1>16, OrderWaits, Kinds DEF Carriers, MasterT
  <2>2. Done(launch.ids[launch.x])'
    BY <1>1, <1>12, <1>20
  <2> QED
    BY <1>6, <1>8, <1>17, <2>1, <2>2 DEF MakeInv, NoOut
<1> QED
  BY <1>20, <1>21 DEF LaunchesInv

\* The master begins a launch: the ids of its order were those of nothing.
LEMMA StartLaunchLeaves ==
  ASSUME MailInv, LaunchesInv, NEW a \in Node, StartLaunch(a)
  PROVE  LaunchesInv'
<1> DEFINE m == Head(adminq[a])
           x == <<"queue", a, Dest(m, a), Base(m)>>
           q == RestOf(a)
<1>1. /\ Runs(a, "launch") /\ adminq' = q /\ pc' = [pc EXCEPT ![AdminT(a)] = "launch"]
      /\ UNCHANGED <<mode, members, given, chan, call, out, got, ctx>>
  BY Zenon DEF StartLaunch, procVars
<1>2. PICK place : /\ load' = [k \in Node |-> load[k] \cup
                                {m.ids[z] : z \in {y \in FirstOf(m)..m.req.n : place[y] = k}}]
                   /\ launch'.client = m.th /\ launch'.ids = m.ids /\ launch'.first = FirstOf(m)
                   /\ launch'.x = FirstOf(m) /\ launch'.phase = 1
  <2> DEFINE r == m.req
             first == IF r.slaves THEN 2 ELSE 1
             auto == r.where \notin nodes
             src == AgentOf(m.th)
             p == IF auto THEN Placement(r.n, first, src) ELSE [y \in 1..r.n |-> r.where]
             at(k) == {m.ids[z] : z \in {y \in first..r.n : p[y] = k}}
  <2>1. /\ load' = [k \in Node |-> load[k] \cup at(k)]
        /\ launch' = [client |-> m.th, ids |-> m.ids, place |-> p, src |-> src,
                      auto |-> auto, first |-> first, x |-> first, phase |-> 1]
    BY Zenon DEF StartLaunch
  <2>2. first = FirstOf(m)
    BY DEF FirstOf
  <2>3. PICK place : place = p
    OBVIOUS
  <2> HIDE DEF m, p, auto, src, first
  <2>4. /\ launch'.client = m.th /\ launch'.ids = m.ids /\ launch'.first = first
        /\ launch'.x = first /\ launch'.phase = 1
    BY <2>1
  <2> QED
    BY <2>1, <2>2, <2>3, <2>4
<1>3. m \in Plain /\ Taken(chan, q, x) /\ m.kind = "launch" /\ Base(m) = m /\ Dest(m, a) = a /\ pc[AdminT(a)] = "idle"
  <2>1. Runs(a, "launch") /\ "launch" # "routed"
    BY <1>1
  <2> QED
    BY <2>1, AdminTakes
<1>4. x[1] = "queue" /\ x[4] = m /\ x[3] = a
  BY <1>3
<1> HIDE DEF x, m, q
<1>5. m \in Orders /\ Carries(m, m.th) /\ m.kind \in MasterKinds
  BY <1>3, <1>4 DEF Taken, Said, Orders, Carries, Carriers, ClientKinds, MasterKinds
<1>6. a = Master /\ AdminT(a) = MasterT
  <2>1. x[4].kind \in MasterKinds
    BY <1>4, <1>5
  <2>2. a = Master
    BY <1>3, <1>4, <2>1, TakenFacts DEF Noted
  <2> QED
    BY <2>2 DEF MasterT
<1>7. /\ m.ids \in Seq(Id) /\ Len(m.ids) = m.req.n /\ FirstOf(m) \in {1, 2}
      /\ m.th \in ClientThread /\ m.th \in Thread
  BY <1>5, NewIds
<1> PICK ids, first : ids = m.ids /\ first = FirstOf(m)
  OBVIOUS
<1>20. /\ launch'.ids = ids /\ launch'.x = first /\ launch'.phase = 1
       /\ ids \in Seq(Id) /\ first \in {1, 2}
  BY <1>2, <1>7
<1>8. /\ out[MasterT] = NoOut /\ ~Launching /\ pc'[MasterT] = "launch" /\ Launching'
      /\ \A e \in MailNow : e[4].kind \in Carriers => e[4].th # MasterT
  <2>1. out[MasterT] = NoOut /\ \A e \in MailNow : e[4].kind \in Carriers => e[4].th # MasterT
    BY <1>3, <1>6, MasterAlone
  <2>2. pc \in [Thread -> Pcs] /\ MasterT \in Thread
    BY OrderWaits, Apart
  <2> QED
    BY <1>1, <1>3, <1>6, <2>1, <2>2 DEF Launching, MasterT, NoOut
<1>9. \A k \in Said' : k \in Said /\ (k.kind \in Carriers => k.th # m.th)
  <2>1. MailNow' = Mail(chan, q, out, got)
    BY <1>1 DEF MailNow
  <2>2. MailNow' \subseteq MailNow /\ Own(MailNow', m.th) = {}
    BY <1>3, <1>4, <1>5, <2>1 DEF Taken, Less
  <2>3. out[m.th] = NoOut
    <3>1. pc[m.th] \in {"reply"}
      <4>1. Fit(m, pc[m.th])
        BY <1>3, <1>4, <1>5, TakenFacts DEF Carries
      <4> QED
        BY <1>3, <4>1 DEF Fit, ClientKinds
    <3> QED
      BY <1>7, <3>1, Apart DEF Control, ControlOf
  <2>4. \A e \in MailNow' : e[4].kind \in Carriers => e[4].th # m.th
    <3>1. PICK M : M = MailNow'
      OBVIOUS
    <3>2. \A e \in M : e[4].kind \in Carriers => e[4].th # m.th
      BY <1>7, <2>2, <2>3, <3>1, NoneSaid
    <3> QED
      BY <3>1, <3>2
  <2> QED
    BY <2>2, <2>4 DEF Said
<1>10. \A k \in Orders' : k \in Orders /\ k.th # m.th
  BY <1>9 DEF Orders, Carriers, ClientKinds
<1>11. \A n \in Node : load'[n] \subseteq load[n] \cup New(m)
  BY <1>2, <1>7 DEF New
<1>12. OrderOk(m) /\ \A k \in Orders' : New(k) \cap New(m) = {}
  BY <1>5, <1>10 DEF LaunchesInv, OrderInv
<1>13. ContextInv'
  <2>1. \A n \in Node : load'[n] \subseteq given
    BY <1>11, <1>12 DEF OrderOk, Untouched, LaunchesInv, ContextInv
  <2> QED
    BY <1>1, <2>1 DEF LaunchesInv, ContextInv
<1>14. OrderInv'
  <2>1. ASSUME NEW k \in Orders' PROVE OrderOk(k)'
    <3>1. OrderOk(k) /\ New(k) \cap New(m) = {}
      BY <1>10, <1>12, <2>1 DEF LaunchesInv, OrderInv
    <3>2. \A i \in New(k) : Untouched(i)'
      BY <1>1, <1>11, <3>1 DEF OrderOk, Untouched
    <3> QED
      BY <1>1, <3>1, <3>2 DEF OrderOk
  <2> QED
    BY <1>10, <2>1 DEF LaunchesInv, OrderInv
<1>15. \A y \in FirstOf(m)..Len(m.ids) : m.ids[y] \in New(m) /\ m.ids[y] \in given /\ mode[m.ids[y]] = "none"
  BY <1>12 DEF New, OrderOk, Untouched
<1>16. \A y \in first..Len(ids) : Undone(ids[y])'
  BY <1>1, <1>15, <1>20 DEF Undone
<1>17. LaunchInv'
  <2>1. \A y \in first..Len(ids) : Reached(y)'
    <3> SUFFICES ASSUME NEW y \in first..Len(ids) PROVE Reached(y)'
      OBVIOUS
    <3>1. Undone(ids[y])'
      BY <1>16
    <3>2. ~(y < first) /\ y \in Int /\ first \in Int
      BY <1>20
    <3> QED
      BY <1>20, <3>1, <3>2 DEF Reached
  <2>2. \A k \in Orders' : New(k) \cap {m.ids[y] : y \in FirstOf(m)..Len(m.ids)} = {}
    BY <1>12 DEF New
  <2>3. Distinct(m.ids, FirstOf(m)) /\ call'[m.th].op = "launch"
    BY <1>1, <1>12 DEF OrderOk
  <2>4. FirstOf(m) = 2 => m.ids[1] = call'[m.th].id
    BY <1>1, <1>12 DEF OrderOk, FirstOf
  <2> QED
    BY <1>1, <1>2, <1>15, <2>1, <2>2, <2>3, <2>4 DEF LaunchInv
<1>18. MakeInv'
  <2>1. \A k \in Said' : k.kind # "make"
    <3>1. \A k \in Said' : k \in Plain /\ (k.kind \in Carriers => k.th # MasterT)
      BY <1>8, <1>9, OrderWaits DEF Said
    <3> QED
      BY <3>1, <1>9, OrderWaits, Kinds DEF Carriers, MasterT
  <2>2. launch'.x <= Len(launch'.ids) => Undone(launch.ids[launch.x])'
    <3>1. first <= Len(ids) => first \in first..Len(ids)
      BY <1>20
    <3>2. first <= Len(ids) => Undone(ids[first])'
      BY <1>16, <3>1
    <3> QED
      BY <1>20, <3>2 DEF Undone
  <2>3. out'[MasterT].next # "made" /\ pc'[MasterT] # "made"
    BY <1>1, <1>8 DEF NoOut
  <2>4. \A k \in Said' : ~(k.kind = "make") /\ ~(k.kind = "reply" /\ k.th = MasterT /\ pc'[MasterT] = "made")
    BY <2>1, <2>3
  <2> QED
    BY <2>2, <2>3, <2>4 DEF MakeInv
<1>19. WholeInv'
  BY <1>1, <1>8 DEF LaunchesInv, WholeInv, Whole
<1> QED
  BY <1>13, <1>14, <1>17, <1>18, <1>19 DEF LaunchesInv

-----------------------------------------------------------------------------
(* The theorems about launches.                                            *)

LEMMA LaunchesStart ==
  ASSUME Init
  PROVE  LaunchesInv
<1>1. /\ MailInv /\ mode = [i \in Id |-> "none"] /\ members = [i \in Id |-> {}] /\ load = [n \in Node |-> {}]
      /\ ctx = [c \in Client |-> NoId] /\ \A th \in Thread : pc[th] = "idle" /\ out[th] = NoOut /\ got[th] = NoReply
      /\ call = [th \in Thread |-> NoCall]
      /\ chan = [l \in Node \X Node |-> <<>>] /\ adminq = [a \in Node |-> <<>>]
  BY MailStarts DEF Init
<1>2. MasterT \in Thread /\ \A c \in Client : ClientT(c) \in Thread
  BY <1>1, OrderWaits, Threads
<1>3. ~Launching /\ pc[MasterT] = "idle" /\ out[MasterT].next # "made"
  BY <1>1, <1>2 DEF Launching, MasterT, NoOut
<1>4. \A m \in Said : m.kind \notin {"launch", "make", "reply"}
  <2> SUFFICES ASSUME NEW e \in MailNow, e[4].kind \in {"launch", "make", "reply"} PROVE FALSE
    BY DEF Said
  <2>1. e[4].kind \in Carriers /\ e[4] \in Plain
    BY <1>1, OrderWaits DEF Carriers, ClientKinds, Said
  <2>2. e[4].th \in Thread
    BY <2>1, Kinds DEF Carriers
  <2>3. ASSUME NEW th \in Thread PROVE e[4].th # th
    <3>1. Own(MailNow, th) = {}
      BY <1>1, OwnsNone, Apart DEF Waits
    <3> QED
      BY <1>1, <2>1, <3>1, NoneSaid
  <2> QED
    BY <2>2, <2>3
<1>5. ContextInv
  BY <1>1, <1>2 DEF ContextInv, NoCall
<1>6. OrderInv /\ LaunchInv /\ MakeInv
  BY <1>3, <1>4 DEF OrderInv, LaunchInv, MakeInv, Orders
<1>7. WholeInv
  BY <1>1 DEF WholeInv, Started
<1> QED
  BY <1>5, <1>6, <1>7 DEF LaunchesInv

LEMMA LaunchesStep ==
  ASSUME MailInv, LaunchesInv, [Act]_agentVars
  PROVE  LaunchesInv'
<1>1. CASE \E c \in Client : Start(c)
  BY <1>1, CallLaunchLeaves, CallTaskLeaves, RegContextLeaves, UnregContextLeaves, CallSizeLeaves, CallFindLeaves
  DEF Start
<1>2. ASSUME NEW th \in Thread, Step(th) PROVE LaunchesInv'
  <2>1. CASE Resolved(th) \/ NewPeer(th)
    BY <2>1, ResolvedLeaves, NewPeerLeaves
  <2>2. CASE \E c \in Client : Return(c) \/ ProxyReply(c)
    BY <2>2, ReturnLeaves, ProxyReplyLeaves
  <2>3. ASSUME NEW a \in Node, Admin(a) PROVE LaunchesInv'
    BY <2>3, AdminKillLeaves, AdminAliveLeaves, AdminWaitLeaves, AdminSizeLeaves, AdminContextLeaves,
       AdminDeadLeaves, AdminRoutedLeaves, AdminBackLinkLeaves, AdminMakeLinkLeaves, AdminRemoveLinkLeaves,
       AdminSubFindLeaves, StartFindLeaves, StartLaunchLeaves DEF Admin
  <2>4. ASSUME NEW a \in Node, Working(a) PROVE LaunchesInv'
    BY <2>4, LaunchStepLeaves, LaunchReplyLeaves, NextPhaseLeaves, EndLaunchLeaves, FindStepLeaves,
       FindReplyLeaves, EndFindLeaves DEF Working
  <2>5. ASSUME NEW a \in Node, NEW b \in Node, th = RecvT(a, b), Recv(a, b) PROVE LaunchesInv'
    BY <2>5, RecvQueuedLeaves, RecvResolveLeaves, RecvMakeLeaves, RecvDataLeaves, RecvReplyLeaves,
       NoticeLossLeaves DEF Recv
  <2> QED
    BY <1>2, <2>1, <2>2, <2>3, <2>4, <2>5 DEF Step
<1>3. CASE \E a \in Node, i \in Id : TaskEnds(a, i) \/ ReportDeath(a, i)
  BY <1>3, TaskEndsLeaves, ReportDeathLeaves
<1>4. CASE \E a \in Node : Leave(a)
  BY <1>4, LeaveLeaves
<1>5. CASE \E n, a \in Node : LoseTail(n, a)
  BY <1>5, LoseTailLeaves
<1>6. CASE UNCHANGED agentVars
  <2>1. UNCHANGED <<mode, given, members, ctx, launch, load, call, pc, out, got, chan, adminq>>
    BY <1>6 DEF agentVars, tableVars, procVars, netVars, threadVars, workVars
  <2>2. NoNews /\ SameCalls /\ SameWork
    BY <2>1 DEF NoNews, Said, MailNow, SameCalls, SameWork, Launching
  <2> QED
    BY <2>1, <2>2, SameLaunches
<1> QED
  BY <1>1, <1>2, <1>3, <1>4, <1>5, <1>6 DEF Act

\* As long as no message was sent twice, the ids of a launch are new and its own, the launch the master works
\* on is as far as its messages say, and who was made has a group that is made.
THEOREM LaunchesHold == Spec => [](~twice => LaunchesInv)
<1>1. Init => (~twice => LaunchesInv)
  BY LaunchesStart
<1>2. (~twice => MailInv) /\ (~twice => LaunchesInv) /\ [Next]_vars => (~twice => LaunchesInv)'
  BY OnceIsAct, LaunchesStep
<1> QED
  BY <1>1, <1>2, MailHolds, PTL DEF Spec

\* A message that is sent twice changes nothing but what is between two nodes, and
\* after it nothing is followed any more.
LEMMA DoubledOrNot ==
  ASSUME ~twice => MailInv, [Next]_vars, twice'
  PROVE  /\ UNCHANGED <<tableVars, procVars, alive, adminq, call, launch, told, slain>>
         /\ \A n \in nodes : chan'[n, Master] = chan[n, Master]
<1>1. CASE UNCHANGED vars
  BY <1>1 DEF vars, agentVars, netVars, threadVars, workVars, histVars
<1>2. CASE Next
  <2>1. ~twice /\ Double
    BY <1>2 DEF Next
  <2>2. PICK a \in Node, b \in Node \ {Master} : chan' = [chan EXCEPT ![<<a, b>>] = <<Head(@)>> \o @]
    BY <2>1 DEF Double
  <2>3. chan \in [Node \X Node -> Seq(Message)] /\ Master \in Node /\ nodes \subseteq Node
    BY <2>1, Threads, Apart DEF MailShape, Links, TableShape
  <2>4. \A n \in Node : <<n, Master>> \in Node \X Node /\ <<n, Master>> # <<a, b>>
    BY <2>2, <2>3
  <2>5. \A n \in nodes : chan'[n, Master] = chan[n, Master]
    BY <2>2, <2>3, <2>4
  <2> QED
    BY <2>1, <2>5 DEF Double, threadVars, workVars, histVars
<1> QED
  BY <1>1, <1>2

\* When a task of a group runs, every task of its group has been made, for any number
\* of agents, launches and requests: the purpose of the two phases of a launch.
THEOREM GroupsAreWhole == Spec => []GroupIsWhole
<1>1. LaunchesInv => GroupIsWhole
  BY DEF LaunchesInv, WholeInv, Whole, GroupIsWhole
<1>2. Init => ~twice
  BY DEF Init
<1>3. GroupIsWhole /\ (~twice => MailInv) /\ [Next]_vars /\ twice' => GroupIsWhole'
  BY DoubledOrNot DEF GroupIsWhole, procVars
<1> QED
  BY <1>1, <1>2, <1>3, LaunchesHold, MailHolds, PTL DEF Spec

-----------------------------------------------------------------------------
(* Where the tasks of a launch are placed.                                 *)

\* What free cpus a node has, when it has busy tasks.
FreeCpu(busy, n) == NumCpu[n] - busy[n]

\* No node that accepts the tasks of src has more free cpus than the chosen one.
LEMMA ChosenIsBest ==
  ASSUME nodes \subseteq Node, NEW busy \in [nodes -> Nat], NEW src, NEW n, n = BestNode(busy, src),
         NEW k \in nodes, Accepts(k, src)
  PROVE  FreeCpu(busy, k) <= FreeCpu(busy, n)
<1> DEFINE accepting == {j \in nodes : Accepts(j, src)}
           most == {j \in accepting : \A i \in accepting : FreeCpu(busy, i) <= FreeCpu(busy, j)}
           f == [j \in accepting |-> FreeCpu(busy, j)]
           T == {f[j] : j \in accepting}
<1>1. /\ IsFiniteSet(Node) /\ Node \subseteq Nat /\ NumCpu \in [Node -> Nat \ {0}]
      /\ accepting \subseteq Node /\ accepting \subseteq nodes /\ most \subseteq accepting /\ k \in accepting
  BY ConstantsAssumption DEF ConstantsAssumption
<1>2. \A j \in nodes : FreeCpu(busy, j) \in Int
  <2> SUFFICES ASSUME NEW j \in nodes PROVE FreeCpu(busy, j) \in Int
    OBVIOUS
  <2>1. NumCpu[j] \in Nat /\ busy[j] \in Nat
    BY <1>1
  <2> QED
    BY <2>1 DEF FreeCpu
<1>3. most # {}
  <2>1. f \in Surjection(accepting, T)
    BY DEF Surjection
  <2>2. IsFiniteSet(accepting)
    BY <1>1, FS_Subset
  <2>3. IsFiniteSet(T)
    BY <2>1, <2>2, FS_Surjection
  <2>4. T \in SUBSET Int /\ T # {}
    BY <1>1, <1>2
  <2>5. PICK v \in T : \A w \in T : w <= v
    BY <2>3, <2>4, Greatest
  <2>6. PICK j \in accepting : v = f[j]
    BY <2>5
  <2>7. \A i \in accepting : FreeCpu(busy, i) <= FreeCpu(busy, j)
    BY <2>5, <2>6
  <2> QED
    BY <2>6, <2>7
<1>4. n = CHOOSE j \in most : \A i \in most : j <= i
  BY <1>3 DEF BestNode, FreeCpu
<1>5. \E j \in most : \A i \in most : j <= i
  <2>1. most \in SUBSET Nat
    BY <1>1
  <2>2. IsFiniteSet(most)
    BY <1>1, FS_Subset
  <2> HIDE DEF most
  <2> QED
    BY <1>3, <2>1, <2>2, Least
<1>6. n \in most
  <2> HIDE DEF most
  <2> QED
    BY <1>4, <1>5
<1> QED
  BY <1>1, <1>6

\* New ids count once each.
LEMMA NewCount ==
  ASSUME NEW S, IsFiniteSet(S), NEW X, IsFiniteSet(X), NEW ids,
         \A x, y \in X : ids[x] = ids[y] => x = y, \A x \in X : ids[x] \notin S
  PROVE  Cardinality(S \cup {ids[x] : x \in X}) = Cardinality(S) + Cardinality(X)
<1> DEFINE T == {ids[x] : x \in X}
           f == [x \in X |-> ids[x]]
<1>1. f \in Bijection(X, T)
  <2>1. f \in Injection(X, T)
    BY DEF Injection, IsInjective
  <2>2. f \in Surjection(X, T)
    BY DEF Surjection
  <2> QED
    BY <2>1, <2>2 DEF Bijection
<1>2. IsFiniteSet(T) /\ Cardinality(T) = Cardinality(X)
  <2>1. ExistsBijection(X, T)
    BY <1>1 DEF ExistsBijection
  <2> HIDE DEF T
  <2> QED
    BY <2>1, FS_Bijection
<1>3. S \cap T = {}
  OBVIOUS
<1> HIDE DEF T
<1>4. Cardinality(S \cup T) = Cardinality(S) + Cardinality(T) - Cardinality({})
  BY <1>2, <1>3, FS_Union
<1>5. Cardinality({}) = 0 /\ Cardinality(S) \in Nat /\ Cardinality(X) \in Nat
  BY FS_EmptySet, FS_CardinalityType
<1>6. Cardinality(S \cup T) = Cardinality(S) + Cardinality(X)
  BY <1>2, <1>4, <1>5
<1> QED
  BY <1>6 DEF T

\* The tasks first..z of a placement that are at node k.
Here(p, first, z, k) == {y \in first..z : p[y] = k}
LEMMA HereFacts ==
  ASSUME NEW p, NEW first \in Nat \ {0}, NEW N \in Nat, NEW z \in first..N, NEW k
  PROVE  /\ IsFiniteSet(Here(p, first, N, k)) /\ IsFiniteSet(Here(p, first, z - 1, k))
         /\ Cardinality(Here(p, first, N, k)) \in Nat /\ Cardinality(Here(p, first, z - 1, k)) \in Nat
         /\ Cardinality(Here(p, first, z - 1, k)) <= Cardinality(Here(p, first, N, k))
         /\ p[z] = k /\ (\A y \in Here(p, first, N, k) : y <= z) =>
              Cardinality(Here(p, first, N, k)) = Cardinality(Here(p, first, z - 1, k)) + 1
<1>1. IsFiniteSet(first..N)
  BY FS_Interval
<1>2. Here(p, first, N, k) \in SUBSET (first..N) /\ Here(p, first, z - 1, k) \in SUBSET Here(p, first, N, k)
  BY DEF Here
<1>3. IsFiniteSet(Here(p, first, N, k))
  BY <1>1, <1>2, FS_Subset
<1>4. /\ IsFiniteSet(Here(p, first, z - 1, k))
      /\ Cardinality(Here(p, first, z - 1, k)) <= Cardinality(Here(p, first, N, k))
  BY <1>2, <1>3, FS_Subset
<1>5. ASSUME p[z] = k, \A y \in Here(p, first, N, k) : y <= z
      PROVE  Cardinality(Here(p, first, N, k)) = Cardinality(Here(p, first, z - 1, k)) + 1
  <2>1. Here(p, first, N, k) = Here(p, first, z - 1, k) \cup {z} /\ z \notin Here(p, first, z - 1, k)
    BY <1>5 DEF Here
  <2> QED
    BY <1>4, <2>1, FS_AddElement
<1> QED
  BY <1>3, <1>4, <1>5, FS_CardinalityType

\* A node that has too many tasks after a placement was the best for the last of them.
LEMMA NoneSpared ==
  ASSUME nodes \subseteq Node, load \in [Node -> SUBSET Id],
         NEW N \in Nat, NEW first \in Nat \ {0}, NEW src, NEW p, p = Placement(N, first, src),
         NEW n \in nodes, NEW z \in first..N, p[z] = n, NEW k \in nodes, Accepts(k, src),
         Cardinality(load[n]) + Cardinality(Here(p, first, N, n)) > NumCpu[n]
  PROVE  ~(Cardinality(load[k]) + Cardinality(Here(p, first, N, k)) < NumCpu[k])
<1>1. PICK x \in first..N : p[x] = n /\ \A y \in Here(p, first, N, n) : y <= x
  <2> DEFINE X == Here(p, first, N, n)
  <2>1. X \in SUBSET Int /\ X # {} /\ IsFiniteSet(X)
    <3>1. IsFiniteSet(X)
      BY HereFacts
    <3> QED
      BY <3>1 DEF Here
  <2>2. \A y : y \in X <=> y \in first..N /\ p[y] = n
    BY DEF Here
  <2> HIDE DEF X
  <2>3. PICK x \in X : \A y \in X : y <= x
    BY <2>1, Greatest
  <2> QED
    BY <2>2, <2>3 DEF X
<1> DEFINE l(j) == Cardinality(load[j])
           h(j) == Cardinality(Here(p, first, x - 1, j))
           t(j) == Cardinality(Here(p, first, N, j))
           busy == [j \in nodes |-> l(j) + h(j)]
<1>2. \A j \in nodes : l(j) \in Nat /\ h(j) \in Nat /\ t(j) \in Nat /\ h(j) <= t(j) /\ NumCpu[j] \in Nat
  <2> SUFFICES ASSUME NEW j \in nodes
               PROVE  l(j) \in Nat /\ h(j) \in Nat /\ t(j) \in Nat /\ h(j) <= t(j) /\ NumCpu[j] \in Nat
    OBVIOUS
  <2>1. IsFiniteSet(load[j])
    BY FS_Subset, ConstantsAssumption DEF ConstantsAssumption
  <2>2. l(j) \in Nat
    BY <2>1, FS_CardinalityType
  <2>3. NumCpu[j] \in Nat
    BY ConstantsAssumption DEF ConstantsAssumption
  <2> QED
    BY <2>2, <2>3, HereFacts
<1>3. t(n) = h(n) + 1
  BY <1>1, HereFacts
<1>4. BestNode(busy, src) = n
  <2>1. p = [y \in 1..N |-> NodeFor(p, y, first, src)]
    BY Placed
  <2>2. x \in 1..N /\ ~(x < first)
    OBVIOUS
  <2>3. p[x] = NodeFor(p, x, first, src)
    BY <2>1, <2>2
  <2> QED
    BY <1>1, <2>2, <2>3 DEF NodeFor, Here
<1> HIDE DEF l, h, t
<1>5. busy \in [nodes -> Nat]
  BY <1>2
<1>6. busy[k] = l(k) + h(k) /\ busy[n] = l(n) + h(n)
  OBVIOUS
<1> HIDE DEF busy
<1>7. FreeCpu(busy, k) <= FreeCpu(busy, n)
  BY <1>4, <1>5, ChosenIsBest
<1>8. NumCpu[k] - (l(k) + h(k)) <= NumCpu[n] - (l(n) + h(n))
  BY <1>6, <1>7 DEF FreeCpu
<1>9. l(n) + t(n) > NumCpu[n]
  BY DEF l, t
<1>10. ~(l(k) + t(k) < NumCpu[k])
  BY <1>2, <1>3, <1>8, <1>9
<1> QED
  BY <1>10 DEF l, t

\* A launch begins in no other step.
LEMMA OnlyStartBegins ==
  ASSUME MailInv, Act, launch = NoLaunch, launch' # launch
  PROVE  \E a \in Node : StartLaunch(a)
<1>1. ~Launching /\ pc[MasterT] \notin {"launch", "made"}
  <2>1. launch.client = <<>> /\ \A c \in Client : ClientT(c) # <<>>
    BY DEF NoLaunch, ClientT
  <2>2. ~Launching
    BY <2>1, Apart DEF Work, ClientThread
  <2> QED
    BY <2>2 DEF Launching, MasterT
<1>2. \A c \in Client : Start(c) => UNCHANGED launch
  <2> SUFFICES ASSUME NEW c \in Client PROVE Start(c) => UNCHANGED launch
    OBVIOUS
  <2>1. \A r \in Requests : CallLaunch(c, r) => UNCHANGED launch
    BY Zenon DEF CallLaunch, ProcSame, workVars
  <2>2. \A op, id : CallTask(c, op, id) => UNCHANGED launch
    BY Zenon DEF CallTask, ProcSame, workVars
  <2>3. \A id : RegContext(c, id) => UNCHANGED launch
    BY Zenon DEF RegContext, ProcSame, workVars
  <2>4. UnregContext(c) => UNCHANGED launch
    BY Zenon DEF UnregContext, ProcSame, workVars
  <2>5. CallSize(c) => UNCHANGED launch
    BY Zenon DEF CallSize, ProcSame, workVars
  <2>6. CallFind(c) => UNCHANGED launch
    BY Zenon DEF CallFind, ProcSame, workVars
  <2> QED
    BY <2>1, <2>2, <2>3, <2>4, <2>5, <2>6 DEF Start
<1>3. \A th \in Thread : Resolved(th) \/ NewPeer(th) => UNCHANGED launch
  BY Zenon DEF Resolved, NewPeer, ProcSame, workVars
<1>9. \A c \in Client : Return(c) \/ ProxyReply(c) => UNCHANGED launch
  BY Zenon DEF Return, ProxyReply, ProcSame, workVars
<1>4. \A a \in Node : Admin(a) => StartLaunch(a) \/ UNCHANGED launch
  <2> SUFFICES ASSUME NEW a \in Node PROVE Admin(a) => StartLaunch(a) \/ UNCHANGED launch
    OBVIOUS
  <2>1. AdminKill(a) => UNCHANGED launch
    BY Zenon DEF AdminKill, ProcSame, workVars
  <2>2. AdminAlive(a) => UNCHANGED launch
    BY Zenon DEF AdminAlive, ProcSame, workVars
  <2>3. AdminWait(a) => UNCHANGED launch
    BY Zenon DEF AdminWait, ProcSame, workVars
  <2>4. AdminSize(a) => UNCHANGED launch
    BY Zenon DEF AdminSize, ProcSame, workVars
  <2>5. AdminContext(a) => UNCHANGED launch
    BY Zenon DEF AdminContext, ProcSame, workVars
  <2>6. AdminDead(a) => UNCHANGED launch
    BY Zenon DEF AdminDead, ProcSame, workVars
  <2>7. AdminRouted(a) => UNCHANGED launch
    BY Zenon DEF AdminRouted, ProcSame, workVars
  <2>8. AdminBackLink(a) => UNCHANGED launch
    BY Zenon DEF AdminBackLink, ProcSame, workVars
  <2>9. AdminMakeLink(a) => UNCHANGED launch
    BY Zenon DEF AdminMakeLink, ProcSame, workVars
  <2>10. AdminRemoveLink(a) => UNCHANGED launch
    BY Zenon DEF AdminRemoveLink, ProcSame, workVars
  <2>11. AdminSubFind(a) => UNCHANGED launch
    BY Zenon DEF AdminSubFind, ProcSame, workVars
  <2>12. StartFind(a) => UNCHANGED launch
    BY Zenon DEF StartFind, ProcSame, workVars
  <2> QED
    BY <2>1, <2>2, <2>3, <2>4, <2>5, <2>6, <2>7, <2>8, <2>9, <2>10, <2>11, <2>12 DEF Admin
<1>5. \A a \in Node : ~Working(a)
  BY <1>1 DEF Working, LaunchStep, LaunchReply, NextPhase, EndLaunch, FindStep, FindReply, EndFind, MasterT, ProcSame, workVars
<1>6. \A a, b \in Node : Recv(a, b) => UNCHANGED launch
  <2> SUFFICES ASSUME NEW a \in Node, NEW b \in Node PROVE Recv(a, b) => UNCHANGED launch
    OBVIOUS
  <2>1. RecvQueued(a, b) => UNCHANGED launch
    BY Zenon DEF RecvQueued, ProcSame, workVars
  <2>2. RecvResolve(a, b) => UNCHANGED launch
    BY Zenon DEF RecvResolve, ProcSame, workVars
  <2>3. RecvMake(a, b) => UNCHANGED launch
    BY Zenon DEF RecvMake, ProcSame, workVars
  <2>4. RecvData(a, b) => UNCHANGED launch
    BY Zenon DEF RecvData, ProcSame, workVars
  <2>5. RecvReply(a, b) => UNCHANGED launch
    BY Zenon DEF RecvReply, ProcSame, workVars
  <2>6. NoticeLoss(a, b) => UNCHANGED launch
    BY Zenon DEF NoticeLoss, ProcSame, workVars
  <2> QED
    BY <2>1, <2>2, <2>3, <2>4, <2>5, <2>6 DEF Recv
<1>7. /\ ~(\E a \in Node, i \in Id : TaskEnds(a, i) \/ ReportDeath(a, i))
      /\ ~(\E a \in Node : Leave(a)) /\ ~(\E n, a \in Node : LoseTail(n, a))
  BY DEF TaskEnds, ReportDeath, Leave, LoseTail, ProcSame, workVars
<1>8. PICK th \in Thread : Step(th)
  BY <1>2, <1>7 DEF Act
<1> QED
  BY <1>3, <1>4, <1>5, <1>6, <1>8, <1>9 DEF Step

\* A node gets more tasks than it has cpus only when no node that accepts the tasks has
\* a free one, though the tasks of a launch are placed one after the other, before any
\* of them runs.
THEOREM NoneIsOverloaded == Spec => NoNeedlessOverload
<1>1. ASSUME ~twice => MailInv, ~twice => LaunchesInv, [Next]_vars, launch' # launch, launch = NoLaunch, launch'.auto,
             NEW n \in nodes, NEW k \in nodes, load[n] # load'[n], Overloaded(n, load')
      PROVE  ~(Accepts(k, launch'.src) /\ Spare(k, load'))
  <2>0. ~twice' /\ MailInv /\ LaunchesInv /\ Act
    <3>1. ~twice'
      BY <1>1, DoubledOrNot
    <3>2. ~twice /\ [Act]_agentVars
      BY <1>1, <3>1, OnceIsAct
    <3> QED
      BY <1>1, <3>1, <3>2 DEF agentVars, workVars
  <2>1. PICK a \in Node : StartLaunch(a)
    BY <1>1, <2>0, OnlyStartBegins
  <2> DEFINE m == Head(adminq[a])
             r == m.req
             first == IF r.slaves THEN 2 ELSE 1
             auto == r.where \notin nodes
             src == AgentOf(m.th)
             p == IF auto THEN Placement(r.n, first, src) ELSE [x \in 1..r.n |-> r.where]
             at(j) == {m.ids[x] : x \in {y \in first..r.n : p[y] = j}}
  <2>2. /\ Runs(a, "launch") /\ load' = [j \in Node |-> load[j] \cup at(j)]
        /\ launch' = [client |-> m.th, ids |-> m.ids, place |-> p, src |-> src,
                      auto |-> auto, first |-> first, x |-> first, phase |-> 1]
    BY <2>1, Zenon DEF StartLaunch
  <2>3. m \in Orders
    <3> DEFINE x == <<"queue", a, Dest(m, a), Base(m)>>
    <3>1. "launch" # "routed"
      OBVIOUS
    <3>2. Taken(chan, RestOf(a), x) /\ m.kind = "launch" /\ Base(m) = m
      BY <2>0, <2>2, <3>1, AdminTakes
    <3>3. x[4] = m
      BY <3>2
    <3> HIDE DEF x, m
    <3> QED
      BY <3>2, <3>3 DEF Taken, Said, Orders
  <2>4. first = FirstOf(m)
    BY DEF FirstOf
  <2>5. auto /\ launch'.src = src
    <3> HIDE DEF m, auto, src, first, p
    <3> QED
      BY <1>1, <2>2
  <2>6. p = Placement(r.n, first, src)
    BY <2>5
  <2>7. at(n) = {m.ids[x] : x \in Here(p, first, r.n, n)} /\ at(k) = {m.ids[x] : x \in Here(p, first, r.n, k)}
    BY DEF Here
  <2> HIDE DEF p, auto, src, first, m, r
  <2>8. /\ m.ids \in Seq(Id) /\ Len(m.ids) = r.n /\ first \in {1, 2} /\ r.n \in Nat
    BY <2>0, <2>3, <2>4, NewIds DEF r
  <2>9. Distinct(m.ids, first) /\ \A x \in first..r.n : Untouched(m.ids[x])
    BY <2>0, <2>3, <2>4, <2>8 DEF LaunchesInv, OrderInv, OrderOk, New
  <2>10. load \in [Node -> SUBSET Id] /\ nodes \subseteq Node
    BY <2>0, Apart DEF TableShape
  <2>11. ASSUME NEW j \in nodes
         PROVE  Cardinality(load[j] \cup {m.ids[x] : x \in Here(p, first, r.n, j)})
                  = Cardinality(load[j]) + Cardinality(Here(p, first, r.n, j))
    <3>1. Here(p, first, r.n, j) \subseteq first..r.n
      BY DEF Here
    <3>2. IsFiniteSet(load[j])
      BY <2>10, FS_Subset, ConstantsAssumption DEF ConstantsAssumption
    <3>3. IsFiniteSet(Here(p, first, r.n, j))
      <4>1. first \in Int /\ r.n \in Int
        BY <2>8
      <4>2. IsFiniteSet(first..r.n)
        BY <4>1, FS_Interval
      <4> QED
        BY <3>1, <4>2, FS_Subset
    <3>4. \A x, y \in Here(p, first, r.n, j) : m.ids[x] = m.ids[y] => x = y
      BY <2>8, <2>9, <3>1 DEF Distinct
    <3>5. \A x \in Here(p, first, r.n, j) : m.ids[x] \notin load[j]
      BY <2>9, <2>10, <3>1 DEF Untouched
    <3> QED
      BY <3>2, <3>3, <3>4, <3>5, NewCount
  <2>12. /\ Cardinality(load'[n]) = Cardinality(load[n]) + Cardinality(Here(p, first, r.n, n))
         /\ Cardinality(load'[k]) = Cardinality(load[k]) + Cardinality(Here(p, first, r.n, k))
    BY <2>2, <2>7, <2>10, <2>11
  <2>13. PICK z \in first..r.n : p[z] = n
    <3>1. at(n) # {}
      BY <1>1, <2>2, <2>10
    <3> QED
      BY <3>1
  <2>14. SUFFICES ASSUME Accepts(k, src), Spare(k, load') PROVE FALSE
    BY <2>5
  <2>15. first \in Nat \ {0}
    BY <2>8
  <2>16. Cardinality(load[n]) + Cardinality(Here(p, first, r.n, n)) > NumCpu[n]
    BY <1>1, <2>12 DEF Overloaded
  <2>17. ~(Cardinality(load[k]) + Cardinality(Here(p, first, r.n, k)) < NumCpu[k])
    BY <2>6, <2>8, <2>10, <2>13, <2>14, <2>15, <2>16, NoneSpared
  <2> QED
    BY <2>12, <2>14, <2>17 DEF Spare
<1>2. ASSUME ~twice => MailInv, ~twice => LaunchesInv, [Next]_vars
      PROVE  [launch' # launch /\ launch = NoLaunch /\ launch'.auto =>
                \A n, k \in nodes : load[n] # load'[n] /\ Overloaded(n, load')
                  => ~(Accepts(k, launch'.src) /\ Spare(k, load'))]_vars
  BY <1>1, <1>2
<1> QED
  BY <1>2, MailHolds, LaunchesHold, PTL DEF Spec, NoNeedlessOverload

-----------------------------------------------------------------------------
(* The inductive invariant of the tables.                                  *)

\* The master knows where context i is, from its reg_context on.
Enrolled(i) == mode[i] = "context" => owner[i] = home[i]
\* What there is, to be asked for, and what is over for good.
Real(i) == mode[i] # "none" /\ Enrolled(i)
Over(i) == mode[i] # "none" /\ (Lives(i) => home[i] \notin alive)

\* The message that buries i is on its way from agent n, or with the master.
Among(m, s) == \E k \in 1..Len(s) : s[k] = m
Bell(n, i) == Among(DeadMsg(i), adminq[Master]) \/ Among(DeadMsg(i), chan[n, Master])

\* What the load of an agent has is a task of its own, or one that is being launched, and
\* what the launch is to make is in the load of an agent.
LoadInv ==
  /\ alive \subseteq nodes /\ Master \in alive
  /\ \A i \in Id : Lives(i) /\ mode[i] # "context" /\ home[i] \in nodes => i \in load[home[i]]
  /\ \A n \in nodes : \A i \in load[n] :
       /\ owner[i] = n /\ mode[i] # "context"
       /\ mode[i] = "none" => Launching /\ \E y \in launch.first..Len(launch.ids) : launch.ids[y] = i
       /\ mode[i] = "gone" => n \notin alive \/ Bell(n, i)
PlaceInv ==
  Launching => \A y \in launch.first..Len(launch.ids) :
                 launch.place[y] \in nodes /\ launch.ids[y] \in load[launch.place[y]]
OwnerInv ==
  \A i \in Id : /\ i \notin given => owner[i] = NoNode
                /\ mode[i] # "none" => home[i] \in Node /\ owner[i] \in {NoNode, home[i]}

\* The thread waits for the reply to its call, or for the agent to send it to.
Pending(t) == pc[t] = "reply" \/ (pc[t] = "agent" /\ out[t].next = "reply")

\* A context is at the agent of its client; between its calls the master knows it.
ClientOk(c) ==
  LET k == call[ClientT(c)]
      x == ctx[c]
  IN  /\ x # NoId => /\ mode[x] \in {"context", "gone"} /\ home[x] = At[c]
                     /\ \A n \in Node : x \notin load[n]
                     /\ k.op # "reg" => Enrolled(x)
      /\ k.op \in {"reg", "unreg"} => x # NoId /\ k.id = x /\ Pending(ClientT(c))
      /\ k.op = "unreg" => mode[x] = "gone"
ClientInv == \A c \in Client : ClientOk(c)
MemberInv == \A j \in Id : members[j] = {j} \/ \A i \in members[j] : Enrolled(i)

\* Who is asked for is real, and the worker of a client_wait_task is where he is; where an
\* id was found before, it still is.
TaskOps == {"kill", "wait", "alive", "send"}
Attended(c) ==
  pc[ProxyT(c)] = "waiting" => /\ call[ClientT(c)].op = "wait"
                               /\ call[ProxyT(c)].id = call[ClientT(c)].id
                               /\ proxyat[c] = home[call[ProxyT(c)].id]
AskInv ==
  /\ \A th \in Thread : call[th].op \in TaskOps => Real(call[th].id)
  /\ \A c \in Client : Attended(c)
  /\ \A a \in Node, i \in Id : cache[a][i] # NoNode => mode[i] # "none" /\ cache[a][i] = home[i]

\* The tasks a find_services of thread t must name.
Wanted(t) == {i \in since[t[2]] : Lives(i) /\ home[i] \in alive}
HuntInv ==
  /\ alive \ {Master} \subseteq peers[Master]
  /\ \A c \in Client : \A i \in since[c] : mode[i] \notin {"none", "context"}
  /\ Hunting => /\ call[hunt.client].op = "find"
                /\ pc[MasterT] = "hunt" =>
                     \A i \in Wanted(hunt.client) : i \in hunt.found \/ home[i] \in hunt.left

\* What a reply with value v says to thread t is true, and so is every other message.
ReplyTrue(t, v) ==
  LET k == call[t]
  IN  /\ pc[t] = "task" => v = <<home[k.id]>> \/ (v = <<NoNode>> /\ Over(k.id))
      /\ pc[t] = "reply" =>
           /\ k.op = "wait" \/ (k.op = "alive" /\ v = <<1>>) => Over(k.id)
           /\ k.op = "kill" => k.id \in killed \/ Over(k.id)
           /\ k.op = "reg" => Enrolled(k.id)
           /\ k.op = "find" => Wanted(t) \subseteq v[1]
      /\ pc[t] = "found" =>
           \A i \in Wanted(hunt.client) : i \in hunt.found \cup v[1] \/ home[i] \in hunt.left
TrueTo(a, m) ==
  /\ m.kind = "resolve" /\ pc[m.th] = "task" => m.id = call[m.th].id
  /\ m.kind \in ClientKinds => m.kind = call[m.th].op
  /\ m.kind \in {"kill", "wait", "alive", "reg", "unreg"} => m.id = call[m.th].id
  /\ m.kind \in {"kill", "wait", "alive"} => a = home[m.id]
  /\ m.kind = "data" => Real(m.id)
  /\ m.kind = "reply" => ReplyTrue(m.th, m.val)
  /\ m.kind = "make" => a = launch.place[launch.x]
  /\ m.kind = "subfind" =>
       \A i \in Wanted(hunt.client) : i \in hunt.found \/ home[i] \in hunt.left \cup {a}
  /\ m.kind = "dead" => mode[m.id] = "gone"
  /\ m.kind = "removelink" => m.to \notin alive
\* Nobody sends a reply to itself.
WordInv == /\ \A e \in MailNow : TrueTo(e[3], e[4])
           /\ \A th \in Thread : out[th].msg.kind = "reply" => out[th].msg.th # th

\* What the clients were told.
ToldInv == (\A i \in told : Over(i)) /\ \A i \in slain : i \in killed \/ Over(i)

TablesInv == /\ LoadInv /\ PlaceInv /\ OwnerInv /\ ClientInv /\ MemberInv
             /\ AskInv /\ HuntInv /\ WordInv /\ ToldInv

-----------------------------------------------------------------------------
(* What stays true while others act.                                       *)

\* What can become of a process, and what the master knows of it meanwhile.
Passage == {<<"born", "ready">>, <<"ready", "ended">>, <<"ended", "gone">>, <<"context", "gone">>}
Passes(i) ==
  mode[i] # "none" =>
    /\ mode'[i] = mode[i] \/ <<mode[i], mode'[i]>> \in Passage
    /\ home'[i] = home[i] /\ (Enrolled(i) => Enrolled(i)')
Onward == (\A i \in Id : Passes(i)) /\ alive' \subseteq alive /\ killed \subseteq killed'

\* Of the threads none goes on but th.
Alone(th) ==
  /\ \A t \in Thread \ {th} : pc'[t] = pc[t] /\ call'[t] = call[t] /\ out'[t] = out[t]
  /\ \A c \in Client : since'[c] = since[c] \/ th = ClientT(c)

LEMMA Endures ==
  ASSUME Onward, NEW i \in Id, mode[i] # "none"
  PROVE  /\ mode'[i] # "none" /\ home'[i] = home[i] /\ (Lives(i)' => Lives(i))
         /\ (Over(i) => Over(i)') /\ (Real(i) => Real(i)')
         /\ (mode[i] = "gone" => mode'[i] = "gone")
         /\ (mode[i] # "context" => mode'[i] # "context")
         /\ (mode[i] \in {"context", "gone"} => mode'[i] \in {"context", "gone"})
<1>1. Passes(i) /\ alive' \subseteq alive
  BY DEF Onward
<1>2. /\ home'[i] = home[i] /\ (Enrolled(i) => Enrolled(i)')
      /\ mode'[i] = mode[i] \/ <<mode[i], mode'[i]>> \in Passage
  BY <1>1 DEF Passes
<1>3. \/ mode'[i] = mode[i]
      \/ mode[i] = "born" /\ mode'[i] = "ready"
      \/ mode[i] = "ready" /\ mode'[i] = "ended"
      \/ mode[i] \in {"ended", "context"} /\ mode'[i] = "gone"
  BY <1>2 DEF Passage
<1>4. mode'[i] # "none" /\ (Lives(i)' => Lives(i))
  BY <1>3 DEF Lives, OnMap
<1> QED
  BY <1>1, <1>2, <1>3, <1>4 DEF Over, Real

\* The tables of TablesInv, one by one.
LEMMA Tables ==
  ASSUME TablesInv
  PROVE  /\ LoadInv /\ PlaceInv /\ OwnerInv /\ ClientInv /\ MemberInv
         /\ AskInv /\ HuntInv /\ WordInv /\ ToldInv
BY DEF TablesInv

\* No thread that goes on has left its transaction to somebody else.
Free(th) == th \in Thread => KeptNow(th) = {}

LEMMA IsFree ==
  ASSUME MailInv, NEW th \in Thread, pc[th] # "reply" \/ got[th] # NoReply
  PROVE  Free(th)
<1>1. WaitOf(th)
  BY Apart DEF WaitInv
<1>2. got[th] # NoReply => Own(MailNow, th) # {}
  BY ReplyIsOwn
<1> QED
  BY <1>1, <1>2 DEF WaitOf, Free

\* Whom the master's find_services is for waits for it.
LEMMA Hunted ==
  ASSUME MailInv, NEW th, Free(th), Hunting
  PROVE  hunt.client \in ClientThread /\ hunt.client \in Thread /\ hunt.client # th
<1>1. hunt.client \in ClientThread /\ hunt.client \in Thread
  BY Apart, Threads DEF Work
<1>2. "hunt" \in KeptNow(hunt.client)
  BY DEF Kept, KeptNow
<1> QED
  BY <1>1, <1>2 DEF Free

LEMMA WantLess ==
  ASSUME MailInv, HuntInv, Onward, NEW th, Alone(th), NEW t \in ClientThread, t # th
  PROVE  Wanted(t)' \subseteq Wanted(t) /\ \A i \in Wanted(t) : home'[i] = home[i]
<1>1. PICK c \in Client : t = ClientT(c)
  BY DEF ClientThread
<1>2. t[2] = c /\ since'[c] = since[c]
  BY <1>1, Sorts DEF Alone
<1>3. \A i \in since[c] : i \in Id /\ mode[i] # "none"
  BY Apart DEF HuntInv, HistShape
<1>4. \A i \in since[c] : home'[i] = home[i] /\ (Lives(i)' => Lives(i))
  BY <1>3, Endures
<1> QED
  BY <1>2, <1>4 DEF Wanted, Onward

LEMMA ReplyStays ==
  ASSUME MailInv, TablesInv, Onward, NEW th, Alone(th), Free(th),
         UNCHANGED <<launch, hunt>> \/ th = MasterT, NEW t \in Thread, t # th, NEW v, ReplyTrue(t, v)
  PROVE  ReplyTrue(t, v)'
<1>1. pc'[t] = pc[t] /\ call'[t] = call[t] /\ pc[t] \in PcsOf(t) /\ t # <<>>
  BY Apart, Courses DEF Alone, Control, ControlOf
<1>2. AskInv /\ HuntInv /\ ClientInv
  BY Tables
<1>3. PICK k : k = call[t].id /\ k = call'[t].id
  BY <1>1
<1>4. call[t].op \in TaskOps => home'[k] = home[k] /\ (Over(k) => Over(k)')
  BY <1>2, <1>3, Apart, Endures DEF AskInv, CallShape, TaskOps, Real
<1>5. CASE pc[t] = "task"
  <2>1. call[t].op \in TaskOps
    BY <1>5, Apart DEF Control, ControlOf, TaskOps
  <2> QED
    BY <1>1, <1>3, <1>4, <1>5, <2>1 DEF ReplyTrue
<1>6. CASE pc[t] = "reply"
  <2>1. t \in ClientThread
    BY <1>1, <1>6, Courses
  <2>2. PICK c \in Client : t = ClientT(c)
    BY <2>1 DEF ClientThread
  <2>3. call[t].op = "reg" => (Enrolled(k) => Enrolled(k)')
    BY <1>2, <1>3, <2>2, Apart DEF ClientInv, ClientOk, FrameShape, Onward, Passes
  <2>4. Wanted(t)' \subseteq Wanted(t)
    BY <1>2, <2>1, WantLess
  <2>5. killed \subseteq killed'
    BY DEF Onward
  <2> QED
    BY <1>1, <1>3, <1>4, <1>6, <2>3, <2>4, <2>5 DEF ReplyTrue, TaskOps
<1>7. CASE pc[t] = "found"
  <2>1. t = MasterT
    BY <1>1, <1>7, Courses DEF MasterT
  <2>2. Hunting /\ UNCHANGED hunt
    BY <1>7, <2>1 DEF Hunting, MasterT
  <2>3. hunt.client \in ClientThread /\ hunt.client # th
    BY <2>2, Hunted
  <2>4. PICK h \in ClientThread : h = hunt.client /\ h # th
    BY <2>3
  <2>5. Wanted(h)' \subseteq Wanted(h) /\ \A i \in Wanted(h) : home'[i] = home[i]
    BY <1>2, <2>4, WantLess
  <2>6. h = hunt'.client
    BY <2>2, <2>4
  <2> QED
    BY <1>1, <1>7, <2>2, <2>4, <2>5, <2>6 DEF ReplyTrue
<1> QED
  BY <1>1, <1>5, <1>6, <1>7 DEF ReplyTrue

\* Entry e of the mail was there before, and thread th does not wait for it.
Was(e, th) ==
  \E f \in MailNow : /\ f[4] = e[4] /\ (f[3] = e[3] \/ e[4].kind = "reply")
                     /\ e[4].kind \in Carriers => e[4].th # th

\* What was said and true is true.
LEMMA StillTrue ==
  ASSUME MailInv, TablesInv, Onward, NEW th, Alone(th), Free(th),
         UNCHANGED <<launch, hunt>> \/ th = MasterT, NEW e, Was(e, th)
  PROVE  TrueTo(e[3], e[4])'
<1>1. PICK f \in MailNow : /\ f[4] = e[4] /\ (f[3] = e[3] \/ e[4].kind = "reply")
                           /\ e[4].kind \in Carriers => e[4].th # th
  BY DEF Was
<1>2. PICK m : m = e[4]
  OBVIOUS
<1>3. PICK a : a = e[3]
  OBVIOUS
<1>4. m \in Plain /\ TrueTo(f[3], m) /\ (f[3] = a \/ m.kind = "reply")
  BY <1>1, <1>2, <1>3, OrderWaits, Tables DEF WordInv, Said
<1>5. m.kind \in Carriers => /\ m.th \in Thread /\ m.th # th /\ pc'[m.th] = pc[m.th] /\ call'[m.th] = call[m.th]
  BY <1>1, <1>2, <1>4, Kinds DEF Alone
<1>6. AskInv /\ HuntInv
  BY Tables
<1>7. m.kind = "reply" => TrueTo(a, m)'
  <2> SUFFICES ASSUME m.kind = "reply" PROVE TrueTo(a, m)'
    OBVIOUS
  <2>1. ReplyTrue(m.th, m.val) /\ m.kind \in Carriers
    BY <1>4 DEF TrueTo, Carriers
  <2>2. ReplyTrue(m.th, m.val)'
    BY <1>5, <2>1, ReplyStays
  <2> QED
    BY <2>2 DEF TrueTo, ClientKinds
<1>8. m.kind \in TaskOps \cap ClientKinds => TrueTo(a, m)'
  <2> SUFFICES ASSUME m.kind \in TaskOps \cap ClientKinds PROVE TrueTo(a, m)'
    OBVIOUS
  <2>1. m.kind \in {"kill", "wait", "alive"} /\ m.kind \in Carriers /\ m.kind \in ClientKinds
    BY DEF TaskOps, ClientKinds, Carriers
  <2>2. m.kind = call[m.th].op /\ m.id = call[m.th].id /\ f[3] = home[m.id]
    BY <1>4, <2>1 DEF TrueTo
  <2>3. m.id \in Id /\ Real(m.id)
    BY <1>4, <1>5, <1>6, <2>1, <2>2, Kinds DEF AskInv, TaskOps
  <2>4. home'[m.id] = home[m.id]
    BY <2>3, Endures DEF Real
  <2> QED
    BY <1>4, <1>5, <2>1, <2>2, <2>4 DEF TrueTo
<1>9. m.kind \in ClientKinds \ TaskOps => TrueTo(a, m)'
  <2> SUFFICES ASSUME m.kind \in ClientKinds \ TaskOps PROVE TrueTo(a, m)'
    OBVIOUS
  <2>1. m.kind \in {"launch", "reg", "unreg", "size", "find"} /\ m.kind \in Carriers
    BY DEF TaskOps, ClientKinds, Carriers
  <2> QED
    BY <1>4, <1>5, <2>1 DEF TrueTo
<1>10. m.kind = "subfind" => TrueTo(a, m)'
  <2> SUFFICES ASSUME m.kind = "subfind" PROVE TrueTo(a, m)'
    OBVIOUS
  <2>1. m.kind \in Carriers /\ m.th = MasterT
    BY <1>4, Kinds DEF Carriers, MasterT
  <2>2. UNCHANGED hunt /\ th # MasterT
    BY <1>5, <2>1
  <2>3. Hunting
    <3>1. Noted(f, pc, out)
      BY Apart DEF FitInv
    <3>2. Fit(m, out[MasterT].next) \/ Fit(m, pc[MasterT])
      BY <1>1, <1>2, <2>1, <3>1 DEF Noted
    <3> QED
      BY <3>2 DEF Fit, Hunting, MasterT
  <2>4. PICK h \in ClientThread : h = hunt.client /\ h # th
    BY <2>3, Hunted
  <2>5. Wanted(h)' \subseteq Wanted(h) /\ \A i \in Wanted(h) : home'[i] = home[i]
    BY <1>6, <2>4, WantLess
  <2>6. \A i \in Wanted(h) : i \in hunt.found \/ home[i] \in hunt.left \cup {a}
    BY <1>4, <2>4 DEF TrueTo
  <2>7. h = hunt'.client
    BY <2>2, <2>4
  <2> QED
    BY <2>2, <2>4, <2>5, <2>6, <2>7 DEF TrueTo, ClientKinds
<1>11. m.kind \in {"resolve", "make"} => TrueTo(a, m)'
  <2> SUFFICES ASSUME m.kind \in {"resolve", "make"} PROVE TrueTo(a, m)'
    OBVIOUS
  <2>1. m.kind \in Carriers
    BY DEF Carriers
  <2>2. m.kind = "make" => UNCHANGED launch
    BY <1>4, <1>5, <2>1, Kinds DEF MasterT
  <2> QED
    BY <1>4, <1>5, <2>1, <2>2 DEF TrueTo, ClientKinds
<1>12. m.kind \in {"data", "dead"} => TrueTo(a, m)'
  <2> SUFFICES ASSUME m.kind \in {"data", "dead"} PROVE TrueTo(a, m)'
    OBVIOUS
  <2>1. m.id \in Id
    BY <1>4, Kinds
  <2>2. (m.kind = "data" => Real(m.id)) /\ (m.kind = "dead" => mode[m.id] = "gone")
    BY <1>4 DEF TrueTo
  <2>3. (m.kind = "data" => Real(m.id)') /\ (m.kind = "dead" => mode'[m.id] = "gone")
    BY <2>1, <2>2, Endures DEF Real
  <2> QED
    BY <2>3 DEF TrueTo, ClientKinds
<1>13. m.kind \in {"backlink", "makelink", "removelink", "none"} => TrueTo(a, m)'
  BY <1>4 DEF TrueTo, ClientKinds, Onward
<1>14. TrueTo(a, m)'
  BY <1>4, <1>7, <1>8, <1>9, <1>10, <1>11, <1>12, <1>13, Kinds DEF Carriers
<1> QED
  BY <1>2, <1>3, <1>14

-----------------------------------------------------------------------------
(* What keeps the tables true, one by one.                                 *)

\* What a process is when it comes to be.
Arises(i) ==
  mode[i] = "none" =>
    \/ mode'[i] = "none"
    \/ mode'[i] = "born" /\ home'[i] \in nodes /\ i \in load[home'[i]]
    \/ mode'[i] = "context" /\ i \notin given /\ home'[i] \in Node /\ \A n \in Node : i \notin load[n]
\* What buries a process goes on to the master, or its agent has left.
Rung == /\ \A n \in alive', i \in Id : Bell(n, i) => Bell(n, i)'
        /\ \A i \in Id : mode'[i] = "gone" /\ mode[i] \notin {"gone", "context"} => Bell(home[i], i)'

LEMMA TablesStay ==
  ASSUME MailInv, TablesInv, Onward, \A i \in Id : Arises(i), UNCHANGED tableVars, Rung,
         launch'.first = launch.first, launch'.ids = launch.ids, launch'.place = launch.place,
         Launching' = Launching, given \subseteq given', Master \in alive'
  PROVE  LoadInv' /\ PlaceInv' /\ OwnerInv'
<1>1. LoadInv /\ PlaceInv /\ OwnerInv /\ UNCHANGED <<nodes, load, owner>>
  BY Tables DEF tableVars
<1>2. nodes \subseteq Node /\ load \in [Node -> SUBSET Id] /\ NoNode \notin Node
  BY Apart, Threads DEF TableShape
<1>3. ASSUME NEW i \in Id, Lives(i)', mode'[i] # "context", home'[i] \in nodes PROVE i \in load[home'[i]]
  <2>1. CASE mode[i] = "none"
    BY <1>3, <2>1 DEF Arises, Lives, OnMap
  <2>2. CASE mode[i] # "none"
    <3>1. Lives(i) /\ home'[i] = home[i] /\ mode[i] # "context"
      BY <1>3, <2>2, Endures DEF Onward, Passes, Passage, Lives, OnMap
    <3> QED
      BY <1>1, <1>3, <3>1 DEF LoadInv
  <2> QED
    BY <2>1, <2>2
<1>4. ASSUME NEW n \in nodes, NEW i \in load[n]
      PROVE  /\ mode'[i] # "context"
             /\ mode'[i] = "none" => Launching /\ \E y \in launch.first..Len(launch.ids) : launch.ids[y] = i
             /\ mode'[i] = "gone" => n \notin alive' \/ Bell(n, i)'
  <2>1. i \in Id /\ owner[i] = n /\ n \in Node /\ n # NoNode
    BY <1>1, <1>2 DEF LoadInv
  <2>2. mode'[i] = "none" => mode[i] = "none"
    BY <2>1, Endures
  <2>3. mode'[i] # "context"
    BY <1>1, <2>1, Endures DEF Arises, LoadInv
  <2>4. mode'[i] = "gone" => n \notin alive' \/ Bell(n, i)'
    <3> SUFFICES ASSUME mode'[i] = "gone", n \in alive' PROVE Bell(n, i)'
      OBVIOUS
    <3>1. mode[i] # "none" /\ mode[i] # "context"
      BY <1>1, <2>1 DEF Arises, LoadInv
    <3>2. CASE mode[i] = "gone"
      BY <1>1, <2>1, <3>2 DEF LoadInv, Rung, Onward
    <3>3. CASE mode[i] # "gone"
      <4>1. home[i] = n /\ home'[i] = n
        BY <1>1, <2>1, <3>1, Endures DEF OwnerInv
      <4> QED
        BY <2>1, <3>1, <3>3, <4>1 DEF Rung
    <3> QED
      BY <3>2, <3>3
  <2> QED
    BY <1>1, <2>2, <2>3, <2>4 DEF LoadInv
<1>5. LoadInv'
  BY <1>1, <1>3, <1>4 DEF LoadInv, Onward
<1>6. PlaceInv'
  BY <1>1 DEF PlaceInv
<1>7. OwnerInv'
  <2> SUFFICES ASSUME NEW i \in Id
               PROVE  /\ i \notin given' => owner'[i] = NoNode
                      /\ mode'[i] # "none" => home'[i] \in Node /\ owner'[i] \in {NoNode, home'[i]}
    BY DEF OwnerInv
  <2>1. CASE mode[i] # "none"
    BY <1>1, <2>1, Endures DEF OwnerInv
  <2>2. CASE mode[i] = "none"
    BY <1>1, <1>2, <2>2 DEF OwnerInv, Arises, LoadInv
  <2> QED
    BY <2>1, <2>2
<1> QED
  BY <1>5, <1>6, <1>7

LEMMA MembersStay ==
  ASSUME MemberInv, UNCHANGED members, \A i \in Id : Enrolled(i) => Enrolled(i)', MailInv
  PROVE  MemberInv'
<1>1. \A j \in Id : members[j] \subseteq Id
  BY Apart DEF ProcShape
<1> QED
  BY <1>1 DEF MemberInv

\* A thread goes on with its call, or with another one that is about no context.
Follows(th) ==
  \/ call'[th] = call[th] /\ (Pending(th) => Pending(th)')
  \/ ~Pending(th) /\ call'[th].op \notin {"reg", "unreg"}

LEMMA ClientStays ==
  ASSUME MailInv, TablesInv, Onward, NEW th, Alone(th), NEW c \in Client, ctx'[c] = ctx[c],
         th = ClientT(c) => Follows(th),
         \A n \in Node, x \in Id : mode[x] # "none" /\ x \in load'[n] => x \in load[n]
  PROVE  ClientOk(c)'
<1> DEFINE t == ClientT(c)
<1>1. t \in Thread /\ ClientOk(c) /\ ctx[c] \in Id \cup {NoId}
  BY Threads, Tables, Apart DEF ClientInv, FrameShape
<1>2. Follows(t)
  BY <1>1 DEF Alone, Follows, Pending
<1>3. PICK x : x = ctx[c] /\ x = ctx'[c]
  OBVIOUS
<1>4. x # NoId => /\ x \in Id /\ mode[x] \in {"context", "gone"} /\ home[x] = At[c]
                  /\ \A n \in Node : x \notin load[n]
                  /\ call[t].op # "reg" => Enrolled(x)
  BY <1>1, <1>3 DEF ClientOk
<1>5. x # NoId => /\ mode'[x] \in {"context", "gone"} /\ home'[x] = At[c]
                  /\ \A n \in Node : x \notin load'[n]
                  /\ call[t].op # "reg" => Enrolled(x)'
                  /\ mode[x] = "gone" => mode'[x] = "gone"
  BY <1>4, Endures DEF Onward, Passes
<1>6. call[t].op \in {"reg", "unreg"} => Pending(t) /\ x # NoId /\ call[t].id = x
  BY <1>1, <1>3 DEF ClientOk
<1>7. call[t].op = "unreg" => mode[x] = "gone"
  BY <1>1, <1>3 DEF ClientOk
<1> HIDE DEF t
<1>8. CASE call'[t] = call[t] /\ (Pending(t) => Pending(t)')
  BY <1>3, <1>5, <1>6, <1>7, <1>8 DEF ClientOk, t
<1>9. CASE ~Pending(t) /\ call'[t].op \notin {"reg", "unreg"}
  BY <1>3, <1>5, <1>6, <1>9 DEF ClientOk, t
<1> QED
  BY <1>2, <1>8, <1>9 DEF Follows

\* What thread th asks for is real.
AsksReal(th) ==
  th \in Thread => \/ call'[th] = call[th] \/ call'[th].op \notin TaskOps
                   \/ call'[th].id \in Id /\ Real(call'[th].id)
\* What the agents remember to have found is there.
CachesTrue ==
  \A a \in Node, i \in Id : \/ cache'[a][i] \in {cache[a][i], NoNode}
                            \/ mode[i] # "none" /\ cache'[a][i] = home[i]
ProxiesStay(th) == \A c \in Client : (th # ProxyT(c) => proxyat'[c] = proxyat[c]) /\ (th = ProxyT(c) => Attended(c)')

LEMMA AsksStay ==
  ASSUME MailInv, TablesInv, Onward, NEW th, Alone(th), Free(th), AsksReal(th), CachesTrue, ProxiesStay(th)
  PROVE  AskInv'
<1>1. AskInv
  BY Tables
<1>2. ASSUME NEW t \in Thread, call'[t].op \in TaskOps PROVE \E k : k = call'[t].id /\ Real(k)'
  <2>1. CASE call'[t] = call[t]
    <3>1. PICK i : i = call[t].id /\ i = call'[t].id
      BY <2>1
    <3>2. i \in Id /\ Real(i)
      BY <1>1, <1>2, <2>1, <3>1, Apart DEF AskInv, CallShape, TaskOps
    <3> QED
      BY <3>1, <3>2, Endures DEF Real
  <2>2. CASE call'[t] # call[t]
    <3>1. PICK i \in Id : i = call'[t].id /\ Real(i)
      BY <1>2, <2>2 DEF Alone, AsksReal
    <3> QED
      BY <3>1, Endures DEF Real
  <2> QED
    BY <2>1, <2>2
<1>3. ASSUME NEW c \in Client, th # ProxyT(c), pc'[ProxyT(c)] = "waiting"
      PROVE  /\ call'[ClientT(c)].op = "wait"
             /\ call'[ProxyT(c)].id = call'[ClientT(c)].id
             /\ proxyat'[c] = home'[call'[ProxyT(c)].id]
  <2>1. ClientT(c) \in Thread /\ ProxyT(c) \in Thread
    BY Threads
  <2>2. pc[ProxyT(c)] = "waiting" /\ call'[ProxyT(c)] = call[ProxyT(c)] /\ proxyat'[c] = proxyat[c]
    BY <1>3, <2>1 DEF Alone, ProxiesStay
  <2>3. "proxy" \in KeptNow(ClientT(c))
    BY <2>2 DEF Kept, KeptNow
  <2>4. call'[ClientT(c)] = call[ClientT(c)]
    BY <2>1, <2>3 DEF Free, Alone
  <2>5. /\ call[ClientT(c)].op = "wait" /\ call[ProxyT(c)].id = call[ClientT(c)].id
        /\ proxyat[c] = home[call[ProxyT(c)].id]
    BY <1>1, <2>2 DEF AskInv, Attended
  <2>6. home'[call[ClientT(c)].id] = home[call[ClientT(c)].id]
    BY <1>1, <2>1, <2>5, Endures, Apart DEF AskInv, Real, TaskOps, CallShape
  <2> QED
    BY <2>2, <2>4, <2>5, <2>6
<1>4. \A c \in Client : Attended(c)'
  BY <1>3 DEF ProxiesStay, Attended
<1>5. ASSUME NEW a \in Node, NEW i \in Id, cache'[a][i] # NoNode PROVE mode'[i] # "none" /\ cache'[a][i] = home'[i]
  <2>1. mode[i] # "none" /\ cache'[a][i] = home[i]
    BY <1>1, <1>5 DEF AskInv, CachesTrue
  <2> QED
    BY <2>1, Endures
<1> QED
  BY <1>2, <1>4, <1>5 DEF AskInv, Real, Enrolled

LEMMA HuntStays ==
  ASSUME MailInv, TablesInv, Onward, NEW th, Alone(th), Free(th), UNCHANGED hunt, Hunting' = Hunting,
         pc'[MasterT] = "hunt" => pc[MasterT] = "hunt", alive' \ {Master} \subseteq peers'[Master],
         \A c \in Client : since'[c] = since[c] \/ \A i \in since'[c] : mode[i] \notin {"none", "context"},
         \A c \in Client : since'[c] \subseteq Id
  PROVE  HuntInv'
<1>1. HuntInv
  BY Tables
<1>2. \A c \in Client : \A i \in since'[c] : mode'[i] \notin {"none", "context"}
  BY <1>1, Endures DEF HuntInv
<1>3. ASSUME Hunting PROVE /\ call'[hunt.client].op = "find"
                           /\ pc'[MasterT] = "hunt" =>
                                \A i \in Wanted(hunt.client)' : i \in hunt.found \/ home'[i] \in hunt.left
  <2>1. PICK h \in ClientThread : h = hunt.client /\ h # th /\ h \in Thread
    BY <1>3, Hunted
  <2>2. call'[h] = call[h] /\ h = hunt'.client
    BY <2>1 DEF Alone
  <2>3. Wanted(h)' \subseteq Wanted(h) /\ \A i \in Wanted(h) : home'[i] = home[i]
    BY <1>1, <2>1, WantLess
  <2> QED
    BY <1>1, <1>3, <2>1, <2>2, <2>3 DEF HuntInv
<1> QED
  BY <1>1, <1>2, <1>3 DEF HuntInv

LEMMA ToldStays ==
  ASSUME MailInv, TablesInv, Onward,
         \A i \in told' : i \in told \/ (i \in Id /\ Over(i)),
         \A i \in slain' : i \in slain \/ (i \in Id /\ (i \in killed \/ Over(i)))
  PROVE  ToldInv'
<1>1. ToldInv /\ told \subseteq Id /\ slain \subseteq Id /\ killed \subseteq killed'
  BY Tables, Apart DEF HistShape, Onward
<1>2. \A i \in Id : Over(i) => Over(i)'
  BY Endures DEF Over
<1> QED
  BY <1>1, <1>2 DEF ToldInv

\* All that is said was said before or is true, and thread th does not reply to itself.
Words(th) ==
  /\ \A e \in MailNow' : Was(e, th) \/ TrueTo(e[3], e[4])'
  /\ th \in Thread => ~(out'[th].msg.kind = "reply" /\ out'[th].msg.th = th)

LEMMA WordsStay ==
  ASSUME MailInv, TablesInv, Onward, NEW th, Alone(th), Free(th),
         UNCHANGED <<launch, hunt>> \/ th = MasterT, Words(th)
  PROVE  WordInv'
<1>1. WordInv
  BY Tables
<1>2. \A e \in MailNow' : TrueTo(e[3], e[4])'
  BY StillTrue DEF Words
<1>3. \A t \in Thread : ~(out'[t].msg.kind = "reply" /\ out'[t].msg.th = t)
  BY <1>1 DEF WordInv, Alone, Words
<1> QED
  BY <1>2, <1>3 DEF WordInv

\* The master works on what it worked on, as long as it is for the same clients.
LEMMA WorkStays ==
  ASSUME MailInv, MailInv'
  PROVE  /\ launch'.client = launch.client => Launching' = Launching
         /\ hunt'.client = hunt.client => Hunting' = Hunting
<1>1. <<>> \notin ClientThread
  BY DEF ClientThread, ClientT
<1>2. Work /\ Work'
  BY DEF MailInv
<1>3. /\ Launching <=> launch.client \in ClientThread
      /\ Hunting <=> hunt.client \in ClientThread
  BY <1>1, <1>2 DEF Work, NoLaunch, NoHunt
<1>4. /\ Launching' <=> launch'.client \in ClientThread
      /\ Hunting' <=> hunt'.client \in ClientThread
  BY <1>1, <1>2 DEF Work, NoLaunch, NoHunt
<1>5. Launching \in BOOLEAN /\ Launching' \in BOOLEAN /\ Hunting \in BOOLEAN /\ Hunting' \in BOOLEAN
  BY DEF Launching, Hunting
<1> QED
  BY <1>3, <1>4, <1>5

-----------------------------------------------------------------------------
(* Steps that leave the tables, the processes and the master's work alone. *)

Mild(th) ==
  /\ UNCHANGED <<tableVars, home, mode, members, alive, ctx, launch, hunt>>
  /\ given \subseteq given' /\ killed \subseteq killed' /\ peers[Master] \subseteq peers'[Master]
  /\ Alone(th)
  /\ \A c \in Client : since'[c] = since[c] \/ \A i \in since'[c] : mode[i] \notin {"none", "context"}
  /\ pc'[MasterT] = "hunt" => pc[MasterT] = "hunt"
\* The clients are told what is true.
ToldTrue == /\ \A i \in told' : i \in told \/ (i \in Id /\ Over(i))
            /\ \A i \in slain' : i \in slain \/ (i \in Id /\ (i \in killed \/ Over(i)))

LEMMA MildOn ==
  ASSUME NEW th, Mild(th)
  PROVE  Onward /\ \A i \in Id : Arises(i) /\ (Enrolled(i) => Enrolled(i)')
<1>1. UNCHANGED <<owner, home, mode>>
  BY DEF Mild, tableVars
<1> QED
  BY <1>1 DEF Mild, Onward, Passes, Arises, Enrolled

LEMMA MildStep ==
  ASSUME MailInv, MailInv', TablesInv, NEW th, Mild(th), Free(th), th \in ClientThread => Follows(th),
         AsksReal(th), CachesTrue, ProxiesStay(th), ToldTrue, Words(th),
         \A n \in alive, i \in Id : Bell(n, i) => Bell(n, i)'
  PROVE  TablesInv'
<1>1. /\ UNCHANGED <<tableVars, load, mode, members, alive, ctx, launch, hunt>> /\ given \subseteq given' /\ Alone(th)
      /\ peers[Master] \subseteq peers'[Master] /\ (pc'[MasterT] = "hunt" => pc[MasterT] = "hunt")
      /\ \A c \in Client : since'[c] = since[c] \/ \A i \in since'[c] : mode[i] \notin {"none", "context"}
  BY DEF Mild, tableVars
<1>2. Onward /\ \A i \in Id : Arises(i) /\ (Enrolled(i) => Enrolled(i)')
  BY MildOn
<1>3. Launching' = Launching /\ Hunting' = Hunting
  BY <1>1, WorkStays
<1>4. /\ LoadInv /\ HuntInv /\ MemberInv /\ alive \subseteq Node
  BY Tables, Apart DEF NetShape
<1>5. Rung
  BY <1>1, <1>4 DEF Rung
<1>6. Master \in alive' /\ launch'.first = launch.first /\ launch'.ids = launch.ids /\ launch'.place = launch.place
      /\ alive' \ {Master} \subseteq peers'[Master]
  BY <1>1, <1>4 DEF LoadInv, HuntInv
<1>7. LoadInv' /\ PlaceInv' /\ OwnerInv'
  BY <1>1, <1>2, <1>3, <1>5, <1>6, TablesStay
<1>8. MemberInv'
  BY <1>1, <1>2, <1>4, MembersStay
<1>9. ClientInv'
  BY <1>1, <1>2, ClientStays, Threads DEF ClientInv
<1>10. AskInv'
  BY <1>1, <1>2, AsksStay
<1>11. \A c \in Client : since'[c] \subseteq Id
  BY DEF MailInv, Shape, HistShape
<1>12. HuntInv'
  BY <1>1, <1>2, <1>3, <1>6, <1>11, HuntStays
<1>13. WordInv'
  BY <1>1, <1>2, WordsStay
<1>14. ToldInv'
  BY <1>2, ToldStays DEF ToldTrue
<1> QED
  BY <1>7, <1>8, <1>9, <1>10, <1>12, <1>13, <1>14 DEF TablesInv

-----------------------------------------------------------------------------
(* What buries a process goes on.                                          *)

\* With w in the links and q in the queues, no message that buries a process is lost.
Tolls(w, q) ==
  \A n \in Node, i \in Id : Bell(n, i) => Among(DeadMsg(i), q[Master]) \/ Among(DeadMsg(i), w[n, Master])
BellsRing == \A n \in Node, i \in Id : Bell(n, i) => Bell(n, i)'

LEMMA AmongMore ==
  ASSUME NEW s \in Seq(Message), NEW m, NEW k, Among(k, s)
  PROVE  Among(k, Append(s, m))
<1>1. PICK j \in 1..Len(s) : s[j] = k
  BY DEF Among
<1>2. j \in 1..Len(Append(s, m)) /\ Append(s, m)[j] = k
  BY <1>1
<1> QED
  BY <1>2 DEF Among

LEMMA AmongRest ==
  ASSUME NEW s \in Seq(Message), s # <<>>, NEW k, Among(k, s), Head(s) # k
  PROVE  Among(k, Tail(s))
<1>1. PICK j \in 1..Len(s) : s[j] = k
  BY DEF Among
<1>2. j # 1
  BY <1>1
<1>3. j - 1 \in 1..Len(Tail(s)) /\ Tail(s)[j - 1] = s[j]
  BY <1>1, <1>2
<1> QED
  BY <1>1, <1>3 DEF Among

LEMMA AmongLast ==
  ASSUME NEW s \in Seq(Message), NEW m
  PROVE  Among(m, Append(s, m))
<1>1. Len(s) + 1 \in 1..Len(Append(s, m)) /\ Append(s, m)[Len(s) + 1] = m
  OBVIOUS
<1> QED
  BY <1>1 DEF Among

LEMMA BellsGrow ==
  ASSUME NEW w \in Links, NEW q \in Queues, Tolls(w, q),
         chan' = w \/ \E l \in Node \X Node : \E m : chan' = [w EXCEPT ![l] = Append(@, m)],
         adminq' = q \/ \E a \in Node : \E m : adminq' = [q EXCEPT ![a] = Append(@, m)]
  PROVE  BellsRing
<1>1. \A l \in Node \X Node : w[l] \in Seq(Message)
  BY DEF Links
<1>2. \A a \in Node : q[a] \in Seq(Message)
  BY DEF Queues
<1>3. ASSUME NEW l \in Node \X Node, NEW k, Among(k, w[l]) PROVE Among(k, chan'[l])
  <2>1. CASE chan' = w
    BY <1>3, <2>1
  <2>2. CASE \E j \in Node \X Node : \E m : chan' = [w EXCEPT ![j] = Append(@, m)]
    <3>1. PICK j \in Node \X Node : \E m : chan' = [w EXCEPT ![j] = Append(@, m)]
      BY <2>2
    <3>2. PICK m : chan' = [w EXCEPT ![j] = Append(@, m)]
      BY <3>1
    <3>3. chan'[l] = w[l] \/ chan'[l] = Append(w[l], m)
      BY <3>2 DEF Links
    <3>4. Among(k, Append(w[l], m))
      BY <1>1, <1>3, AmongMore, Zenon
    <3> QED
      BY <1>3, <3>3, <3>4
  <2> QED
    BY <2>1, <2>2
<1>4. ASSUME NEW a \in Node, NEW k, Among(k, q[a]) PROVE Among(k, adminq'[a])
  <2>1. CASE adminq' = q
    BY <1>4, <2>1
  <2>2. CASE \E j \in Node : \E m : adminq' = [q EXCEPT ![j] = Append(@, m)]
    <3>1. PICK j \in Node : \E m : adminq' = [q EXCEPT ![j] = Append(@, m)]
      BY <2>2
    <3>2. PICK m : adminq' = [q EXCEPT ![j] = Append(@, m)]
      BY <3>1
    <3>3. adminq'[a] = q[a] \/ adminq'[a] = Append(q[a], m)
      BY <3>2 DEF Queues
    <3>4. Among(k, Append(q[a], m))
      BY <1>2, <1>4, AmongMore, Zenon
    <3> QED
      BY <1>4, <3>3, <3>4
  <2> QED
    BY <2>1, <2>2
<1> SUFFICES ASSUME NEW n \in Node, NEW i \in Id, Bell(n, i) PROVE Bell(n, i)'
  BY DEF BellsRing
<1>5. PICK k : k = DeadMsg(i)
  OBVIOUS
<1>6. Among(k, q[Master]) \/ Among(k, w[<<n, Master>>])
  BY <1>5 DEF Tolls
<1>7. Master \in Node /\ <<n, Master>> \in Node \X Node
  BY Threads
<1>8. Among(k, adminq'[Master]) \/ Among(k, chan'[<<n, Master>>])
  BY <1>3, <1>4, <1>6, <1>7
<1> QED
  BY <1>5, <1>8 DEF Bell, DeadMsg, Among

LEMMA BellsSent ==
  ASSUME MailInv, NEW th \in Thread, AgentOf(th) \in Node, NEW w \in Links, NEW q \in Queues, Tolls(w, q),
         NEW b \in Node, NEW m, NEW next, Send(th, b, m, next, q, w)
  PROVE  BellsRing
<1>1. Master \in Node
  BY Threads
<1>2. chan' = w \/ \E l \in Node \X Node : \E k : chan' = [w EXCEPT ![l] = Append(@, k)]
  BY <1>1 DEF Send, Resolve
<1>3. adminq' = q \/ \E a \in Node : \E k : adminq' = [q EXCEPT ![a] = Append(@, k)]
  BY DEF Send
<1> QED
  BY <1>2, <1>3, BellsGrow

LEMMA BellsAsked ==
  ASSUME MailInv, NEW th \in Thread, AgentOf(th) \in Node, NEW w \in Links, NEW q \in Queues, Tolls(w, q),
         NEW id, NEW next, Resolve(th, id, next, w), adminq' = q
  PROVE  BellsRing
<1>1. Master \in Node
  BY Threads
<1>2. chan' = w \/ \E l \in Node \X Node : \E k : chan' = [w EXCEPT ![l] = Append(@, k)]
  BY <1>1 DEF Resolve
<1> QED
  BY <1>2, BellsGrow

LEMMA DeadIs == \A i : DeadMsg(i).kind = "dead"
BY DEF DeadMsg

LEMMA TollsNow == Tolls(chan, adminq)
BY DEF Tolls, Bell

LEMMA TollsQueue ==
  ASSUME MailInv, NEW a \in Node, adminq[a] # <<>>, Head(adminq[a]).kind # "dead"
  PROVE  Tolls(chan, RestOf(a))
<1> SUFFICES ASSUME NEW i \in Id, Among(DeadMsg(i), adminq[Master]) PROVE Among(DeadMsg(i), RestOf(a)[Master])
  BY DEF Tolls, Bell
<1>1. adminq \in Queues /\ adminq[a] \in Seq(Message) /\ Master \in Node
  BY Apart, Threads DEF MailShape, Queues
<1>2. PICK k : k = DeadMsg(i) /\ k.kind = "dead"
  BY DeadIs
<1>3. CASE a = Master
  <2>1. Among(k, Tail(adminq[a]))
    BY <1>1, <1>2, <1>3, AmongRest
  <2> QED
    BY <1>1, <1>2, <1>3, <2>1 DEF RestOf, Queues
<1>4. CASE a # Master
  BY <1>1, <1>4 DEF RestOf, Queues
<1> QED
  BY <1>3, <1>4

LEMMA TollsLink ==
  ASSUME MailInv, NEW a \in Node, NEW b \in Node, chan[b, a] # <<>>, Head(chan[b, a]).kind # "dead"
  PROVE  Tolls(Rest(a, b), adminq)
<1> SUFFICES ASSUME NEW n \in Node, NEW i \in Id, Among(DeadMsg(i), chan[n, Master])
             PROVE  Among(DeadMsg(i), Rest(a, b)[n, Master])
  BY DEF Tolls, Bell
<1>1. chan \in Links /\ chan[b, a] \in Seq(Message) /\ Master \in Node
  BY Apart, Threads DEF MailShape, Links
<1>2. PICK k : k = DeadMsg(i) /\ k.kind = "dead"
  BY DeadIs
<1>3. CASE a = Master /\ b = n
  <2>1. Among(k, Tail(chan[b, a]))
    BY <1>1, <1>2, <1>3, AmongRest
  <2> QED
    BY <1>1, <1>2, <1>3, <2>1 DEF Rest, Links
<1>4. CASE ~(a = Master /\ b = n)
  <2>1. Rest(a, b)[n, Master] = chan[n, Master]
    BY <1>1, <1>4 DEF Rest, Links
  <2> QED
    BY <2>1
<1> QED
  BY <1>3, <1>4

-----------------------------------------------------------------------------
(* What is said anew.                                                      *)

\* For a reply it does not matter where it is on its way to.
LEMMA TrueReply ==
  ASSUME NEW a, NEW b, NEW m, TrueTo(a, m)', a = b \/ m.kind = "reply"
  PROVE  TrueTo(b, m)'
BY DEF TrueTo, ClientKinds

\* What thread th let go of it does not wait for, once it is to go on.
LEMMA BeforeWas ==
  ASSUME MailInv, NEW th \in Thread, out[th] = NoOut, pc[th] \notin Waits \/ got[th] # NoReply,
         NEW w, NEW q, Less(w, q), NEW e \in Before(w, q, th)
  PROVE  Was(e, th)
<1>1. Calm(w, q, th)
  BY LessCalm, Apart
<1>2. PICK M : M = Before(w, q, th)
  OBVIOUS
<1>3. M \in SUBSET MailNow /\ Own(M, th) = {} /\ e \in M
  BY <1>1, <1>2 DEF Calm
<1>4. e[4].kind \in Carriers => e[4].th # th
  BY <1>3, NoneSaid
<1> QED
  BY <1>3, <1>4 DEF Was

LEMMA SendWords ==
  ASSUME MailInv, NEW th \in Thread, AgentOf(th) \in Node, out[th] = NoOut,
         pc[th] \notin Waits \/ got[th] # NoReply, NEW w, NEW q, Less(w, q),
         NEW b \in Node, NEW m \in Plain, NEW next, Send(th, b, m, next, q, w),
         TrueTo(b, m)', ~(m.kind = "reply" /\ m.th = th)
  PROVE  Words(th)
<1>1. w \in Links /\ q \in Queues /\ MailShape /\ TableShape /\ NetShape /\ pc \in [Thread -> Pcs]
  BY Apart DEF Less
<1>2. \A e \in MailNow' : \/ e \in Before(w, q, th) \/ Posted(e, b, m)
                          \/ Asks(e, th, b) /\ pc' = [pc EXCEPT ![th] = "agent"]
  BY <1>1, SendNews
<1>3. ASSUME NEW e \in MailNow' PROVE Was(e, th) \/ TrueTo(e[3], e[4])'
  <2>1. CASE e \in Before(w, q, th)
    BY <2>1, BeforeWas
  <2>2. CASE Posted(e, b, m)
    <3>1. PICK a : a = e[3]
      OBVIOUS
    <3>2. e[4] = m /\ (a = b \/ m.kind = "reply")
      BY <2>2, <3>1 DEF Posted
    <3>3. TrueTo(a, m)'
      BY <3>2, TrueReply
    <3> QED
      BY <3>1, <3>2, <3>3
  <2>3. CASE Asks(e, th, b) /\ pc' = [pc EXCEPT ![th] = "agent"]
    <3>1. e[4].kind \in {"resolve", "reply"} /\ e[4].th = th /\ pc'[th] = "agent"
      BY <1>1, <2>3 DEF Asks, ResolveMsg, ReplyMsg
    <3>2. PICK k : k = e[4] /\ k.kind \in {"resolve", "reply"} /\ k.th = th
      BY <3>1
    <3>3. PICK a : a = e[3]
      OBVIOUS
    <3>4. TrueTo(a, k)'
      BY <3>1, <3>2 DEF TrueTo, ReplyTrue, ClientKinds
    <3> QED
      BY <3>2, <3>3, <3>4
  <2> QED
    BY <1>2, <2>1, <2>2, <2>3
<1>4. out'[th].msg = out[th].msg \/ out'[th].msg = m
  BY <1>1 DEF Send, MailShape, Outs
<1>5. out[th].msg.kind # "reply"
  BY DEF NoOut, Nothing
<1> QED
  BY <1>3, <1>4, <1>5 DEF Words

\* Who asks for a process gets told where it is, or that it is over.
LEMMA FoundIs ==
  ASSUME MailInv, TablesInv, NEW i \in Id, Real(i)
  PROVE  Found(i) = home[i] \/ (Found(i) = NoNode /\ Over(i))
<1>1. LoadInv /\ OwnerInv /\ nodes \subseteq Node /\ NoNode \notin Node
  BY Tables, Apart, Threads DEF TableShape
<1>2. mode[i] # "none" /\ home[i] \in Node /\ owner[i] \in {NoNode, home[i]}
  BY <1>1 DEF OwnerInv, Real
<1>3. Lives(i) /\ home[i] \in nodes => owner[i] = home[i]
  BY <1>1, <1>2 DEF LoadInv, Real, Enrolled
<1>4. Found(i) = IF owner[i] \in nodes THEN owner[i] ELSE NoNode
  BY DEF Found
<1> QED
  BY <1>1, <1>2, <1>3, <1>4 DEF Over, LoadInv

LEMMA AnswerIs ==
  ASSUME MailInv, TablesInv, NEW a \in Node, NEW i \in Id, Real(i)
  PROVE  AnswerHere(a, i) = home[i] \/ (AnswerHere(a, i) = NoNode /\ Over(i))
<1>1. cache[a][i] # NoNode => cache[a][i] = home[i]
  BY Tables DEF AskInv
<1> QED
  BY <1>1, FoundIs DEF AnswerHere

\* Thread th asks for the agent of a process, or for one it has no link to.
LEMMA AskWords ==
  ASSUME MailInv, TablesInv, NEW th \in Thread, AgentOf(th) \in Node, out[th] = NoOut,
         pc[th] \notin Waits \/ got[th] # NoReply, NEW w, NEW q, Less(w, q), adminq' = q,
         UNCHANGED <<home, mode, alive>>,
         NEW id \in Id \cup Node, NEW next, Resolve(th, id, next, w), NEW r, out' = [out EXCEPT ![th] = r],
         r.msg = Nothing,
         \/ next = "agent"
         \/ next = "task" /\ call'[th].id = id /\ id \in Id /\ Real(id)
  PROVE  Words(th)
<1>1. w \in Links /\ MailShape /\ TableShape /\ NetShape /\ pc \in [Thread -> Pcs]
  BY Apart DEF Less
<1>2. \A e \in MailNow' : e \in Before(w, q, th) \/ e = <<"out", th, r.to, r.msg>> \/ Asks(e, th, id)
  BY <1>1, ResolveNews
<1>3. pc'[th] = next
  BY <1>1 DEF Resolve
<1>4. ASSUME NEW e \in MailNow' PROVE Was(e, th) \/ TrueTo(e[3], e[4])'
  <2>1. CASE e \in Before(w, q, th)
    BY <2>1, BeforeWas
  <2>2. CASE e = <<"out", th, r.to, r.msg>>
    <3>1. e[4].kind = "none"
      BY <2>2 DEF Nothing
    <3>2. PICK k : k = e[4] /\ k.kind = "none"
      BY <3>1
    <3>3. PICK a : a = e[3]
      OBVIOUS
    <3>4. TrueTo(a, k)'
      BY <3>2 DEF TrueTo, ClientKinds
    <3> QED
      BY <3>2, <3>3, <3>4
  <2>3. CASE Asks(e, th, id)
    <3>1. PICK k : k = e[4]
      OBVIOUS
    <3>2. PICK a : a = e[3]
      OBVIOUS
    <3>3. PICK v : v = AnswerHere(AgentOf(th), id)
      OBVIOUS
    <3>4. \/ k.kind = "resolve" /\ k.id = id /\ k.th = th
          \/ k.kind = "reply" /\ k.th = th /\ k.val = <<v>>
      BY <2>3, <3>1, <3>3 DEF Asks, ResolveMsg, ReplyMsg
    <3>5. next = "agent" => TrueTo(a, k)'
      BY <1>3, <3>4 DEF TrueTo, ReplyTrue, ClientKinds
    <3>6. ASSUME next = "task", call'[th].id = id, id \in Id, Real(id) PROVE TrueTo(a, k)'
      <4>1. v = home'[id] \/ (v = NoNode /\ Over(id)')
        BY <3>3, <3>6, AnswerIs DEF Over, Lives
      <4>2. ReplyTrue(th, <<v>>)'
        BY <1>3, <3>6, <4>1 DEF ReplyTrue
      <4> QED
        BY <3>4, <3>6, <4>2 DEF TrueTo, ClientKinds
    <3>7. TrueTo(a, k)'
      BY <3>5, <3>6
    <3> QED
      BY <3>1, <3>2, <3>7
  <2> QED
    BY <1>2, <2>1, <2>2, <2>3
<1>5. out'[th].msg.kind # "reply"
  BY <1>1 DEF MailShape, Outs, Nothing
<1> QED
  BY <1>4, <1>5 DEF Words

\* No thread goes on, and all that is said is true or was said before, perhaps elsewhere.
LEMMA FewerWords ==
  ASSUME MailInv,
         \A e \in MailNow' : \/ \E f \in MailNow : f[4] = e[4] /\ (f[3] = e[3] \/ e[4].kind = "reply")
                            \/ TrueTo(e[3], e[4])'
  PROVE  Words(<<>>)
<1>1. \A e \in MailNow : e[4].kind \in Carriers => e[4].th # <<>>
  BY OrderWaits, Kinds, Nobody DEF Said
<1>2. <<>> \notin Thread
  BY Nobody
<1> QED
  BY <1>1, <1>2 DEF Words, Was

-----------------------------------------------------------------------------
(* Steps that send something, and are mild.                                *)

LEMMA SendAlone ==
  ASSUME MailInv, NEW th \in Thread, NEW w, NEW q, NEW b, NEW m, NEW next, Send(th, b, m, next, q, w),
         \A t \in Thread \ {th} : call'[t] = call[t], \A c \in Client : since'[c] = since[c] \/ th = ClientT(c)
  PROVE  Alone(th) /\ pc'[th] \in {next, "recursing", "agent"}
<1>1. pc \in [Thread -> Pcs] /\ out \in Outs
  BY Apart DEF MailShape
<1>2. \E p : pc' = [pc EXCEPT ![th] = p] /\ p \in {next, "recursing", "agent"}
  BY DEF Send, Resolve
<1>3. \A t \in Thread \ {th} : out'[t] = out[t]
  BY <1>1 DEF Send, Outs
<1> QED
  BY <1>1, <1>2, <1>3 DEF Alone

\* What a step of thread th has to leave alone, but for what it sends.
Discreet(th) ==
  /\ UNCHANGED <<tableVars, home, mode, members, alive, ctx, launch, hunt>>
  /\ given \subseteq given' /\ killed \subseteq killed' /\ peers[Master] \subseteq peers'[Master]
  /\ \A t \in Thread \ {th} : call'[t] = call[t]
  /\ \A c \in Client : \/ since'[c] = since[c]
                       \/ th = ClientT(c) /\ \A i \in since'[c] : mode[i] \notin {"none", "context"}

LEMMA SendMild ==
  ASSUME MailInv, MailInv', TablesInv, NEW th \in Thread, AgentOf(th) \in Node, Discreet(th),
         pc[th] \notin Waits \/ got[th] # NoReply, out[th] = NoOut,
         NEW w, NEW q, Less(w, q), Tolls(w, q), NEW b \in Node, NEW m \in Plain, NEW next, next # "hunt",
         Send(th, b, m, next, q, w), TrueTo(b, m)', ~(m.kind = "reply" /\ m.th = th),
         th \in ClientThread => Follows(th), AsksReal(th), CachesTrue, UNCHANGED proxyat, ToldTrue,
         \A c \in Client : th = ProxyT(c) => pc'[th] # "waiting"
  PROVE  TablesInv'
<1>1. Alone(th) /\ pc'[th] \in {next, "recursing", "agent"}
  BY SendAlone DEF Discreet
<1>2. MasterT \in Thread
  BY OrderWaits
<1>3. Mild(th)
  BY <1>1, <1>2 DEF Mild, Discreet, Alone
<1>4. Words(th)
  BY SendWords
<1>5. w \in Links /\ q \in Queues
  BY DEF Less
<1>6. BellsRing
  BY <1>5, BellsSent
<1>7. Free(th)
  BY IsFree DEF Waits
<1>8. ProxiesStay(th)
  BY DEF ProxiesStay, Attended
<1>0. alive \subseteq Node
  BY Apart DEF NetShape
<1> QED
  BY <1>3, <1>4, <1>6, <1>7, <1>8, <1>0, MildStep DEF BellsRing

\* The message the admin thread runs is true, and meant for a thread that waits.
LEMMA Heard ==
  ASSUME MailInv, TablesInv, NEW a \in Node, NEW kind, kind # "routed", Runs(a, kind)
  PROVE  LET m == Head(adminq[a])
         IN  /\ m \in Plain /\ m.kind = kind /\ TrueTo(a, m) /\ Less(chan, RestOf(a))
             /\ kind # "dead" => Tolls(chan, RestOf(a))
             /\ kind \in Carriers => /\ m.th \in Thread /\ pc[m.th] \in Waits /\ Fit(m, pc[m.th])
                                     /\ m.th # AdminT(a) /\ KeptNow(m.th) = {} /\ AgentOf(m.th) \in Node
             /\ kind \in MasterKinds => a = Master
             /\ pc[AdminT(a)] = "idle" /\ out[AdminT(a)] = NoOut /\ AgentOf(AdminT(a)) = a
<1> DEFINE m == Head(adminq[a])
           x == <<"queue", a, Dest(m, a), Base(m)>>
<1>1. /\ m \in Plain /\ Taken(chan, RestOf(a), x) /\ Base(m) = m /\ Dest(m, a) = a /\ m.kind = kind
      /\ pc[AdminT(a)] = "idle"
  BY AdminTakes
<1>2. x[1] = "queue" /\ x[3] = a /\ x[4] = m
  BY <1>1
<1>3. adminq[a] # <<>>
  BY DEF Runs
<1> HIDE DEF m, x
<1>4. Less(chan, RestOf(a)) /\ x \in MailNow
  BY <1>1 DEF Taken
<1>5. TrueTo(a, m)
  <2>1. TrueTo(x[3], x[4])
    BY <1>4, Tables DEF WordInv
  <2> QED
    BY <1>2, <2>1
<1>6. kind # "dead" => Tolls(chan, RestOf(a))
  BY <1>1, <1>3, TollsQueue DEF m
<1>7. /\ Noted(x, pc, out)
      /\ m.kind \in Carriers => m.th \in Thread /\ pc[m.th] \in Waits /\ Fit(m, pc[m.th])
      /\ \A t \in Thread : Carries(m, t) => KeptNow(t) = {}
  BY <1>1, <1>2, TakenFacts
<1>8. kind \in Carriers => m.th # AdminT(a) /\ KeptNow(m.th) = {} /\ AgentOf(m.th) \in Node
  BY <1>1, <1>7, Apart, WhoWaits DEF Waits, Carries
<1>9. kind \in MasterKinds => a = Master
  BY <1>1, <1>2, <1>7 DEF Noted
<1>10. AdminT(a) \in Thread /\ AgentOf(AdminT(a)) = a
  BY AdminThread
<1>11. out[AdminT(a)] = NoOut
  BY <1>1, <1>4, <1>10, IdleIs
<1> QED
  BY <1>1, <1>4, <1>5, <1>6, <1>7, <1>8, <1>9, <1>10, <1>11 DEF m

\* The admin thread replies the truth to what it took.
LEMMA AnswerMild ==
  ASSUME MailInv, MailInv', TablesInv, NEW a \in Node, NEW kind \in ClientKinds \cup {"subfind"}, Runs(a, kind),
         NEW v, <<v>> \in Values, ReplyFrom(a, Head(adminq[a]).th, v), Discreet(AdminT(a)),
         UNCHANGED <<call, cache, proxyat, told, slain>>,
         NEW t, t = Head(adminq[a]).th, pc'[t] = pc[t] => ReplyTrue(t, <<v>>)'
  PROVE  TablesInv'
<1> DEFINE th == AdminT(a)
           m == ReplyMsg(t, v)
<1>1. kind # "routed" /\ kind # "dead" /\ kind \in Carriers
  BY DEF Carriers, ClientKinds
<1>2. /\ Less(chan, RestOf(a)) /\ Tolls(chan, RestOf(a)) /\ t \in Thread /\ t # th /\ AgentOf(t) \in Node
      /\ pc[th] = "idle" /\ out[th] = NoOut
  BY <1>1, Heard
<1>3. th \in Thread /\ AgentOf(th) = a /\ th \notin ClientThread /\ \A c \in Client : th # ProxyT(c)
  BY AdminThread
<1>4. PICK b \in Node : b = AgentOf(t)
  BY <1>2
<1>5. PICK k : k = m
  OBVIOUS
<1>6. k \in Plain /\ k.kind = "reply" /\ k.th = t /\ k.val = <<v>>
  BY <1>2, <1>5, MessagesMade DEF ReplyMsg
<1>7. Send(th, b, k, "idle", RestOf(a), chan)
  BY <1>4, <1>5 DEF ReplyFrom
<1> HIDE DEF m
<1>8. PICK q : q = RestOf(a)
  OBVIOUS
<1>9. PICK w : w = chan
  OBVIOUS
<1>10. PICK r : r = th /\ r \in Thread /\ AgentOf(r) = a /\ r \notin ClientThread /\ \A c \in Client : r # ProxyT(c)
  BY <1>3
<1> HIDE DEF th
<1>11. pc'[t] = pc[t]
  <2>1. \E p : pc' = [pc EXCEPT ![r] = p]
    BY <1>7, <1>10 DEF Send, Resolve
  <2> QED
    BY <1>2, <1>10, <2>1, Apart
<1>12. TrueTo(b, k)'
  BY <1>6, <1>11 DEF TrueTo, ClientKinds
<1>13. AsksReal(r) /\ CachesTrue /\ ToldTrue
  BY DEF AsksReal, CachesTrue, ToldTrue
<1>14. Discreet(r)
  BY <1>10 DEF th
<1> QED
  BY <1>2, <1>6, <1>7, <1>8, <1>9, <1>10, <1>12, <1>13, <1>14, SendMild DEF Waits

LEMMA AdminKillTells ==
  ASSUME MailInv, MailInv', TablesInv, NEW a \in Node, AdminKill(a)
  PROVE  TablesInv'
<1>1. /\ Runs(a, "kill") /\ ReplyFrom(a, Head(adminq[a]).th, 0) /\ killed \subseteq killed'
      /\ Head(adminq[a]).id \in ps(a) => Head(adminq[a]).id \in killed'
      /\ UNCHANGED <<tableVars, home, mode, members, given, alive, peers, cache, call, ctx, proxyat, launch, hunt,
                     told, slain, since>>
  BY DEF AdminKill, workVars, histVars
<1>2. Runs(a, "kill") /\ "kill" # "routed" /\ "kill" \in Carriers /\ "kill" \in ClientKinds
  BY <1>1 DEF Carriers, ClientKinds
<1>3. PICK m : m = Head(adminq[a])
  OBVIOUS
<1>4. PICK t : t = m.th
  OBVIOUS
<1>5. m \in Plain /\ m.kind = "kill" /\ TrueTo(a, m) /\ t \in Thread /\ Fit(m, pc[t])
  BY <1>2, <1>3, <1>4, Heard
<1>6. PICK i : i = m.id
  OBVIOUS
<1>7. pc[t] = "reply" /\ call[t].op = "kill" /\ call[t].id = i /\ a = home[i] /\ i \in Id
  BY <1>4, <1>5, <1>6, Kinds DEF Fit, TrueTo, ClientKinds
<1>8. mode[i] # "none"
  BY <1>5, <1>7, Tables DEF AskInv, TaskOps, Real
<1>9. i \in killed' \/ Over(i)'
  <2>1. i \in ps(a) => i \in killed'
    BY <1>1, <1>3, <1>6
  <2>2. i \notin ps(a) => ~Lives(i)
    BY <1>7 DEF ps, Lives
  <2> QED
    BY <1>1, <1>8, <2>1, <2>2 DEF Over, Lives
<1>10. pc'[t] = pc[t] => ReplyTrue(t, <<0>>)'
  BY <1>1, <1>7, <1>9 DEF ReplyTrue
<1>11. <<0>> \in Values
  BY DEF Values
<1>12. Discreet(AdminT(a))
  BY <1>1 DEF Discreet
<1> QED
  BY <1>1, <1>2, <1>3, <1>4, <1>10, <1>11, <1>12, AnswerMild

LEMMA AdminAliveTells ==
  ASSUME MailInv, MailInv', TablesInv, NEW a \in Node, AdminAlive(a)
  PROVE  TablesInv'
<1>1. PICK m : m = Head(adminq[a])
  OBVIOUS
<1>2. PICK v : v = IF m.id \in ps(a) THEN 0 ELSE 1
  OBVIOUS
<1>3. /\ Runs(a, "alive") /\ ReplyFrom(a, Head(adminq[a]).th, v)
      /\ UNCHANGED <<tableVars, home, mode, members, given, killed, alive, peers, cache, call, ctx, proxyat, launch, hunt,
                     told, slain, since>>
  BY <1>1, <1>2 DEF AdminAlive, ProcSame, procVars, workVars, histVars
<1>4. Runs(a, "alive") /\ "alive" # "routed" /\ "alive" \in Carriers /\ "alive" \in ClientKinds
  BY <1>3 DEF Carriers, ClientKinds
<1>5. PICK t : t = m.th
  OBVIOUS
<1>6. m \in Plain /\ m.kind = "alive" /\ TrueTo(a, m) /\ t \in Thread /\ Fit(m, pc[t])
  BY <1>1, <1>4, <1>5, Heard
<1>7. PICK i : i = m.id
  OBVIOUS
<1>8. pc[t] = "reply" /\ call[t].op = "alive" /\ call[t].id = i /\ a = home[i] /\ i \in Id
  BY <1>5, <1>6, <1>7, Kinds DEF Fit, TrueTo, ClientKinds
<1>9. mode[i] # "none"
  BY <1>6, <1>8, Tables DEF AskInv, TaskOps, Real
<1>10. v = 1 => Over(i)'
  <2>1. v = 1 => ~Lives(i)
    BY <1>2, <1>7, <1>8 DEF ps, Lives
  <2> QED
    BY <1>3, <1>9, <2>1 DEF Over, Lives
<1>11. pc'[t] = pc[t] => ReplyTrue(t, <<v>>)'
  BY <1>3, <1>8, <1>10 DEF ReplyTrue
<1>12. <<v>> \in Values
  BY <1>2 DEF Values
<1>13. Discreet(AdminT(a))
  BY <1>3 DEF Discreet
<1> QED
  BY <1>1, <1>3, <1>4, <1>5, <1>11, <1>12, <1>13, AnswerMild

LEMMA AdminSizeTells ==
  ASSUME MailInv, MailInv', TablesInv, NEW a \in Node, AdminSize(a)
  PROVE  TablesInv'
<1>1. PICK m : m = Head(adminq[a])
  OBVIOUS
<1>2. PICK v : v = Cpus(nodes)
  OBVIOUS
<1>3. /\ Runs(a, "size") /\ ReplyFrom(a, Head(adminq[a]).th, v)
      /\ UNCHANGED <<tableVars, home, mode, members, given, killed, alive, peers, cache, call, ctx, proxyat, launch, hunt,
                     told, slain, since>>
  BY <1>1, <1>2 DEF AdminSize, ProcSame, procVars, workVars, histVars
<1>4. Runs(a, "size") /\ "size" # "routed" /\ "size" \in Carriers /\ "size" \in ClientKinds
  BY <1>3 DEF Carriers, ClientKinds
<1>5. PICK t : t = m.th
  OBVIOUS
<1>6. m \in Plain /\ m.kind = "size" /\ TrueTo(a, m) /\ t \in Thread /\ Fit(m, pc[t])
  BY <1>1, <1>4, <1>5, Heard
<1>7. pc[t] = "reply" /\ call[t].op = "size"
  BY <1>5, <1>6, Kinds DEF Fit, TrueTo, ClientKinds
<1>8. pc'[t] = pc[t] => ReplyTrue(t, <<v>>)'
  BY <1>3, <1>7 DEF ReplyTrue
<1>9. nodes \in SUBSET Node
  BY Apart DEF TableShape
<1>10. <<v>> \in Values
  BY <1>2, <1>9 DEF Values
<1>11. Discreet(AdminT(a))
  BY <1>3 DEF Discreet
<1> QED
  BY <1>1, <1>3, <1>4, <1>5, <1>8, <1>10, <1>11, AnswerMild

LEMMA AdminSubFindTells ==
  ASSUME MailInv, MailInv', TablesInv, NEW a \in Node, AdminSubFind(a)
  PROVE  TablesInv'
<1>1. PICK m : m = Head(adminq[a])
  OBVIOUS
<1>2. PICK v : v = Serving(a)
  OBVIOUS
<1>3. /\ Runs(a, "subfind") /\ ReplyFrom(a, Head(adminq[a]).th, v)
      /\ UNCHANGED <<tableVars, home, mode, members, given, killed, alive, peers, cache, call, ctx, proxyat, launch, hunt,
                     told, slain, since>>
  BY <1>1, <1>2 DEF AdminSubFind, ProcSame, procVars, workVars, histVars
<1>4. Runs(a, "subfind") /\ "subfind" # "routed" /\ "subfind" \in Carriers
  BY <1>3 DEF Carriers
<1>5. PICK t : t = m.th
  OBVIOUS
<1>6. m \in Plain /\ m.kind = "subfind" /\ TrueTo(a, m) /\ t \in Thread /\ Fit(m, pc[t])
  BY <1>1, <1>4, <1>5, Heard
<1>7. pc[t] = "found" /\ t = MasterT
  BY <1>5, <1>6, Kinds DEF Fit, MasterT
<1>8. ASSUME NEW i \in Wanted(hunt.client) PROVE i \in hunt.found \cup v \/ home[i] \in hunt.left
  <2>1. i \in hunt.found \/ home[i] \in hunt.left \cup {a}
    BY <1>6 DEF TrueTo
  <2>2. PICK c \in Client : hunt.client = ClientT(c)
    BY <1>7, WorkerFacts, Apart DEF Work, ClientThread, MasterT
  <2>3. i \in since[c] /\ Lives(i)
    BY <2>2, Sorts DEF Wanted
  <2>4. i \in Id /\ mode[i] # "context"
    BY <2>3, Tables, Apart DEF HuntInv, HistShape
  <2>5. home[i] = a => i \in v
    BY <1>2, <2>3, <2>4 DEF Serving, ps, Lives, OnMap
  <2> QED
    BY <2>1, <2>5
<1>9. Wanted(hunt.client)' = Wanted(hunt.client)
  BY <1>3 DEF Wanted, Lives
<1>10. pc'[t] = pc[t] => ReplyTrue(t, <<v>>)'
  BY <1>3, <1>7, <1>8, <1>9 DEF ReplyTrue
<1>11. v \in SUBSET Id
  BY <1>2 DEF Serving, ps
<1>12. <<v>> \in Values
  BY <1>11 DEF Values, Parts
<1>13. Discreet(AdminT(a))
  BY <1>3 DEF Discreet
<1> QED
  BY <1>1, <1>3, <1>4, <1>5, <1>10, <1>12, <1>13, AnswerMild

LEMMA AskMild ==
  ASSUME MailInv, MailInv', TablesInv, NEW th \in Thread, AgentOf(th) \in Node, Discreet(th),
         pc[th] \notin Waits \/ got[th] # NoReply, out[th] = NoOut,
         NEW w, NEW q, Less(w, q), Tolls(w, q), adminq' = q,
         NEW id \in Id \cup Node, NEW next, Resolve(th, id, next, w), NEW r, out' = [out EXCEPT ![th] = r],
         r.msg = Nothing,
         \/ next = "agent"
         \/ next = "task" /\ call'[th].id = id /\ id \in Id /\ Real(id),
         th \in ClientThread => Follows(th), AsksReal(th), CachesTrue, UNCHANGED proxyat, ToldTrue
  PROVE  TablesInv'
<1>1. pc' = [pc EXCEPT ![th] = next] /\ next \in {"agent", "task"}
  BY DEF Resolve
<1>2. pc \in [Thread -> Pcs] /\ out \in Outs /\ MasterT \in Thread
  BY Apart, OrderWaits DEF MailShape
<1>3. Alone(th) /\ pc'[th] = next
  BY <1>1, <1>2 DEF Alone, Discreet, Outs
<1>4. Mild(th)
  BY <1>1, <1>2, <1>3 DEF Mild, Discreet, Alone
<1>5. UNCHANGED <<home, mode, alive>>
  BY DEF Discreet
<1>6. Words(th)
  BY <1>5, AskWords
<1>7. w \in Links /\ q \in Queues
  BY DEF Less
<1>8. BellsRing
  BY <1>7, BellsAsked
<1>9. Free(th)
  BY IsFree DEF Waits
<1>10. ProxiesStay(th)
  BY <1>1, <1>3 DEF ProxiesStay, Attended
<1>0. alive \subseteq Node
  BY Apart DEF NetShape
<1> QED
  BY <1>4, <1>6, <1>8, <1>9, <1>10, <1>0, MildStep DEF BellsRing

\* Nothing is said to or by a thread that waits for nothing.
LEMMA IdleSays ==
  ASSUME MailInv, NEW th \in Thread, pc[th] \notin Waits, NEW e \in MailNow, e[4].kind \in Carriers
  PROVE  e[4].th # th
<1> SUFFICES ASSUME e[4].th = th PROVE FALSE
  OBVIOUS
<1>1. Noted(e, pc, out) /\ out[th] = NoOut
  BY Apart DEF FitInv, Control, ControlOf, Waits
<1>2. CASE e[1] = "out" /\ e[2] = th
  <2>1. e[4] = out[th].msg
    BY <1>2, OutEntry DEF MailNow
  <2> QED
    BY <1>1, <2>1 DEF NoOut, Nothing, Carriers, ClientKinds
<1>3. CASE ~(e[1] = "out" /\ e[2] = th)
  <2>1. Fit(e[4], pc[th])
    BY <1>1, <1>3 DEF Noted
  <2> QED
    BY <2>1 DEF Fit, Carriers, Waits
<1> QED
  BY <1>2, <1>3

\* No thread goes on.
LEMMA StillMild ==
  ASSUME MailInv, MailInv', TablesInv, UNCHANGED <<tableVars, home, mode, members, killed, given, alive, ctx, launch, hunt>>,
         peers[Master] \subseteq peers'[Master], UNCHANGED <<pc, call, out, proxyat, cache, told, slain, since>>,
         \A e \in MailNow' : \/ \E f \in MailNow : f[4] = e[4] /\ (f[3] = e[3] \/ e[4].kind = "reply")
                            \/ TrueTo(e[3], e[4])',
         \A n \in alive, i \in Id : Bell(n, i) => Bell(n, i)'
  PROVE  TablesInv'
<1> DEFINE th == <<>>
<1>1. th \notin Thread /\ th \notin ClientThread
  BY Nobody, Threads
<1>2. Mild(th)
  BY DEF Mild, Alone
<1>3. Free(th) /\ AsksReal(th)
  BY <1>1 DEF Free, AsksReal
<1>4. CachesTrue /\ ProxiesStay(th) /\ ToldTrue
  <2>1. \A c \in Client : th # ProxyT(c)
    BY <1>1, Threads
  <2> QED
    BY <2>1 DEF CachesTrue, ProxiesStay, ToldTrue
<1>5. Words(th)
  BY FewerWords
<1> HIDE DEF th
<1> QED
  BY <1>1, <1>2, <1>3, <1>4, <1>5, MildStep

LEMMA AdminMakeLinkTells ==
  ASSUME MailInv, MailInv', TablesInv, NEW a \in Node, AdminMakeLink(a)
  PROVE  TablesInv'
<1>1. /\ Runs(a, "makelink") /\ adminq' = RestOf(a)
      /\ UNCHANGED <<tableVars, home, mode, members, killed, given, alive, ctx, launch, hunt>>
      /\ UNCHANGED <<pc, call, out, got, chan, proxyat, cache, told, slain, since>>
      /\ peers' = peers \/ \E b : peers' = [peers EXCEPT ![b] = @ \cup {a}]
  BY DEF AdminMakeLink, procVars, threadVars, workVars, histVars
<1>2. Runs(a, "makelink") /\ "makelink" # "routed" /\ "makelink" # "dead"
  BY <1>1
<1>3. Less(chan, RestOf(a)) /\ Tolls(chan, RestOf(a))
  BY <1>2, Heard
<1>4. MailNow' \subseteq MailNow
  BY <1>1, <1>3 DEF Less, MailNow
<1>5. BellsRing
  BY <1>1, <1>3 DEF BellsRing, Tolls, Bell
<1>6. peers[Master] \subseteq peers'[Master] /\ alive \subseteq Node
  BY <1>1, Apart, Threads DEF NetShape
<1> QED
  BY <1>1, <1>4, <1>5, <1>6, StillMild DEF BellsRing

LEMMA AdminRoutedTells ==
  ASSUME MailInv, MailInv', TablesInv, NEW a \in Node, AdminRouted(a)
  PROVE  TablesInv'
<1> DEFINE m == Head(adminq[a])
           x == <<"queue", a, Dest(m, a), Base(m)>>
<1>1. Runs(a, "routed")
  BY DEF AdminRouted
<1>2. m \in Message /\ Taken(chan, RestOf(a), x) /\ m.kind = "routed" /\ pc[AdminT(a)] = "idle"
  BY <1>1, AdminTakes, Zenon
<1>3. PICK th : th = AdminT(a) /\ AgentOf(th) \in Node /\ th \in Thread /\ th \notin ClientThread
                /\ \A c \in Client : th # ProxyT(c)
  BY AdminThread
<1>4. PICK b : b = m.to
  OBVIOUS
<1>5. PICK k : k = m.msg
  OBVIOUS
<1>6. PICK q : q = RestOf(a)
  OBVIOUS
<1>7. PICK w : w = chan
  OBVIOUS
<1>8. /\ Send(th, b, k, "idle", q, w)
      /\ UNCHANGED <<tableVars, home, mode, members, killed, given, alive, peers, ctx, launch, hunt>>
      /\ UNCHANGED <<call, proxyat, cache, told, slain, since>>
  BY <1>3, <1>4, <1>5, <1>6, <1>7 DEF AdminRouted, ProcSame, procVars, workVars, histVars
<1>9. x[1] = "queue" /\ x[3] = b /\ x[4] = k /\ b \in Node /\ k \in Plain
  BY <1>2, <1>4, <1>5, MessageIs DEF Base, Dest
<1>10. Tolls(w, q)
  BY <1>1, <1>2, <1>6, <1>7, TollsQueue DEF Runs
<1> HIDE DEF m, x
<1>11. Less(w, q) /\ x \in MailNow
  BY <1>2, <1>6, <1>7 DEF Taken
<1>12. pc[th] = "idle" /\ out[th] = NoOut
  BY <1>2, <1>3, <1>11, IdleIs
<1>13. k.kind \in Carriers => k.th # th
  BY <1>3, <1>9, <1>11, <1>12, IdleSays DEF Waits
<1>14. Discreet(th)
  BY <1>8 DEF Discreet
<1>15. Alone(th) /\ Free(th)
  BY <1>8, <1>12, <1>3, SendAlone, IsFree
<1>16. Onward
  BY <1>8 DEF Onward, Passes, Enrolled, tableVars
<1>17. PICK e : e = <<"queue", a, b, k>>
  OBVIOUS
<1>18. e[3] = b /\ e[4] = k
  BY <1>17
<1>19. Was(e, th)
  BY <1>9, <1>11, <1>13, <1>18 DEF Was
<1>20. TrueTo(e[3], e[4])'
  BY <1>8, <1>15, <1>16, <1>19, StillTrue
<1>21. TrueTo(b, k)'
  BY <1>18, <1>20
<1>22. AsksReal(th) /\ CachesTrue /\ ToldTrue
  BY <1>8 DEF AsksReal, CachesTrue, ToldTrue
<1>23. ~(k.kind = "reply" /\ k.th = th)
  BY <1>13 DEF Carriers
<1> QED
  BY <1>3, <1>8, <1>9, <1>10, <1>11, <1>12, <1>14, <1>21, <1>22, <1>23, SendMild DEF Waits

LEMMA AdminBackLinkTells ==
  ASSUME MailInv, MailInv', TablesInv, NEW a \in Node, AdminBackLink(a)
  PROVE  TablesInv'
<1>1. PICK m : m = Head(adminq[a])
  OBVIOUS
<1>2. PICK th : th = AdminT(a) /\ AgentOf(th) \in Node /\ th \in Thread /\ th \notin ClientThread
                /\ \A c \in Client : th # ProxyT(c)
  BY AdminThread
<1>3. PICK q : q = RestOf(a)
  OBVIOUS
<1>4. PICK w : w = chan
  OBVIOUS
<1>5. PICK r : r = [to |-> m.to, msg |-> Nothing, next |-> "idle"]
  OBVIOUS
<1>6. /\ Runs(a, "backlink")
      /\ \/ Send(th, m.from, m, "idle", q, w)
         \/ Resolve(th, m.to, "agent", w) /\ out' = [out EXCEPT ![th] = r] /\ adminq' = q
      /\ UNCHANGED <<tableVars, home, mode, members, killed, given, alive, peers, ctx, launch, hunt>>
      /\ UNCHANGED <<call, proxyat, cache, told, slain, since>>
  BY <1>1, <1>2, <1>3, <1>4, <1>5 DEF AdminBackLink, ProcSame, procVars, workVars, histVars
<1>7. Runs(a, "backlink") /\ "backlink" # "routed" /\ "backlink" # "dead"
  BY <1>6
<1>8. m \in Plain /\ m.kind = "backlink" /\ Less(w, q) /\ Tolls(w, q) /\ pc[th] = "idle" /\ out[th] = NoOut
  BY <1>1, <1>2, <1>3, <1>4, <1>7, Heard
<1>9. m.to \in Node /\ m.from \in Node
  BY <1>8, Kinds
<1>10. Discreet(th)
  BY <1>6 DEF Discreet
<1>11. AsksReal(th) /\ CachesTrue /\ ToldTrue
  BY <1>6 DEF AsksReal, CachesTrue, ToldTrue
<1>12. CASE Send(th, m.from, m, "idle", q, w)
  <2>1. PICK b \in Node : b = m.from
    BY <1>9
  <2>2. TrueTo(b, m)'
    BY <1>8 DEF TrueTo, ClientKinds
  <2>3. m.kind # "reply" /\ Send(th, b, m, "idle", q, w)
    BY <1>8, <1>12, <2>1
  <2> QED
    BY <1>2, <1>6, <1>8, <1>10, <1>11, <2>2, <2>3, SendMild DEF Waits
<1>13. CASE Resolve(th, m.to, "agent", w) /\ out' = [out EXCEPT ![th] = r] /\ adminq' = q
  <2>1. PICK id \in Id \cup Node : id = m.to
    BY <1>9
  <2>2. r.msg = Nothing /\ Resolve(th, id, "agent", w)
    BY <1>5, <1>13, <2>1
  <2> QED
    BY <1>2, <1>6, <1>8, <1>10, <1>11, <1>13, <2>2, AskMild DEF Waits
<1> QED
  BY <1>6, <1>12, <1>13

LEMMA AdminWaitTells ==
  ASSUME MailInv, MailInv', TablesInv, NEW a \in Node, AdminWait(a)
  PROVE  TablesInv'
<1> DEFINE x == <<"queue", a, Dest(Head(adminq[a]), a), Base(Head(adminq[a]))>>
<1>1. PICK m : m = Head(adminq[a])
  OBVIOUS
<1>2. PICK i : i = m.id
  OBVIOUS
<1>3. PICK d : d = m.th[2]
  OBVIOUS
<1>4. PICK th : th = ProxyT(d)
  OBVIOUS
<1>5. /\ Runs(a, "wait") /\ adminq' = RestOf(a) /\ proxyat' = [proxyat EXCEPT ![d] = a]
      /\ call' = [call EXCEPT ![th] = [op |-> "wait", id |-> i]]
      /\ pc' = [pc EXCEPT ![th] = "waiting"]
      /\ UNCHANGED <<tableVars, home, mode, members, killed, given, alive, peers, ctx, launch, hunt>>
      /\ UNCHANGED <<chan, out, got, cache, told, slain, since>>
  BY <1>1, <1>2, <1>3, <1>4 DEF AdminWait, procVars, workVars, histVars
<1>6. Runs(a, "wait") /\ "wait" # "routed" /\ "wait" # "dead" /\ "wait" \in Carriers
  BY <1>5 DEF Carriers, ClientKinds
<1>7. m \in Plain /\ m.kind = "wait" /\ TrueTo(a, m) /\ Less(chan, RestOf(a)) /\ Tolls(chan, RestOf(a))
  BY <1>1, <1>6, Heard
<1>8. m.th \in ClientThread /\ i \in Id
  BY <1>2, <1>7, Kinds DEF ClientKinds
<1>9. PICK c \in Client : m.th = ClientT(c)
  BY <1>8 DEF ClientThread
<1>10. d = c /\ th = ProxyT(c)
  BY <1>3, <1>4, <1>9, Sorts
<1>11. th \in Thread /\ th \notin ClientThread /\ th # ClientT(c) /\ th # MasterT /\ \A e : th = ProxyT(e) => e = c
  BY <1>10, Threads, Sorts DEF MasterT, ClientThread
<1>12. pc[th] = "idle"
  <2>1. Runs(a, "wait")
    BY <1>5
  <2>2. Taken(chan, RestOf(a), x) /\ Base(m) = m
    BY <1>1, <1>7, <2>1, AdminTakes, PlainIs
  <2>3. x[1] = "queue" /\ x[4] = m
    BY <1>1, <2>2
  <2> HIDE DEF x
  <2>4. Carries(x[4], ClientT(c))
    BY <1>7, <1>9, <2>3, <1>6 DEF Carries
  <2> QED
    BY <1>10, <2>2, <2>3, <2>4, ProxyFree
<1>13. /\ pc \in [Thread -> Pcs] /\ call \in [Thread -> [op : Ops, id : Id \cup {NoId}]]
       /\ proxyat \in [Client -> Node \cup {NoNode}] /\ alive \subseteq Node
  BY Apart DEF CallShape, FrameShape, NetShape, MailInv, Shape, ThreadShape
<1>14. Alone(th)
  BY <1>5, <1>13 DEF Alone
<1>15. Mild(th)
  <2>1. pc'[MasterT] = pc[MasterT]
    BY <1>5, <1>11, <1>13
  <2> QED
    BY <1>5, <1>14, <2>1 DEF Mild
<1>16. call[ClientT(c)].op = "wait" /\ call[ClientT(c)].id = i /\ a = home[i]
  BY <1>2, <1>7, <1>9 DEF TrueTo, ClientKinds
<1>17. call'[th] = [op |-> "wait", id |-> i] /\ call'[ClientT(c)] = call[ClientT(c)] /\ proxyat'[c] = a
  BY <1>5, <1>10, <1>11, <1>13, Threads
<1>18. AsksReal(th)
  <2>1. Real(i)
    BY <1>16, Threads, Tables DEF AskInv, TaskOps
  <2> QED
    BY <1>8, <1>17, <2>1 DEF AsksReal
<1>19. ProxiesStay(th)
  <2>1. Attended(c)'
    BY <1>5, <1>10, <1>16, <1>17 DEF Attended
  <2>2. \A e \in Client : th # ProxyT(e) => proxyat'[e] = proxyat[e]
    BY <1>5, <1>10, <1>13
  <2> QED
    BY <1>11, <2>1, <2>2 DEF ProxiesStay
<1>20. CachesTrue /\ ToldTrue
  BY <1>5 DEF CachesTrue, ToldTrue
<1>21. Words(th)
  <2>1. MailNow' \subseteq MailNow
    BY <1>5, <1>7 DEF Less, MailNow
  <2>2. \A e \in MailNow : e[4].kind \in Carriers => e[4].th # th
    BY <1>11, <1>12, IdleSays DEF Waits
  <2>3. out[th] = NoOut
    BY <1>7, <1>11, <1>12, IdleIs
  <2> QED
    BY <1>5, <2>1, <2>2, <2>3 DEF Words, Was, NoOut, Nothing
<1>22. BellsRing
  BY <1>5, <1>7 DEF BellsRing, Tolls, Bell
<1>23. Free(th)
  BY <1>11, <1>12, IsFree
<1> QED
  BY <1>11, <1>13, <1>15, <1>18, <1>19, <1>20, <1>21, <1>22, <1>23, MildStep DEF BellsRing

-----------------------------------------------------------------------------
(* What comes from a link.                                                 *)

\* The message a receiving thread has read is true, and meant for a thread that waits.
LEMMA Read ==
  ASSUME MailInv, TablesInv, NEW a \in Node, NEW b \in Node, Takes(a, b), Head(chan[b, a]).kind # "routed"
  PROVE  LET m == Head(chan[b, a])
         IN  /\ m \in Plain /\ TrueTo(a, m) /\ Less(Rest(a, b), adminq)
             /\ m.kind # "dead" => Tolls(Rest(a, b), adminq)
             /\ m.kind \in Carriers => /\ m.th \in Thread /\ pc[m.th] \in Waits /\ Fit(m, pc[m.th])
                                       /\ m.th # RecvT(a, b) /\ AgentOf(m.th) \in Node
             /\ m.kind \in MasterKinds => a = Master
             /\ pc[RecvT(a, b)] = "idle"
<1> DEFINE m == Head(chan[b, a])
           x == <<"chan", <<b, a>>, Dest(m, a), Base(m)>>
<1>1. m \in Plain /\ Taken(Rest(a, b), adminq, x) /\ Base(m) = m /\ Dest(m, a) = a
  BY RecvTakes
<1>2. x[1] = "chan" /\ x[3] = a /\ x[4] = m
  BY <1>1
<1>3. chan[b, a] # <<>> /\ pc[RecvT(a, b)] = "idle"
  BY DEF Takes
<1> HIDE DEF m, x
<1>4. Less(Rest(a, b), adminq) /\ x \in MailNow
  BY <1>1 DEF Taken
<1>5. TrueTo(a, m)
  <2>1. TrueTo(x[3], x[4])
    BY <1>4, Tables DEF WordInv
  <2> QED
    BY <1>2, <2>1
<1>6. m.kind # "dead" => Tolls(Rest(a, b), adminq)
  BY <1>1, <1>3, TollsLink DEF m
<1>7. /\ Noted(x, pc, out)
      /\ m.kind \in Carriers => m.th \in Thread /\ pc[m.th] \in Waits /\ Fit(m, pc[m.th])
  BY <1>1, <1>2, TakenFacts
<1>8. m.kind \in Carriers => m.th # RecvT(a, b) /\ AgentOf(m.th) \in Node
  BY <1>1, <1>3, <1>7, Apart, WhoWaits DEF Waits
<1>9. m.kind \in MasterKinds => a = Master
  BY <1>1, <1>2, <1>7 DEF Noted
<1> QED
  BY <1>1, <1>3, <1>4, <1>5, <1>6, <1>7, <1>8, <1>9 DEF m

LEMMA RecvQueuedTells ==
  ASSUME MailInv, MailInv', TablesInv, NEW a \in Node, NEW b \in Node, RecvQueued(a, b)
  PROVE  TablesInv'
<1> DEFINE m == Head(chan[b, a])
           w == Rest(a, b)
           x == <<"chan", <<b, a>>, Dest(m, a), Base(m)>>
           y == <<"queue", a, Dest(m, a), Base(m)>>
           v == [adminq EXCEPT ![a] = Append(@, m)]
           s == Mail(w, v, out, got) \subseteq Mail(w, adminq, out, got) \cup {y}
<1>1. /\ Takes(a, b) /\ adminq' = v /\ chan' = w
      /\ UNCHANGED <<tableVars, home, mode, members, killed, given, alive, ctx, launch, hunt>>
      /\ UNCHANGED <<pc, call, out, got, proxyat, cache, told, slain, since, peers>>
  BY DEF RecvQueued, procVars, threadVars, workVars, histVars
<1>2. m \in Message /\ Taken(w, adminq, x)
  BY <1>1, RecvTakes
<1>3. x[4] = y[4] /\ x[3] = y[3]
  OBVIOUS
<1>4. adminq \in Queues /\ w \in Links /\ Mail(w, adminq, out, got) \subseteq MailNow /\ x \in MailNow
  BY <1>2, Apart DEF Taken, Less, MailShape
<1>5. ASSUME NEW n \in alive, NEW i \in Id, Bell(n, i) PROVE Bell(n, i)'
  <2>1. PICK k : k = DeadMsg(i)
    OBVIOUS
  <2>2. /\ adminq[a] \in Seq(Message) /\ chan[b, a] \in Seq(Message) /\ chan[b, a] # <<>> /\ chan \in Links
        /\ Master \in Node /\ n \in Node /\ adminq[Master] \in Seq(Message)
    BY <1>1, <1>4, Apart, Threads DEF MailShape, Links, Queues, Takes, NetShape
  <2>3. Among(k, adminq[Master]) => Among(k, adminq'[Master])
    <3>1. adminq'[Master] = adminq[Master] \/ adminq'[Master] = Append(adminq[Master], m)
      BY <1>1, <1>4, <2>2 DEF Queues
    <3> QED
      BY <2>2, <3>1, AmongMore
  <2>4. Among(k, chan[n, Master]) => Among(k, adminq'[Master]) \/ Among(k, chan'[n, Master])
    <3> SUFFICES ASSUME Among(k, chan[n, Master])
                 PROVE  Among(k, adminq'[Master]) \/ Among(k, chan'[n, Master])
      OBVIOUS
    <3>1. CASE ~(n = b /\ a = Master)
      <4>1. chan'[n, Master] = chan[n, Master]
        BY <1>1, <2>2, <3>1 DEF Rest, Links
      <4> QED
        BY <4>1
    <3>2. CASE n = b /\ a = Master /\ m = k
      <4>1. adminq'[Master] = Append(adminq[Master], k)
        BY <1>1, <1>4, <2>2, <3>2 DEF Queues
      <4> QED
        BY <2>2, <4>1, AmongLast
    <3>3. CASE n = b /\ a = Master /\ m # k
      <4>1. Among(k, Tail(chan[n, Master]))
        BY <2>2, <3>3, AmongRest
      <4>2. chan'[n, Master] = Tail(chan[n, Master])
        BY <1>1, <2>2, <3>3 DEF Rest, Links
      <4> QED
        BY <4>1, <4>2
    <3> QED
      BY <3>1, <3>2, <3>3
  <2>5. Among(k, adminq'[Master]) \/ Among(k, chan'[n, Master])
    BY <1>5, <2>1, <2>3, <2>4 DEF Bell
  <2> QED
    BY <2>1, <2>5 DEF Bell, DeadMsg, Among
<1> HIDE DEF m, w
<1>6. s
  BY <1>2, <1>4, QueueAdds, Zenon
<1> HIDE DEF x, y, v
<1>7. MailNow' \subseteq MailNow \cup {y}
  BY <1>1, <1>4, <1>6 DEF MailNow
<1> QED
  BY <1>1, <1>3, <1>4, <1>5, <1>7, StillMild

LEMMA RecvReplyTells ==
  ASSUME MailInv, MailInv', TablesInv, NEW a \in Node, NEW b \in Node, RecvReply(a, b)
  PROVE  TablesInv'
<1> DEFINE m == Head(chan[b, a])
           w == Rest(a, b)
           x == <<"chan", <<b, a>>, Dest(m, a), Base(m)>>
           y == <<"got", m.th, NoNode, [kind |-> "reply", th |-> m.th, val |-> m.val]>>
<1>1. /\ Takes(a, b) /\ m.kind = "reply" /\ got' = [got EXCEPT ![m.th] = m.val] /\ chan' = w
      /\ UNCHANGED <<tableVars, home, mode, members, killed, given, alive, ctx, launch, hunt>>
      /\ UNCHANGED <<adminq, pc, call, out, proxyat, cache, told, slain, since, peers>>
  BY DEF RecvReply, procVars, workVars, histVars
<1>2. m \in Plain /\ Taken(w, adminq, x) /\ Base(m) = m
  BY <1>1, RecvTakes
<1>3. m.th \in Thread /\ m.val \in Values /\ m.val # NoReply /\ m = [kind |-> "reply", th |-> m.th, val |-> m.val]
  BY <1>1, <1>2, Kinds, ValuesReal DEF Carriers
<1>4. x[4] = m /\ y[4] = m
  BY <1>2, <1>3
<1>5. Tolls(w, adminq) /\ alive \subseteq Node
  BY <1>1, Read, Apart DEF NetShape
<1> HIDE DEF m, w
<1>6. Mail(w, adminq, out, [got EXCEPT ![m.th] = m.val]) \subseteq Before(w, adminq, m.th) \cup {y}
  BY <1>3, GotAdds, Apart
<1>7. \A e : e \in Before(w, adminq, m.th) => e \in Mail(w, adminq, out, got)
  BY <1>3, LetsGo, Apart
<1> HIDE DEF x, y
<1>8. MailNow' \subseteq MailNow \cup {y} /\ x \in MailNow
  BY <1>1, <1>2, <1>6, <1>7 DEF MailNow, Taken, Less
<1>9. \A e \in MailNow' : \E f \in MailNow : f[4] = e[4] /\ (f[3] = e[3] \/ e[4].kind = "reply")
  BY <1>1, <1>4, <1>8
<1>10. \A n \in alive, i \in Id : Bell(n, i) => Bell(n, i)'
  BY <1>1, <1>5 DEF Tolls, Bell
<1> QED
  BY <1>1, <1>9, <1>10, StillMild

LEMMA RecvResolveTells ==
  ASSUME MailInv, MailInv', TablesInv, NEW a \in Node, NEW b \in Node, RecvT(a, b) \in Thread, RecvResolve(a, b)
  PROVE  TablesInv'
<1>1. PICK m : m = Head(chan[b, a])
  OBVIOUS
<1>2. PICK th \in Thread : th = RecvT(a, b)
  OBVIOUS
<1>3. PICK w : w = Rest(a, b)
  OBVIOUS
<1>4. PICK q : q = adminq
  OBVIOUS
<1>5. PICK t : t = m.th
  OBVIOUS
<1>6. PICK v : v = Found(m.id)
  OBVIOUS
<1>7. /\ Takes(a, b) /\ m.kind = "resolve" /\ Send(th, AgentOf(t), ReplyMsg(t, v), "idle", q, w)
      /\ UNCHANGED <<tableVars, home, mode, members, killed, given, alive, peers, ctx, launch, hunt>>
      /\ UNCHANGED <<call, proxyat, cache, told, slain, since>>
  BY <1>1, <1>2, <1>3, <1>4, <1>5, <1>6 DEF RecvResolve, ProcSame, procVars, workVars, histVars
<1>8. /\ m \in Plain /\ TrueTo(a, m) /\ Less(w, q) /\ Tolls(w, q) /\ t \in Thread /\ t # th
      /\ Fit(m, pc[t]) /\ AgentOf(t) \in Node /\ pc[th] = "idle"
  BY <1>1, <1>2, <1>3, <1>4, <1>5, <1>7, Read DEF Carriers
<1>9. AgentOf(th) = a /\ th \notin ClientThread /\ (\A c \in Client : th # ProxyT(c)) /\ out[th] = NoOut
  BY <1>2, <1>8, RecvThread, IdleIs
<1>10. pc[t] = "task" => v = home[call[t].id] \/ (v = NoNode /\ Over(call[t].id))
  <2> SUFFICES ASSUME pc[t] = "task" PROVE v = home[call[t].id] \/ (v = NoNode /\ Over(call[t].id))
    OBVIOUS
  <2>1. PICK i \in Id : i = call[t].id /\ call[t].op \in TaskOps
    BY <1>8, Apart DEF Control, ControlOf, TaskOps
  <2>2. m.id = i /\ Real(i)
    BY <1>5, <1>7, <1>8, <2>1, Tables DEF TrueTo, AskInv
  <2> QED
    BY <1>6, <2>1, <2>2, FoundIs
<1>11. pc[t] \in {"task", "agent"}
  BY <1>7, <1>8 DEF Fit
<1>12. PICK d \in Node : d = AgentOf(t)
  BY <1>8
<1>13. PICK k : k = ReplyMsg(t, v)
  OBVIOUS
<1>14. k.kind = "reply" /\ k.th = t /\ k.val = <<v>>
  BY <1>13 DEF ReplyMsg
<1>15. <<v>> \in Values /\ k \in Plain
  <2>1. Found(m.id) \in Node \cup {NoNode}
    BY Apart DEF Found, TableShape
  <2>2. <<v>> \in Values
    BY <1>6, <2>1 DEF Answers, Values
  <2> QED
    BY <1>8, <1>13, <2>2, MessagesMade
<1>16. pc'[t] = pc[t]
  <2>1. \E p : pc' = [pc EXCEPT ![th] = p]
    BY <1>7 DEF Send, Resolve
  <2> QED
    BY <1>8, <2>1, Apart
<1>17. TrueTo(d, k)'
  <2>1. ReplyTrue(t, <<v>>)'
    BY <1>7, <1>10, <1>11, <1>16 DEF ReplyTrue, Over, Lives
  <2> QED
    BY <1>14, <2>1 DEF TrueTo, ClientKinds
<1>18. Discreet(th) /\ AsksReal(th) /\ CachesTrue /\ ToldTrue
  BY <1>7 DEF Discreet, AsksReal, CachesTrue, ToldTrue
<1>19. Send(th, d, k, "idle", q, w)
  BY <1>7, <1>12, <1>13
<1> QED
  BY <1>7, <1>8, <1>9, <1>14, <1>15, <1>17, <1>18, <1>19, SendMild DEF Waits

LEMMA RecvDataTells ==
  ASSUME MailInv, MailInv', TablesInv, NEW a \in Node, NEW b \in Node, RecvT(a, b) \in Thread, RecvData(a, b)
  PROVE  TablesInv'
<1>1. PICK m : m = Head(chan[b, a])
  OBVIOUS
<1>2. PICK th \in Thread : th = RecvT(a, b)
  OBVIOUS
<1>3. PICK w : w = Rest(a, b)
  OBVIOUS
<1>4. PICK q : q = adminq
  OBVIOUS
<1>5. PICK i : i = m.id
  OBVIOUS
<1>6. /\ Takes(a, b) /\ m.kind = "data" /\ UNCHANGED <<adminq, out>>
      /\ \/ chan' = w /\ UNCHANGED <<pc, got, call>>
         \/ Resolve(th, i, "task", w) /\ call' = [call EXCEPT ![th] = [op |-> "send", id |-> i]]
      /\ UNCHANGED <<tableVars, home, mode, members, killed, given, alive, peers, ctx, launch, hunt>>
      /\ UNCHANGED <<proxyat, cache, told, slain, since>>
  BY <1>1, <1>2, <1>3, <1>4, <1>5 DEF RecvData, procVars, workVars, histVars
<1>7. m \in Plain /\ TrueTo(a, m) /\ Less(w, q) /\ Tolls(w, q) /\ pc[th] = "idle"
  BY <1>1, <1>2, <1>3, <1>4, <1>6, Read
<1>8. AgentOf(th) = a /\ th \notin ClientThread /\ (\A c \in Client : th # ProxyT(c)) /\ out[th] = NoOut
  BY <1>2, <1>7, RecvThread, IdleIs
<1>9. i \in Id /\ Real(i) /\ alive \subseteq Node
  BY <1>5, <1>6, <1>7, Kinds, Apart DEF TrueTo, NetShape
<1>10. CASE chan' = w /\ UNCHANGED <<pc, got, call>>
  <2>1. MailNow' \subseteq MailNow
    BY <1>4, <1>6, <1>7, <1>10 DEF Less, MailNow
  <2>2. \A n \in alive, j \in Id : Bell(n, j) => Bell(n, j)'
    BY <1>4, <1>6, <1>7, <1>9, <1>10 DEF Tolls, Bell
  <2> QED
    BY <1>6, <1>10, <2>1, <2>2, StillMild
<1>11. CASE Resolve(th, i, "task", w) /\ call' = [call EXCEPT ![th] = [op |-> "send", id |-> i]]
  <2>1. call'[th] = [op |-> "send", id |-> i] /\ \A t \in Thread \ {th} : call'[t] = call[t]
    BY <1>11, Apart DEF CallShape
  <2>2. Discreet(th) /\ CachesTrue /\ ToldTrue
    BY <1>6, <2>1 DEF Discreet, CachesTrue, ToldTrue
  <2>3. AsksReal(th)
    BY <1>9, <2>1 DEF AsksReal
  <2>4. NoOut.msg = Nothing
    BY DEF NoOut
  <2>5. PICK r : r = NoOut /\ r.msg = Nothing
    BY <2>4
  <2>6. out' = [out EXCEPT ![th] = r] /\ adminq' = q /\ call'[th].id = i
    BY <1>4, <1>6, <1>8, <2>1, <2>5, Apart DEF MailShape, Outs
  <2> QED
    BY <1>6, <1>7, <1>8, <1>9, <1>11, <2>2, <2>3, <2>5, <2>6, AskMild DEF Waits
<1> QED
  BY <1>6, <1>10, <1>11

LEMMA NoticeLossTells ==
  ASSUME MailInv, MailInv', TablesInv, NEW a \in Node, NEW n \in Node, NoticeLoss(a, n)
  PROVE  TablesInv'
<1> DEFINE m == RemoveLinkMsg(n)
           v == [adminq EXCEPT ![a] = Append(@, m)]
           x == <<"queue", a, Dest(m, a), Base(m)>>
           s == Mail(chan, v, out, got) \subseteq Mail(chan, adminq, out, got) \cup {x}
<1>1. /\ adminq' = v /\ n \notin alive
      /\ UNCHANGED <<tableVars, home, mode, members, killed, given, alive, peers, ctx, launch, hunt>>
      /\ UNCHANGED <<pc, call, out, got, chan, proxyat, cache, told, slain, since>>
  BY DEF NoticeLoss, procVars, threadVars, workVars, histVars
<1>2. Base(m) = m /\ m \in Message /\ m.kind = "removelink" /\ m.to = n
  BY MessagesMade, PlainIs DEF RemoveLinkMsg
<1>3. adminq \in Queues /\ chan \in Links /\ alive \subseteq Node
  BY Apart DEF MailShape, NetShape
<1>4. PICK k : k = m /\ k.kind = "removelink" /\ k.to = n
  BY <1>2
<1>5. x[4] = k
  BY <1>2, <1>4
<1>6. BellsRing
  BY <1>1, <1>3, TollsNow, BellsGrow
<1> HIDE DEF m
<1>7. s
  BY <1>2, <1>3, QueueAdds, Zenon
<1> HIDE DEF x, v
<1>8. MailNow' \subseteq MailNow \cup {x}
  BY <1>1, <1>7 DEF MailNow
<1>9. PICK d : d = x[3]
  OBVIOUS
<1>10. TrueTo(d, k)'
  BY <1>1, <1>4 DEF TrueTo, ClientKinds
<1>11. \A e \in MailNow' : \/ \E f \in MailNow : f[4] = e[4] /\ (f[3] = e[3] \/ e[4].kind = "reply")
                           \/ TrueTo(e[3], e[4])'
  <2> SUFFICES ASSUME NEW e \in MailNow', e = x PROVE TrueTo(e[3], e[4])'
    BY <1>8
  <2>1. e[3] = d /\ e[4] = k
    BY <1>5, <1>9
  <2> QED
    BY <1>10, <2>1
<1>12. \A p \in alive, i \in Id : Bell(p, i) => Bell(p, i)'
  BY <1>3, <1>6 DEF BellsRing
<1> QED
  BY <1>1, <1>11, <1>12, StillMild

LEMMA LoseTailTells ==
  ASSUME MailInv, MailInv', TablesInv, NEW n \in Node, NEW a \in Node, LoseTail(n, a)
  PROVE  TablesInv'
<1> DEFINE w == [chan EXCEPT ![<<n, a>>] = Front(@)]
<1>1. /\ n \notin alive /\ chan[n, a] # <<>> /\ chan' = w
      /\ UNCHANGED <<tableVars, home, mode, members, killed, given, alive, peers, ctx, launch, hunt>>
      /\ UNCHANGED <<pc, call, out, got, adminq, proxyat, cache, told, slain, since>>
  BY DEF LoseTail, procVars, threadVars, workVars, histVars
<1>2. chan \in Links /\ alive \subseteq Node /\ Master \in Node
  BY Apart, Threads DEF MailShape, NetShape
<1>3. \A p \in alive : chan'[p, Master] = chan[p, Master]
  BY <1>1, <1>2 DEF Links
<1>4. \A p \in alive, i \in Id : Bell(p, i) => Bell(p, i)'
  BY <1>1, <1>3 DEF Bell
<1>5. Less(w, adminq)
  BY <1>1, TailLost, Apart
<1> HIDE DEF w
<1>6. MailNow' \subseteq MailNow
  BY <1>1, <1>5 DEF Less, MailNow
<1> QED
  BY <1>1, <1>4, <1>6, StillMild

-----------------------------------------------------------------------------
(* The calls of a client.                                                  *)

\* A client's call that is a question for the master, about no task.
LEMMA CallMild ==
  ASSUME MailInv, MailInv', TablesInv, NEW c \in Client, pc[ClientT(c)] = "idle", Discreet(ClientT(c)),
         NEW m \in Plain, m.kind \in {"size", "find", "launch"}, m.th = ClientT(c), NEW v, v.op = m.kind,
         call' = [call EXCEPT ![ClientT(c)] = v], Send(ClientT(c), Master, m, "reply", adminq, chan),
         UNCHANGED <<cache, proxyat, told, slain>>
  PROVE  TablesInv'
<1>1. PICK th \in Thread : th = ClientT(c) /\ AgentOf(th) \in Node /\ \A d \in Client : th # ProxyT(d)
  BY Threads, Sorts DEF AgentOf
<1>2. call'[th] = v
  BY <1>1, Apart DEF CallShape
<1>3. PICK q : q = adminq
  OBVIOUS
<1>4. PICK w : w = chan
  OBVIOUS
<1>5. Less(w, q) /\ Tolls(w, q)
  BY <1>3, <1>4, LessNow, TollsNow, Apart
<1>6. out[th] = NoOut
  BY <1>1, <1>5, IdleIs
<1>7. TrueTo(Master, m)'
  BY <1>1, <1>2 DEF TrueTo, ClientKinds
<1>8. Follows(th) /\ AsksReal(th)
  BY <1>1, <1>2 DEF Follows, Pending, AsksReal, TaskOps
<1>9. CachesTrue /\ ToldTrue
  BY DEF CachesTrue, ToldTrue
<1>10. Send(th, Master, m, "reply", q, w) /\ Discreet(th) /\ Master \in Node
  BY <1>1, <1>3, <1>4, Threads
<1> QED
  BY <1>1, <1>5, <1>6, <1>7, <1>8, <1>9, <1>10, SendMild DEF Waits

LEMMA CallSizeTells ==
  ASSUME MailInv, MailInv', TablesInv, NEW c \in Client, CallSize(c)
  PROVE  TablesInv'
<1> DEFINE m == SizeMsg(ClientT(c))
           v == [op |-> "size", id |-> NoId]
<1>1. /\ pc[ClientT(c)] = "idle" /\ call' = [call EXCEPT ![ClientT(c)] = v]
      /\ Send(ClientT(c), Master, m, "reply", adminq, chan)
      /\ UNCHANGED <<tableVars, home, mode, members, killed, given, alive, peers, ctx, launch, hunt>>
      /\ UNCHANGED <<proxyat, cache, told, slain, since>>
  BY DEF CallSize, Calling, Idle, ProcSame, procVars, workVars, histVars
<1>2. m \in Plain /\ m.kind = "size" /\ m.th = ClientT(c) /\ v.op = "size"
  BY MessagesMade, Threads DEF SizeMsg
<1> HIDE DEF m, v
<1>3. Discreet(ClientT(c))
  BY <1>1, Threads, Apart DEF Discreet, CallShape
<1> QED
  BY <1>1, <1>2, <1>3, CallMild

LEMMA CallFindTells ==
  ASSUME MailInv, MailInv', TablesInv, NEW c \in Client, CallFind(c)
  PROVE  TablesInv'
<1> DEFINE m == FindMsg(FALSE, ClientT(c))
           v == [op |-> "find", id |-> NoId]
           s == {i \in Id : mode[i] \in {"born", "ready"}}
<1>1. /\ pc[ClientT(c)] = "idle" /\ call' = [call EXCEPT ![ClientT(c)] = v]
      /\ Send(ClientT(c), Master, m, "reply", adminq, chan) /\ since' = [since EXCEPT ![c] = s]
      /\ UNCHANGED <<tableVars, home, mode, members, killed, given, alive, peers, ctx, launch, hunt>>
      /\ UNCHANGED <<proxyat, cache, told, slain>>
  BY DEF CallFind, Calling, Idle, ProcSame, procVars, workVars
<1>2. m \in Plain /\ m.kind = "find" /\ m.th = ClientT(c) /\ v.op = "find"
  BY MessagesMade, Threads DEF FindMsg
<1>3. \A i \in s : mode[i] \notin {"none", "context"}
  OBVIOUS
<1> HIDE DEF m, v, s
<1>4. \A d \in Client : since'[d] = since[d] \/ (d = c /\ since'[d] = s)
  BY <1>1, Apart DEF HistShape
<1>5. Discreet(ClientT(c))
  BY <1>1, <1>3, <1>4, Threads, Apart DEF Discreet, CallShape
<1> QED
  BY <1>1, <1>2, <1>5, CallMild

LEMMA CallLaunchTells ==
  ASSUME MailInv, MailInv', TablesInv, NEW c \in Client, NEW r \in Requests, CallLaunch(c, r)
  PROVE  TablesInv'
<1> DEFINE th == ClientT(c)
           new == IF r.slaves THEN r.n - 1 ELSE r.n
           own == IF r.slaves THEN ctx[c] ELSE NoId
           first == IF r.slaves THEN 2 ELSE 1
           ids == IF r.slaves THEN <<own>> \o Fresh(new) ELSE Fresh(new)
           m == LaunchMsg(r, ids, th)
           v == [op |-> "launch", id |-> own]
<1>1. /\ pc[th] = "idle" /\ Send(th, Master, m, "reply", adminq, chan)
      /\ new <= Cardinality(Id \ given) /\ (r.slaves => own # NoId /\ own = ctx[c])
      /\ given \subseteq given' /\ call' = [call EXCEPT ![th] = v]
      /\ UNCHANGED <<tableVars, home, mode, members, killed, alive, peers, ctx, launch, hunt>>
      /\ UNCHANGED <<proxyat, cache, told, slain, since>>
  BY Zenon DEF CallLaunch, Calling, Idle, workVars, histVars
<1>2. /\ given \subseteq Id /\ ctx \in [Client -> Id \cup {NoId}]
  BY Apart DEF FrameShape, ProcShape
<1>3. new \in Nat /\ r.n \in Nat /\ r.slaves \in BOOLEAN /\ r \in Request
  BY Requested
<1>4. ids \in Seq(Id) /\ Len(ids) = r.n
  <2>1. /\ first \in {1, 2} /\ (first = 2 <=> r.slaves)
        /\ first = 2 => new = r.n - 1 /\ ids = Join(own, Fresh(new))
        /\ first = 1 => new = r.n /\ ids = Fresh(new)
    BY DEF Join
  <2>2. own \in Id \cup {NoId} /\ (r.slaves => own \in Id)
    BY <1>1, <1>2
  <2>3. new <= Cardinality(Id \ given) /\ given \subseteq Id
    BY <1>1, <1>2
  <2> HIDE DEF own, new, ids, first
  <2>4. r.n \in Nat /\ own \in Id \cup {NoId} /\ (first = 2 => own \in Id) /\ new \in Nat
    BY <1>3, <2>1, <2>2
  <2>5. AreDrawn(ids, r.n, first, own, Fresh(new))
    BY <2>1, <2>3, <2>4, Drawn
  <2> QED
    BY <2>5 DEF AreDrawn
<1>5. v.op = "launch"
  OBVIOUS
<1> HIDE DEF ids, own, new, v
<1>6. m \in Plain /\ m.kind = "launch" /\ m.th = th
  BY <1>3, <1>4, MessagesMade, Threads DEF LaunchMsg
<1> HIDE DEF m
<1>7. Discreet(th)
  BY <1>1, Threads, Apart DEF Discreet, CallShape
<1> QED
  BY <1>1, <1>5, <1>6, <1>7, CallMild

\* The ids a program has are those of what there is.
LEMMA KnownReal ==
  ASSUME MailInv, LaunchesInv, TablesInv, NEW i \in Known
  PROVE  i \in Id /\ Real(i)
<1>1. PICK j \in Id : i \in members[j] /\ (mode[j] \in Started \/ (mode[j] = "context" /\ j \in Registered))
  <2>1. PICK j : /\ i \in members[j]
                 /\ \/ j \in Id /\ mode[j] \in Started
                    \/ j \in Registered /\ j # NoId /\ mode[j] = "context"
    BY DEF Known
  <2>2. j \in Registered /\ j # NoId => j \in Id
    BY Apart DEF Registered, FrameShape
  <2> QED
    BY <2>1, <2>2
<1>2. i \in Id /\ WholeInv /\ MemberInv /\ ClientInv
  BY <1>1, Apart, Tables DEF ProcShape, LaunchesInv
<1>3. mode[i] # "none"
  BY <1>1, <1>2 DEF WholeInv, Whole
<1>4. CASE mode[j] = "context" /\ j \in Registered
  <2>1. PICK c \in Client : j = ctx[c] /\ call[ClientT(c)].op # "reg"
    BY <1>4 DEF Registered
  <2>2. j # NoId
    BY <1>1, ConstantsAssumption DEF ConstantsAssumption, NoId
  <2>3. Enrolled(j)
    BY <1>2, <2>1, <2>2 DEF ClientInv, ClientOk
  <2> QED
    BY <1>1, <1>2, <1>3, <2>3 DEF MemberInv, Real
<1>5. CASE mode[j] \in Started
  <2>1. Enrolled(j)
    BY <1>5 DEF Enrolled, Started
  <2> QED
    BY <1>1, <1>2, <1>3, <2>1 DEF MemberInv, Real
<1> QED
  BY <1>1, <1>4, <1>5

LEMMA CallTaskTells ==
  ASSUME MailInv, MailInv', LaunchesInv, TablesInv, NEW c \in Client,
         NEW op \in {"kill", "wait", "alive", "send"}, NEW id \in Id, CallTask(c, op, id)
  PROVE  TablesInv'
<1>1. PICK th \in Thread : th = ClientT(c) /\ AgentOf(th) \in Node /\ \A d \in Client : th # ProxyT(d)
  BY Threads, Sorts DEF AgentOf
<1>2. PICK q : q = adminq
  OBVIOUS
<1>3. PICK w : w = chan
  OBVIOUS
<1>4. /\ pc[th] = "idle" /\ Resolve(th, id, "task", w) /\ id \in Known
      /\ call' = [call EXCEPT ![th] = [op |-> op, id |-> id]] /\ UNCHANGED <<adminq, out>>
      /\ UNCHANGED <<tableVars, home, mode, members, killed, given, alive, peers, ctx, launch, hunt>>
      /\ UNCHANGED <<proxyat, cache, told, slain, since>>
  BY <1>1, <1>3 DEF CallTask, Calling, Idle, ProcSame, procVars, workVars, histVars
<1>5. call'[th] = [op |-> op, id |-> id] /\ \A t \in Thread \ {th} : call'[t] = call[t]
  BY <1>4, Apart DEF CallShape
<1>6. Less(w, q) /\ Tolls(w, q)
  BY <1>2, <1>3, LessNow, TollsNow, Apart
<1>7. out[th] = NoOut
  BY <1>4, <1>6, IdleIs
<1>8. Real(id)
  BY <1>4, KnownReal
<1>9. Follows(th) /\ AsksReal(th)
  BY <1>4, <1>5, <1>8 DEF Follows, Pending, AsksReal
<1>10. Discreet(th) /\ CachesTrue /\ ToldTrue
  BY <1>4, <1>5 DEF Discreet, CachesTrue, ToldTrue
<1>11. NoOut.msg = Nothing
  BY DEF NoOut
<1>12. PICK r : r = NoOut /\ r.msg = Nothing
  BY <1>11
<1>13. out' = [out EXCEPT ![th] = r] /\ adminq' = q /\ call'[th].id = id
  BY <1>2, <1>4, <1>5, <1>7, <1>12, Apart DEF MailShape, Outs
<1> QED
  BY <1>1, <1>4, <1>6, <1>7, <1>8, <1>9, <1>10, <1>12, <1>13, AskMild DEF Waits

\* The reply a thread has got is true.
LEMMA GotTrue ==
  ASSUME MailInv, TablesInv, NEW th \in Thread, got[th] # NoReply
  PROVE  ReplyTrue(th, got[th])
<1> DEFINE y == <<"got", th, NoNode, [kind |-> "reply", th |-> th, val |-> got[th]]>>
<1>1. y \in MailNow
  BY ReplyIsOwn DEF Own
<1>2. y[4].kind = "reply" /\ y[4].th = th /\ y[4].val = got[th]
  OBVIOUS
<1> HIDE DEF y
<1>3. TrueTo(y[3], y[4])
  BY <1>1, Tables DEF WordInv
<1> QED
  BY <1>2, <1>3 DEF TrueTo

LEMMA ResolvedTells ==
  ASSUME MailInv, MailInv', TablesInv, NEW th \in Thread, Resolved(th)
  PROVE  TablesInv'
<1>1. PICK i : i = call[th].id
  OBVIOUS
<1>2. PICK op : op = call[th].op
  OBVIOUS
<1>3. PICK n : n = got[th][1]
  OBVIOUS
<1>4. PICK q : q = adminq
  OBVIOUS
<1>5. PICK w : w = chan
  OBVIOUS
<1> DEFINE ended == /\ n = NoNode /\ pc' = [pc EXCEPT ![th] = "idle"] /\ got' = [got EXCEPT ![th] = NoReply]
                    /\ call' = [call EXCEPT ![th] = NoCall]
                    /\ told' = IF op \in {"wait", "alive"} THEN told \cup {i} ELSE told
                    /\ slain' = IF op = "kill" THEN slain \cup {i} ELSE slain
                    /\ UNCHANGED <<since, out, chan, adminq>>
           sent == /\ n # NoNode /\ op = "send" /\ Send(th, n, DataMsg(i), "idle", q, w)
                   /\ call' = [call EXCEPT ![th] = NoCall] /\ UNCHANGED <<told, slain, since>>
           asked == /\ n # NoNode /\ op # "send" /\ Send(th, n, CallMsg(op, i, th), "reply", q, w)
                    /\ UNCHANGED <<call, told, slain, since>>
<1>6. /\ pc[th] = "task" /\ got[th] # NoReply /\ cache' = Cached(th, i)
      /\ UNCHANGED <<tableVars, home, mode, members, killed, given, alive, peers, ctx, launch, hunt, proxyat>>
      /\ ended \/ sent \/ asked
  BY <1>1, <1>2, <1>3, <1>4, <1>5 DEF Resolved, ProcSame, procVars, workVars, histVars
<1> HIDE DEF ended, sent, asked
<1>7. /\ i \in Id /\ op \in TaskOps /\ (th \in ClientThread \/ op = "send") /\ out[th] = NoOut
      /\ \A c \in Client : th # ProxyT(c)
  <2>1. ControlOf(th)
    BY Apart DEF Control
  <2>2. \A c \in Client : "task" \notin PcsOf(ProxyT(c))
    BY Sorts DEF PcsOf
  <2> QED
    BY <1>1, <1>2, <1>6, <2>1, <2>2 DEF ControlOf, TaskOps
<1>8. Real(i)
  BY <1>1, <1>2, <1>7, Tables DEF AskInv
<1>9. n = home[i] \/ (n = NoNode /\ Over(i))
  <2>1. got[th] = <<home[i]>> \/ (got[th] = <<NoNode>> /\ Over(i))
    BY <1>1, <1>6, GotTrue DEF ReplyTrue
  <2> QED
    BY <1>3, <2>1
<1>10. AgentOf(th) \in Node /\ n \in Node \cup {NoNode}
  BY <1>3, <1>6, Apart, WhoWaits, AnswerCame
<1>11. CachesTrue
  <2>1. cache' = cache \/ (n # NoNode /\ cache' = [cache EXCEPT ![AgentOf(th)][i] = n])
    BY <1>3, <1>6 DEF Cached
  <2> QED
    BY <1>8, <1>9, <2>1, Apart DEF CachesTrue, NetShape, Real
<1>12. Less(w, q) /\ Tolls(w, q)
  BY <1>4, <1>5, LessNow, TollsNow, Apart
<1>13. ~Pending(th) /\ NoCall.op = "none"
  BY <1>6 DEF Pending, NoCall
<1>14. call' = [call EXCEPT ![th] = NoCall] => /\ \A t \in Thread \ {th} : call'[t] = call[t]
                                               /\ call'[th].op = "none" /\ Follows(th) /\ AsksReal(th)
  BY <1>13, Apart DEF CallShape, Follows, AsksReal, TaskOps
<1>15. UNCHANGED call => Follows(th) /\ AsksReal(th)
  BY <1>13 DEF Follows, AsksReal
<1>16. CASE ended
  <2>1. /\ n = NoNode /\ pc' = [pc EXCEPT ![th] = "idle"] /\ got' = [got EXCEPT ![th] = NoReply]
        /\ call' = [call EXCEPT ![th] = NoCall] /\ UNCHANGED <<since, out, chan, adminq>>
        /\ told' = told \/ told' = told \cup {i}
        /\ slain' = slain \/ slain' = slain \cup {i}
    BY <1>16 DEF ended
  <2>2. Over(i)
    <3>1. NoNode \notin Node
      BY Threads
    <3>2. home[i] \in Node
      BY <1>7, <1>8, Tables DEF OwnerInv, Real
    <3> QED
      BY <1>9, <2>1, <3>1, <3>2
  <2>3. ToldTrue
    BY <1>7, <2>1, <2>2 DEF ToldTrue
  <2>4. Alone(th) /\ pc'[th] = "idle" /\ (pc'[MasterT] = "hunt" => pc[MasterT] = "hunt")
    BY <1>14, <2>1, Apart, OrderWaits DEF Alone
  <2>5. Mild(th)
    BY <1>6, <2>1, <2>4 DEF Mild
  <2>6. Words(th)
    <3>1. MailNow' = Before(w, q, th)
      BY <1>4, <1>5, <2>1 DEF MailNow, Before
    <3>2. \A e \in MailNow' : Was(e, th)
      BY <1>6, <1>7, <1>12, <3>1, BeforeWas
    <3>3. NoOut.msg.kind # "reply"
      BY DEF NoOut, Nothing
    <3> QED
      BY <1>7, <2>1, <3>2, <3>3 DEF Words
  <2>7. \A m \in alive, k \in Id : Bell(m, k) => Bell(m, k)'
    BY <2>1 DEF Bell
  <2>8. ProxiesStay(th)
    BY <1>6, <1>7 DEF ProxiesStay
  <2> QED
    BY <1>6, <1>11, <1>14, <2>1, <2>3, <2>5, <2>6, <2>7, <2>8, IsFree, MildStep
<1>17. CASE sent
  <2>1. /\ n # NoNode /\ op = "send" /\ Send(th, n, DataMsg(i), "idle", q, w)
        /\ call' = [call EXCEPT ![th] = NoCall] /\ UNCHANGED <<told, slain, since>>
    BY <1>17 DEF sent
  <2>2. PICK b \in Node : b = n
    BY <1>10, <2>1
  <2>3. PICK m : m = DataMsg(i)
    OBVIOUS
  <2>4. m \in Plain /\ m.kind = "data" /\ m.id = i
    BY <1>7, <2>3, MessagesMade DEF DataMsg
  <2>5. TrueTo(b, m)'
    BY <1>6, <1>8, <2>4 DEF TrueTo, ClientKinds, Real, Enrolled, tableVars
  <2>6. ToldTrue
    BY <2>1 DEF ToldTrue
  <2>7. Discreet(th)
    BY <1>6, <1>14, <2>1 DEF Discreet
  <2>8. Send(th, b, m, "idle", q, w)
    BY <2>1, <2>2, <2>3
  <2> QED
    BY <1>6, <1>7, <1>10, <1>11, <1>12, <1>14, <2>1, <2>4, <2>5, <2>6, <2>7, <2>8, SendMild
<1>18. CASE asked
  <2>1. /\ n # NoNode /\ op # "send" /\ Send(th, n, CallMsg(op, i, th), "reply", q, w)
        /\ UNCHANGED <<call, told, slain, since>>
    BY <1>18 DEF asked
  <2>2. PICK b \in Node : b = n
    BY <1>10, <2>1
  <2>3. PICK m : m = CallMsg(op, i, th)
    OBVIOUS
  <2>4. op \in {"kill", "wait", "alive"} /\ th \in ClientThread
    BY <1>7, <2>1 DEF TaskOps
  <2>5. m \in Plain /\ m.kind = op /\ m.id = i /\ m.th = th
    BY <1>7, <2>3, <2>4, MessagesMade DEF CallMsg
  <2>6. TrueTo(b, m)'
    BY <1>1, <1>2, <1>6, <1>9, <2>1, <2>2, <2>4, <2>5 DEF TrueTo
  <2>7. ToldTrue
    BY <2>1 DEF ToldTrue
  <2>8. Discreet(th)
    BY <1>6, <2>1 DEF Discreet
  <2>9. Send(th, b, m, "reply", q, w) /\ ~(m.kind = "reply" /\ m.th = th)
    BY <2>1, <2>2, <2>3, <2>4, <2>5
  <2> QED
    BY <1>6, <1>7, <1>10, <1>11, <1>12, <1>15, <2>1, <2>5, <2>6, <2>7, <2>8, <2>9, SendMild
<1> QED
  BY <1>6, <1>16, <1>17, <1>18

-----------------------------------------------------------------------------
(* A link to an agent that had none, and the reply to a wait_task.         *)

LEMMA TollsMore ==
  ASSUME NEW w \in Links, NEW q, Tolls(w, q), NEW l \in Node \X Node, NEW m
  PROVE  Tolls([w EXCEPT ![l] = Append(@, m)], q)
<1> DEFINE v == [w EXCEPT ![l] = Append(@, m)]
<1> SUFFICES ASSUME NEW n \in Node, NEW i \in Id, Among(DeadMsg(i), w[n, Master])
             PROVE  Among(DeadMsg(i), v[n, Master])
  BY DEF Tolls
<1>1. <<n, Master>> \in Node \X Node /\ w[n, Master] \in Seq(Message)
  BY Threads DEF Links
<1>2. v[n, Master] = w[n, Master] \/ v[n, Master] = Append(w[n, Master], m)
  BY <1>1 DEF Links
<1>3. Among(DeadMsg(i), Append(w[n, Master], m))
  BY <1>1, AmongMore, Zenon
<1> QED
  BY <1>2, <1>3

LEMMA PeerBells ==
  ASSUME MailInv, NEW th \in Thread, AgentOf(th) \in Node, out[th].to \in Node, NewPeer(th)
  PROVE  BellsRing
<1> DEFINE a == AgentOf(th)
           b == out[th].to
           w == IF out[th].msg = Nothing THEN chan ELSE [chan EXCEPT ![<<a, b>>] = Append(@, out[th].msg)]
           more(v) == v # chan /\ \E l \in Node \X Node : \E m : v = [chan EXCEPT ![l] = Append(@, m)]
<1>1. Master \in Node /\ chan \in Links /\ adminq \in Queues /\ out[th].msg \in Message
  BY Apart, Threads, PlainIs DEF MailShape, Outs
<1>2. /\ \/ chan' = chan \/ \E m : chan' = [chan EXCEPT ![<<a, Master>>] = Append(@, m)]
         \/ chan' = w \/ \E m : chan' = [w EXCEPT ![<<a, Master>>] = Append(@, m)]
      /\ adminq' = adminq \/ \E m : adminq' = [adminq EXCEPT ![a] = Append(@, m)]
  BY DEF NewPeer
<1>3. w \in Links /\ Tolls(w, adminq)
  <2>1. CASE out[th].msg = Nothing
    BY <1>1, <2>1, TollsNow
  <2>2. CASE out[th].msg # Nothing
    <3> DEFINE v == [chan EXCEPT ![<<a, b>>] = Append(@, out[th].msg)]
    <3>1. w = v
      BY <2>2
    <3>2. v \in Links
      BY <1>1 DEF Links
    <3>3. Tolls(v, adminq)
      BY <1>1, TollsNow, TollsMore
    <3> QED
      BY <3>1, <3>2, <3>3
  <2> QED
    BY <2>1, <2>2
<1>4. Tolls(chan, adminq)
  BY TollsNow
<1>5. PICK v \in Links : /\ Tolls(v, adminq)
                         /\ chan' = v \/ \E l \in Node \X Node : \E m : chan' = [v EXCEPT ![l] = Append(@, m)]
  <2> HIDE DEF w
  <2>1. <<a, Master>> \in Node \X Node
    BY <1>1
  <2> QED
    BY <1>1, <1>2, <1>3, <1>4, <2>1
<1>6. adminq' = adminq \/ \E n \in Node : \E m : adminq' = [adminq EXCEPT ![n] = Append(@, m)]
  BY <1>2
<1> QED
  BY <1>1, <1>5, <1>6, BellsGrow

LEMMA NewPeerTells ==
  ASSUME MailInv, MailInv', TablesInv, NEW th \in Thread, NewPeer(th)
  PROVE  TablesInv'
<1> DEFINE p == out[th].next
           b == out[th].to
           m == out[th].msg
           a == AgentOf(th)
           none == <<"out", th, NoNode, Nothing>>
<1>1. /\ pc[th] = "agent" /\ got[th] # NoReply /\ pc' = [pc EXCEPT ![th] = p]
      /\ out' = [out EXCEPT ![th] = NoOut] /\ cache' = Cached(th, b)
      /\ UNCHANGED <<tableVars, home, mode, members, killed, given, alive, ctx, launch, hunt>>
      /\ UNCHANGED <<call, proxyat, told, slain, since>>
      /\ peers' = peers \/ peers' = [peers EXCEPT ![a] = @ \cup {b}]
  BY DEF NewPeer, procVars, workVars, histVars
<1>2. b \in Node /\ p \in {"idle", "reply", "made", "found"} /\ a \in Node
  BY <1>1, Apart, WhoWaits DEF Control, ControlOf, NextOf
<1>3. PICK l : PeerSent(th, <<"chan", l, b, m>>)
  BY <1>1, <1>2, PeerMail
<1>4. PICK y : MailNow' \subseteq PeerFree(th) \cup {<<"chan", l, b, m>>, y} /\ y[4].kind \notin Telling
  BY <1>3 DEF PeerSent
<1>5. /\ \A e : e \in PeerFree(th) => (e \in MailNow /\ ~(e[1] = "out" /\ e[2] = th)) \/ e = none
      /\ Own(PeerFree(th), th) = {}
  BY <1>1, PeerCalm
<1>6. BellsRing
  BY <1>2, PeerBells
<1>7. pc \in [Thread -> Pcs] /\ out \in Outs /\ alive \subseteq Node /\ peers \in [Node -> SUBSET Node]
  BY Apart DEF MailShape, NetShape
<1>8. peers[Master] \subseteq peers'[Master]
  BY <1>1, <1>2, <1>7, Threads
<1>9. Alone(th) /\ pc'[th] = p
  BY <1>1, <1>7 DEF Alone, Outs
<1>10. Mild(th)
  <2>1. pc'[MasterT] = "hunt" => pc[MasterT] = "hunt"
    BY <1>1, <1>2, <1>7, OrderWaits
  <2> QED
    BY <1>1, <1>8, <1>9, <2>1 DEF Mild
<1>11. Follows(th) /\ AsksReal(th) /\ ToldTrue /\ ProxiesStay(th)
  <2>1. Follows(th)
    BY <1>1, <1>9 DEF Follows, Pending
  <2> QED
    BY <1>1, <1>2, <1>9, <2>1 DEF AsksReal, ToldTrue, ProxiesStay, Attended
<1>12. CachesTrue
  <2>1. \A i \in Id : i # b
    BY <1>2, ConstantsAssumption DEF ConstantsAssumption
  <2>2. \A n \in Node, i \in Id : cache'[n][i] = cache[n][i]
    BY <1>1, <1>2, <2>1, Apart DEF Cached, NetShape
  <2> QED
    BY <2>2 DEF CachesTrue
<1>13. Words(th)
  <2>1. NoOut.msg.kind = "none" /\ none[4].kind = "none"
    BY DEF NoOut, Nothing
  <2>2. PICK d : d = b /\ d \in Node
    BY <1>2
  <2>3. PICK k : k = m /\ k \in Plain
    BY <1>7 DEF Outs
  <2>4. PICK z : z = <<"out", th, d, k>> /\ z \in MailNow /\ z[3] = d /\ z[4] = k
    <3> DEFINE x == <<"out", th, d, k>>
    <3>1. x \in MailNow /\ x[3] = d /\ x[4] = k
      BY <2>2, <2>3, MailIff DEF MailNow
    <3> QED
      BY <3>1
  <2>5. PICK x : x = <<"chan", l, b, m>> /\ x[3] = d /\ x[4] = k
    <3> DEFINE v == <<"chan", l, d, k>>
    <3>1. v = <<"chan", l, b, m>> /\ v[3] = d /\ v[4] = k
      BY <2>2, <2>3
    <3> QED
      BY <3>1
  <2> HIDE DEF none, p, b, m, a
  <2>6. \A e : e[4].kind \notin Telling => TrueTo(e[3], e[4])'
    BY DEF TrueTo, Telling, Carriers, MasterKinds, ClientKinds
  <2>7. \A e : e[4].kind = "none" => TrueTo(e[3], e[4])'
    BY DEF TrueTo, ClientKinds
  <2>8. Was(x, th) \/ TrueTo(d, k)'
    <3>1. CASE k.kind \in Carriers => k.th # th
      BY <2>4, <2>5, <3>1 DEF Was
    <3>2. CASE k.kind \in Carriers /\ k.th = th
      <4>1. TrueTo(d, k)
        BY <2>4, Tables DEF WordInv
      <4>2. k.kind # "reply"
        BY <2>3, <3>2, Tables DEF WordInv, m
      <4>3. k.kind \notin {"data", "dead", "removelink"}
        BY <3>2 DEF Carriers, ClientKinds
      <4>4. k.kind = "subfind" =>
              \A i \in Wanted(hunt.client) : i \in hunt.found \/ home[i] \in hunt.left \cup {d}
        BY <4>1 DEF TrueTo
      <4>5. k.kind = "subfind" =>
              \A i \in Wanted(hunt.client)' : i \in hunt'.found \/ home'[i] \in hunt'.left \cup {d}
        BY <1>1, <4>4 DEF Wanted, Lives
      <4> QED
        BY <1>1, <1>2, <1>9, <3>2, <4>1, <4>2, <4>3, <4>5 DEF TrueTo
    <3> QED
      BY <3>1, <3>2
  <2>9. ASSUME NEW e \in PeerFree(th), e # none PROVE Was(e, th)
    <3>1. e \in MailNow /\ ~(e[1] = "out" /\ e[2] = th)
      BY <1>5, <2>9
    <3>2. ~Carries(e[4], th)
      BY <1>5, <2>9, <3>1 DEF Own
    <3> QED
      BY <3>1, <3>2 DEF Was, Carries
  <2>10. ASSUME NEW e \in MailNow' PROVE Was(e, th) \/ TrueTo(e[3], e[4])'
    <3>1. e \in PeerFree(th) \/ e = x \/ e = y
      BY <1>4, <2>5
    <3>2. CASE e = x
      BY <2>5, <2>8, <3>2
    <3>3. CASE e = y
      BY <1>4, <2>6, <3>3
    <3>4. CASE e = none
      BY <2>1, <2>7, <3>4
    <3> QED
      BY <2>9, <3>1, <3>2, <3>3, <3>4
  <2>11. out'[th].msg.kind # "reply"
    BY <1>1, <1>7, <2>1 DEF Outs
  <2> QED
    BY <2>10, <2>11 DEF Words
<1>14. Free(th)
  BY <1>1, IsFree
<1> QED
  BY <1>6, <1>7, <1>10, <1>11, <1>12, <1>13, <1>14, MildStep DEF BellsRing

LEMMA ProxyReplyTells ==
  ASSUME MailInv, MailInv', TablesInv, NEW c \in Client, ProxyReply(c)
  PROVE  TablesInv'
<1>1. PICK th \in Thread : th = ProxyT(c) /\ th \notin ClientThread /\ th # MasterT
                           /\ \A d \in Client : th = ProxyT(d) => d = c
  BY Threads, Sorts DEF MasterT, ClientThread
<1>2. PICK i : i = call[th].id
  OBVIOUS
<1>3. PICK q : q = adminq
  OBVIOUS
<1>4. PICK w : w = chan
  OBVIOUS
<1>5. PICK b \in Node : b = At[c]
  BY Threads
<1>6. PICK m : m = ReplyMsg(ClientT(c), 0)
  OBVIOUS
<1>7. /\ pc[th] = "waiting" /\ proxyat[c] \in alive /\ i \notin ps(proxyat[c])
      /\ Send(th, b, m, "idle", q, w) /\ call' = [call EXCEPT ![th] = NoCall]
      /\ UNCHANGED <<tableVars, home, mode, members, killed, given, alive, peers, ctx, launch, hunt>>
      /\ UNCHANGED <<proxyat, cache, told, slain, since>>
  BY <1>1, <1>2, <1>3, <1>4, <1>5, <1>6 DEF ProxyReply, procVars, workVars, histVars
<1>8. Less(w, q) /\ Tolls(w, q)
  BY <1>3, <1>4, LessNow, TollsNow, Apart
<1>9. AgentOf(th) \in Node /\ out[th] = NoOut /\ i \in Id
  BY <1>2, <1>7, Apart, WhoWaits DEF Control, ControlOf
<1>10. ClientT(c) \in Thread /\ ClientT(c) # th
  BY <1>1, Threads
<1>11. <<0>> \in Values
  BY DEF Values
<1>12. m \in Plain /\ m.kind = "reply" /\ m.th = ClientT(c) /\ m.val = <<0>>
  BY <1>6, <1>10, <1>11, MessagesMade DEF ReplyMsg
<1>13. call[ClientT(c)].op = "wait" /\ call[ClientT(c)].id = i /\ proxyat[c] = home[i]
  BY <1>1, <1>2, <1>7, Tables DEF AskInv, Attended
<1>14. Over(i)
  <2>1. Real(i)
    BY <1>10, <1>13, Tables DEF AskInv, TaskOps
  <2> QED
    BY <1>7, <1>9, <1>13, <2>1 DEF Over, Real, ps, Lives
<1>15. call'[ClientT(c)] = call[ClientT(c)] /\ call'[th] = NoCall
  BY <1>7, <1>10, Apart DEF CallShape
<1>16. "proxy" \in KeptNow(ClientT(c))
  BY <1>1, <1>7 DEF Kept, KeptNow
<1>17. pc[ClientT(c)] = "reply" /\ pc'[ClientT(c)] = "reply"
  <2>1. \E p : pc' = [pc EXCEPT ![th] = p]
    BY <1>7 DEF Send, Resolve
  <2>2. pc[ClientT(c)] = "reply"
    BY <1>10, <1>16, KeptWaits
  <2> QED
    BY <1>10, <2>1, <2>2, Apart
<1>18. TrueTo(b, m)'
  <2>1. ReplyTrue(ClientT(c), <<0>>)'
    BY <1>7, <1>13, <1>14, <1>15, <1>17 DEF ReplyTrue, Over, Lives
  <2> QED
    BY <1>12, <2>1 DEF TrueTo, ClientKinds
<1>19. NoCall.op = "none"
  BY DEF NoCall
<1>20. \A t \in Thread \ {th} : call'[t] = call[t]
  BY <1>7, Apart DEF CallShape
<1>21. Discreet(th)
  BY <1>7, <1>20 DEF Discreet
<1>22. AsksReal(th) /\ CachesTrue /\ ToldTrue
  BY <1>7, <1>15, <1>19 DEF AsksReal, CachesTrue, ToldTrue, TaskOps
<1>23. \A d \in Client : th = ProxyT(d) => pc'[th] # "waiting"
  BY <1>7, <1>8, <1>20, SendAlone
<1> QED
  BY <1>1, <1>7, <1>8, <1>9, <1>10, <1>12, <1>18, <1>21, <1>22, <1>23, SendMild DEF Waits

-----------------------------------------------------------------------------
(* Steps that change the tables, the processes or the master's work.       *)

\* What there is to show when a step does more.
LEMMA RestStays ==
  ASSUME MailInv, MailInv', TablesInv, NEW th, Onward, Alone(th), Free(th),
         UNCHANGED <<launch, hunt>> \/ th = MasterT, AsksReal(th), CachesTrue, ProxiesStay(th), ToldTrue, Words(th),
         LoadInv' /\ PlaceInv' /\ OwnerInv', ClientInv', MemberInv', HuntInv'
  PROVE  TablesInv'
<1>1. AskInv'
  BY AsksStay
<1>2. WordInv'
  BY WordsStay
<1>3. ToldInv'
  BY ToldStays DEF ToldTrue
<1> QED
  BY <1>1, <1>2, <1>3 DEF TablesInv

\* A group consists of ids that were given out.
LEMMA MembersGiven ==
  ASSUME MailInv, LaunchesInv, NEW j \in Id
  PROVE  members[j] \subseteq given
<1>1. ContextInv /\ LaunchInv /\ WholeInv
  BY DEF LaunchesInv
<1>2. members[j] \subseteq Id /\ mode[j] \in Modes
  BY Apart DEF ProcShape
<1>3. Whole(j) => members[j] \subseteq given
  BY <1>1, <1>2 DEF Whole, ContextInv
<1>4. CASE Launching /\ members[j] = Group
  <2>1. /\ launch.ids \in Seq(Id) /\ launch.first \in {1, 2} /\ launch.client \in ClientThread
    BY <1>4, AtWork
  <2>2. \A y \in launch.first..Len(launch.ids) : launch.ids[y] \in given
    BY <1>1, <1>4 DEF LaunchInv
  <2>3. launch.first = 2 /\ Len(launch.ids) >= 1 => launch.ids[1] \in given
    <3> SUFFICES ASSUME launch.first = 2, Len(launch.ids) >= 1 PROVE launch.ids[1] \in given
      OBVIOUS
    <3>1. launch.ids[1] \in Id
      BY <2>1
    <3>2. launch.ids[1] # NoId
      BY <3>1, ConstantsAssumption DEF ConstantsAssumption, NoId
    <3>3. PICK c \in Client : launch.client = ClientT(c)
      BY <2>1 DEF ClientThread
    <3>4. call[ClientT(c)].op = "launch" /\ launch.ids[1] = call[ClientT(c)].id
      BY <1>1, <1>4, <3>3 DEF LaunchInv
    <3> QED
      BY <1>1, <3>2, <3>4 DEF ContextInv
  <2>4. \A y \in 1..Len(launch.ids) : launch.ids[y] \in given
    <3> SUFFICES ASSUME NEW y \in 1..Len(launch.ids) PROVE launch.ids[y] \in given
      OBVIOUS
    <3>1. CASE y >= launch.first
      BY <2>1, <2>2, <3>1
    <3>2. CASE y < launch.first
      <4>1. y = 1 /\ launch.first = 2 /\ Len(launch.ids) >= 1
        BY <2>1, <3>2
      <4> QED
        BY <2>3, <4>1
    <3> QED
      BY <2>1, <3>1, <3>2
  <2> QED
    BY <1>4, <2>4 DEF Group, ToSet
<1>5. mode[j] \in Started \cup {"context", "born", "none"}
  BY <1>2 DEF Modes, OnMap, Started
<1> QED
  BY <1>1, <1>3, <1>4, <1>5 DEF WholeInv

LEMMA RegContextTells ==
  ASSUME MailInv, MailInv', LaunchesInv, TablesInv, NEW c \in Client, NEW id \in Id, RegContext(c, id)
  PROVE  TablesInv'
<1>1. PICK th \in Thread : /\ th = ClientT(c) /\ AgentOf(th) \in Node /\ th # MasterT
                           /\ \A d \in Client : th # ProxyT(d) /\ (th = ClientT(d) => d = c)
  BY Threads, Sorts DEF AgentOf, MasterT
<1>2. PICK m : m = ContextMsg("reg", id, th)
  OBVIOUS
<1>3. PICK q : q = adminq
  OBVIOUS
<1>4. PICK w : w = chan
  OBVIOUS
<1>5. /\ pc[th] = "idle" /\ ctx[c] = NoId /\ id \notin given /\ given' = given \cup {id}
      /\ home' = [home EXCEPT ![id] = At[c]] /\ mode' = [mode EXCEPT ![id] = "context"]
      /\ members' = [members EXCEPT ![id] = {id}] /\ ctx' = [ctx EXCEPT ![c] = id]
      /\ call' = [call EXCEPT ![th] = [op |-> "reg", id |-> id]]
      /\ Send(th, Master, m, "reply", q, w)
      /\ UNCHANGED <<tableVars, nodes, load, owner, killed, alive, peers, launch, hunt>>
      /\ UNCHANGED <<cache, proxyat, told, slain, since>>
  BY <1>1, <1>2, <1>3, <1>4 DEF RegContext, Calling, Idle, tableVars, workVars, histVars
<1>6. /\ call \in [Thread -> [op : Ops, id : Id \cup {NoId}]] /\ home \in [Id -> Node \cup {NoNode}]
      /\ mode \in [Id -> Modes] /\ members \in [Id -> SUBSET Id] /\ ctx \in [Client -> Id \cup {NoId}]
      /\ pc \in [Thread -> Pcs] /\ out \in Outs
  BY Apart DEF CallShape, ProcShape, FrameShape, MailShape
<1>7. /\ call'[th] = [op |-> "reg", id |-> id] /\ (\A t \in Thread \ {th} : call'[t] = call[t])
      /\ mode'[id] = "context" /\ home'[id] = At[c] /\ members'[id] = {id} /\ ctx'[c] = id
      /\ \A i \in Id \ {id} : mode'[i] = mode[i] /\ home'[i] = home[i] /\ members'[i] = members[i]
      /\ \A d \in Client \ {c} : ctx'[d] = ctx[d]
  BY <1>5, <1>6
<1>8. mode[id] = "none" /\ \A n \in Node : id \notin load[n]
  BY <1>5 DEF LaunchesInv, ContextInv
<1>9. m \in Plain /\ m.kind = "reg" /\ m.th = th /\ m.id = id
  BY <1>1, <1>2, MessagesMade, Threads DEF ContextMsg
<1>10. Less(w, q) /\ Tolls(w, q) /\ Master \in Node /\ At[c] \in Node
  BY <1>3, <1>4, LessNow, TollsNow, Apart, Threads
<1>11. out[th] = NoOut
  BY <1>5, <1>10, IdleIs
<1>12. Onward
  BY <1>5, <1>7, <1>8 DEF Onward, Passes, Enrolled
<1>13. Alone(th) /\ pc'[th] \in {"reply", "agent", "recursing"}
  BY <1>5, <1>7, SendAlone
<1>14. Free(th)
  BY <1>5, IsFree
<1>15. Words(th)
  <2>1. TrueTo(Master, m)'
    BY <1>1, <1>7, <1>9 DEF TrueTo, ClientKinds
  <2> QED
    BY <1>1, <1>5, <1>9, <1>10, <1>11, <2>1, SendWords DEF Waits
<1>16. AsksReal(th) /\ CachesTrue /\ ToldTrue /\ ProxiesStay(th)
  BY <1>1, <1>5, <1>7 DEF AsksReal, TaskOps, CachesTrue, ToldTrue, ProxiesStay
<1>17. w \in Links /\ q \in Queues /\ alive \subseteq Node
  BY <1>10, Apart DEF Less, NetShape
<1>18. BellsRing
  BY <1>1, <1>10, <1>5, <1>17, BellsSent
<1>19. Launching' = Launching /\ Hunting' = Hunting
  BY <1>5, WorkStays
<1>20. LoadInv' /\ PlaceInv' /\ OwnerInv'
  <2>1. \A i \in Id : Arises(i)
    BY <1>5, <1>7, <1>8, <1>10 DEF Arises
  <2>2. Rung
    BY <1>5, <1>7, <1>17, <1>18 DEF Rung, BellsRing
  <2>3. Master \in alive' /\ given \subseteq given'
    BY <1>5, Tables DEF LoadInv
  <2> QED
    BY <1>5, <1>12, <1>19, <2>1, <2>2, <2>3, TablesStay
<1>21. ClientInv'
  <2>1. ASSUME NEW d \in Client, d # c PROVE ClientOk(d)'
    BY <1>1, <1>5, <1>7, <1>12, <1>13, <2>1, ClientStays
  <2>2. ClientOk(c)'
    <3>1. Pending(th)'
      <4>1. pc'[th] = "reply" \/ (pc'[th] = "agent" /\ out'[th].next = "reply")
        BY <1>5, <1>6, <1>9 DEF Send, Resolve, Outs
      <4> QED
        BY <4>1 DEF Pending
    <3>2. call'[ClientT(c)] = [op |-> "reg", id |-> id] /\ Pending(ClientT(c))'
      BY <1>1, <1>7, <3>1
    <3>3. PICK k : k = call'[ClientT(c)] /\ k.op = "reg" /\ k.id = id
      BY <3>2
    <3>4. PICK x : x = ctx'[c] /\ x = id
      BY <1>7
    <3>5. id # NoId
      BY ConstantsAssumption DEF ConstantsAssumption, NoId
    <3> QED
      BY <1>5, <1>7, <1>8, <3>2, <3>3, <3>4, <3>5 DEF ClientOk
  <2> QED
    BY <2>1, <2>2 DEF ClientInv
<1>22. MemberInv'
  <2> SUFFICES ASSUME NEW j \in Id PROVE members'[j] = {j} \/ \A i \in members'[j] : Enrolled(i)'
    BY DEF MemberInv
  <2>1. CASE j = id
    BY <1>7, <2>1
  <2>2. CASE j # id
    <3>1. members'[j] = members[j] /\ members[j] \subseteq given /\ members[j] \subseteq Id
      BY <1>6, <1>7, <2>2, MembersGiven
    <3>2. \A i \in members[j] : Enrolled(i) => Enrolled(i)'
      BY <1>5, <1>7, <3>1 DEF Enrolled
    <3> QED
      BY <3>1, <3>2, Tables DEF MemberInv
  <2> QED
    BY <2>1, <2>2
<1>23. HuntInv'
  <2>1. alive' \ {Master} \subseteq peers'[Master]
    BY <1>5, Tables DEF HuntInv
  <2>2. pc'[MasterT] = "hunt" => pc[MasterT] = "hunt"
    BY <1>1, <1>13, OrderWaits DEF Alone
  <2>3. \A d \in Client : since'[d] \subseteq Id
    BY DEF MailInv, Shape, HistShape
  <2> QED
    BY <1>5, <1>12, <1>13, <1>14, <1>19, <2>1, <2>2, <2>3, HuntStays
<1> QED
  BY <1>5, <1>12, <1>13, <1>14, <1>15, <1>16, <1>20, <1>21, <1>22, <1>23, RestStays

LEMMA UnregContextTells ==
  ASSUME MailInv, MailInv', TablesInv, NEW c \in Client, UnregContext(c)
  PROVE  TablesInv'
<1>1. PICK th \in Thread : /\ th = ClientT(c) /\ AgentOf(th) \in Node /\ th # MasterT
                           /\ \A d \in Client : th # ProxyT(d) /\ (th = ClientT(d) => d = c)
  BY Threads, Sorts DEF AgentOf, MasterT
<1>0. PICK id : id = ctx[c]
  OBVIOUS
<1>2. PICK m : m = ContextMsg("unreg", id, th)
  OBVIOUS
<1>3. PICK q : q = adminq
  OBVIOUS
<1>4. PICK w : w = chan
  OBVIOUS
<1>5. /\ pc[th] = "idle" /\ id # NoId /\ mode[id] = "context"
      /\ mode' = [mode EXCEPT ![id] = "gone"]
      /\ call' = [call EXCEPT ![th] = [op |-> "unreg", id |-> id]]
      /\ Send(th, Master, m, "reply", q, w)
      /\ UNCHANGED <<tableVars, nodes, load, owner, home, members, killed, given, alive, peers, ctx, launch, hunt>>
      /\ UNCHANGED <<cache, proxyat, told, slain, since>>
  BY <1>0, <1>1, <1>2, <1>3, <1>4 DEF UnregContext, Calling, Idle, tableVars, workVars, histVars
<1>6. /\ call \in [Thread -> [op : Ops, id : Id \cup {NoId}]]
      /\ mode \in [Id -> Modes] /\ ctx \in [Client -> Id \cup {NoId}] /\ out \in Outs /\ pc \in [Thread -> Pcs]
  BY Apart DEF CallShape, ProcShape, FrameShape, MailShape
<1>7. /\ call'[th] = [op |-> "unreg", id |-> id] /\ (\A t \in Thread \ {th} : call'[t] = call[t])
      /\ id \in Id /\ mode'[id] = "gone" /\ \A i \in Id \ {id} : mode'[i] = mode[i]
  BY <1>0, <1>5, <1>6
<1>9. m \in Plain /\ m.kind = "unreg" /\ m.th = th /\ m.id = id
  BY <1>1, <1>2, <1>7, MessagesMade, Threads DEF ContextMsg
<1>10. Less(w, q) /\ Tolls(w, q) /\ Master \in Node
  BY <1>3, <1>4, LessNow, TollsNow, Apart, Threads
<1>11. out[th] = NoOut
  BY <1>5, <1>10, IdleIs
<1>12. Onward /\ \A i \in Id : Enrolled(i) => Enrolled(i)'
  BY <1>5, <1>7 DEF Onward, Passes, Enrolled, Passage
<1>13. Alone(th) /\ pc'[th] \in {"reply", "agent", "recursing"}
  BY <1>5, <1>7, SendAlone
<1>14. Free(th)
  BY <1>5, IsFree
<1>15. Words(th)
  <2>1. TrueTo(Master, m)'
    BY <1>1, <1>7, <1>9 DEF TrueTo, ClientKinds
  <2> QED
    BY <1>1, <1>5, <1>9, <1>10, <1>11, <2>1, SendWords DEF Waits
<1>16. AsksReal(th) /\ CachesTrue /\ ToldTrue /\ ProxiesStay(th)
  BY <1>1, <1>5, <1>7 DEF AsksReal, TaskOps, CachesTrue, ToldTrue, ProxiesStay
<1>17. w \in Links /\ q \in Queues /\ alive \subseteq Node
  BY <1>10, Apart DEF Less, NetShape
<1>18. BellsRing
  BY <1>1, <1>10, <1>5, <1>17, BellsSent
<1>19. Launching' = Launching /\ Hunting' = Hunting
  BY <1>5, WorkStays
<1>20. LoadInv' /\ PlaceInv' /\ OwnerInv'
  <2>1. \A i \in Id : Arises(i)
    BY <1>5, <1>7 DEF Arises
  <2>2. Rung
    BY <1>5, <1>7, <1>17, <1>18 DEF Rung, BellsRing
  <2>3. Master \in alive' /\ given \subseteq given'
    BY <1>5, Tables DEF LoadInv
  <2> QED
    BY <1>5, <1>12, <1>19, <2>1, <2>2, <2>3, TablesStay
<1>21. ClientInv'
  <2>1. ASSUME NEW d \in Client, d # c PROVE ClientOk(d)'
    BY <1>1, <1>5, <1>7, <1>12, <1>13, <2>1, ClientStays
  <2>2. ClientOk(c)'
    <3>1. Pending(th)'
      <4>1. pc'[th] = "reply" \/ (pc'[th] = "agent" /\ out'[th].next = "reply")
        BY <1>5, <1>6, <1>9 DEF Send, Resolve, Outs
      <4> QED
        BY <4>1 DEF Pending
    <3>2. call'[ClientT(c)] = [op |-> "unreg", id |-> id] /\ Pending(ClientT(c))'
      BY <1>1, <1>7, <3>1
    <3>3. PICK k : k = call'[ClientT(c)] /\ k.op = "unreg" /\ k.id = id
      BY <3>2
    <3>4. PICK x : x = ctx'[c] /\ x = id /\ x = ctx[c]
      BY <1>0, <1>5
    <3>5. home[x] = At[c] /\ \A n \in Node : x \notin load[n]
      BY <1>5, <3>4, Tables DEF ClientInv, ClientOk
    <3> QED
      BY <1>5, <1>7, <3>2, <3>3, <3>4, <3>5 DEF ClientOk, Enrolled
  <2> QED
    BY <2>1, <2>2 DEF ClientInv
<1>22. MemberInv'
  BY <1>5, <1>12, Tables, MembersStay
<1>23. HuntInv'
  <2>1. alive' \ {Master} \subseteq peers'[Master]
    BY <1>5, Tables DEF HuntInv
  <2>2. pc'[MasterT] = "hunt" => pc[MasterT] = "hunt"
    BY <1>1, <1>13, OrderWaits DEF Alone
  <2>3. \A d \in Client : since'[d] \subseteq Id
    BY DEF MailInv, Shape, HistShape
  <2> QED
    BY <1>5, <1>12, <1>13, <1>14, <1>19, <2>1, <2>2, <2>3, HuntStays
<1> QED
  BY <1>5, <1>12, <1>13, <1>14, <1>15, <1>16, <1>20, <1>21, <1>22, <1>23, RestStays

\* The call of a client returns.
LEMMA ReturnTells ==
  ASSUME MailInv, MailInv', LaunchesInv, TablesInv, NEW c \in Client, Return(c)
  PROVE  TablesInv'
<1>1. PICK th \in Thread : /\ th = ClientT(c) /\ th \in ClientThread /\ th # MasterT
                           /\ \A d \in Client : th # ProxyT(d) /\ (th = ClientT(d) => d = c)
  BY Threads, Sorts DEF MasterT
<1>2. PICK op : op = call[th].op
  OBVIOUS
<1>3. PICK id : id = call[th].id
  OBVIOUS
<1>4. PICK v : v = got[th]
  OBVIOUS
<1>5. /\ pc[th] = "reply" /\ v # NoReply /\ pc' = [pc EXCEPT ![th] = "idle"]
      /\ got' = [got EXCEPT ![th] = NoReply] /\ call' = [call EXCEPT ![th] = NoCall]
      /\ told' = IF (op = "wait" /\ v = <<0>>) \/ (op = "alive" /\ v = <<1>>) THEN told \cup {id} ELSE told
      /\ slain' = IF op = "kill" THEN slain \cup {id} ELSE slain
      /\ members' = IF op = "launch" /\ id # NoId
                    THEN [members EXCEPT ![id] = UNION {members[i] : i \in {j \in Id : id \in members[j]}}]
                    ELSE members
      /\ since' = [since EXCEPT ![c] = {}]
      /\ UNCHANGED <<tableVars, nodes, load, owner, home, mode, killed, given, alive, peers, ctx, launch, hunt>>
      /\ UNCHANGED <<chan, adminq, out, cache, proxyat>>
  BY <1>1, <1>2, <1>3, <1>4 DEF Return, tableVars, netVars, workVars
<1>6. /\ call \in [Thread -> [op : Ops, id : Id \cup {NoId}]] /\ members \in [Id -> SUBSET Id]
      /\ ctx \in [Client -> Id \cup {NoId}] /\ pc \in [Thread -> Pcs] /\ since \in [Client -> SUBSET Id]
      /\ alive \subseteq Node
  BY Apart DEF CallShape, ProcShape, FrameShape, HistShape, NetShape
<1>7. /\ call'[th].op = "none" /\ (\A t \in Thread \ {th} : call'[t] = call[t])
      /\ pc'[th] = "idle" /\ (\A t \in Thread \ {th} : pc'[t] = pc[t])
      /\ since'[c] = {} /\ \A d \in Client \ {c} : since'[d] = since[d]
  BY <1>5, <1>6 DEF NoCall
<1>8. ReplyTrue(th, v)
  BY <1>4, <1>5, GotTrue
<1>9. op \in {"wait", "alive", "kill"} => id \in Id
  BY <1>2, <1>3, Apart DEF CallShape
<1>10. Onward /\ \A i \in Id : Enrolled(i) => Enrolled(i)'
  BY <1>5 DEF Onward, Passes, Enrolled
<1>11. Alone(th)
  BY <1>1, <1>5, <1>7 DEF Alone
<1>12. Free(th)
  BY <1>4, <1>5, IsFree
<1>13. Words(th)
  <2>1. out[th] = NoOut /\ NoOut.msg.kind # "reply"
    BY <1>5, Apart DEF Control, ControlOf, NoOut, Nothing
  <2>2. MailNow' = Before(chan, adminq, th)
    BY <1>5 DEF MailNow, Before
  <2>3. Less(chan, adminq)
    BY LessNow, Apart
  <2>4. \A e \in MailNow' : Was(e, th)
    BY <1>4, <1>5, <2>1, <2>2, <2>3, BeforeWas
  <2> QED
    BY <1>5, <2>1, <2>4 DEF Words
<1>14. AsksReal(th) /\ CachesTrue /\ ProxiesStay(th)
  BY <1>1, <1>5, <1>7 DEF AsksReal, TaskOps, CachesTrue, ProxiesStay
<1>15. ToldTrue
  <2>1. op = "wait" \/ (op = "alive" /\ v = <<1>>) => Over(id)
    BY <1>2, <1>3, <1>5, <1>8 DEF ReplyTrue
  <2>2. op = "kill" => id \in killed \/ Over(id)
    BY <1>2, <1>3, <1>5, <1>8 DEF ReplyTrue
  <2> QED
    BY <1>5, <1>9, <2>1, <2>2 DEF ToldTrue
<1>16. BellsRing
  BY <1>5 DEF BellsRing, Bell
<1>17. Launching' = Launching /\ Hunting' = Hunting
  BY <1>5, WorkStays
<1>18. LoadInv' /\ PlaceInv' /\ OwnerInv'
  <2>1. \A i \in Id : Arises(i)
    BY <1>5 DEF Arises
  <2>2. Rung
    BY <1>5, <1>6, <1>16 DEF Rung, BellsRing
  <2>3. Master \in alive' /\ given \subseteq given'
    BY <1>5, Tables DEF LoadInv
  <2> QED
    BY <1>5, <1>10, <1>17, <2>1, <2>2, <2>3, TablesStay
<1>19. ClientInv'
  <2>1. ASSUME NEW d \in Client, d # c PROVE ClientOk(d)'
    BY <1>1, <1>5, <1>10, <1>11, <2>1, ClientStays
  <2>2. ClientOk(c)'
    <3>1. PICK x : x = ctx'[c] /\ x = ctx[c]
      BY <1>5
    <3>2. x # NoId => /\ mode[x] \in {"context", "gone"} /\ home[x] = At[c]
                      /\ (\A n \in Node : x \notin load[n]) /\ (op # "reg" => Enrolled(x))
      BY <1>1, <1>2, <3>1, Tables DEF ClientInv, ClientOk
    <3>3. op = "reg" => id = x /\ Enrolled(id)
      BY <1>1, <1>2, <1>3, <1>5, <1>8, <3>1, Tables DEF ClientInv, ClientOk, ReplyTrue
    <3>4. PICK k : k = call'[ClientT(c)] /\ k.op = "none"
      BY <1>1, <1>7
    <3>5. x # NoId => Enrolled(x)'
      BY <1>5, <3>2, <3>3 DEF Enrolled
    <3> QED
      BY <1>5, <3>1, <3>2, <3>4, <3>5 DEF ClientOk
  <2> QED
    BY <2>1, <2>2 DEF ClientInv
<1>20. MemberInv'
  <2> SUFFICES ASSUME NEW j \in Id PROVE members'[j] = {j} \/ \A i \in members'[j] : Enrolled(i)'
    BY DEF MemberInv
  <2>1. MemberInv
    BY Tables
  <2>2. CASE members'[j] = members[j]
    BY <1>6, <1>10, <2>1, <2>2 DEF MemberInv
  <2>3. CASE members'[j] # members[j]
    <3>1. op = "launch" /\ id # NoId /\ j = id
      BY <1>5, <1>6, <2>3
    <3>2. ctx[c] = id /\ mode[id] = "context"
      BY <1>1, <1>2, <1>3, <3>1 DEF LaunchesInv, ContextInv
    <3>3. Enrolled(id)
      BY <1>1, <1>2, <3>1, <3>2, Tables DEF ClientInv, ClientOk
    <3>4. members'[j] = UNION {members[i] : i \in {k \in Id : id \in members[k]}}
      BY <1>5, <1>6, <3>1
    <3>5. ASSUME NEW i \in members'[j] PROVE Enrolled(i) /\ i \in Id
      <4>1. PICK k \in Id : id \in members[k] /\ i \in members[k]
        BY <3>4
      <4> QED
        BY <1>6, <2>1, <3>3, <4>1 DEF MemberInv
    <3> QED
      BY <1>10, <3>5
  <2> QED
    BY <2>2, <2>3
<1>21. HuntInv'
  <2>1. alive' \ {Master} \subseteq peers'[Master]
    BY <1>5, Tables DEF HuntInv
  <2>2. pc'[MasterT] = "hunt" => pc[MasterT] = "hunt"
    BY <1>1, <1>7, OrderWaits
  <2>3. \A d \in Client : since'[d] \subseteq Id /\ (since'[d] = since[d] \/ \A i \in since'[d] : mode[i] \notin {"none", "context"})
    BY <1>6, <1>7
  <2> QED
    BY <1>5, <1>10, <1>11, <1>12, <1>17, <2>1, <2>2, <2>3, HuntStays
<1> QED
  BY <1>5, <1>10, <1>11, <1>12, <1>13, <1>14, <1>15, <1>18, <1>19, <1>20, <1>21, RestStays

\* The master takes a context into its tables, or out of them.
LEMMA AdminContextTells ==
  ASSUME MailInv, MailInv', LaunchesInv, TablesInv, NEW a \in Node, AdminContext(a)
  PROVE  TablesInv'
<1>0. PICK kind \in {"reg", "unreg"} : Runs(a, kind)
  BY DEF AdminContext
<1>1. PICK m : m = Head(adminq[a])
  OBVIOUS
<1>2. PICK t : t = m.th
  OBVIOUS
<1>3. PICK id : id = m.id
  OBVIOUS
<1>4. kind # "routed" /\ kind # "dead" /\ kind \in Carriers /\ kind \in ClientKinds /\ kind \in MasterKinds
  BY DEF Carriers, ClientKinds, MasterKinds
<1>5. /\ m \in Plain /\ m.kind = kind /\ TrueTo(a, m) /\ Less(chan, RestOf(a)) /\ Tolls(chan, RestOf(a))
      /\ t \in Thread /\ Fit(m, pc[t]) /\ t # AdminT(a) /\ AgentOf(t) \in Node
      /\ a = Master /\ pc[AdminT(a)] = "idle" /\ out[AdminT(a)] = NoOut
  BY <1>0, <1>1, <1>2, <1>4, Heard
<1>6. /\ id \in Id /\ t \in ClientThread /\ pc[t] = "reply" /\ call[t].op = kind /\ call[t].id = id
  BY <1>2, <1>3, <1>4, <1>5, Kinds DEF Fit, TrueTo
<1>7. PICK c \in Client : t = ClientT(c)
  BY <1>6 DEF ClientThread
<1>8. /\ ctx[c] = id /\ home[id] = At[c] /\ AgentOf(t) = At[c] /\ At[c] \in Node
      /\ (\A n \in Node : id \notin load[n]) /\ mode[id] # "none"
      /\ kind = "unreg" => mode[id] = "gone"
  BY <1>6, <1>7, Tables, Threads, Sorts DEF ClientInv, ClientOk, AgentOf
<1>9. PICK th \in Thread : /\ th = AdminT(a) /\ AgentOf(th) = a /\ th \notin ClientThread
                           /\ \A d \in Client : th # ProxyT(d) /\ th # ClientT(d)
  BY AdminThread, Threads
<1>10. PICK k : k = ReplyMsg(t, 0)
  OBVIOUS
<1>11. k \in Plain /\ k.kind = "reply" /\ k.th = t /\ k.val = <<0>>
  BY <1>5, <1>10, MessagesMade DEF ReplyMsg, Values
<1>12. PICK b \in Node : b = AgentOf(t)
  BY <1>5
<1>13. PICK q : q = RestOf(a)
  OBVIOUS
<1>14. PICK w : w = chan
  OBVIOUS
<1>15. /\ owner' = [owner EXCEPT ![id] = IF kind = "reg" THEN AgentOf(t) ELSE NoNode]
       /\ Send(th, b, k, "idle", q, w)
       /\ UNCHANGED <<nodes, load, home, mode, members, killed, given, alive, peers>>
       /\ UNCHANGED <<cache, call, ctx, proxyat, launch, hunt, told, slain, since>>
  BY <1>1, <1>2, <1>3, <1>5, <1>9, <1>10, <1>12, <1>13, <1>14
     DEF AdminContext, ReplyFrom, procVars, workVars, histVars
<1>16. owner \in [Id -> Node \cup {NoNode}] /\ load \in [Node -> SUBSET Id] /\ nodes \subseteq Node /\ alive \subseteq Node
       /\ pc \in [Thread -> Pcs]
  BY Apart DEF TableShape, NetShape
<1>17. /\ owner'[id] = IF kind = "reg" THEN home[id] ELSE NoNode
       /\ \A i \in Id \ {id} : owner'[i] = owner[i]
  BY <1>6, <1>8, <1>15, <1>16
<1>18. Onward /\ \A i \in Id : Enrolled(i) => Enrolled(i)'
  BY <1>0, <1>8, <1>15, <1>17 DEF Onward, Passes, Enrolled
<1>19. Alone(th) /\ pc'[th] \in {"idle", "agent", "recursing"}
  BY <1>15, SendAlone
<1>20. Free(th)
  BY <1>5, <1>9, IsFree
<1>21. Words(th)
  <2>1. pc'[t] = "reply" /\ call'[t].op = kind /\ call'[t].id = id
    BY <1>5, <1>6, <1>9, <1>15, <1>19 DEF Alone
  <2>2. kind = "reg" => Enrolled(id)'
    BY <1>15, <1>17 DEF Enrolled
  <2>3. ReplyTrue(t, <<0>>)'
    BY <1>0, <2>1, <2>2 DEF ReplyTrue
  <2>4. TrueTo(b, k)'
    BY <1>11, <2>3 DEF TrueTo, ClientKinds
  <2> QED
    BY <1>5, <1>9, <1>11, <1>13, <1>14, <1>15, <2>4, SendWords DEF Waits
<1>22. AsksReal(th) /\ CachesTrue /\ ToldTrue /\ ProxiesStay(th)
  BY <1>9, <1>15 DEF AsksReal, CachesTrue, ToldTrue, ProxiesStay
<1>23. BellsRing
  <2>1. w \in Links /\ q \in Queues /\ Tolls(w, q)
    BY <1>5, <1>13, <1>14 DEF Less
  <2> QED
    BY <1>5, <1>9, <1>15, <2>1, BellsSent
<1>24. Launching' = Launching /\ Hunting' = Hunting
  BY <1>15, WorkStays
<1>25. LoadInv' /\ PlaceInv' /\ OwnerInv'
  <2>1. LoadInv /\ PlaceInv /\ OwnerInv
    BY Tables
  <2>2. ASSUME NEW n \in nodes, NEW i \in load[n] PROVE i \in Id \ {id} /\ owner'[i] = owner[i]
    BY <1>8, <1>16, <1>17
  <2>3. \A n \in nodes : \A i \in load[n] : Bell(n, i) => Bell(n, i)'
    BY <1>16, <1>23 DEF BellsRing
  <2>4. LoadInv'
    BY <1>15, <1>24, <2>1, <2>2, <2>3 DEF LoadInv, Lives
  <2>5. PlaceInv'
    BY <1>15, <1>24, <2>1 DEF PlaceInv
  <2>6. id \in given
    BY <1>8, <1>6 DEF LaunchesInv, ContextInv
  <2>7. OwnerInv'
    BY <1>15, <1>17, <2>1, <2>6 DEF OwnerInv
  <2> QED
    BY <2>4, <2>5, <2>7
<1>26. ClientInv'
  BY <1>9, <1>15, <1>18, <1>19, ClientStays DEF ClientInv
<1>27. MemberInv'
  BY <1>15, <1>18, Tables, MembersStay
<1>28. HuntInv'
  <2>1. alive' \ {Master} \subseteq peers'[Master]
    BY <1>15, Tables DEF HuntInv
  <2>2. pc'[MasterT] = "hunt" => pc[MasterT] = "hunt"
    BY <1>5, <1>9, <1>19 DEF MasterT
  <2>3. \A d \in Client : since'[d] \subseteq Id
    BY DEF MailInv, Shape, HistShape
  <2> QED
    BY <1>15, <1>18, <1>19, <1>20, <1>24, <2>1, <2>2, <2>3, HuntStays
<1> QED
  BY <1>15, <1>18, <1>19, <1>20, <1>21, <1>22, <1>25, <1>26, <1>27, <1>28, RestStays

-----------------------------------------------------------------------------
(* Steps of the admin threads that change the tables, and no thread.       *)

LEMMA StillStays ==
  ASSUME MailInv, MailInv', TablesInv, Onward, CachesTrue,
         UNCHANGED <<pc, call, out, ctx, proxyat, told, slain, since, members, launch, hunt>>,
         alive' \ {Master} \subseteq peers'[Master], \A i \in Id : Enrolled(i) => Enrolled(i)',
         \A n \in Node, x \in Id : mode[x] # "none" /\ x \in load'[n] => x \in load[n],
         \A e \in MailNow' : \/ \E f \in MailNow : f[4] = e[4] /\ (f[3] = e[3] \/ e[4].kind = "reply")
                            \/ TrueTo(e[3], e[4])',
         LoadInv' /\ PlaceInv' /\ OwnerInv'
  PROVE  TablesInv'
<1>1. PICK th : th = <<>> /\ th \notin Thread /\ th \notin ClientThread /\ \A c \in Client : th # ProxyT(c) /\ th # ClientT(c)
  BY Nobody, Threads
<1>2. Free(th) /\ AsksReal(th) /\ Alone(th)
  BY <1>1 DEF Free, AsksReal, Alone
<1>3. ProxiesStay(th) /\ ToldTrue
  BY <1>1 DEF ProxiesStay, ToldTrue
<1>4. Words(th)
  BY <1>1, FewerWords
<1>5. ClientInv'
  BY <1>1, <1>2, ClientStays DEF ClientInv
<1>6. MemberInv'
  BY Tables, MembersStay
<1>7. HuntInv'
  <2>1. Hunting' = Hunting
    BY WorkStays
  <2>2. \A d \in Client : since'[d] \subseteq Id
    BY DEF MailInv, Shape, HistShape
  <2> QED
    BY <1>2, <2>1, <2>2, HuntStays
<1> QED
  BY <1>2, <1>3, <1>4, <1>5, <1>6, <1>7, RestStays

\* The master forgets a task that ended.
LEMMA AdminDeadTells ==
  ASSUME MailInv, MailInv', TablesInv, NEW a \in Node, AdminDead(a)
  PROVE  TablesInv'
<1>1. PICK m : m = Head(adminq[a])
  OBVIOUS
<1>2. PICK id : id = m.id
  OBVIOUS
<1>3. Runs(a, "dead") /\ adminq' = RestOf(a)
  BY DEF AdminDead
<1>4. "dead" # "routed" /\ "dead" \in MasterKinds
  BY DEF MasterKinds
<1>5. /\ m \in Plain /\ m.kind = "dead" /\ TrueTo(a, m) /\ Less(chan, RestOf(a)) /\ a = Master
      /\ pc[AdminT(a)] = "idle" /\ out[AdminT(a)] = NoOut /\ adminq[a] # <<>>
  BY <1>1, <1>3, <1>4, Heard DEF Runs
<1>6. id \in Id /\ mode[id] = "gone"
  BY <1>2, <1>5, Kinds DEF TrueTo
<1>7. ~Launching
  BY <1>5 DEF Launching, NoOut
<1>8. /\ owner' = [owner EXCEPT ![id] = NoNode]
      /\ load' = IF owner[id] \in nodes THEN [load EXCEPT ![owner[id]] = @ \ {id}] ELSE load
      /\ UNCHANGED <<nodes, home, mode, members, killed, given, alive, peers, chan, cache>>
      /\ UNCHANGED <<pc, call, out, got, ctx, proxyat, launch, hunt, told, slain, since>>
  BY <1>1, <1>2 DEF AdminDead, procVars, threadVars, workVars, histVars
<1>9. owner \in [Id -> Node \cup {NoNode}] /\ load \in [Node -> SUBSET Id] /\ nodes \subseteq Node /\ adminq \in Queues
  BY Apart DEF TableShape, MailShape
<1>10. owner'[id] = NoNode /\ \A i \in Id \ {id} : owner'[i] = owner[i]
  BY <1>6, <1>8, <1>9
<1>11. \A n \in Node : load'[n] \subseteq load[n] /\ load[n] \subseteq load'[n] \cup {id}
  BY <1>8, <1>9
<1>12. LoadInv /\ OwnerInv /\ HuntInv
  BY Tables
<1>13. \A n \in nodes : id \notin load'[n]
  <2> SUFFICES ASSUME NEW n \in nodes, id \in load'[n] PROVE FALSE
    OBVIOUS
  <2>1. id \in load[n] /\ owner[id] = n
    BY <1>9, <1>11, <1>12 DEF LoadInv
  <2> QED
    BY <1>8, <1>9, <2>1
<1>14. ASSUME NEW n, NEW i, i # id, Bell(n, i) PROVE Bell(n, i)'
  <2>1. adminq[a] \in Seq(Message) /\ adminq'[Master] = Tail(adminq[a])
    BY <1>3, <1>5, <1>9 DEF RestOf, Queues
  <2>2. Head(adminq[a]) # DeadMsg(i)
    BY <1>1, <1>2, <1>14 DEF DeadMsg
  <2>3. PICK k : k = DeadMsg(i)
    OBVIOUS
  <2>4. Among(k, adminq[a]) => Among(k, Tail(adminq[a]))
    BY <1>5, <2>1, <2>2, <2>3, AmongRest
  <2> QED
    BY <1>5, <1>8, <1>14, <2>1, <2>3, <2>4 DEF Bell
<1>15. Launching' = Launching
  BY <1>8, WorkStays
<1>16. LoadInv' /\ PlaceInv' /\ OwnerInv'
  <2>1. ASSUME NEW i \in Id, Lives(i)', mode'[i] # "context", home'[i] \in nodes' PROVE i \in load'[home'[i]]
    <3>1. i # id /\ i \in load[home[i]]
      BY <1>6, <1>8, <1>12, <2>1 DEF LoadInv, Lives, OnMap
    <3> QED
      BY <1>8, <1>9, <1>11, <2>1, <3>1
  <2>2. ASSUME NEW n \in nodes', NEW i \in load'[n]
        PROVE  /\ owner'[i] = n /\ mode'[i] # "context" /\ mode'[i] # "none"
               /\ mode'[i] = "gone" => n \notin alive' \/ Bell(n, i)'
    <3>1. n \in nodes /\ n \in Node /\ i \in load[n] /\ i \in Id /\ i # id
      BY <1>8, <1>9, <1>11, <1>13, <2>2
    <3> QED
      BY <1>7, <1>8, <1>10, <1>12, <1>14, <3>1 DEF LoadInv
  <2>3. LoadInv'
    BY <1>8, <1>12, <2>1, <2>2 DEF LoadInv
  <2>4. PlaceInv'
    BY <1>7, <1>15 DEF PlaceInv
  <2>5. OwnerInv'
    BY <1>8, <1>10, <1>12 DEF OwnerInv
  <2> QED
    BY <2>3, <2>4, <2>5
<1>17. Onward /\ \A i \in Id : Enrolled(i) => Enrolled(i)'
  BY <1>6, <1>8, <1>10 DEF Onward, Passes, Enrolled
<1>18. CachesTrue
  BY <1>8 DEF CachesTrue
<1>19. MailNow' \subseteq MailNow
  BY <1>3, <1>5, <1>8 DEF Less, MailNow
<1>20. alive' \ {Master} \subseteq peers'[Master]
  BY <1>8, <1>12 DEF HuntInv
<1> QED
  BY <1>8, <1>11, <1>16, <1>17, <1>18, <1>19, <1>20, StillStays

\* An agent forgets one that left, and the master what it had there.
LEMMA AdminRemoveLinkTells ==
  ASSUME MailInv, MailInv', TablesInv, NEW a \in Node, AdminRemoveLink(a)
  PROVE  TablesInv'
<1>1. PICK m : m = Head(adminq[a])
  OBVIOUS
<1>2. PICK b : b = m.to
  OBVIOUS
<1>3. Runs(a, "removelink") /\ adminq' = RestOf(a)
  BY DEF AdminRemoveLink
<1>4. "removelink" # "routed" /\ "removelink" # "dead"
  OBVIOUS
<1>5. /\ m \in Plain /\ m.kind = "removelink" /\ TrueTo(a, m) /\ Less(chan, RestOf(a)) /\ Tolls(chan, RestOf(a))
      /\ pc[AdminT(a)] = "idle" /\ out[AdminT(a)] = NoOut
  BY <1>1, <1>3, <1>4, Heard
<1>6. b \in Node /\ b \notin alive
  BY <1>2, <1>5, Kinds DEF TrueTo
<1>7. a = Master => ~Launching
  BY <1>5 DEF Launching, NoOut
<1>8. /\ IF a = Master /\ b \in nodes
         THEN /\ nodes' = nodes \ {b}
              /\ owner' = [i \in Id |-> IF i \in load[b] THEN NoNode ELSE owner[i]]
              /\ load' = [load EXCEPT ![b] = {}]
         ELSE UNCHANGED <<nodes, load, owner>>
      /\ cache' = [cache EXCEPT ![a] = [i \in Id \cup Node |-> NoNode]]
      /\ peers' = [peers EXCEPT ![a] = @ \ {b}]
      /\ chan' = [chan EXCEPT ![<<a, b>>] = <<>>]
      /\ UNCHANGED <<home, mode, members, killed, given, alive>>
      /\ UNCHANGED <<pc, call, out, got, ctx, proxyat, launch, hunt, told, slain, since>>
  BY <1>1, <1>2 DEF AdminRemoveLink, tableVars, procVars, threadVars, workVars, histVars
<1>9. /\ owner \in [Id -> Node \cup {NoNode}] /\ load \in [Node -> SUBSET Id] /\ nodes \subseteq Node
      /\ chan \in Links /\ peers \in [Node -> SUBSET Node] /\ alive \subseteq Node
      /\ cache \in [Node -> [Id \cup Node -> Node \cup {NoNode}]]
  BY Apart DEF TableShape, MailShape, NetShape
<1>10. LoadInv /\ PlaceInv /\ OwnerInv /\ HuntInv /\ Master \in Node
  BY Tables, Threads
<1>11. BellsRing
  <2> SUFFICES ASSUME NEW n \in Node, NEW i \in Id, Bell(n, i) PROVE Bell(n, i)'
    BY DEF BellsRing
  <2>1. b # Master
    BY <1>6, <1>10 DEF LoadInv
  <2>2. <<a, b>> # <<n, Master>> /\ <<n, Master>> \in Node \X Node
    BY <1>10, <2>1
  <2>3. chan'[n, Master] = chan[n, Master]
    BY <1>8, <1>9, <2>2 DEF Links
  <2> QED
    BY <1>3, <1>5, <2>3 DEF Tolls, Bell
<1>12. Launching' = Launching
  BY <1>8, WorkStays
<1>13. ASSUME a = Master /\ b \in nodes
       PROVE /\ LoadInv' /\ PlaceInv' /\ OwnerInv' /\ (\A n \in Node : load'[n] \subseteq load[n])
             /\ \A i \in Id : owner'[i] = owner[i] \/ mode[i] # "context"
  <2>1. nodes' = nodes \ {b} /\ ~Launching
    BY <1>7, <1>8, <1>13
  <2>2. load'[b] = {} /\ \A n \in Node \ {b} : load'[n] = load[n]
    BY <1>6, <1>8, <1>9, <1>13
  <2>3. \A i \in Id : owner'[i] = IF i \in load[b] THEN NoNode ELSE owner[i]
    BY <1>8, <1>13
  <2>4. \A i \in load[b] : owner[i] = b /\ mode[i] # "context"
    BY <1>10, <1>13 DEF LoadInv
  <2>5. LoadInv'
    <3>1. alive' \subseteq nodes' /\ Master \in alive'
      BY <1>6, <1>8, <1>10, <2>1 DEF LoadInv
    <3>2. ASSUME NEW i \in Id, Lives(i)', mode'[i] # "context", home'[i] \in nodes' PROVE i \in load'[home'[i]]
      BY <1>8, <1>9, <1>10, <2>1, <2>2, <3>2 DEF LoadInv, Lives, OnMap
    <3>3. ASSUME NEW n \in nodes', NEW i \in load'[n]
          PROVE  /\ owner'[i] = n /\ mode'[i] # "context" /\ mode'[i] # "none"
                 /\ mode'[i] = "gone" => n \notin alive' \/ Bell(n, i)'
      <4>1. n \in nodes /\ n \in Node /\ n # b /\ i \in load[n] /\ i \in Id
        BY <1>9, <2>1, <2>2, <3>3
      <4>2. owner[i] = n /\ i \notin load[b]
        BY <1>10, <2>4, <4>1 DEF LoadInv
      <4> QED
        BY <1>8, <1>10, <1>11, <2>1, <2>3, <4>1, <4>2 DEF LoadInv, BellsRing
    <3> QED
      BY <3>1, <3>2, <3>3 DEF LoadInv
  <2>6. PlaceInv'
    BY <1>12, <2>1 DEF PlaceInv
  <2>7. OwnerInv'
    BY <1>8, <1>10, <2>3 DEF OwnerInv
  <2>8. \A i \in Id : owner'[i] = owner[i] \/ mode[i] # "context"
    BY <2>3, <2>4
  <2>9. \A n \in Node : load'[n] \subseteq load[n]
    BY <2>2
  <2> QED
    BY <2>5, <2>6, <2>7, <2>8, <2>9
<1>14. ASSUME ~(a = Master /\ b \in nodes)
       PROVE /\ LoadInv' /\ PlaceInv' /\ OwnerInv' /\ (\A n \in Node : load'[n] \subseteq load[n])
             /\ \A i \in Id : owner'[i] = owner[i] \/ mode[i] # "context"
  <2>1. UNCHANGED <<nodes, load, owner>>
    BY <1>8, <1>14
  <2>2. LoadInv'
    BY <1>8, <1>9, <1>10, <1>11, <1>12, <2>1 DEF LoadInv, BellsRing, Lives
  <2>3. PlaceInv' /\ OwnerInv'
    BY <1>8, <1>10, <1>12, <2>1 DEF PlaceInv, OwnerInv
  <2> QED
    BY <2>1, <2>2, <2>3
<1>15. /\ LoadInv' /\ PlaceInv' /\ OwnerInv' /\ (\A n \in Node : load'[n] \subseteq load[n])
       /\ \A i \in Id : owner'[i] = owner[i] \/ mode[i] # "context"
  BY <1>13, <1>14
<1>16. Onward /\ \A i \in Id : Enrolled(i) => Enrolled(i)'
  BY <1>8, <1>15 DEF Onward, Passes, Enrolled
<1>17. CachesTrue
  BY <1>8, <1>9 DEF CachesTrue
<1>18. MailNow' \subseteq MailNow
  <2>1. <<a, b>> \in Node \X Node
    BY <1>6
  <2>2. Less(chan', adminq')
    BY <1>3, <1>5, <1>8, <2>1, LessFlushed
  <2> QED
    BY <1>8, <2>2 DEF Less, MailNow
<1>19. alive' \ {Master} \subseteq peers'[Master]
  BY <1>6, <1>8, <1>9, <1>10 DEF HuntInv
<1> QED
  BY <1>8, <1>15, <1>16, <1>17, <1>18, <1>19, StillStays

-----------------------------------------------------------------------------
(* Tasks that end and agents that leave.                                   *)

LEMMA LeaveTells ==
  ASSUME MailInv, MailInv', TablesInv, NEW n \in Node, Leave(n)
  PROVE  TablesInv'
<1>1. /\ n # Master /\ alive' = alive \ {n}
      /\ UNCHANGED <<tableVars, nodes, load, owner, home, mode, members, killed, given, peers, chan, adminq, cache>>
      /\ UNCHANGED <<pc, call, out, got, ctx, proxyat, launch, hunt, told, slain, since>>
  BY ConstantsAssumption DEF Leave, ConstantsAssumption, tableVars, procVars, threadVars, workVars, histVars
<1>2. LoadInv /\ HuntInv /\ alive \subseteq Node
  BY Tables, Apart DEF NetShape
<1>3. Onward /\ \A i \in Id : Enrolled(i) => Enrolled(i)'
  BY <1>1 DEF Onward, Passes, Enrolled
<1>4. Launching' = Launching
  BY <1>1, WorkStays
<1>5. LoadInv' /\ PlaceInv' /\ OwnerInv'
  <2>1. \A i \in Id : Arises(i)
    BY <1>1 DEF Arises
  <2>2. Rung
    BY <1>1 DEF Rung, Bell
  <2>3. Master \in alive' /\ given \subseteq given'
    BY <1>1, <1>2 DEF LoadInv
  <2> QED
    BY <1>1, <1>3, <1>4, <2>1, <2>2, <2>3, TablesStay
<1>6. CachesTrue /\ alive' \ {Master} \subseteq peers'[Master]
  BY <1>1, <1>2 DEF CachesTrue, HuntInv
<1>7. MailNow' \subseteq MailNow
  BY <1>1 DEF MailNow
<1> QED
  BY <1>1, <1>3, <1>5, <1>6, <1>7, StillStays

LEMMA TaskEndsTells ==
  ASSUME MailInv, MailInv', TablesInv, NEW a \in Node, NEW i \in Id, TaskEnds(a, i)
  PROVE  TablesInv'
<1>1. /\ mode[i] = "ready" /\ mode' = [mode EXCEPT ![i] = "ended"]
      /\ UNCHANGED <<tableVars, nodes, load, owner, home, members, killed, given, alive, peers, chan, adminq, cache>>
      /\ UNCHANGED <<pc, call, out, got, ctx, proxyat, launch, hunt, told, slain, since>>
  BY DEF TaskEnds, tableVars, netVars, threadVars, workVars, histVars
<1>2. LoadInv /\ HuntInv /\ mode \in [Id -> Modes]
  BY Tables, Apart DEF ProcShape
<1>3. mode'[i] = "ended" /\ \A j \in Id \ {i} : mode'[j] = mode[j]
  BY <1>1, <1>2
<1>4. Onward /\ \A j \in Id : Enrolled(j) => Enrolled(j)'
  BY <1>1, <1>3 DEF Onward, Passes, Enrolled, Passage
<1>5. Launching' = Launching
  BY <1>1, WorkStays
<1>6. LoadInv' /\ PlaceInv' /\ OwnerInv'
  <2>1. \A j \in Id : Arises(j)
    BY <1>1, <1>3 DEF Arises
  <2>2. Rung
    BY <1>1, <1>3 DEF Rung, Bell
  <2>3. Master \in alive' /\ given \subseteq given'
    BY <1>1, <1>2 DEF LoadInv
  <2> QED
    BY <1>1, <1>4, <1>5, <2>1, <2>2, <2>3, TablesStay
<1>7. CachesTrue /\ alive' \ {Master} \subseteq peers'[Master]
  BY <1>1, <1>2 DEF CachesTrue, HuntInv
<1>8. MailNow' \subseteq MailNow
  BY <1>1 DEF MailNow
<1> QED
  BY <1>1, <1>4, <1>6, <1>7, <1>8, StillStays

LEMMA ReportDeathTells ==
  ASSUME MailInv, MailInv', TablesInv, NEW a \in Node, NEW i \in Id, ReportDeath(a, i)
  PROVE  TablesInv'
<1> DEFINE m == DeadMsg(i)
           l == <<a, Master>>
           w == [chan EXCEPT ![l] = Append(@, m)]
           v == [adminq EXCEPT ![a] = Append(@, m)]
           x == <<"chan", l, Dest(m, l[2]), Base(m)>>
           y == <<"queue", a, Dest(m, a), Base(m)>>
           s == Mail(chan, v, out, got) \subseteq Mail(chan, adminq, out, got) \cup {y}
           sw == Mail(w, adminq, out, got) \subseteq Mail(chan, adminq, out, got) \cup {x}
           Y == {x, y}
<1>1. /\ mode[i] = "ended" /\ mode' = [mode EXCEPT ![i] = "gone"] /\ home[i] = a
      /\ (a = Master /\ adminq' = v /\ chan' = chan) \/ (chan' = w /\ adminq' = adminq)
      /\ UNCHANGED <<tableVars, nodes, load, owner, home, members, killed, given, alive, peers, cache>>
      /\ UNCHANGED <<pc, call, out, got, ctx, proxyat, launch, hunt, told, slain, since>>
  BY DEF ReportDeath, tableVars, threadVars, workVars, histVars
<1>2. m \in Plain /\ Base(m) = m /\ m \in Message /\ m.kind = "dead" /\ m.id = i
  BY MessagesMade, PlainIs DEF DeadMsg
<1>3. adminq \in Queues /\ chan \in Links /\ l \in Node \X Node /\ alive \subseteq Node
  BY Threads, Apart DEF MailShape, NetShape
<1>4. LoadInv /\ HuntInv /\ mode \in [Id -> Modes]
  BY Tables, Apart DEF ProcShape
<1>5. mode'[i] = "gone" /\ \A j \in Id \ {i} : mode'[j] = mode[j]
  BY <1>1, <1>4
<1>6. BellsRing
  BY <1>1, <1>3, TollsNow, BellsGrow
<1>7. Bell(a, i)'
  <2>1. CASE a = Master /\ adminq' = v
    <3>1. adminq[a] \in Seq(Message) /\ adminq'[Master] = Append(adminq[a], m)
      BY <1>3, <2>1 DEF Queues
    <3>2. Among(m, adminq'[Master])
      BY <3>1, AmongLast
    <3> QED
      BY <3>2 DEF Bell
  <2>2. CASE chan' = w
    <3>1. chan[l] \in Seq(Message) /\ chan'[a, Master] = Append(chan[l], m)
      BY <1>3, <2>2 DEF Links
    <3>2. Among(m, chan'[a, Master])
      BY <3>1, AmongLast
    <3> QED
      BY <3>2 DEF Bell
  <2> QED
    BY <1>1, <2>1, <2>2
<1>8. x[4] = m /\ y[4] = m
  BY <1>2
<1>9. PICK k : k = m /\ k.kind = "dead" /\ k.id = i
  BY <1>2
<1> HIDE DEF m, l
<1>10. s
  BY <1>2, <1>3, QueueAdds, Zenon
<1>11. sw
  BY <1>2, <1>3, ChanAdds, Zenon
<1> HIDE DEF x, y, v, w
<1>12. MailNow' \subseteq MailNow \cup Y /\ \A e \in Y : e[4] = k
  BY <1>1, <1>8, <1>9, <1>10, <1>11 DEF MailNow
<1> HIDE DEF Y
<1>13. \A e \in MailNow' : \/ \E f \in MailNow : f[4] = e[4] /\ (f[3] = e[3] \/ e[4].kind = "reply")
                           \/ TrueTo(e[3], e[4])'
  <2> SUFFICES ASSUME NEW e \in MailNow', e \in Y PROVE TrueTo(e[3], e[4])'
    BY <1>12
  <2>1. PICK d : d = e[3]
    OBVIOUS
  <2>2. TrueTo(d, k)'
    BY <1>5, <1>9 DEF TrueTo, ClientKinds
  <2> QED
    BY <1>12, <2>1, <2>2
<1>14. Onward /\ \A j \in Id : Enrolled(j) => Enrolled(j)'
  BY <1>1, <1>5 DEF Onward, Passes, Enrolled, Passage
<1>15. Launching' = Launching
  BY <1>1, WorkStays
<1>16. LoadInv' /\ PlaceInv' /\ OwnerInv'
  <2>1. \A j \in Id : Arises(j)
    BY <1>1, <1>5 DEF Arises
  <2>2. Rung
    BY <1>1, <1>3, <1>5, <1>6, <1>7 DEF Rung, BellsRing
  <2>3. Master \in alive' /\ given \subseteq given'
    BY <1>1, <1>4 DEF LoadInv
  <2> QED
    BY <1>1, <1>14, <1>15, <2>1, <2>2, <2>3, TablesStay
<1>17. CachesTrue /\ alive' \ {Master} \subseteq peers'[Master]
  BY <1>1, <1>4 DEF CachesTrue, HuntInv
<1> QED
  BY <1>1, <1>13, <1>14, <1>16, <1>17, StillStays

-----------------------------------------------------------------------------
(* Launches.                                                               *)

\* What a launch is, once begun: every task of it has a node of the master's.
LEMMA LaunchBegins ==
  ASSUME MailInv, NEW a \in Node, StartLaunch(a)
  PROVE  LET m == Head(adminq[a])
         IN \E place :
           LET In(i, k) == \E y \in FirstOf(m)..m.req.n : m.ids[y] = i /\ place[y] = k
           IN  /\ \A y \in FirstOf(m)..m.req.n : place[y] \in nodes
               /\ \A i : \A n \in Node : i \in load'[n] <=> i \in load[n] \/ In(i, n)
               /\ \A i \in Id : \A k \in nodes : In(i, k) => In(i, owner'[i])
               /\ \A i \in Id : (\A k \in nodes : ~In(i, k)) => owner'[i] = owner[i]
               /\ launch'.client = m.th /\ launch'.ids = m.ids /\ launch'.first = FirstOf(m)
               /\ launch'.place = place
<1> DEFINE m == Head(adminq[a])
           r == m.req
           first == IF r.slaves THEN 2 ELSE 1
           auto == r.where \notin nodes
           src == AgentOf(m.th)
           p == IF auto THEN Placement(r.n, first, src) ELSE [y \in 1..r.n |-> r.where]
           at(k) == {m.ids[z] : z \in {y \in first..r.n : p[y] = k}}
<1>1. /\ Runs(a, "launch")
      /\ \A z \in first..r.n : p[z] # NoNode
      /\ owner' = [i \in Id |-> IF \E k \in nodes : i \in at(k)
                               THEN CHOOSE k \in nodes : i \in at(k) ELSE owner[i]]
      /\ load' = [k \in Node |-> load[k] \cup at(k)]
      /\ launch' = [client |-> m.th, ids |-> m.ids, place |-> p, src |-> src,
                    auto |-> auto, first |-> first, x |-> first, phase |-> 1]
  BY Zenon DEF StartLaunch
<1>2. first = FirstOf(m) /\ first \in {1, 2}
  BY DEF FirstOf
<1>3. r.n \in Nat \ {0}
  <2>1. Runs(a, "launch") /\ "launch" # "routed"
    BY <1>1
  <2>2. m \in Plain /\ m.kind = "launch"
    BY <2>1, AdminTakes
  <2> QED
    BY <2>2, Kinds DEF Request
<1>4. nodes \subseteq Node
  BY Apart DEF TableShape
<1>5. ASSUME NEW z \in first..r.n PROVE p[z] \in nodes
  <2>1. z \in 1..r.n
    BY <1>2
  <2>2. CASE auto
    <3> DEFINE f == Placement(r.n, first, src)
    <3>1. f = [y \in 1..r.n |-> NodeFor(f, y, first, src)]
      <4>1. r.n \in Nat /\ first \in Nat \ {0}
        BY <1>2, <1>3
      <4> HIDE DEF first, src, r
      <4> QED
        BY <4>1, Placed, Zenon
    <3>2. p = f
      BY <2>2
    <3> HIDE DEF f, p, r, first, src, auto
    <3>3. f[z] = NodeFor(f, z, first, src)
      BY <2>1, <3>1
    <3>4. NodeFor(f, z, first, src) \in nodes \cup {NoNode}
      BY <1>4, BestIsNode DEF NodeFor
    <3>5. p[z] # NoNode
      BY <1>1
    <3> QED
      BY <3>2, <3>3, <3>4, <3>5
  <2>3. CASE ~auto
    <3>1. p = [y \in 1..r.n |-> r.where] /\ r.where \in nodes
      BY <2>3
    <3> HIDE DEF p, r
    <3> QED
      BY <2>1, <3>1
  <2> QED
    BY <2>2, <2>3
<1>6. PICK place : place = p
  OBVIOUS
<1> DEFINE In(i, k) == \E y \in FirstOf(m)..r.n : m.ids[y] = i /\ place[y] = k
<1>7. launch'.client = m.th /\ launch'.ids = m.ids /\ launch'.first = first /\ launch'.place = place
  <2> HIDE DEF p, auto, src, first, r, m
  <2> QED
    BY <1>1, <1>6
<1>8. \A i, k : i \in at(k) <=> In(i, k)
  <2> HIDE DEF p, auto, src, first, r, m
  <2> QED
    BY <1>2, <1>6
<1> HIDE DEF p, auto, src, first, r, m, at
<1>9. \A i : \A n \in Node : i \in load'[n] <=> i \in load[n] \/ In(i, n)
  BY <1>1, <1>8
<1>10. \A i \in Id : \A k \in nodes : In(i, k) => In(i, owner'[i])
  BY <1>1, <1>8
<1>11. \A i \in Id : (\A k \in nodes : ~In(i, k)) => owner'[i] = owner[i]
  BY <1>1, <1>8
<1>12. \A y \in FirstOf(m)..r.n : place[y] \in nodes
  BY <1>2, <1>5, <1>6
<1> QED
  BY <1>2, <1>7, <1>9, <1>10, <1>11, <1>12 DEF r, m

LEMMA StartLaunchTells ==
  ASSUME MailInv, MailInv', LaunchesInv, TablesInv, NEW a \in Node, StartLaunch(a)
  PROVE  TablesInv'
<1>1. PICK m : m = Head(adminq[a])
  OBVIOUS
<1>2. /\ Runs(a, "launch") /\ adminq' = RestOf(a) /\ pc' = [pc EXCEPT ![AdminT(a)] = "launch"]
      /\ UNCHANGED <<nodes, home, mode, members, killed, given, alive, peers, chan, cache>>
      /\ UNCHANGED <<call, out, got, ctx, proxyat, hunt, told, slain, since>>
  BY Zenon DEF StartLaunch, procVars, histVars
<1>3. "launch" # "routed" /\ "launch" # "dead" /\ "launch" \in Carriers /\ "launch" \in MasterKinds
  BY DEF Carriers, ClientKinds, MasterKinds
<1>4. /\ m \in Plain /\ m.kind = "launch" /\ TrueTo(a, m) /\ Less(chan, RestOf(a)) /\ Tolls(chan, RestOf(a))
      /\ a = Master /\ pc[AdminT(a)] = "idle" /\ out[AdminT(a)] = NoOut
  BY <1>1, <1>2, <1>3, Heard
<1>5. m \in Orders
  <2> DEFINE x == <<"queue", a, Dest(m, a), Base(m)>>
  <2>1. Taken(chan, RestOf(a), x) /\ Base(m) = m
    BY <1>1, <1>2, <1>3, AdminTakes
  <2>2. x[4] = m
    BY <2>1
  <2> HIDE DEF x
  <2> QED
    BY <1>4, <2>1, <2>2 DEF Taken, Said, Orders
<1>6. /\ m.ids \in Seq(Id) /\ Len(m.ids) = m.req.n /\ FirstOf(m) \in {1, 2} /\ OrderOk(m)
  BY <1>5, NewIds DEF LaunchesInv, OrderInv
<1>7. PICK ids, first, N : ids = m.ids /\ first = FirstOf(m) /\ N = m.req.n
  OBVIOUS
<1>8. PICK place :
        /\ \A y \in first..N : place[y] \in nodes
        /\ \A i : \A n \in Node : i \in load'[n] <=> i \in load[n] \/ \E y \in first..N : ids[y] = i /\ place[y] = n
        /\ \A i \in Id : \A k \in nodes : (\E y \in first..N : ids[y] = i /\ place[y] = k)
                                        => \E y \in first..N : ids[y] = i /\ place[y] = owner'[i]
        /\ \A i \in Id : (\A k \in nodes : ~ \E y \in first..N : ids[y] = i /\ place[y] = k) => owner'[i] = owner[i]
        /\ launch'.client = m.th /\ launch'.ids = ids /\ launch'.first = first /\ launch'.place = place
  BY <1>1, <1>7, LaunchBegins
<1>9. /\ ids \in Seq(Id) /\ Len(ids) = N /\ first \in {1, 2} /\ N \in Nat
      /\ \A y \in first..N : /\ ids[y] \in Id /\ ids[y] \in given /\ mode[ids[y]] = "none"
                             /\ \A n \in Node : ids[y] \notin load[n]
      /\ \A y, z \in first..N : ids[y] = ids[z] => y = z
  <2>1. ids \in Seq(Id) /\ Len(ids) = N /\ first \in {1, 2}
    BY <1>6, <1>7
  <2>2. \A y \in first..N : ids[y] \in New(m)
    BY <1>6, <1>7 DEF New
  <2>3. \A y \in first..N : ids[y] \in Id
    BY <2>1
  <2>4. \A i \in New(m) : Untouched(i)
    BY <1>6 DEF OrderOk
  <2>5. \A y, z \in first..N : ids[y] = ids[z] => y = z
    BY <1>6, <1>7 DEF OrderOk, Distinct
  <2> QED
    BY <2>1, <2>2, <2>3, <2>4, <2>5 DEF Untouched
<1>10. /\ nodes \subseteq Node /\ load \in [Node -> SUBSET Id] /\ owner \in [Id -> Node \cup {NoNode}]
       /\ pc \in [Thread -> Pcs]
  BY Apart DEF TableShape
<1>12. \A i \in Id : (\A y \in first..N : ids[y] # i) => owner'[i] = owner[i]
  BY <1>8
<1>13. \A y \in first..N : owner'[ids[y]] = place[y]
  BY <1>8, <1>9
<1>14. PICK th \in Thread : th = AdminT(a) /\ th = MasterT /\ th \notin ClientThread
                            /\ \A d \in Client : th # ProxyT(d) /\ th # ClientT(d)
  BY <1>4, AdminThread, Threads DEF MasterT
<1>15. ~Launching /\ pc'[th] = "launch" /\ Launching'
  BY <1>2, <1>4, <1>10, <1>14 DEF Launching, NoOut, MasterT
<1>16. LoadInv /\ OwnerInv /\ HuntInv /\ MemberInv
  BY Tables
<1>17. Onward /\ \A i \in Id : Enrolled(i) => Enrolled(i)'
  <2>1. \A i \in Id : mode[i] # "none" => owner'[i] = owner[i]
    BY <1>9, <1>12
  <2> QED
    BY <1>2, <2>1 DEF Onward, Passes, Enrolled
<1>18. Alone(th)
  BY <1>2, <1>10, <1>14 DEF Alone
<1>19. Free(th)
  BY <1>4, <1>14, IsFree
<1>20. Words(th)
  <2>1. MailNow' \subseteq MailNow
    BY <1>2, <1>4 DEF Less, MailNow
  <2>2. \A e \in MailNow : e[4].kind \in Carriers => e[4].th # th
    BY <1>4, <1>14, IdleSays DEF Waits
  <2> QED
    BY <1>2, <1>4, <1>14, <2>1, <2>2 DEF Words, Was, NoOut, Nothing
<1>21. AsksReal(th) /\ CachesTrue /\ ToldTrue /\ ProxiesStay(th)
  BY <1>2, <1>14 DEF AsksReal, CachesTrue, ToldTrue, ProxiesStay
<1>22. BellsRing
  BY <1>2, <1>4 DEF BellsRing, Tolls, Bell
<1>23. LoadInv'
  <2>1. ASSUME NEW n \in nodes', NEW i \in load'[n]
        PROVE  /\ owner'[i] = n /\ mode'[i] # "context"
               /\ mode'[i] = "none" => Launching' /\ \E y \in first..Len(ids) : ids[y] = i
               /\ mode'[i] = "gone" => n \notin alive' \/ Bell(n, i)'
    <3>1. n \in nodes /\ n \in Node
      BY <1>2, <1>10
    <3>2. CASE i \in load[n]
      <4>1. i \in Id /\ \A y \in first..N : ids[y] # i
        BY <1>9, <1>10, <3>1, <3>2
      <4> QED
        BY <1>2, <1>12, <1>15, <1>16, <1>22, <3>1, <3>2, <4>1 DEF LoadInv, BellsRing
    <3>3. CASE i \notin load[n]
      <4>1. PICK y \in first..N : ids[y] = i /\ place[y] = n
        BY <1>8, <2>1, <3>1, <3>3
      <4>2. owner'[i] = n /\ mode'[i] = "none"
        BY <1>2, <1>9, <1>13, <4>1
      <4> QED
        BY <1>9, <1>15, <4>1, <4>2
    <3> QED
      BY <3>2, <3>3
  <2>2. ASSUME NEW i \in Id, Lives(i)', mode'[i] # "context", home'[i] \in nodes' PROVE i \in load'[home'[i]]
    BY <1>2, <1>8, <1>10, <1>16, <2>2 DEF LoadInv, Lives
  <2> QED
    BY <1>2, <1>8, <1>16, <2>1, <2>2 DEF LoadInv
<1>24. PlaceInv'
  <2>1. \A y \in first..Len(ids) : place[y] \in nodes' /\ ids[y] \in load'[place[y]]
    BY <1>2, <1>8, <1>9, <1>10
  <2> QED
    BY <1>8, <2>1 DEF PlaceInv
<1>25. OwnerInv'
  <2>1. \A i \in Id : owner'[i] = owner[i] \/ (i \in given /\ mode[i] = "none")
    BY <1>9, <1>12
  <2> QED
    BY <1>2, <1>16, <2>1 DEF OwnerInv
<1>26. ClientInv'
  <2>1. \A n \in Node, i \in Id : mode[i] # "none" /\ i \in load'[n] => i \in load[n]
    BY <1>9, <1>8
  <2> QED
    BY <1>2, <1>14, <1>17, <1>18, <2>1, ClientStays DEF ClientInv
<1>27. MemberInv'
  BY <1>2, <1>16, <1>17, MembersStay
<1>28. HuntInv'
  <2>1. alive' \ {Master} \subseteq peers'[Master] /\ Hunting' = Hunting
    BY <1>2, <1>16, WorkStays DEF HuntInv
  <2>2. pc'[MasterT] = "hunt" => pc[MasterT] = "hunt"
    BY <1>14, <1>15
  <2>3. \A d \in Client : since'[d] \subseteq Id
    BY DEF MailInv, Shape, HistShape
  <2> QED
    BY <1>2, <1>17, <1>18, <1>19, <2>1, <2>2, <2>3, HuntStays
<1> QED
  BY <1>2, <1>14, <1>17, <1>18, <1>19, <1>20, <1>21, <1>23, <1>24, <1>25, <1>26, <1>27, <1>28, RestStays

-----------------------------------------------------------------------------
(* The launch goes on.                                                     *)

\* Thread th leaves the tables and the clients alone, and works at most on the launch.
LEMMA LaunchGoes ==
  ASSUME MailInv, MailInv', TablesInv, NEW th, Onward, \A i \in Id : Arises(i), Alone(th), Free(th),
         UNCHANGED <<launch, hunt>> \/ th = MasterT, th \notin ClientThread, \A c \in Client : th # ProxyT(c),
         UNCHANGED <<nodes, load, owner, alive, peers, given, hunt>>,
         UNCHANGED <<ctx, cache, call, proxyat, told, slain, since>>,
         launch'.client = launch.client, launch'.first = launch.first, launch'.ids = launch.ids,
         launch'.place = launch.place, pc'[MasterT] = "hunt" => pc[MasterT] = "hunt", MemberInv', Rung, Words(th)
  PROVE  TablesInv'
<1>1. LoadInv /\ HuntInv
  BY Tables
<1>2. Launching' = Launching /\ Hunting' = Hunting
  BY WorkStays
<1>3. Master \in alive' /\ alive' \ {Master} \subseteq peers'[Master]
  BY <1>1 DEF LoadInv, HuntInv
<1>4. LoadInv' /\ PlaceInv' /\ OwnerInv'
  <2>1. UNCHANGED tableVars
    BY DEF tableVars
  <2> QED
    BY <1>2, <1>3, <2>1, TablesStay
<1>5. ClientInv'
  <2>1. \A c \in Client : th # ClientT(c)
    BY DEF ClientThread
  <2> QED
    BY <2>1, ClientStays DEF ClientInv
<1>6. HuntInv'
  <2>1. \A c \in Client : since'[c] \subseteq Id
    BY DEF MailInv, Shape, HistShape
  <2> QED
    BY <1>2, <1>3, <2>1, HuntStays
<1>7. AsksReal(th) /\ CachesTrue /\ ToldTrue /\ ProxiesStay(th)
  BY DEF AsksReal, CachesTrue, ToldTrue, ProxiesStay
<1> QED
  BY <1>4, <1>5, <1>6, <1>7, RestStays

\* The master's thread goes on to another task, and says nothing.
LEMMA WorkTells ==
  ASSUME MailInv, MailInv', TablesInv, pc[MasterT] \in {"launch", "made"}, pc[MasterT] = "made" => got[MasterT] # NoReply,
         \/ UNCHANGED <<pc, got>>
         \/ got' = [got EXCEPT ![MasterT] = NoReply] /\ pc' = [pc EXCEPT ![MasterT] = "launch"],
         MailNow' \subseteq MailNow, \A e \in MailNow' : e[4].kind \in Carriers => e[4].th # MasterT,
         UNCHANGED <<nodes, load, owner, home, mode, members, killed, alive, peers, given, hunt>>,
         UNCHANGED <<ctx, cache, call, proxyat, told, slain, since, out, chan, adminq>>,
         launch'.client = launch.client, launch'.first = launch.first, launch'.ids = launch.ids,
         launch'.place = launch.place
  PROVE  TablesInv'
<1>1. PICK th \in Thread : th = MasterT /\ th \notin ClientThread /\ \A c \in Client : th # ProxyT(c)
  BY WorkerFacts DEF MasterT
<1>2. pc \in [Thread -> Pcs] /\ MemberInv
  BY Apart, Tables
<1>3. Onward /\ \A i \in Id : Arises(i) /\ (Enrolled(i) => Enrolled(i)')
  BY DEF Onward, Passes, Arises, Enrolled
<1>4. Alone(th) /\ (pc'[th] = "hunt" => pc[th] = "hunt")
  BY <1>1, <1>2 DEF Alone
<1>5. Free(th)
  BY <1>1, IsFree
<1>6. MemberInv'
  BY <1>2, <1>3, MembersStay
<1>7. Rung
  BY DEF Rung, Bell
<1>8. Words(th)
  <2>1. out[th] = NoOut
    BY <1>1, MasterAlone
  <2> QED
    BY <1>1, <2>1 DEF Words, Was, NoOut, Nothing
<1> QED
  BY <1>1, <1>3, <1>4, <1>5, <1>6, <1>7, <1>8, LaunchGoes

LEMMA LaunchReplyTells ==
  ASSUME MailInv, MailInv', TablesInv, LaunchReply
  PROVE  TablesInv'
<1>1. /\ pc[MasterT] = "made" /\ got[MasterT] # NoReply /\ got' = [got EXCEPT ![MasterT] = NoReply]
      /\ pc' = [pc EXCEPT ![MasterT] = "launch"] /\ launch' = [launch EXCEPT !.x = @ + 1]
      /\ UNCHANGED <<nodes, load, owner, home, mode, members, killed, alive, peers, given, hunt>>
      /\ UNCHANGED <<ctx, cache, call, proxyat, told, slain, since, out, chan, adminq>>
  BY DEF LaunchReply, tableVars, procVars, netVars, histVars, MasterT
<1>2. /\ launch'.client = launch.client /\ launch'.first = launch.first /\ launch'.ids = launch.ids
      /\ launch'.place = launch.place
  BY <1>1, Apart DEF WorkShape
<1>3. MailNow' = Before(chan, adminq, MasterT)
  BY <1>1 DEF MailNow, Before
<1>4. MailNow' \subseteq MailNow /\ \A e \in MailNow' : e[4].kind \in Carriers => e[4].th # MasterT
  BY <1>1, <1>3, MasterAlone
<1> QED
  BY <1>1, <1>2, <1>4, WorkTells

LEMMA NextPhaseTells ==
  ASSUME MailInv, MailInv', TablesInv, NextPhase
  PROVE  TablesInv'
<1>1. /\ pc[MasterT] = "launch" /\ launch' = [launch EXCEPT !.x = launch.first, !.phase = 2]
      /\ UNCHANGED <<nodes, load, owner, home, mode, members, killed, alive, peers, given, hunt>>
      /\ UNCHANGED <<ctx, cache, call, proxyat, told, slain, since, out, chan, adminq, pc, got>>
  BY DEF NextPhase, tableVars, procVars, netVars, threadVars, histVars, MasterT
<1>2. /\ launch'.client = launch.client /\ launch'.first = launch.first /\ launch'.ids = launch.ids
      /\ launch'.place = launch.place
  BY <1>1, Apart DEF WorkShape
<1>3. MailNow' = MailNow /\ \A e \in MailNow' : e[4].kind \in Carriers => e[4].th # MasterT
  BY <1>1, MasterAlone DEF MailNow
<1> QED
  BY <1>1, <1>2, <1>3, WorkTells

\* What the launch is to make is entered where it is to be made, with a group of its own.
LEMMA GroupEnrolled ==
  ASSUME MailInv, LaunchesInv, TablesInv, Launching
  PROVE  \A i \in Group : Enrolled(i)
<1> SUFFICES ASSUME NEW j \in Group PROVE Enrolled(j)
  OBVIOUS
<1>1. ContextInv /\ LaunchInv /\ PlaceInv /\ LoadInv /\ ClientInv
  BY Tables DEF LaunchesInv
<1>2. PICK y \in 1..Len(launch.ids) : launch.ids[y] = j
  BY DEF Group, ToSet
<1>3. CASE y >= launch.first
  <2>1. y \in launch.first..Len(launch.ids)
    BY <1>2, <1>3, AtWork
  <2> QED
    BY <1>1, <1>2, <2>1 DEF PlaceInv, LoadInv, Enrolled
<1>4. CASE ~(y >= launch.first)
  <2>1. launch.first = 2 /\ y = 1 /\ j \in Id
    BY <1>2, <1>4, AtWork
  <2>2. call[launch.client].op = "launch" /\ j = call[launch.client].id
    BY <1>1, <1>2, <2>1 DEF LaunchInv
  <2>3. PICK d \in Client : launch.client = ClientT(d)
    BY AtWork DEF ClientThread
  <2>4. j # NoId
    BY <2>1, ConstantsAssumption DEF ConstantsAssumption, NoId
  <2>5. ctx[d] = j
    BY <1>1, <2>2, <2>3, <2>4 DEF ContextInv
  <2> QED
    BY <1>1, <2>2, <2>3, <2>4, <2>5 DEF ClientInv, ClientOk
<1> QED
  BY <1>3, <1>4

\* A process is made where it is entered.
LEMMA MakeEnters ==
  ASSUME MailInv, LaunchesInv, TablesInv, Launching, launch.x <= Len(launch.ids), NEW a \in nodes,
         NEW i, i = launch.ids[launch.x], Undone(i), i \in load[a], Make(a, i, Group, launch.phase),
         UNCHANGED <<nodes, load, owner, alive, killed>>
  PROVE  /\ Onward /\ (\A j \in Id : Arises(j)) /\ MemberInv'
         /\ \A j \in Id : mode'[j] = "gone" => mode[j] = "gone"
<1>1. /\ mode \in [Id -> Modes] /\ members \in [Id -> SUBSET Id] /\ home \in [Id -> Node \cup {NoNode}]
      /\ launch.phase \in {1, 2} /\ Group \subseteq Id
  BY Apart, AtWork DEF ProcShape, WorkShape, Group, ToSet
<1>2. i \in Id /\ MemberInv
  BY AtWork, Tables
<1>3. \A j \in Id : j # i => mode'[j] = mode[j] /\ home'[j] = home[j] /\ members'[j] = members[j]
  BY <1>1, <1>2 DEF Make
<1>4. \/ mode[i] = "none" /\ mode'[i] = "born" /\ home'[i] = a /\ members'[i] = Group
      \/ mode[i] = "born" /\ mode'[i] = "ready" /\ home'[i] = home[i] /\ members'[i] = members[i]
  BY <1>1, <1>2 DEF Make, Undone
<1>5. \A j \in Id : Passes(j)
  BY <1>3, <1>4 DEF Passes, Passage, Enrolled
<1>6. \A j \in Id : Arises(j)
  BY <1>3, <1>4 DEF Arises
<1>7. \A j \in Id : Enrolled(j) => Enrolled(j)'
  BY <1>3, <1>4 DEF Enrolled
<1>8. MemberInv'
  <2> SUFFICES ASSUME NEW j \in Id PROVE members'[j] = {j} \/ \A k \in members'[j] : Enrolled(k)'
    BY DEF MemberInv
  <2>1. CASE members'[j] = members[j]
    BY <1>1, <1>2, <1>7, <2>1 DEF MemberInv
  <2>2. CASE members'[j] = Group
    BY <1>1, <1>7, <2>2, GroupEnrolled
  <2> QED
    BY <1>3, <1>4, <2>1, <2>2
<1> QED
  BY <1>3, <1>4, <1>5, <1>6, <1>8 DEF Onward

LEMMA LaunchStepTells ==
  ASSUME MailInv, MailInv', LaunchesInv, TablesInv, LaunchStep
  PROVE  TablesInv'
<1>1. PICK i, b, m : i = launch.ids[launch.x] /\ b = launch.place[launch.x] /\ m = MakeMsg(i, Group, launch.phase)
  OBVIOUS
<1> DEFINE here == /\ b = Master /\ Make(Master, i, Group, launch.phase)
                   /\ launch' = [launch EXCEPT !.x = @ + 1]
                   /\ UNCHANGED <<pc, got, out, chan, adminq>>
           there == /\ Send(MasterT, b, m, "made", adminq, chan)
                    /\ UNCHANGED <<launch, home, mode, members>>
<1>2. /\ pc[MasterT] = "launch" /\ launch.x <= Len(launch.ids) /\ (here \/ there)
      /\ UNCHANGED <<nodes, load, owner, killed, given, alive, peers, hunt>>
      /\ UNCHANGED <<ctx, cache, call, proxyat, told, slain, since>>
  BY <1>1 DEF LaunchStep, tableVars, histVars, MasterT, Group
<1>3. Launching /\ Undone(i)
  BY <1>1, <1>2, AtWork DEF LaunchesInv, MakeInv
<1>4. launch.x \in launch.first..Len(launch.ids) /\ i \in Id /\ Group \in SUBSET Id /\ launch.phase \in {1, 2}
  BY <1>1, <1>2, <1>3, AtWork, Apart DEF Group, ToSet, WorkShape
<1>5. b \in nodes /\ i \in load[b] /\ b \in Node
  BY <1>1, <1>3, <1>4, Tables, Apart DEF PlaceInv, TableShape
<1>6. PICK th \in Thread : /\ th = MasterT /\ th \notin ClientThread /\ AgentOf(th) \in Node
                           /\ \A c \in Client : th # ProxyT(c) /\ th # ClientT(c)
  BY WorkerFacts DEF MasterT, ClientThread
<1>7. Free(th) /\ out[th] = NoOut /\ MemberInv
  BY <1>2, <1>6, IsFree, MasterAlone, Tables
<1> HIDE DEF here, there
<1>8. CASE here
  <2>1. /\ Make(Master, i, Group, launch.phase) /\ b = Master
        /\ launch' = [launch EXCEPT !.x = @ + 1] /\ UNCHANGED <<pc, got, out, chan, adminq>>
    BY <1>8 DEF here
  <2>2. /\ launch'.client = launch.client /\ launch'.ids = launch.ids /\ launch'.first = launch.first
        /\ launch'.place = launch.place
    BY <2>1, Apart DEF WorkShape
  <2>3. /\ Onward /\ (\A j \in Id : Arises(j)) /\ MemberInv'
        /\ \A j \in Id : mode'[j] = "gone" => mode[j] = "gone"
    BY <1>1, <1>2, <1>3, <1>5, <2>1, MakeEnters
  <2>4. Rung
    BY <1>2, <2>1, <2>3 DEF Rung, Bell
  <2>5. Alone(th)
    BY <1>2, <2>1 DEF Alone
  <2>6. MailNow' = MailNow /\ \A e \in MailNow : e[4].kind \in Carriers => e[4].th # th
    BY <1>2, <1>6, <2>1, MasterAlone DEF MailNow
  <2>7. Words(th)
    BY <1>7, <2>1, <2>6 DEF Words, Was, NoOut, Nothing
  <2> QED
    BY <1>2, <1>6, <1>7, <2>1, <2>2, <2>3, <2>4, <2>5, <2>7, LaunchGoes
<1>9. CASE there
  <2>1. Send(th, b, m, "made", adminq, chan) /\ UNCHANGED <<launch, home, mode, members>>
    BY <1>6, <1>9 DEF there
  <2>2. m \in Plain /\ m.kind = "make"
    BY <1>1, <1>4, MessagesMade DEF MakeMsg
  <2>3. PICK q : q = adminq
    OBVIOUS
  <2>4. PICK w : w = chan
    OBVIOUS
  <2>5. Less(w, q) /\ Tolls(w, q) /\ w \in Links /\ q \in Queues
    BY <2>3, <2>4, LessNow, TollsNow, Apart DEF MailShape
  <2>6. Send(th, b, m, "made", q, w)
    BY <2>1, <2>3, <2>4
  <2>7. TrueTo(b, m)'
    <3>1. b = launch'.place[launch'.x]
      BY <1>1, <2>1
    <3> QED
      BY <2>2, <3>1 DEF TrueTo, ClientKinds
  <2>8. Words(th)
    BY <1>2, <1>5, <1>6, <1>7, <2>2, <2>5, <2>6, <2>7, SendWords DEF Waits
  <2>9. Alone(th) /\ pc'[th] \in {"made", "recursing", "agent"}
    BY <1>2, <2>6, SendAlone
  <2>10. BellsRing
    BY <1>5, <1>6, <2>5, <2>6, BellsSent
  <2>11. Onward /\ \A j \in Id : Arises(j) /\ (Enrolled(j) => Enrolled(j)')
    BY <1>2, <2>1 DEF Onward, Passes, Arises, Enrolled
  <2>12. MemberInv'
    BY <1>7, <2>1, <2>11, MembersStay
  <2>13. Rung
    BY <1>2, <2>1, <2>10, Apart DEF Rung, BellsRing, NetShape
  <2> QED
    BY <1>2, <1>6, <1>7, <2>1, <2>8, <2>9, <2>11, <2>12, <2>13, LaunchGoes
<1> QED
  BY <1>2, <1>8, <1>9

LEMMA RecvMakeTells ==
  ASSUME MailInv, MailInv', LaunchesInv, TablesInv, NEW a \in Node, NEW b \in Node, RecvT(a, b) \in Thread,
         RecvMake(a, b)
  PROVE  TablesInv'
<1>1. PICK m : m = Head(chan[b, a])
  OBVIOUS
<1>2. PICK th \in Thread : th = RecvT(a, b)
  OBVIOUS
<1>3. PICK w : w = Rest(a, b)
  OBVIOUS
<1>4. PICK q : q = adminq
  OBVIOUS
<1>5. PICK t : t = m.th
  OBVIOUS
<1>6. /\ Takes(a, b) /\ m.kind = "make" /\ Make(a, m.id, m.ids, m.phase)
      /\ Send(th, AgentOf(t), ReplyMsg(t, 0), "idle", q, w)
      /\ UNCHANGED <<nodes, load, owner, killed, given, alive, peers, launch, hunt>>
      /\ UNCHANGED <<ctx, cache, call, proxyat, told, slain, since>>
  BY <1>1, <1>2, <1>3, <1>4, <1>5 DEF RecvMake, tableVars, workVars, histVars
<1>7. /\ m \in Plain /\ TrueTo(a, m) /\ Less(w, q) /\ Tolls(w, q) /\ t \in Thread /\ t # th
      /\ Fit(m, pc[t]) /\ AgentOf(t) \in Node /\ pc[th] = "idle" /\ t = MasterT
  <2>1. "make" \in Carriers
    BY DEF Carriers
  <2>2. m \in Plain
    BY <1>1, <1>6, Read
  <2>3. m.th = MasterT
    BY <1>6, <2>2, Kinds DEF MasterT
  <2> QED
    BY <1>1, <1>2, <1>3, <1>4, <1>5, <1>6, <2>1, <2>2, <2>3, Read
<1>8. /\ AgentOf(th) = a /\ th \notin ClientThread /\ out[th] = NoOut
      /\ \A c \in Client : th # ProxyT(c) /\ th # ClientT(c)
  BY <1>2, <1>7, RecvThread, IdleIs DEF ClientThread
<1>9. pc[t] = "made" /\ m \in Said
  <2> DEFINE x == <<"chan", <<b, a>>, Dest(m, a), Base(m)>>
  <2>1. Taken(w, q, x) /\ Base(m) = m
    BY <1>1, <1>3, <1>4, <1>6, RecvTakes
  <2>2. x[4] = m
    BY <2>1
  <2> HIDE DEF x
  <2> QED
    BY <1>6, <1>7, <2>1, <2>2 DEF Taken, Said, Fit
<1>10. /\ m = MakeMsg(launch.ids[launch.x], Group, launch.phase) /\ Undone(launch.ids[launch.x])
       /\ Launching /\ launch.x <= Len(launch.ids)
  BY <1>6, <1>9, AtWork DEF LaunchesInv, MakeInv
<1>11. PICK i : i = launch.ids[launch.x]
  OBVIOUS
<1>12. Undone(i) /\ Make(a, i, Group, launch.phase)
  <2>1. m.id = i /\ m.ids = Group /\ m.phase = launch.phase
    BY <1>10, <1>11 DEF MakeMsg
  <2> QED
    BY <1>6, <1>10, <1>11, <2>1
<1>13. a = launch.place[launch.x]
  BY <1>6, <1>7 DEF TrueTo
<1>14. a \in nodes /\ i \in load[a]
  BY <1>10, <1>11, <1>13, AtWork, Tables DEF PlaceInv
<1>15. /\ Onward /\ (\A j \in Id : Arises(j)) /\ MemberInv'
       /\ \A j \in Id : mode'[j] = "gone" => mode[j] = "gone"
  BY <1>6, <1>10, <1>11, <1>12, <1>14, MakeEnters
<1>16. PICK d \in Node : d = AgentOf(t)
  BY <1>7
<1>17. PICK k : k = ReplyMsg(t, 0)
  OBVIOUS
<1>18. k.kind = "reply" /\ k.th = t /\ k \in Plain
  <2>1. <<0>> \in Values
    BY DEF Values
  <2> QED
    BY <1>7, <1>17, <2>1, MessagesMade DEF ReplyMsg
<1>19. Send(th, d, k, "idle", q, w)
  BY <1>6, <1>16, <1>17
<1>20. Alone(th) /\ pc'[th] \in {"idle", "recursing", "agent"}
  BY <1>6, <1>19, SendAlone
<1>21. pc'[t] = "made"
  BY <1>7, <1>9, <1>20 DEF Alone
<1>22. TrueTo(d, k)'
  BY <1>18, <1>21 DEF TrueTo, ReplyTrue, ClientKinds
<1>23. Words(th)
  BY <1>7, <1>8, <1>18, <1>19, <1>22, SendWords DEF Waits
<1>24. w \in Links /\ q \in Queues /\ AgentOf(th) \in Node
  BY <1>7, <1>8 DEF Less
<1>25. BellsRing
  BY <1>7, <1>19, <1>24, BellsSent
<1>26. Rung
  BY <1>6, <1>15, <1>25, Apart DEF Rung, BellsRing, NetShape
<1>27. Free(th) /\ (pc'[MasterT] = "hunt" => pc[MasterT] = "hunt")
  BY <1>7, <1>21, IsFree
<1> QED
  BY <1>6, <1>8, <1>15, <1>20, <1>23, <1>26, <1>27, LaunchGoes

LEMMA EndLaunchTells ==
  ASSUME MailInv, MailInv', LaunchesInv, TablesInv, EndLaunch
  PROVE  TablesInv'
<1>1. PICK t : t = launch.client
  OBVIOUS
<1>2. PICK k : k = ReplyMsg(t, 0)
  OBVIOUS
<1>3. /\ pc[MasterT] = "launch" /\ launch.x > Len(launch.ids) /\ launch.phase = 2 /\ launch' = NoLaunch
      /\ Send(MasterT, AgentOf(t), k, "idle", adminq, chan)
      /\ UNCHANGED <<nodes, load, owner, home, mode, members, killed, given, alive, peers, hunt>>
      /\ UNCHANGED <<ctx, cache, call, proxyat, told, slain, since>>
  BY <1>1, <1>2 DEF EndLaunch, tableVars, procVars, histVars, MasterT
<1>4. Launching /\ LaunchInv
  BY <1>3, AtWork DEF LaunchesInv
<1>5. PICK th \in Thread : /\ th = MasterT /\ th \notin ClientThread /\ AgentOf(th) \in Node
                           /\ \A c \in Client : th # ProxyT(c) /\ th # ClientT(c)
  BY WorkerFacts DEF MasterT, ClientThread
<1>6. t \in ClientThread /\ t \in Thread /\ t # th /\ AgentOf(t) \in Node
  BY <1>1, <1>4, <1>5, AtWork, Threads, Sorts DEF ClientThread, AgentOf
<1>7. k.kind = "reply" /\ k.th = t /\ k.val = <<0>> /\ k \in Plain
  <2>1. <<0>> \in Values
    BY DEF Values
  <2> QED
    BY <1>2, <1>6, <2>1, MessagesMade DEF ReplyMsg
<1>8. Free(th) /\ out[th] = NoOut
  BY <1>3, <1>5, IsFree, MasterAlone
<1>9. PICK d \in Node : d = AgentOf(t)
  BY <1>6
<1>10. PICK q : q = adminq
  OBVIOUS
<1>11. PICK w : w = chan
  OBVIOUS
<1>12. Less(w, q) /\ Tolls(w, q) /\ w \in Links /\ q \in Queues
  BY <1>10, <1>11, LessNow, TollsNow, Apart DEF MailShape
<1>13. Send(th, d, k, "idle", q, w)
  BY <1>3, <1>5, <1>9, <1>10, <1>11
<1>14. Alone(th) /\ pc'[th] \in {"idle", "recursing", "agent"}
  BY <1>3, <1>13, SendAlone
<1>15. call[t].op = "launch" /\ call'[t] = call[t] /\ pc'[t] \notin {"task", "found"}
  <2>1. "launch" \in KeptNow(t)
    BY <1>1 DEF KeptNow, Kept
  <2>2. pc[t] = "reply"
    BY <1>6, <2>1, Apart DEF WaitInv, WaitOf
  <2>3. call[t].op = "launch"
    BY <1>1, <1>4 DEF LaunchInv
  <2> QED
    BY <1>3, <1>6, <1>14, <2>2, <2>3 DEF Alone
<1>16. TrueTo(d, k)'
  BY <1>7, <1>15 DEF TrueTo, ReplyTrue, ClientKinds
<1>17. Words(th)
  BY <1>3, <1>5, <1>6, <1>7, <1>8, <1>12, <1>13, <1>16, SendWords DEF Waits
<1>18. BellsRing
  BY <1>5, <1>12, <1>13, BellsSent
<1>19. Onward /\ \A i \in Id : Arises(i) /\ (Enrolled(i) => Enrolled(i)')
  BY <1>3 DEF Onward, Passes, Arises, Enrolled
<1>20. LoadInv /\ OwnerInv /\ HuntInv /\ MemberInv
  BY Tables
<1>21. \A n \in nodes : \A i \in load[n] : mode[i] # "none"
  <2>1. \A y \in launch.first..Len(launch.ids) : mode[launch.ids[y]] # "none"
    BY <1>3, <1>4 DEF LaunchInv, Reached, Made, Started
  <2> QED
    BY <1>20, <2>1 DEF LoadInv
<1>22. LoadInv'
  BY <1>3, <1>18, <1>20, <1>21, Apart DEF LoadInv, BellsRing, Lives, OnMap, TableShape
<1>23. PlaceInv' /\ OwnerInv'
  <2>1. ~Launching'
    <3>1. Work' /\ launch'.client = <<>>
      BY <1>3 DEF MailInv, NoLaunch
    <3>2. <<>> \notin ClientThread
      BY DEF ClientThread, ClientT
    <3> QED
      BY <3>1, <3>2 DEF Work
  <2> QED
    BY <1>3, <1>20, <2>1 DEF PlaceInv, OwnerInv
<1>24. ClientInv'
  BY <1>3, <1>5, <1>14, <1>19, ClientStays DEF ClientInv
<1>25. MemberInv'
  BY <1>3, <1>19, <1>20, MembersStay
<1>26. HuntInv'
  <2>1. Hunting' = Hunting /\ alive' \ {Master} \subseteq peers'[Master]
    BY <1>3, <1>20, WorkStays DEF HuntInv
  <2>2. \A c \in Client : since'[c] \subseteq Id
    BY DEF MailInv, Shape, HistShape
  <2>3. pc'[MasterT] = "hunt" => pc[MasterT] = "hunt"
    BY <1>5, <1>14
  <2> QED
    BY <1>3, <1>8, <1>14, <1>19, <2>1, <2>2, <2>3, HuntStays
<1>27. AsksReal(th) /\ CachesTrue /\ ToldTrue /\ ProxiesStay(th)
  BY <1>3, <1>5 DEF AsksReal, CachesTrue, ToldTrue, ProxiesStay
<1> QED
  BY <1>5, <1>8, <1>14, <1>17, <1>19, <1>22, <1>23, <1>24, <1>25, <1>26, <1>27, RestStays

-----------------------------------------------------------------------------
(* The find_services of the master.                                        *)

\* The master's thread leaves all but its hunt and what it says alone.
LEMMA HuntGoes ==
  ASSUME MailInv, MailInv', TablesInv, NEW th, th = MasterT, Alone(th), Free(th), Words(th), HuntInv',
         UNCHANGED <<nodes, load, owner, home, mode, members, killed, given, alive, peers, launch>>,
         UNCHANGED <<ctx, cache, call, proxyat, told, slain, since>>, BellsRing
  PROVE  TablesInv'
<1>1. th \notin ClientThread /\ \A c \in Client : th # ProxyT(c) /\ th # ClientT(c)
  BY WorkerFacts DEF MasterT, ClientThread
<1>2. Onward /\ \A i \in Id : Arises(i) /\ (Enrolled(i) => Enrolled(i)')
  BY DEF Onward, Passes, Arises, Enrolled
<1>3. LoadInv /\ MemberInv
  BY Tables
<1>4. Rung
  BY <1>3, Apart DEF Rung, BellsRing, NetShape
<1>5. LoadInv' /\ PlaceInv' /\ OwnerInv'
  <2>1. UNCHANGED tableVars /\ Launching' = Launching /\ Master \in alive'
    BY <1>3, WorkStays DEF tableVars, LoadInv
  <2> QED
    BY <1>2, <1>4, <2>1, TablesStay
<1>6. ClientInv'
  BY <1>1, <1>2, ClientStays DEF ClientInv
<1>7. MemberInv'
  BY <1>2, <1>3, MembersStay
<1>8. AsksReal(th) /\ CachesTrue /\ ToldTrue /\ ProxiesStay(th)
  BY <1>1 DEF AsksReal, CachesTrue, ToldTrue, ProxiesStay
<1> QED
  BY <1>2, <1>5, <1>6, <1>7, <1>8, RestStays

\* The hunt after the step is for tasks that are found, or are where it is still to go.
Finds(t, left, found) == \A i \in Wanted(t) : i \in found \/ home[i] \in left

LEMMA HuntHolds ==
  ASSUME MailInv, TablesInv, UNCHANGED <<home, mode, alive, peers, call, since>>,
         NEW h, h = hunt'.client, Hunting' => call[h].op = "find",
         NEW left, left = hunt'.left, NEW found, found = hunt'.found, pc'[MasterT] = "hunt" => Finds(h, left, found)
  PROVE  HuntInv'
<1>1. HuntInv
  BY Tables
<1>2. Wanted(h)' = Wanted(h)
  BY DEF Wanted, Lives, OnMap
<1>3. pc'[MasterT] = "hunt" => \A i \in Wanted(h)' : i \in hunt'.found \/ home'[i] \in hunt'.left
  BY <1>2 DEF Finds
<1> QED
  BY <1>1, <1>2, <1>3 DEF HuntInv, Wanted

LEMMA StartFindTells ==
  ASSUME MailInv, MailInv', TablesInv, NEW a \in Node, StartFind(a)
  PROVE  TablesInv'
<1>1. PICK m : m = Head(adminq[a])
  OBVIOUS
<1>2. PICK h : h = m.th
  OBVIOUS
<1>3. /\ Runs(a, "find") /\ adminq' = RestOf(a) /\ pc' = [pc EXCEPT ![AdminT(a)] = "hunt"]
      /\ hunt' = [client |-> h, left |-> peers[a], found |-> Serving(a)]
      /\ UNCHANGED <<nodes, load, owner, home, mode, members, killed, given, alive, peers, launch>>
      /\ UNCHANGED <<ctx, cache, call, proxyat, told, slain, since, chan, out, got>>
  BY <1>1, <1>2 DEF StartFind, tableVars, procVars, histVars
<1>4. "find" # "routed" /\ "find" # "dead" /\ "find" \in Carriers /\ "find" \in MasterKinds
  BY DEF Carriers, ClientKinds, MasterKinds
<1>5. /\ m.kind = "find" /\ TrueTo(a, m) /\ Less(chan, RestOf(a)) /\ Tolls(chan, RestOf(a)) /\ h \in Thread
      /\ a = Master /\ pc[AdminT(a)] = "idle" /\ out[AdminT(a)] = NoOut /\ m \in Plain
  BY <1>1, <1>2, <1>3, <1>4, Heard
<1>6. PICK th \in Thread : th = AdminT(a) /\ th = MasterT
  BY <1>5, AdminThread DEF MasterT
<1>7. call[h].op = "find" /\ h \in ClientThread
  BY <1>2, <1>5, Kinds DEF TrueTo, ClientKinds
<1>8. Alone(th) /\ Free(th)
  BY <1>3, <1>5, <1>6, IsFree, Apart DEF Alone
<1>9. Words(th)
  <2>1. MailNow' \subseteq MailNow
    BY <1>3, <1>5 DEF Less, MailNow
  <2>2. \A e \in MailNow : e[4].kind \in Carriers => e[4].th # th
    BY <1>5, <1>6, IdleSays DEF Waits
  <2> QED
    BY <1>3, <1>5, <1>6, <2>1, <2>2 DEF Words, Was, NoOut, Nothing
<1>10. BellsRing
  BY <1>3, <1>5 DEF BellsRing, Tolls, Bell
<1>11. PICK left, found : left = peers[a] /\ found = Serving(a)
  OBVIOUS
<1>12. Finds(h, left, found)
  <2> SUFFICES ASSUME NEW i \in Wanted(h) PROVE i \in found \/ home[i] \in left
    BY DEF Finds
  <2>1. PICK c \in Client : h = ClientT(c) /\ h[2] = c
    BY <1>7, Sorts DEF ClientThread
  <2>2. i \in Id /\ mode[i] \notin {"none", "context"} /\ Lives(i) /\ home[i] \in alive
    BY <2>1, Tables, Apart DEF Wanted, HuntInv, HistShape
  <2>3. alive \ {Master} \subseteq left
    BY <1>5, <1>11, Tables DEF HuntInv
  <2>4. home[i] = a => i \in found
    BY <1>11, <2>2 DEF Serving, ps, Lives, OnMap
  <2> QED
    BY <1>5, <2>2, <2>3, <2>4
<1>13. HuntInv'
  <2>1. h = hunt'.client /\ left = hunt'.left /\ found = hunt'.found
    BY <1>3, <1>11
  <2> QED
    BY <1>3, <1>7, <1>12, <2>1, HuntHolds
<1> QED
  BY <1>3, <1>6, <1>8, <1>9, <1>10, <1>13, HuntGoes

LEMMA FindStepTells ==
  ASSUME MailInv, MailInv', TablesInv, FindStep
  PROVE  TablesInv'
<1> DEFINE n == CHOOSE x \in hunt.left : \A k \in hunt.left : x <= k
<1>1. PICK b : b = n
  OBVIOUS
<1>2. PICK m : m = FindMsg(TRUE, MasterT)
  OBVIOUS
<1>3. /\ pc[MasterT] = "hunt" /\ hunt.left # {} /\ hunt' = [hunt EXCEPT !.left = @ \ {b}]
      /\ Send(MasterT, b, m, "found", adminq, chan)
      /\ UNCHANGED <<nodes, load, owner, home, mode, members, killed, given, alive, peers, launch>>
      /\ UNCHANGED <<ctx, cache, call, proxyat, told, slain, since>>
  BY <1>1, <1>2 DEF FindStep, tableVars, procVars, histVars, MasterT
<1>4. b \in Node
  <2>1. hunt.left \in SUBSET Node /\ hunt.left # {} /\ Node \subseteq Nat
    BY <1>3, Apart, ConstantsAssumption DEF WorkShape, ConstantsAssumption
  <2>2. \E x \in hunt.left : \A k \in hunt.left : x <= k
    BY <2>1, Least
  <2> QED
    BY <1>1, <2>1, <2>2
<1> HIDE DEF n
<1>5. m \in Plain /\ m.kind = "subfind"
  BY <1>2, MessagesMade DEF FindMsg, MasterT
<1>6. PICK th \in Thread : th = MasterT /\ AgentOf(th) \in Node /\ out[th] = NoOut
  BY <1>3, WorkerFacts DEF MasterT
<1>7. Free(th)
  BY <1>3, <1>6, IsFree
<1>8. PICK q : q = adminq
  OBVIOUS
<1>9. PICK w : w = chan
  OBVIOUS
<1>10. Less(w, q) /\ Tolls(w, q) /\ w \in Links /\ q \in Queues
  BY <1>8, <1>9, LessNow, TollsNow, Apart DEF MailShape
<1>11. Send(th, b, m, "found", q, w)
  BY <1>3, <1>6, <1>8, <1>9
<1>12. Alone(th) /\ pc'[th] \in {"found", "recursing", "agent"}
  BY <1>3, <1>11, SendAlone
<1>13. BellsRing
  BY <1>4, <1>6, <1>10, <1>11, BellsSent
<1>14. PICK h, left, found : h = hunt.client /\ left = hunt'.left /\ found = hunt.found
  OBVIOUS
<1>15. /\ h = hunt'.client /\ found = hunt'.found /\ \A k \in hunt.left : k \in left \cup {b}
       /\ call[h].op = "find" /\ Finds(h, hunt.left, found)
  <2>1. Hunting
    BY <1>3, WorkerFacts DEF MasterT
  <2>2. h = hunt'.client /\ found = hunt'.found /\ left = hunt.left \ {b}
    BY <1>3, <1>14, Apart DEF WorkShape
  <2> QED
    BY <1>3, <1>14, <2>1, <2>2, Tables DEF HuntInv, Finds
<1>16. HuntInv'
  <2>1. pc'[MasterT] # "hunt"
    BY <1>6, <1>12
  <2> QED
    BY <1>3, <1>14, <1>15, <2>1, HuntHolds
<1>17. TrueTo(b, m)'
  <2>1. Wanted(h)' = Wanted(h)
    BY <1>3 DEF Wanted, Lives, OnMap
  <2>2. \A i \in Wanted(h)' : i \in hunt'.found \/ home'[i] \in hunt'.left \cup {b}
    BY <1>3, <1>14, <1>15, <2>1 DEF Finds
  <2> QED
    BY <1>5, <1>15, <2>2 DEF TrueTo, ClientKinds, Wanted
<1>18. Words(th)
  BY <1>3, <1>4, <1>5, <1>6, <1>10, <1>11, <1>17, SendWords DEF Waits
<1> QED
  BY <1>3, <1>6, <1>7, <1>12, <1>13, <1>16, <1>18, HuntGoes

LEMMA FindReplyTells ==
  ASSUME MailInv, MailInv', TablesInv, FindReply
  PROVE  TablesInv'
<1>1. /\ pc[MasterT] = "found" /\ got[MasterT] # NoReply /\ hunt' = [hunt EXCEPT !.found = @ \cup got[MasterT][1]]
      /\ got' = [got EXCEPT ![MasterT] = NoReply] /\ pc' = [pc EXCEPT ![MasterT] = "hunt"]
      /\ UNCHANGED <<nodes, load, owner, home, mode, members, killed, given, alive, peers, launch>>
      /\ UNCHANGED <<ctx, cache, call, proxyat, told, slain, since, chan, adminq, out>>
  BY DEF FindReply, tableVars, procVars, netVars, histVars, MasterT
<1>2. PICK th \in Thread : th = MasterT /\ out[th] = NoOut
  BY <1>1, WorkerFacts DEF MasterT
<1>3. ReplyTrue(th, got[th])
  BY <1>1, <1>2, GotTrue
<1>4. Free(th) /\ Alone(th)
  BY <1>1, <1>2, IsFree, Apart DEF Alone
<1>5. Words(th)
  <2>1. PICK w, q : w = chan /\ q = adminq
    OBVIOUS
  <2>2. Less(w, q)
    BY <2>1, LessNow, Apart
  <2>3. \A e \in Before(w, q, th) : Was(e, th)
    BY <1>1, <1>2, <2>2, BeforeWas
  <2>4. MailNow' = Before(w, q, th)
    BY <1>1, <1>2, <2>1 DEF MailNow, Before
  <2> QED
    BY <1>1, <1>2, <2>3, <2>4 DEF Words, NoOut, Nothing
<1>6. BellsRing
  BY <1>1 DEF BellsRing, Bell
<1>7. PICK h, left, found : h = hunt.client /\ left = hunt.left /\ found = hunt'.found
  OBVIOUS
<1>8. /\ h = hunt'.client /\ left = hunt'.left /\ found = hunt.found \cup got[th][1] /\ call[h].op = "find"
  <2>1. Hunting
    BY <1>1, WorkerFacts DEF MasterT
  <2> QED
    BY <1>1, <1>2, <1>7, <2>1, Tables, Apart DEF HuntInv, WorkShape
<1>9. Finds(h, left, found)
  BY <1>1, <1>2, <1>3, <1>7, <1>8 DEF ReplyTrue, Finds
<1>10. HuntInv'
  BY <1>1, <1>7, <1>8, <1>9, HuntHolds
<1> QED
  BY <1>1, <1>2, <1>4, <1>5, <1>6, <1>10, HuntGoes

LEMMA EndFindTells ==
  ASSUME MailInv, MailInv', TablesInv, EndFind
  PROVE  TablesInv'
<1>1. PICK t, v : t = hunt.client /\ v = hunt.found
  OBVIOUS
<1>2. PICK k : k = ReplyMsg(t, v)
  OBVIOUS
<1>3. /\ pc[MasterT] = "hunt" /\ hunt.left = {} /\ hunt' = NoHunt
      /\ Send(MasterT, AgentOf(t), k, "idle", adminq, chan)
      /\ UNCHANGED <<nodes, load, owner, home, mode, members, killed, given, alive, peers, launch>>
      /\ UNCHANGED <<ctx, cache, call, proxyat, told, slain, since>>
  BY <1>1, <1>2 DEF EndFind, tableVars, procVars, histVars, MasterT
<1>4. Hunting /\ HuntInv
  BY <1>3, WorkerFacts, Tables DEF MasterT
<1>5. PICK th \in Thread : th = MasterT /\ AgentOf(th) \in Node /\ out[th] = NoOut /\ th \notin ClientThread
  BY <1>3, WorkerFacts DEF MasterT
<1>6. t \in ClientThread /\ t \in Thread /\ t # th /\ AgentOf(t) \in Node /\ <<v>> \in Values
  <2>1. hunt.client \in ClientThread /\ hunt.found \in SUBSET Id
    BY <1>4, Apart DEF Work, WorkShape
  <2>2. <<v>> \in Values
    BY <1>1, <2>1 DEF Values, Parts
  <2> QED
    BY <1>1, <1>5, <2>1, <2>2, OrderWaits, Threads, Sorts DEF ClientThread, AgentOf
<1>7. k.kind = "reply" /\ k.th = t /\ k.val = <<v>> /\ k \in Plain
  BY <1>2, <1>6, MessagesMade DEF ReplyMsg
<1>8. Free(th)
  BY <1>3, <1>5, IsFree
<1>9. PICK d \in Node : d = AgentOf(t)
  BY <1>6
<1>10. PICK q : q = adminq
  OBVIOUS
<1>11. PICK w : w = chan
  OBVIOUS
<1>12. Less(w, q) /\ Tolls(w, q) /\ w \in Links /\ q \in Queues
  BY <1>10, <1>11, LessNow, TollsNow, Apart DEF MailShape
<1>13. Send(th, d, k, "idle", q, w)
  BY <1>3, <1>5, <1>9, <1>10, <1>11
<1>14. Alone(th) /\ pc'[th] \in {"idle", "recursing", "agent"}
  BY <1>3, <1>13, SendAlone
<1>15. call'[t].op = "find" /\ pc'[t] \notin {"task", "found"}
  <2>1. "hunt" \in KeptNow(t)
    BY <1>1 DEF KeptNow, Kept
  <2>2. pc[t] = "reply"
    BY <1>6, <2>1, Apart DEF WaitInv, WaitOf
  <2>3. call[t].op = "find"
    BY <1>1, <1>4 DEF HuntInv
  <2> QED
    BY <1>3, <1>6, <1>14, <2>2, <2>3 DEF Alone
<1>16. Wanted(t)' \subseteq v
  <2>1. Wanted(t)' = Wanted(t)
    BY <1>3 DEF Wanted, Lives, OnMap
  <2> QED
    BY <1>1, <1>3, <1>4, <2>1 DEF HuntInv
<1>17. TrueTo(d, k)'
  <2>1. ReplyTrue(t, <<v>>)'
    BY <1>15, <1>16 DEF ReplyTrue
  <2> QED
    BY <1>7, <2>1 DEF TrueTo, ClientKinds
<1>18. Words(th)
  BY <1>3, <1>5, <1>6, <1>7, <1>12, <1>13, <1>17, SendWords DEF Waits
<1>19. BellsRing
  BY <1>5, <1>12, <1>13, BellsSent
<1>20. HuntInv'
  <2>1. ~Hunting' /\ pc'[MasterT] # "hunt"
    <3>1. Work' /\ hunt'.client = <<>>
      BY <1>3 DEF MailInv, NoHunt
    <3>2. <<>> \notin ClientThread
      BY DEF ClientThread, ClientT
    <3> QED
      BY <1>5, <1>14, <3>1, <3>2 DEF Work
  <2>2. PICK h, left, found : h = hunt'.client /\ left = hunt'.left /\ found = hunt'.found
    OBVIOUS
  <2> QED
    BY <1>3, <2>1, <2>2, HuntHolds
<1> QED
  BY <1>3, <1>5, <1>8, <1>14, <1>18, <1>19, <1>20, HuntGoes

-----------------------------------------------------------------------------
(* The theorems about the tables.                                          *)

LEMMA TablesStart ==
  ASSUME Init
  PROVE  TablesInv
<1>1. /\ MailInv /\ mode = [i \in Id |-> "none"] /\ members = [i \in Id |-> {}] /\ load = [n \in Node |-> {}]
      /\ nodes = Node /\ alive = Node /\ owner = [i \in Id |-> NoNode]
      /\ peers = [a \in Node |-> IF a = Master THEN Node \ {Master} ELSE {Master}]
      /\ cache = [a \in Node |-> [i \in Id \cup Node |-> NoNode]]
      /\ pc = [th \in Thread |-> "idle"] /\ out = [th \in Thread |-> NoOut] /\ call = [th \in Thread |-> NoCall]
      /\ ctx = [c \in Client |-> NoId] /\ since = [c \in Client |-> {}] /\ told = {} /\ slain = {}
  BY MailStarts DEF Init
<1>2. /\ MasterT \in Thread /\ Master \in Node /\ \A c \in Client : ClientT(c) \in Thread /\ ProxyT(c) \in Thread
  BY <1>1, OrderWaits, Threads
<1>3. /\ pc[MasterT] = "idle" /\ ~Launching /\ ~Hunting
  BY <1>1, <1>2 DEF Launching, Hunting, MasterT, NoOut
<1>4. LoadInv /\ PlaceInv /\ OwnerInv
  BY <1>1, <1>2, <1>3 DEF LoadInv, PlaceInv, OwnerInv, Lives, OnMap
<1>5. ClientInv /\ MemberInv
  BY <1>1, <1>2 DEF ClientInv, ClientOk, MemberInv, NoCall
<1>6. AskInv
  <2>1. \A c \in Client : Attended(c)
    BY <1>1, <1>2 DEF Attended
  <2> QED
    BY <1>1, <2>1 DEF AskInv, NoCall, TaskOps
<1>7. HuntInv /\ ToldInv
  BY <1>1, <1>2, <1>3 DEF HuntInv, ToldInv
<1>8. WordInv
  <2>1. \A a : TrueTo(a, Nothing)
    BY DEF TrueTo, Nothing, ClientKinds
  <2>2. \A e \in MailNow : TrueTo(e[3], e[4])
    BY <2>1, NoMailYet
  <2> QED
    BY <1>1, <2>2 DEF WordInv, NoOut, Nothing
<1> QED
  BY <1>4, <1>5, <1>6, <1>7, <1>8 DEF TablesInv

LEMMA TablesStep ==
  ASSUME MailInv, LaunchesInv, TablesInv, [Act]_agentVars
  PROVE  TablesInv'
<1>0. MailInv'
  BY MailStep
<1>1. CASE \E c \in Client : Start(c)
  BY <1>0, <1>1, CallLaunchTells, CallTaskTells, RegContextTells, UnregContextTells, CallSizeTells, CallFindTells
  DEF Start
<1>2. ASSUME NEW th \in Thread, Step(th) PROVE TablesInv'
  <2>1. CASE Resolved(th) \/ NewPeer(th)
    BY <1>0, <2>1, ResolvedTells, NewPeerTells
  <2>2. CASE \E c \in Client : Return(c) \/ ProxyReply(c)
    BY <1>0, <2>2, ReturnTells, ProxyReplyTells
  <2>3. ASSUME NEW a \in Node, Admin(a) PROVE TablesInv'
    BY <1>0, <2>3, AdminKillTells, AdminAliveTells, AdminWaitTells, AdminSizeTells, AdminContextTells,
       AdminDeadTells, AdminRoutedTells, AdminBackLinkTells, AdminMakeLinkTells, AdminRemoveLinkTells,
       AdminSubFindTells, StartFindTells, StartLaunchTells DEF Admin
  <2>4. ASSUME NEW a \in Node, Working(a) PROVE TablesInv'
    BY <1>0, <2>4, LaunchStepTells, LaunchReplyTells, NextPhaseTells, EndLaunchTells, FindStepTells,
       FindReplyTells, EndFindTells DEF Working
  <2>5. ASSUME NEW a \in Node, NEW b \in Node, th = RecvT(a, b), Recv(a, b) PROVE TablesInv'
    <3>1. RecvT(a, b) \in Thread
      BY <2>5
    <3> QED
      BY <1>0, <2>5, <3>1, RecvQueuedTells, RecvResolveTells, RecvMakeTells, RecvDataTells, RecvReplyTells,
         NoticeLossTells DEF Recv
  <2> QED
    BY <1>2, <2>1, <2>2, <2>3, <2>4, <2>5 DEF Step
<1>3. CASE \E a \in Node, i \in Id : TaskEnds(a, i) \/ ReportDeath(a, i)
  BY <1>0, <1>3, TaskEndsTells, ReportDeathTells
<1>4. CASE \E a \in Node : Leave(a)
  BY <1>0, <1>4, LeaveTells
<1>5. CASE \E n, a \in Node : LoseTail(n, a)
  BY <1>0, <1>5, LoseTailTells
<1>6. CASE UNCHANGED agentVars
  <2>1. /\ UNCHANGED <<tableVars, home, mode, members, killed, given, alive, ctx, launch, hunt, peers>>
        /\ UNCHANGED <<pc, call, out, got, proxyat, cache, told, slain, since, chan, adminq>>
    BY <1>6 DEF agentVars, procVars, netVars, threadVars, workVars, histVars
  <2>2. MailNow' = MailNow /\ \A n \in alive, i \in Id : Bell(n, i) => Bell(n, i)'
    BY <2>1 DEF MailNow, Bell
  <2> QED
    BY <1>0, <2>1, <2>2, StillMild
<1> QED
  BY <1>1, <1>2, <1>3, <1>4, <1>5, <1>6 DEF Act

\* As long as no message was sent twice, the master's tables, the messages about its
\* tasks, and what threads and clients were told of them are true.
THEOREM TablesHold == Spec => [](~twice => TablesInv)
<1>1. Init => (~twice => TablesInv)
  BY TablesStart
<1>2. /\ ~twice => MailInv
      /\ ~twice => LaunchesInv
      /\ ~twice => TablesInv
      /\ [Next]_vars
      => (~twice => TablesInv)'
  BY OnceIsAct, TablesStep
<1> QED
  BY <1>1, <1>2, MailHolds, LaunchesHold, PTL DEF Spec

\* The tables the master places tasks by tell the truth, for any number of agents, clients
\* and crashes: what runs on one of its nodes is in the load of that node, and what is
\* there runs, is being launched, is over and about to be buried, or was on an agent
\* that left.
THEOREM TablesTell == Spec => []TablesAreTrue
<1>1. MailInv /\ TablesInv => TablesAreTrue
  <2> SUFFICES ASSUME MailInv, TablesInv PROVE TablesAreTrue
    OBVIOUS
  <2>1. LoadInv /\ nodes \subseteq Node /\ load \in [Node -> SUBSET Id] /\ mode \in [Id -> Modes]
    BY Tables, Apart DEF TableShape, ProcShape
  <2>2. \A i \in Id : Lives(i) /\ mode[i] # "context" /\ home[i] \in nodes
                        => owner[i] = home[i] /\ i \in load[home[i]]
    BY <2>1 DEF LoadInv
  <2>3. ASSUME NEW n \in nodes, NEW i \in load[n]
        PROVE  /\ owner[i] = n
               /\ Lives(i) \/ i \in InLaunch \/ mode[i] = "ended" \/ n \notin alive
                  \/ \E m \in ToSet(adminq[Master]) \cup ToSet(chan[n, Master]) : m = DeadMsg(i)
    <3>1. owner[i] = n /\ i \in Id
      BY <2>1 DEF LoadInv
    <3>2. CASE mode[i] = "none"
      <4>1. Launching /\ \E y \in launch.first..Len(launch.ids) : launch.ids[y] = i
        BY <2>1, <3>2 DEF LoadInv
      <4>2. launch # NoLaunch
        <5>1. launch.client \in ClientThread
          BY <4>1, AtWork
        <5> QED
          BY <5>1 DEF NoLaunch, ClientThread, ClientT
      <4> QED
        BY <3>1, <4>1, <4>2 DEF InLaunch
    <3>3. CASE mode[i] = "gone"
      <4>1. n \notin alive \/ Bell(n, i)
        BY <2>1, <3>3 DEF LoadInv
      <4>2. Bell(n, i) => \E m \in ToSet(adminq[Master]) \cup ToSet(chan[n, Master]) : m = DeadMsg(i)
        <5>1. adminq[Master] \in Seq(Message) /\ chan[n, Master] \in Seq(Message)
          BY <2>1, Apart, Threads DEF MailShape, Links, Queues
        <5>2. PICK k : k = DeadMsg(i)
          OBVIOUS
        <5>3. \A s \in Seq(Message) : Among(k, s) => k \in ToSet(s)
          BY DEF Among, ToSet
        <5> QED
          BY <5>1, <5>2, <5>3 DEF Bell
      <4> QED
        BY <3>1, <4>1, <4>2
    <3>4. mode[i] \in {"none", "gone", "ended"} \/ Lives(i)
      BY <2>1, <3>1 DEF Modes, Lives, OnMap
    <3> QED
      BY <3>1, <3>2, <3>3, <3>4
  <2> QED
    BY <2>2, <2>3 DEF TablesAreTrue
<1>2. Init => ~twice
  BY DEF Init
<1>3. TablesAreTrue /\ (~twice => MailInv) /\ (~twice => TablesInv) /\ [Next]_vars /\ twice'
      => TablesAreTrue'
  <2> SUFFICES ASSUME TablesAreTrue, ~twice => MailInv, [Next]_vars, twice' PROVE TablesAreTrue'
    OBVIOUS
  <2>1. /\ UNCHANGED <<nodes, load, owner, home, mode, alive, adminq, launch>>
        /\ \A n \in nodes : chan'[n, Master] = chan[n, Master]
    BY DoubledOrNot DEF tableVars, procVars
  <2>2. \A n \in nodes : ToSet(chan'[n, Master]) = ToSet(chan[n, Master])
    BY <2>1 DEF ToSet
  <2>3. InLaunch' = InLaunch /\ \A i : Lives(i)' = Lives(i)
    BY <2>1 DEF InLaunch, Lives
  <2>4. \A i \in Id : Lives(i)' /\ mode'[i] # "context" /\ home'[i] \in nodes'
                        => owner'[i] = home'[i] /\ i \in load'[home'[i]]
    BY <2>1, <2>3 DEF TablesAreTrue
  <2>5. ASSUME NEW n \in nodes, NEW i \in load[n]
        PROVE  /\ owner'[i] = n
               /\ Lives(i)' \/ i \in InLaunch' \/ mode'[i] = "ended" \/ n \notin alive'
                  \/ \E m \in ToSet(adminq'[Master]) \cup ToSet(chan'[n, Master]) : m = DeadMsg(i)
    <3>1. /\ owner[i] = n
          /\ Lives(i) \/ i \in InLaunch \/ mode[i] = "ended" \/ n \notin alive
             \/ \E m \in ToSet(adminq[Master]) \cup ToSet(chan[n, Master]) : m = DeadMsg(i)
      BY Zenon DEF TablesAreTrue
    <3> QED
      BY <2>1, <2>2, <2>3, <3>1
  <2> QED
    BY <2>1, <2>4, <2>5 DEF TablesAreTrue
<1> QED
  BY <1>1, <1>2, <1>3, MailHolds, TablesHold, PTL DEF Spec

\* What a client was told is dead is dead, or its agent has left: no wait_task or
\* is_alive_task is answered from a table or a cache that no longer holds.
THEOREM ToldTrueAlways == Spec => []ToldIsDead
<1>1. MailInv /\ TablesInv => ToldIsDead
  BY Tables DEF ToldInv, Over, ToldIsDead
<1>2. Init => ~twice
  BY DEF Init
<1>3. ToldIsDead /\ (~twice => MailInv) /\ [Next]_vars /\ twice' => ToldIsDead'
  BY DoubledOrNot DEF ToldIsDead, Lives, procVars
<1> QED
  BY <1>1, <1>2, <1>3, MailHolds, TablesHold, PTL DEF Spec

\* A kill_task that returned has reached its process, wherever that is and whatever was
\* resolved, cached or forgotten meanwhile, unless it was over or its agent has left.
THEOREM KillsArrive == Spec => []KillArrives
<1>1. MailInv /\ TablesInv => KillArrives
  BY Tables DEF ToldInv, Over, KillArrives
<1>2. Init => ~twice
  BY DEF Init
<1>3. KillArrives /\ (~twice => MailInv) /\ [Next]_vars /\ twice' => KillArrives'
  BY DoubledOrNot DEF KillArrives, Lives, procVars
<1> QED
  BY <1>1, <1>2, <1>3, MailHolds, TablesHold, PTL DEF Spec

\* A step that neither is client c's nor of the thread it waits with changes nothing of
\* what client c does.
Elsewhere(c) == UNCHANGED call \/ \E t, v : t # ClientT(c) /\ call' = [call EXCEPT ![t] = v]

\* A find_services ends in no other step than the return to its client.
LEMMA OnlyReturnEnds ==
  ASSUME MailInv, Act, NEW c \in Client, call[ClientT(c)].op = "find", call'[ClientT(c)].op = "none"
  PROVE  Return(c)
<1>1. ClientT(c) \in Thread /\ call \in [Thread -> [op : Ops, id : Id \cup {NoId}]]
  BY Threads, Apart DEF CallShape
<1>2. ~Elsewhere(c)
  BY <1>1 DEF Elsewhere
<1>3. ASSUME NEW v, call' = [call EXCEPT ![ClientT(c)] = v] PROVE v.op = "none"
  BY <1>1, <1>3
<1>4. \A d \in Client : ~Start(d)
  <2> SUFFICES ASSUME NEW d \in Client PROVE ~Start(d)
    OBVIOUS
  <2>1. ASSUME NEW v, call' = [call EXCEPT ![ClientT(d)] = v], v.op # "none" PROVE FALSE
    <3>1. d = c
      BY <1>2, <2>1, Sorts DEF Elsewhere
    <3> QED
      BY <1>3, <2>1, <3>1
  <2>2. \A op, id : op # "none" => ~Calling(d, op, id)
    BY <2>1 DEF Calling
  <2>3. \A r \in Requests : ~CallLaunch(d, r)
    BY <2>2, Zenon DEF CallLaunch
  <2>4. \A id : \A op \in {"kill", "wait", "alive", "send"} : ~CallTask(d, op, id)
    BY <2>2 DEF CallTask
  <2>5. \A id : ~RegContext(d, id)
    BY <2>2 DEF RegContext
  <2>6. ~UnregContext(d) /\ ~CallSize(d) /\ ~CallFind(d)
    BY <2>2 DEF UnregContext, CallSize, CallFind
  <2> QED
    BY <2>3, <2>4, <2>5, <2>6 DEF Start
<1>5. ASSUME NEW th \in Thread, Resolved(th) PROVE FALSE
  <2>1. th # ClientT(c)
    BY <1>1, <1>5, Apart DEF Resolved, Control, ControlOf
  <2>2. UNCHANGED call \/ call' = [call EXCEPT ![th] = NoCall]
    BY <1>5, Zenon DEF Resolved
  <2> QED
    BY <1>2, <2>1, <2>2, Zenon DEF Elsewhere
<1>6. \A th : ~NewPeer(th)
  BY <1>2, Zenon DEF NewPeer, Elsewhere
<1>7. ASSUME NEW d \in Client, Return(d) PROVE d = c
  <2>1. call' = [call EXCEPT ![ClientT(d)] = NoCall]
    BY <1>7 DEF Return
  <2>2. ClientT(d) = ClientT(c)
    BY <1>2, <2>1, Zenon DEF Elsewhere
  <2> QED
    BY <2>2, Sorts
<1>8. ASSUME NEW d \in Client, ProxyReply(d) PROVE FALSE
  <2>1. call' = [call EXCEPT ![ProxyT(d)] = NoCall] /\ ProxyT(d) # ClientT(c)
    BY <1>8, Sorts DEF ProxyReply
  <2> QED
    BY <1>2, <2>1, Zenon DEF Elsewhere
<1>9. ASSUME NEW a \in Node, Admin(a) PROVE FALSE
  <2>1. ~UNCHANGED call
    BY <1>2 DEF Elsewhere
  <2>2. ~AdminKill(a) /\ ~AdminAlive(a) /\ ~AdminSize(a) /\ ~AdminContext(a)
    BY <2>1, Zenon DEF AdminKill, AdminAlive, AdminSize, AdminContext
  <2>3. ~AdminDead(a) /\ ~AdminMakeLink(a) /\ ~AdminRemoveLink(a)
    BY <2>1, Zenon DEF AdminDead, AdminMakeLink, AdminRemoveLink, threadVars
  <2>4. ~AdminRouted(a) /\ ~AdminBackLink(a) /\ ~AdminSubFind(a) /\ ~StartFind(a) /\ ~StartLaunch(a)
    BY <2>1, Zenon DEF AdminRouted, AdminBackLink, AdminSubFind, StartFind, StartLaunch
  <2>5. ~AdminWait(a)
    <3> SUFFICES ASSUME AdminWait(a) PROVE FALSE
      OBVIOUS
    <3>1. UNCHANGED call \/ \E d, v : call' = [call EXCEPT ![ProxyT(d)] = v]
      BY Zenon DEF AdminWait
    <3>2. \A d : ProxyT(d) # ClientT(c)
      BY DEF ProxyT, ClientT
    <3> QED
      BY <1>2, <3>1, <3>2, Zenon DEF Elsewhere
  <2> QED
    BY <1>9, <2>2, <2>3, <2>4, <2>5 DEF Admin
<1>10. ASSUME NEW a \in Node, Working(a) PROVE FALSE
  <2>1. ~UNCHANGED call
    BY <1>2 DEF Elsewhere
  <2>2. ~LaunchStep /\ ~LaunchReply /\ ~NextPhase /\ ~EndLaunch
    BY <2>1, Zenon DEF LaunchStep, LaunchReply, NextPhase, EndLaunch, threadVars
  <2>3. ~FindStep /\ ~FindReply /\ ~EndFind
    BY <2>1, Zenon DEF FindStep, FindReply, EndFind
  <2> QED
    BY <1>10, <2>2, <2>3 DEF Working
<1>11. ASSUME NEW a \in Node, NEW b \in Node, Recv(a, b) PROVE FALSE
  <2>1. ~UNCHANGED call
    BY <1>2 DEF Elsewhere
  <2>2. ~RecvQueued(a, b) /\ ~RecvResolve(a, b) /\ ~RecvMake(a, b) /\ ~RecvReply(a, b) /\ ~NoticeLoss(a, b)
    BY <2>1, Zenon DEF RecvQueued, RecvResolve, RecvMake, RecvReply, NoticeLoss, threadVars
  <2>3. ~RecvData(a, b)
    <3> SUFFICES ASSUME RecvData(a, b) PROVE FALSE
      OBVIOUS
    <3>1. UNCHANGED call \/ \E v : call' = [call EXCEPT ![RecvT(a, b)] = v]
      BY Zenon DEF RecvData
    <3>2. RecvT(a, b) # ClientT(c)
      BY DEF RecvT, ClientT
    <3> QED
      BY <1>2, <3>1, <3>2, Zenon DEF Elsewhere
  <2> QED
    BY <1>11, <2>2, <2>3 DEF Recv
<1>12. \A th \in Thread : Step(th) => Return(c)
  BY <1>5, <1>6, <1>7, <1>8, <1>9, <1>10, <1>11 DEF Step
<1>13. /\ ~(\E a \in Node, i \in Id : TaskEnds(a, i) \/ ReportDeath(a, i))
       /\ ~(\E a \in Node : Leave(a)) /\ ~(\E n, a \in Node : LoseTail(n, a))
  <2>1. ~UNCHANGED call
    BY <1>2 DEF Elsewhere
  <2> QED
    BY <2>1 DEF TaskEnds, ReportDeath, Leave, LoseTail, threadVars
<1> QED
  BY <1>4, <1>12, <1>13 DEF Act

\* A find_services names every task that lived throughout the call on an agent that did
\* not leave, for any number of agents, though they are asked one after the other, tasks
\* are launched and end, and agents leave meanwhile.
THEOREM FindsAreComplete == Spec => FindIsComplete
<1>1. ASSUME ~twice => MailInv, ~twice => TablesInv, [Next]_vars, NEW c \in Client,
             call[ClientT(c)].op = "find", call'[ClientT(c)].op = "none"
      PROVE  {i \in since[c] : Lives(i) /\ home[i] \in alive} \subseteq got[ClientT(c)][1]
  <2>0. MailInv /\ TablesInv /\ Act
    <3>1. ~twice'
      BY <1>1, DoubledOrNot
    <3>2. ~twice /\ [Act]_agentVars
      BY <1>1, <3>1, OnceIsAct
    <3> QED
      BY <1>1, <3>2 DEF agentVars, threadVars
  <2>1. Return(c)
    BY <1>1, <2>0, OnlyReturnEnds
  <2>2. PICK t \in Thread : t = ClientT(c) /\ t[2] = c
    BY Threads DEF ClientT
  <2>3. pc[t] = "reply" /\ got[t] # NoReply
    BY <2>1, <2>2 DEF Return
  <2>4. ReplyTrue(t, got[t])
    BY <2>0, <2>3, GotTrue
  <2>5. Wanted(t) \subseteq got[t][1]
    BY <1>1, <2>2, <2>3, <2>4 DEF ReplyTrue
  <2> QED
    BY <2>2, <2>5 DEF Wanted
<1>2. (~twice => MailInv) /\ (~twice => TablesInv) /\ [Next]_vars
      => [\A c \in Client : call[ClientT(c)].op = "find" /\ call'[ClientT(c)].op = "none"
            => {i \in since[c] : Lives(i) /\ home[i] \in alive} \subseteq got[ClientT(c)][1]]_vars
  BY <1>1
<1> QED
  BY <1>2, MailHolds, TablesHold, PTL DEF Spec, FindIsComplete
=============================================================================
