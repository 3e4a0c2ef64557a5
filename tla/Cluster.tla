------------------------------- MODULE Cluster -------------------------------
(***************************************************************************)
(* The cluster agents of scopira (agent/clusteragent.cpp): a master that   *)
(* keeps the tables of nodes and tasks, nodes that run the tasks, and the  *)
(* calls of a program, each of them a transaction: a message that carries  *)
(* the thread that waits for its reply.                                    *)
(*                                                                         *)
(* One action is what one thread does between two points where it blocks   *)
(* or lets another agent see something: a call of a client, a message that *)
(* the receiving thread of a link takes (and runs, when it is an instant   *)
(* one), a message the admin thread takes from its queue, the next step of *)
(* a thread whose reply came. Links between agents are fifo queues here;   *)
(* their handshake is the subject of NetLink. It shows that the first      *)
(* message of a fresh link may be sent twice. That may happen here too     *)
(* (Double), and the model ends with it: the promises below are about      *)
(* behaviours in which no message has been sent twice, and no further.     *)
(***************************************************************************)
EXTENDS Integers, Sequences, FiniteSets, SequencesExt

CONSTANTS
  Node,       \* the agents, by their uuid
  Master,     \* dm_nodespec.pm_ismaster
  Id,         \* the uuids given to tasks and contexts
  Client,     \* the threads that call the agents
  At,         \* the agent of each
  NumCpu,     \* pm_machinespec.pm_numcpu of each agent
  Filter,     \* pm_nodespec.pm_jobfilter of each agent
  Tunneled,   \* the agents without pm_isdirectroute
  Requests,   \* the launches the clients under study ask for
  Calls,      \* the other calls they make
  MayLeave    \* the agents that may crash

NoNode == 0
NoId == 0

\* numps and where of master_launch_task_msg; slaves: of launch_slaves.
Request == [n : Nat \ {0}, where : Node \cup {NoNode}, slaves : BOOLEAN]

ASSUME ConstantsAssumption ==
  /\ Node \subseteq Nat \ {0} /\ IsFiniteSet(Node) /\ Master \in Node
  /\ Id \subseteq Nat \ {0} /\ IsFiniteSet(Id) /\ Id \cap Node = {}
  /\ At \in [Client -> Node]
  /\ NumCpu \in [Node -> Nat \ {0}]
  /\ Filter \in [Node -> {"all", "my", "no"}]
  /\ Tunneled \subseteq Node \ {Master}
  /\ Requests \subseteq Request
  /\ Calls \subseteq {"kill", "wait", "alive", "send", "context", "size", "find"}
  /\ MayLeave \subseteq Node \ {Master}

\* Threads: those of the clients, the admin thread of each agent, the receiving
\* thread of each link, and the worker that runs the client_wait_task of a client.
ClientT(c) == <<"client", c>>
ProxyT(c) == <<"proxy", c>>
AdminT(a) == <<"admin", a>>
RecvT(a, b) == <<"recv", a, b>>      \* at agent a, of its link to b
Thread == {ClientT(c) : c \in Client} \cup {ProxyT(c) : c \in Client}
            \cup {AdminT(a) : a \in Node}
            \cup {RecvT(l[1], l[2]) : l \in {k \in Node \X Node : k[1] # k[2]}}

VARIABLES
  nodes,    \* the master's pm_nodes
  load,     \* pm_tasks of each meta_node (a list without repetition: a set)
  owner,    \* the master's pm_tasks: the agent of each task and context
  home,     \* the agent that has the process of each id in its local_agent's pm_ps
  mode,     \* of each process; it is on that map in the modes OnMap
  members,  \* its pm_peers: the ids of its group
  killed,   \* its pm_killreq
  given,    \* the ids given out so far
  alive,    \* the agents that did not crash
  peers,    \* pm_peers of each agent: the agents it has a link to
  conn,     \* the pairs of agents with a connection
  chan,     \* chan[a, b]: what a's link to b has not delivered to b yet
  adminq,   \* pm_main_queue of each agent
  cache,    \* pm_resolves of each agent
  pc,       \* where each thread is
  call,     \* what it does: the operation, the id it is about
  out,      \* the message it holds while it resolves an agent
  got,      \* the reply to its transaction
  launch,   \* the launch the master's admin thread works on
  hunt,     \* the find_services it works on: who asks, the agents left, what it found
  ctx,      \* the context of each client
  proxyat,  \* the agent that runs the client_wait_task of each client
  \* history
  told,     \* ids a client was told are dead
  slain,    \* ids whose kill_task returned
  since,    \* the tasks that live since the call of each client began
  twice     \* a message of a fresh link was sent twice

tableVars == <<nodes, load, owner>>
procVars == <<home, mode, members, killed, given>>
netVars == <<alive, peers, conn, chan, adminq>>
threadVars == <<pc, call, out, got, ctx, proxyat>>
workVars == <<launch, hunt>>
histVars == <<told, slain, since>>
agentVars == <<tableVars, procVars, netVars, cache, threadVars, workVars, histVars>>
vars == <<agentVars, twice>>

OnMap == {"born", "ready", "context"}
ps(a) == {i \in Id : home[i] = a /\ mode[i] \in OnMap}

AgentOf(th) == CASE th[1] = "client" -> At[th[2]]
                 [] th[1] = "proxy" -> proxyat[th[2]]
                 [] OTHER -> th[2]

-----------------------------------------------------------------------------
(* Messages. th is the xtion_t: the agent and the transaction that wait.   *)

Nothing == [kind |-> "none"]
ResolveMsg(id, th) == [kind |-> "resolve", id |-> id, th |-> th]
LaunchMsg(r, ids, th) == [kind |-> "launch", req |-> r, ids |-> ids, th |-> th]
MakeMsg(id, ids, phase) ==
  [kind |-> "make", id |-> id, ids |-> ids, phase |-> phase, th |-> AdminT(Master)]
CallMsg(op, id, th) == [kind |-> op, id |-> id, th |-> th]  \* client_{kill,wait,is_alive}_msg
DataMsg(id) == [kind |-> "data", id |-> id]
DeadMsg(id) == [kind |-> "dead", id |-> id]
ContextMsg(op, id, th) == [kind |-> op, id |-> id, th |-> th]    \* op: "reg" or "unreg"
SizeMsg(th) == [kind |-> "size", th |-> th]
RoutedMsg(a, m) == [kind |-> "routed", to |-> a, msg |-> m]
BackLinkMsg(to, from) == [kind |-> "backlink", to |-> to, from |-> from]
MakeLinkMsg(a) == [kind |-> "makelink", to |-> a]
RemoveLinkMsg(a) == [kind |-> "removelink", to |-> a]
FindMsg(sub, th) == [kind |-> IF sub THEN "subfind" ELSE "find", th |-> th]  \* dm_subquery
ReplyMsg(th, v) == [kind |-> "reply", th |-> th, val |-> <<v>>]

IsInstant(m) == m.kind \in {"resolve", "make", "data", "reply"}  \* type_instant_c

NoReply == <<>>
NoLaunch == [client |-> <<>>, ids |-> <<>>, place |-> <<>>, src |-> NoNode,
             auto |-> FALSE, first |-> 1, x |-> 1, phase |-> 1]
NoHunt == [client |-> <<>>, left |-> {}, found |-> {}]
NoOut == [to |-> NoNode, msg |-> Nothing, next |-> "idle"]
NoCall == [op |-> "none", id |-> NoId]

\* Everybody has joined: how an agent finds and joins a cluster is left out.
Init ==
  /\ nodes = Node /\ load = [a \in Node |-> {}] /\ owner = [i \in Id |-> NoNode]
  /\ home = [i \in Id |-> NoNode] /\ mode = [i \in Id |-> "none"]
  /\ members = [i \in Id |-> {}] /\ killed = {} /\ given = {}
  /\ alive = Node
  /\ peers = [a \in Node |-> IF a = Master THEN Node \ {Master} ELSE {Master}]
  /\ conn = {{a, Master} : a \in Node \ {Master}}
  /\ chan = [l \in Node \X Node |-> <<>>]
  /\ adminq = [a \in Node |-> <<>>]
  /\ cache = [a \in Node |-> [i \in Id \cup Node |-> NoNode]]
  /\ pc = [th \in Thread |-> "idle"]
  /\ call = [th \in Thread |-> NoCall]
  /\ out = [th \in Thread |-> NoOut]
  /\ got = [th \in Thread |-> NoReply]
  /\ launch = NoLaunch /\ hunt = NoHunt
  /\ ctx = [c \in Client |-> NoId]
  /\ proxyat = [c \in Client |-> NoNode]
  /\ told = {} /\ slain = {} /\ since = [c \in Client |-> {}]
  /\ twice = FALSE

-----------------------------------------------------------------------------
(* Sending and resolving.                                                  *)

\* resolve_agent_msg: the agent of a task, or the agent itself, if it is a node.
Found(id) ==
  LET a == IF id \in Id THEN owner[id] ELSE id
  IN  IF a \in nodes THEN a ELSE NoNode

\* What do_resolve_xtion knows without a message: its cache, and on the master the
\* tables (an instant message to oneself runs at once, and so does its reply).
KnownHere(a, id) == cache[a][id] # NoNode \/ a = Master
AnswerHere(a, id) == IF cache[a][id] # NoNode THEN cache[a][id] ELSE Found(id)

\* do_resolve_xtion by thread th, which goes on from pc next when it has the answer;
\* w is what the links hold by now.
Resolve(th, id, next, w) ==
  LET a == AgentOf(th)
  IN  /\ pc' = [pc EXCEPT ![th] = next]
      /\ IF KnownHere(a, id)
         THEN got' = [got EXCEPT ![th] = <<AnswerHere(a, id)>>] /\ chan' = w
         ELSE /\ got' = [got EXCEPT ![th] = NoReply]
              /\ chan' = [w EXCEPT ![<<a, Master>>] = Append(@, ResolveMsg(id, th))]

\* The cache once thread th has the answer for id.
Cached(th, id) ==
  IF got[th][1] = NoNode THEN cache ELSE [cache EXCEPT ![AgentOf(th)][id] = got[th][1]]

\* enqueue_msg(b, m) by thread th, which goes on from pc next; q and w are what the
\* admin queues and the links hold by now. A message to an agent without a link
\* needs the resolution of that agent first.
Send(th, b, m, next, q, w) ==
  LET a == AgentOf(th)
  IN  \/ /\ b = a
         /\ IF m.kind = "reply"
            THEN got' = [got EXCEPT ![th] = NoReply, ![m.th] = m.val] /\ adminq' = q
            ELSE /\ got' = [got EXCEPT ![th] = NoReply]
                 /\ adminq' = IF IsInstant(m) THEN q ELSE [q EXCEPT ![a] = Append(@, m)]
         \* an instant send_data_msg runs send_msg again, which comes here again
         /\ pc' = [pc EXCEPT ![th] = IF m.kind = "data" THEN "recursing" ELSE next]
         /\ chan' = w /\ UNCHANGED out
      \/ /\ b # a /\ b \in peers[a]
         /\ chan' = [w EXCEPT ![<<a, b>>] = Append(@, m)]
         /\ pc' = [pc EXCEPT ![th] = next]
         /\ got' = [got EXCEPT ![th] = NoReply]
         /\ adminq' = q /\ UNCHANGED out
      \/ /\ b # a /\ b \notin peers[a]
         /\ Resolve(th, b, "agent", w)
         /\ out' = [out EXCEPT ![th] = [to |-> b, msg |-> m, next |-> next]]
         /\ adminq' = q

\* enqueue_new_peer_link_msg, from the answer on: the message goes nowhere, through
\* the master, or to a link that is made if there is none.
NewPeer(th) ==
  LET a == AgentOf(th)
      o == out[th]
      routed == Tunneled \cap {a, o.to} # {} /\ a # Master
      fresh == o.to \notin peers[a]
      w == IF o.msg = Nothing THEN chan ELSE [chan EXCEPT ![<<a, o.to>>] = Append(@, o.msg)]
  IN  /\ pc[th] = "agent" /\ got[th] # NoReply /\ a \in alive
      /\ pc' = [pc EXCEPT ![th] = o.next]
      /\ got' = [got EXCEPT ![th] = NoReply]
      /\ out' = [out EXCEPT ![th] = NoOut]
      /\ cache' = Cached(th, o.to)
      /\ \/ got[th][1] = NoNode /\ UNCHANGED <<peers, chan, adminq>>
         \/ /\ got[th][1] # NoNode /\ routed
            /\ chan' = [chan EXCEPT ![<<a, Master>>] = Append(@, RoutedMsg(o.to, o.msg))]
            /\ UNCHANGED <<peers, adminq>>
         \/ /\ got[th][1] # NoNode /\ ~routed
            /\ peers' = [peers EXCEPT ![a] = @ \cup {o.to}]
            /\ IF ~fresh THEN chan' = w /\ UNCHANGED adminq
               ELSE IF a < o.to
               THEN chan' = w /\ adminq' = [adminq EXCEPT ![a] = Append(@, MakeLinkMsg(o.to))]
               ELSE IF a = Master
               THEN /\ chan' = w
                    /\ adminq' = [adminq EXCEPT ![a] = Append(@, BackLinkMsg(a, o.to))]
               ELSE /\ chan' = [w EXCEPT ![<<a, Master>>] = Append(@, BackLinkMsg(a, o.to))]
                    /\ UNCHANGED adminq
      /\ UNCHANGED <<tableVars, procVars, alive, conn, call, ctx, proxyat, workVars, histVars>>

-----------------------------------------------------------------------------
(* The calls of a client.                                                  *)

Started == {"ready", "ended", "gone"}

\* Ids a program can have: those of the peers of a task that runs (and so of its
\* launches), and of the contexts whose reg_context returned.
Registered == {ctx[c] : c \in {d \in Client : call[ClientT(d)].op # "reg"}}
Known == UNION {members[i] : i \in {j \in Id : mode[j] \in Started}
                                 \cup {j \in Registered : j # NoId /\ mode[j] = "context"}}

\* n new uuids.
Fresh(n) == CHOOSE s \in [1..n -> Id \ given] : IsInjective(s)

Idle(c) == pc[ClientT(c)] = "idle" /\ At[c] \in alive
Calling(c, op, id) == call' = [call EXCEPT ![ClientT(c)] = [op |-> op, id |-> id]]
ProcSame == UNCHANGED <<tableVars, procVars, alive, peers, conn, ctx, proxyat, workVars>>

\* launch_task, launch_group and launch_slaves. The master draws the ids; they are
\* unique wherever they are drawn, and drawn here so that Id bounds the calls only.
CallLaunch(c, r) ==
  LET new == IF r.slaves THEN r.n - 1 ELSE r.n
      fresh == Fresh(new)
      m == IF r.slaves THEN ctx[c] ELSE NoId
  IN  /\ Idle(c) /\ new <= Cardinality(Id \ given)
      /\ r.slaves => m # NoId /\ mode[m] = "context" /\ members[m] = {m}
      /\ given' = given \cup ToSet(fresh)
      /\ Calling(c, "launch", m)
      /\ Send(ClientT(c), Master,
              LaunchMsg(r, IF r.slaves THEN <<m>> \o fresh ELSE fresh, ClientT(c)),
              "reply", adminq, chan)
      /\ UNCHANGED <<tableVars, home, mode, members, killed, alive, peers, conn, cache, ctx, proxyat,
                     workVars, histVars>>

\* Bounds: a program kills one task and sends nothing after it, it does not go on about
\* a task it was told is dead, and it has one message on its way at a time.
DataUnderway ==
  \/ \E l \in Node \X Node : \E m \in ToSet(chan[l]) : m.kind = "data"
  \/ \E th \in Thread : pc[th] # "idle" /\ call[th].op = "send"

Bounded(op, id) ==
  /\ op \in {"kill", "send"} => slain = {}
  /\ op # "kill" => id \notin told
  /\ op = "send" => ~DataUnderway

\* kill_task, wait_task and is_alive_task, and send_msg to a process of another
\* agent (la_send_msg): they resolve the agent of the task first.
CallTask(c, op, id) ==
  /\ Idle(c) /\ op \in Calls /\ id \in Known /\ Bounded(op, id)
  /\ op = "send" => id \notin ps(At[c])
  /\ Calling(c, op, id)
  /\ Resolve(ClientT(c), id, "task", chan)
  /\ ProcSame /\ UNCHANGED <<adminq, out, cache, histVars>>

CallSize(c) ==
  /\ Idle(c) /\ "size" \in Calls
  /\ Calling(c, "size", NoId)
  /\ Send(ClientT(c), Master, SizeMsg(ClientT(c)), "reply", adminq, chan)
  /\ ProcSame /\ UNCHANGED <<cache, histVars>>

\* find_services, for a service that the launched tasks have
CallFind(c) ==
  /\ Idle(c) /\ "find" \in Calls
  /\ Calling(c, "find", NoId)
  /\ since' = [since EXCEPT ![c] = {i \in Id : mode[i] \in {"born", "ready"}}]
  /\ Send(ClientT(c), Master, FindMsg(FALSE, ClientT(c)), "reply", adminq, chan)
  /\ ProcSame /\ UNCHANGED <<cache, told, slain>>

\* reg_context: the process is made first, then the master is told.
RegContext(c, id) ==
  /\ Idle(c) /\ "context" \in Calls /\ ctx[c] = NoId
  /\ id \in Id \ given /\ given' = given \cup {id}
  /\ home' = [home EXCEPT ![id] = At[c]]
  /\ mode' = [mode EXCEPT ![id] = "context"]
  /\ members' = [members EXCEPT ![id] = {id}]
  /\ ctx' = [ctx EXCEPT ![c] = id]
  /\ Calling(c, "reg", id)
  /\ Send(ClientT(c), Master, ContextMsg("reg", id, ClientT(c)), "reply", adminq, chan)
  /\ UNCHANGED <<tableVars, killed, alive, peers, conn, cache, proxyat, workVars, histVars>>

\* unreg_context
UnregContext(c) ==
  /\ Idle(c) /\ ctx[c] # NoId /\ mode[ctx[c]] = "context"
  /\ mode' = [mode EXCEPT ![ctx[c]] = "gone"]
  /\ Calling(c, "unreg", ctx[c])
  /\ Send(ClientT(c), Master, ContextMsg("unreg", ctx[c], ClientT(c)), "reply", adminq, chan)
  /\ UNCHANGED <<tableVars, home, members, killed, given, alive, peers, conn, cache, ctx, proxyat,
                 workVars, histVars>>

\* The answer of do_resolve_xtion for the id a call is about: not found ends the
\* call (a wait with true, an is_alive with false), else the message goes out.
\* A receiving thread comes here too, for a send_data_msg to a process it lacks.
Resolved(th) ==
  LET op == call[th].op
      id == call[th].id
  IN  /\ pc[th] = "task" /\ got[th] # NoReply /\ AgentOf(th) \in alive
      /\ cache' = Cached(th, id)
      /\ \/ /\ got[th][1] = NoNode
            /\ pc' = [pc EXCEPT ![th] = "idle"]
            /\ got' = [got EXCEPT ![th] = NoReply]
            /\ call' = [call EXCEPT ![th] = NoCall]
            /\ told' = IF op \in {"wait", "alive"} THEN told \cup {id} ELSE told
            /\ slain' = IF op = "kill" THEN slain \cup {id} ELSE slain
            /\ UNCHANGED <<since, out, chan, adminq>>
         \/ /\ got[th][1] # NoNode /\ op = "send"
            /\ Send(th, got[th][1], DataMsg(id), "idle", adminq, chan)
            /\ call' = [call EXCEPT ![th] = NoCall] /\ UNCHANGED histVars
         \/ /\ got[th][1] # NoNode /\ op # "send"
            /\ Send(th, got[th][1], CallMsg(op, id, th), "reply", adminq, chan)
            /\ UNCHANGED <<call, histVars>>
      /\ ProcSame

\* The reply came: the call returns. A reply to a wait or an is_alive is 0 for true;
\* launch_slaves has la_update_slave_master put the new peers into its context.
Return(c) ==
  LET th == ClientT(c)
      op == call[th].op
      id == call[th].id
  IN  /\ pc[th] = "reply" /\ got[th] # NoReply /\ At[c] \in alive
      /\ pc' = [pc EXCEPT ![th] = "idle"]
      /\ got' = [got EXCEPT ![th] = NoReply]
      /\ call' = [call EXCEPT ![th] = NoCall]
      /\ told' = IF (op = "wait" /\ got[th] = <<0>>) \/ (op = "alive" /\ got[th] = <<1>>)
                 THEN told \cup {id} ELSE told
      /\ slain' = IF op = "kill" THEN slain \cup {id} ELSE slain
      /\ members' = IF op = "launch" /\ id # NoId
                    THEN [members EXCEPT ![id] = UNION {members[i] : i \in {j \in Id : id \in members[j]}}]
                    ELSE members
      /\ since' = [since EXCEPT ![c] = {}]
      /\ UNCHANGED <<tableVars, home, mode, killed, given, netVars, cache, out, ctx, proxyat, workVars>>

-----------------------------------------------------------------------------
(* What agents do with the messages they receive.                          *)

\* Mutant: the process is ready from the first phase on.
MakeReadyAtOnce(a, id, ids, phase) ==
  /\ home' = [home EXCEPT ![id] = a]
  /\ mode' = [mode EXCEPT ![id] = "ready"]
  /\ members' = [members EXCEPT ![id] = ids]

\* The process of id at agent a, in both phases of la_launch_task.
Make(a, id, ids, phase) ==
  IF phase = 1
  THEN /\ home' = [home EXCEPT ![id] = a]
       /\ mode' = [mode EXCEPT ![id] = "born"]
       /\ members' = [members EXCEPT ![id] = ids]
  ELSE /\ mode' = [mode EXCEPT ![id] = "ready"]
       /\ UNCHANGED <<home, members>>

\* The receiving thread of a's link to b has read message m.
Takes(a, b) ==
  /\ a \in alive /\ {a, b} \in conn /\ chan[b, a] # <<>>
  /\ pc[RecvT(a, b)] = "idle"
Rest(a, b) == [chan EXCEPT ![<<b, a>>] = Tail(@)]

\* on_recv: what is not instant waits for the admin thread.
RecvQueued(a, b) ==
  LET m == Head(chan[b, a])
  IN  /\ Takes(a, b) /\ ~IsInstant(m)
      /\ adminq' = [adminq EXCEPT ![a] = Append(@, m)]
      /\ chan' = Rest(a, b)
      /\ UNCHANGED <<tableVars, procVars, alive, peers, conn, cache, threadVars, workVars, histVars>>

RecvResolve(a, b) ==
  LET m == Head(chan[b, a])
  IN  /\ Takes(a, b) /\ m.kind = "resolve"
      /\ Send(RecvT(a, b), AgentOf(m.th), ReplyMsg(m.th, Found(m.id)), "idle", adminq, Rest(a, b))
      /\ ProcSame /\ UNCHANGED <<call, cache, histVars>>

RecvMake(a, b) ==
  LET m == Head(chan[b, a])
  IN  /\ Takes(a, b) /\ m.kind = "make"
      /\ Make(a, m.id, m.ids, m.phase)
      /\ Send(RecvT(a, b), AgentOf(m.th), ReplyMsg(m.th, 0), "idle", adminq, Rest(a, b))
      /\ UNCHANGED <<tableVars, killed, given, alive, peers, conn, cache, call, ctx, proxyat,
                     workVars, histVars>>

\* send_data_msg: local_agent::send_msg again, which resolves what is not here.
RecvData(a, b) ==
  LET m == Head(chan[b, a])
      th == RecvT(a, b)
  IN  /\ Takes(a, b) /\ m.kind = "data"
      /\ IF m.id \in ps(a) THEN chan' = Rest(a, b) /\ UNCHANGED <<pc, got, call>>
         ELSE Resolve(th, m.id, "task", Rest(a, b)) /\ call' = [call EXCEPT ![th] = [op |-> "send", id |-> m.id]]
      /\ UNCHANGED <<tableVars, procVars, alive, peers, conn, adminq, cache, out, ctx, proxyat,
                     workVars, histVars>>

\* reply_msg: what waits for the transaction has its reply.
RecvReply(a, b) ==
  LET m == Head(chan[b, a])
  IN  /\ Takes(a, b) /\ m.kind = "reply"
      /\ got' = [got EXCEPT ![m.th] = m.val]
      /\ chan' = Rest(a, b)
      /\ UNCHANGED <<tableVars, procVars, alive, peers, conn, adminq, cache, pc, call, out, ctx,
                     proxyat, workVars, histVars>>

-----------------------------------------------------------------------------
(* The admin threads.                                                      *)

\* Agent a's admin thread is to run message m of the given kind.
Runs(a, kind) ==
  a \in alive /\ pc[AdminT(a)] = "idle" /\ adminq[a] # <<>> /\ Head(adminq[a]).kind = kind
RestOf(a) == [adminq EXCEPT ![a] = Tail(@)]
ReplyFrom(a, th, v) == Send(AdminT(a), AgentOf(th), ReplyMsg(th, v), "idle", RestOf(a), chan)

\* Mutant: a process that was born and is not ready yet is passed over.
AdminKillReady(a) ==
  LET m == Head(adminq[a])
  IN  /\ Runs(a, "kill")
      /\ killed' = IF m.id \in ps(a) /\ mode[m.id] = "ready" THEN killed \cup {m.id} ELSE killed
      /\ ReplyFrom(a, m.th, 0)
      /\ UNCHANGED <<tableVars, home, mode, members, given, alive, peers, conn, cache, call, ctx,
                     proxyat, workVars, histVars>>

\* client_kill_msg: local_agent::kill_task
AdminKill(a) ==
  LET m == Head(adminq[a])
  IN  /\ Runs(a, "kill")
      /\ killed' = IF m.id \in ps(a) THEN killed \cup {m.id} ELSE killed
      /\ ReplyFrom(a, m.th, 0)
      /\ UNCHANGED <<tableVars, home, mode, members, given, alive, peers, conn, cache, call, ctx,
                     proxyat, workVars, histVars>>

\* client_is_alive_msg
AdminAlive(a) ==
  LET m == Head(adminq[a])
  IN  /\ Runs(a, "alive")
      /\ ReplyFrom(a, m.th, IF m.id \in ps(a) THEN 0 ELSE 1)
      /\ ProcSame /\ UNCHANGED <<call, cache, histVars>>

\* client_wait_msg: la_launch_proxy
AdminWait(a) ==
  LET m == Head(adminq[a])
      th == ProxyT(m.th[2])
  IN  /\ Runs(a, "wait")
      /\ adminq' = RestOf(a)
      /\ proxyat' = [proxyat EXCEPT ![m.th[2]] = a]
      /\ call' = [call EXCEPT ![th] = [op |-> "wait", id |-> m.id]]
      /\ pc' = [pc EXCEPT ![th] = "waiting"]
      /\ UNCHANGED <<tableVars, procVars, alive, peers, conn, chan, cache, out, got, ctx, workVars,
                     histVars>>

\* Mutants: the task replies without a wait; it replies and is run again.
ProxyReplyAtOnce(c) ==
  LET th == ProxyT(c)
  IN  /\ pc[th] = "waiting" /\ proxyat[c] \in alive
      /\ Send(th, At[c], ReplyMsg(ClientT(c), 0), "idle", adminq, chan)
      /\ call' = [call EXCEPT ![th] = NoCall]
      /\ UNCHANGED <<tableVars, procVars, alive, peers, conn, cache, ctx, proxyat, workVars, histVars>>
ProxyReplyAgain(c) ==
  LET th == ProxyT(c)
  IN  /\ pc[th] = "waiting" /\ proxyat[c] \in alive
      /\ call[th].id \notin ps(proxyat[c])
      /\ Send(th, At[c], ReplyMsg(ClientT(c), 0), "waiting", adminq, chan)
      /\ UNCHANGED <<tableVars, procVars, alive, peers, conn, cache, call, ctx, proxyat, workVars,
                     histVars>>

\* client_wait_task::run, once local_agent::wait_task returned
ProxyReply(c) ==
  LET th == ProxyT(c)
  IN  /\ pc[th] = "waiting" /\ proxyat[c] \in alive
      /\ call[th].id \notin ps(proxyat[c])
      /\ Send(th, At[c], ReplyMsg(ClientT(c), 0), "idle", adminq, chan)
      /\ call' = [call EXCEPT ![th] = NoCall]
      /\ UNCHANGED <<tableVars, procVars, alive, peers, conn, cache, ctx, proxyat, workVars, histVars>>

\* default_group_size_msg: the cpus of the nodes that take all jobs
Cpus(ns) == MapThenSumSet(LAMBDA n : NumCpu[n], {n \in ns : Filter[n] = "all"})
AdminSize(a) ==
  LET m == Head(adminq[a])
  IN  /\ Runs(a, "size")
      /\ ReplyFrom(a, m.th, Cpus(nodes))
      /\ ProcSame /\ UNCHANGED <<call, cache, histVars>>

\* find_services_msg: the master asks one agent after the other, itself first (and
\* without a message); peers come in the order of their uuids.
Serving(a) == {i \in ps(a) : mode[i] \in {"born", "ready"}}
\* Mutant: an agent that has no such service does not reply.
AdminSubFindSilent(a) ==
  LET m == Head(adminq[a])
  IN  /\ Runs(a, "subfind") /\ Serving(a) # {}
      /\ ReplyFrom(a, m.th, Serving(a))
      /\ ProcSame /\ UNCHANGED <<call, cache, histVars>>
AdminSubFind(a) ==
  LET m == Head(adminq[a])
  IN  /\ Runs(a, "subfind")
      /\ ReplyFrom(a, m.th, Serving(a))
      /\ ProcSame /\ UNCHANGED <<call, cache, histVars>>

\* Mutant: the master forgets its own services.
StartFindElsewhere(a) ==
  LET m == Head(adminq[a])
  IN  /\ Runs(a, "find")
      /\ hunt' = [client |-> m.th, left |-> peers[a], found |-> {}]
      /\ adminq' = RestOf(a)
      /\ pc' = [pc EXCEPT ![AdminT(a)] = "hunt"]
      /\ UNCHANGED <<tableVars, procVars, alive, peers, conn, chan, cache, call, out, got, ctx, proxyat,
                     launch, histVars>>
StartFind(a) ==
  LET m == Head(adminq[a])
  IN  /\ Runs(a, "find")
      /\ hunt' = [client |-> m.th, left |-> peers[a], found |-> Serving(a)]
      /\ adminq' = RestOf(a)
      /\ pc' = [pc EXCEPT ![AdminT(a)] = "hunt"]
      /\ UNCHANGED <<tableVars, procVars, alive, peers, conn, chan, cache, call, out, got, ctx, proxyat,
                     launch, histVars>>

FindStep ==
  LET th == AdminT(Master)
      b == CHOOSE n \in hunt.left : \A k \in hunt.left : n <= k
  IN  /\ pc[th] = "hunt" /\ hunt.left # {}
      /\ hunt' = [hunt EXCEPT !.left = @ \ {b}]
      /\ Send(th, b, FindMsg(TRUE, th), "found", adminq, chan)
      /\ UNCHANGED <<tableVars, procVars, alive, peers, conn, cache, call, ctx, proxyat, launch, histVars>>

FindReply ==
  LET th == AdminT(Master)
  IN  /\ pc[th] = "found" /\ got[th] # NoReply
      /\ hunt' = [hunt EXCEPT !.found = @ \cup got[th][1]]
      /\ got' = [got EXCEPT ![th] = NoReply]
      /\ pc' = [pc EXCEPT ![th] = "hunt"]
      /\ UNCHANGED <<tableVars, procVars, netVars, cache, call, out, ctx, proxyat, launch, histVars>>

EndFind ==
  /\ pc[AdminT(Master)] = "hunt" /\ hunt.left = {}
  /\ Send(AdminT(Master), AgentOf(hunt.client), ReplyMsg(hunt.client, hunt.found), "idle", adminq, chan)
  /\ hunt' = NoHunt
  /\ UNCHANGED <<tableVars, procVars, alive, peers, conn, cache, call, ctx, proxyat, launch, histVars>>

\* reg_context_msg
AdminContext(a) ==
  LET m == Head(adminq[a])
  IN  /\ Runs(a, "reg") \/ Runs(a, "unreg")
      /\ owner' = [owner EXCEPT ![m.id] = IF m.kind = "reg" THEN AgentOf(m.th) ELSE NoNode]
      /\ ReplyFrom(a, m.th, 0)
      /\ UNCHANGED <<nodes, load, procVars, alive, peers, conn, cache, call, ctx, proxyat, workVars,
                     histVars>>

\* Mutants: the task stays in the load of its node, or in the table of tasks.
AdminDeadCounted(a) ==
  /\ Runs(a, "dead")
  /\ adminq' = RestOf(a)
  /\ owner' = [owner EXCEPT ![Head(adminq[a]).id] = NoNode]
  /\ UNCHANGED <<nodes, load, procVars, alive, peers, conn, chan, cache, threadVars, workVars, histVars>>
AdminDeadOwned(a) ==
  LET id == Head(adminq[a]).id
      n == owner[id]
  IN  /\ Runs(a, "dead")
      /\ adminq' = RestOf(a)
      /\ load' = IF n \in nodes THEN [load EXCEPT ![n] = @ \ {id}] ELSE load
      /\ UNCHANGED <<nodes, owner, procVars, alive, peers, conn, chan, cache, threadVars, workVars, histVars>>

\* dead_task_msg
AdminDead(a) ==
  LET id == Head(adminq[a]).id
      n == owner[id]
  IN  /\ Runs(a, "dead")
      /\ adminq' = RestOf(a)
      /\ owner' = [owner EXCEPT ![id] = NoNode]
      /\ load' = IF n \in nodes THEN [load EXCEPT ![n] = @ \ {id}] ELSE load
      /\ UNCHANGED <<nodes, procVars, alive, peers, conn, chan, cache, threadVars, workVars, histVars>>

\* routed_msg: the master passes it on.
AdminRouted(a) ==
  LET m == Head(adminq[a])
  IN  /\ Runs(a, "routed")
      /\ Send(AdminT(a), m.to, m.msg, "idle", RestOf(a), chan)
      /\ ProcSame /\ UNCHANGED <<call, cache, histVars>>

\* make_back_link_msg: the master passes it on to the agent that is to connect, which
\* resolves the other one.
AdminBackLink(a) ==
  LET m == Head(adminq[a])
  IN  /\ Runs(a, "backlink")
      /\ IF a # m.from THEN Send(AdminT(a), m.from, m, "idle", RestOf(a), chan)
         ELSE /\ Resolve(AdminT(a), m.to, "agent", chan)
              /\ out' = [out EXCEPT ![AdminT(a)] = [to |-> m.to, msg |-> Nothing, next |-> "idle"]]
              /\ adminq' = RestOf(a)
      /\ ProcSame /\ UNCHANGED <<call, cache, histVars>>

\* make_link_msg: the connection is made, and each side gets to know the other (see
\* NetLink); one that cannot be made is tried every five seconds, in vain.
AdminMakeLink(a) ==
  LET b == Head(adminq[a]).to
  IN  /\ Runs(a, "makelink")
      /\ adminq' = RestOf(a)
      /\ IF b \in alive /\ {a, b} \notin conn
         THEN conn' = conn \cup {{a, b}} /\ peers' = [peers EXCEPT ![b] = @ \cup {a}]
         ELSE UNCHANGED <<conn, peers>>
      /\ UNCHANGED <<tableVars, procVars, alive, chan, cache, threadVars, workVars, histVars>>

\* remove_link_msg: the master forgets the node and its tasks, every agent flushes its
\* cache and the link with what it holds.
AdminRemoveLink(a) ==
  LET b == Head(adminq[a]).to
  IN  /\ Runs(a, "removelink")
      /\ adminq' = RestOf(a)
      /\ IF a = Master /\ b \in nodes
         THEN /\ nodes' = nodes \ {b}
              /\ owner' = [i \in Id |-> IF i \in load[b] THEN NoNode ELSE owner[i]]
              /\ load' = [load EXCEPT ![b] = {}]
         ELSE UNCHANGED tableVars
      /\ cache' = [cache EXCEPT ![a] = [i \in Id \cup Node |-> NoNode]]
      /\ peers' = [peers EXCEPT ![a] = @ \ {b}]
      /\ chan' = [chan EXCEPT ![<<a, b>>] = <<>>]
      /\ UNCHANGED <<procVars, alive, conn, threadVars, workVars, histVars>>

-----------------------------------------------------------------------------
(* The launch of tasks by the master's admin thread.                       *)

Accepts(n, src) == Filter[n] = "all" \/ (Filter[n] = "my" /\ n = src)

\* The node for the next task, when node n has busy[n] tasks: the first of those with
\* the most free cpus. If none accepts it, the last one that did not ask.
BestNode(busy, src) ==
  LET free(n) == NumCpu[n] - busy[n]
      accepting == {n \in nodes : Accepts(n, src)}
      most == {n \in accepting : \A k \in accepting : free(k) <= free(n)}
      others == nodes \ {src}
  IN  IF most # {} THEN CHOOSE n \in most : \A k \in most : n <= k
      ELSE IF others # {} THEN CHOOSE n \in others : \A k \in others : k <= n
      ELSE NoNode

\* Mutant: every task is placed as if it were the first.
PlacementAlone(n, first, src) ==
  [x \in 1..n |-> IF x < first THEN NoNode
                  ELSE BestNode([k \in nodes |-> Cardinality(load[k])], src)]

\* The nodes of tasks first..n of a launch, each placed with those before it.
Placement(n, first, src) ==
  LET place[x \in 1..n] ==
        IF x < first THEN NoNode
        ELSE BestNode([k \in nodes |-> Cardinality(load[k])
                         + Cardinality({y \in first..(x - 1) : place[y] = k})], src)
  IN  place

\* master_launch_task_msg, up to its first transaction: ids and nodes are chosen and
\* entered into the tables. The assertion that there is a node is taken to hold.
StartLaunch(a) ==
  LET m == Head(adminq[a])
      r == m.req
      first == IF r.slaves THEN 2 ELSE 1
      auto == r.where \notin nodes
      src == AgentOf(m.th)
      place == IF auto THEN Placement(r.n, first, src) ELSE [x \in 1..r.n |-> r.where]
      at(k) == {m.ids[x] : x \in {y \in first..r.n : place[y] = k}}
  IN  /\ Runs(a, "launch")
      /\ \A x \in first..r.n : place[x] # NoNode
      /\ owner' = [i \in Id |-> IF \E k \in nodes : i \in at(k)
                               THEN CHOOSE k \in nodes : i \in at(k) ELSE owner[i]]
      /\ load' = [k \in Node |-> load[k] \cup at(k)]
      /\ launch' = [client |-> m.th, ids |-> m.ids, place |-> place, src |-> src,
                    auto |-> auto, first |-> first, x |-> first, phase |-> 1]
      /\ adminq' = RestOf(a)
      /\ pc' = [pc EXCEPT ![AdminT(a)] = "launch"]
      /\ UNCHANGED <<nodes, procVars, alive, peers, conn, chan, cache, call, out, got, ctx, proxyat,
                     hunt, histVars>>

\* One make_task_msg; the master's own runs at once and so does its reply.
LaunchStep ==
  LET th == AdminT(Master)
      i == launch.ids[launch.x]
      ids == ToSet(launch.ids)
  IN  /\ pc[th] = "launch" /\ launch.x <= Len(launch.ids)
      /\ IF launch.place[launch.x] = Master
         THEN /\ Make(Master, i, ids, launch.phase)
              /\ launch' = [launch EXCEPT !.x = @ + 1]
              /\ UNCHANGED <<pc, got, out, chan, adminq>>
         ELSE /\ Send(th, launch.place[launch.x], MakeMsg(i, ids, launch.phase), "made", adminq, chan)
              /\ UNCHANGED <<launch, home, mode, members>>
      /\ UNCHANGED <<tableVars, killed, given, alive, peers, conn, cache, call, ctx, proxyat,
                     hunt, histVars>>

LaunchReply ==
  LET th == AdminT(Master)
  IN  /\ pc[th] = "made" /\ got[th] # NoReply
      /\ got' = [got EXCEPT ![th] = NoReply]
      /\ pc' = [pc EXCEPT ![th] = "launch"]
      /\ launch' = [launch EXCEPT !.x = @ + 1]
      /\ UNCHANGED <<tableVars, procVars, netVars, cache, call, out, ctx, proxyat, hunt, histVars>>

\* The second round, and then the reply to the caller.
NextPhase ==
  /\ pc[AdminT(Master)] = "launch" /\ launch.x > Len(launch.ids) /\ launch.phase = 1
  /\ launch' = [launch EXCEPT !.x = launch.first, !.phase = 2]
  /\ UNCHANGED <<tableVars, procVars, netVars, cache, threadVars, hunt, histVars>>

EndLaunch ==
  /\ pc[AdminT(Master)] = "launch" /\ launch.x > Len(launch.ids) /\ launch.phase = 2
  /\ Send(AdminT(Master), AgentOf(launch.client), ReplyMsg(launch.client, 0), "idle", adminq, chan)
  /\ launch' = NoLaunch
  /\ UNCHANGED <<tableVars, procVars, alive, peers, conn, cache, call, ctx, proxyat, hunt, histVars>>

-----------------------------------------------------------------------------
(* Tasks that end and agents that leave.                                   *)

\* A worker takes the process off the map and marks it done ...
TaskEnds(a, i) ==
  /\ a \in alive /\ i \in ps(a) /\ mode[i] = "ready"
  /\ mode' = [mode EXCEPT ![i] = "ended"]
  /\ UNCHANGED <<tableVars, home, members, killed, given, netVars, cache, threadVars, workVars, histVars>>

\* ... and tells the master (la_dead_task).
ReportDeath(a, i) ==
  LET m == DeadMsg(i)
  IN  /\ a \in alive /\ home[i] = a /\ mode[i] = "ended"
      /\ mode' = [mode EXCEPT ![i] = "gone"]
      /\ IF a = Master THEN adminq' = [adminq EXCEPT ![a] = Append(@, m)] /\ UNCHANGED chan
         ELSE chan' = [chan EXCEPT ![<<a, Master>>] = Append(@, m)] /\ UNCHANGED adminq
      /\ UNCHANGED <<tableVars, home, members, killed, given, alive, peers, conn, cache, threadVars,
                     workVars, histVars>>

\* An agent crashes; what it wrote and the network has not delivered may be lost.
Leave(n) ==
  /\ n \in MayLeave \cap alive
  /\ alive' = alive \ {n}
  /\ UNCHANGED <<tableVars, procVars, peers, conn, chan, adminq, cache, threadVars, workVars, histVars>>

LoseTail(n, a) ==
  /\ n \notin alive /\ chan[n, a] # <<>>
  /\ chan' = [chan EXCEPT ![<<n, a>>] = Front(@)]
  /\ UNCHANGED <<tableVars, procVars, alive, peers, conn, adminq, cache, threadVars, workVars, histVars>>

\* The receiving thread of a's link to n has read what there was: on_close_net_link.
NoticeLoss(a, n) ==
  /\ a \in alive /\ n \notin alive /\ {a, n} \in conn /\ chan[n, a] = <<>>
  /\ pc[RecvT(a, n)] = "idle"
  /\ conn' = conn \ {{a, n}}
  /\ adminq' = [adminq EXCEPT ![a] = Append(@, RemoveLinkMsg(n))]
  /\ UNCHANGED <<tableVars, procVars, alive, peers, chan, cache, threadVars, workVars, histVars>>

-----------------------------------------------------------------------------

Start(c) ==
  \/ \E r \in Requests : CallLaunch(c, r)
  \/ \E op \in {"kill", "wait", "alive", "send"}, id \in Id : CallTask(c, op, id)
  \/ \E id \in Id : RegContext(c, id)
  \/ UnregContext(c)
  \/ CallSize(c) \/ CallFind(c)

Recv(a, b) ==
  \/ RecvQueued(a, b) \/ RecvResolve(a, b) \/ RecvMake(a, b)
  \/ RecvData(a, b) \/ RecvReply(a, b) \/ NoticeLoss(a, b)

Admin(a) ==
  \/ AdminKill(a) \/ AdminAlive(a) \/ AdminWait(a) \/ AdminSize(a)
  \/ AdminContext(a) \/ AdminDead(a) \/ AdminRouted(a) \/ AdminBackLink(a)
  \/ AdminMakeLink(a) \/ AdminRemoveLink(a) \/ AdminSubFind(a)
  \/ StartFind(a) \/ StartLaunch(a)

Working(a) ==
  /\ a = Master
  /\ \/ LaunchStep \/ LaunchReply \/ NextPhase \/ EndLaunch
     \/ FindStep \/ FindReply \/ EndFind

\* What a thread of an agent does.
Step(th) ==
  \/ Resolved(th) \/ NewPeer(th)
  \/ \E c \in Client : th = ClientT(c) /\ Return(c)
  \/ \E c \in Client : th = ProxyT(c) /\ ProxyReply(c)
  \/ \E a \in Node : th = AdminT(a) /\ (Admin(a) \/ Working(a))
  \/ \E a, b \in Node : th = RecvT(a, b) /\ Recv(a, b)

Act ==
  \/ \E c \in Client : Start(c)
  \/ \E th \in Thread : Step(th)
  \/ \E a \in Node, i \in Id : TaskEnds(a, i) \/ ReportDeath(a, i)
  \/ \E a \in Node : Leave(a)
  \/ \E n, a \in Node : LoseTail(n, a)

\* A nottmp_hello_msg that finds a message of its link being written lets it out once
\* more (NetLink's run link_once). The links to the master are long past their hellos.
Double ==
  \E a, b \in Node \ {Master} :
    /\ chan[a, b] # <<>>
    /\ chan' = [chan EXCEPT ![<<a, b>>] = <<Head(@)>> \o @]
    /\ twice' = TRUE
    /\ UNCHANGED <<tableVars, procVars, alive, peers, conn, adminq, cache, threadVars, workVars, histVars>>

Next ==
  /\ ~twice
  /\ \/ Act /\ UNCHANGED twice
     \/ Double

Spec == Init /\ [][Next]_vars

\* Every thread that can go on does, and the worker that buries a process tells the
\* master: the code waits nowhere but for what these steps bring. Nothing is said of
\* the calls a program makes, nor of run methods, which need not return.
Undoubled(A) == ~twice /\ A /\ UNCHANGED twice
Fairness ==
  /\ \A th \in Thread : WF_vars(Undoubled(Step(th)))
  /\ \A a \in Node, i \in Id : WF_vars(Undoubled(ReportDeath(a, i)))

FairSpec == Spec /\ Fairness

-----------------------------------------------------------------------------
(* Properties.                                                             *)

\* The types of the variables.
TypeOK ==
  /\ nodes \subseteq Node /\ load \in [Node -> SUBSET Id] /\ owner \in [Id -> Node \cup {NoNode}]
  /\ home \in [Id -> Node \cup {NoNode}] /\ mode \in [Id -> OnMap \cup {"none", "ended", "gone"}]
  /\ members \in [Id -> SUBSET Id] /\ killed \subseteq given /\ given \subseteq Id
  /\ alive \subseteq Node /\ peers \in [Node -> SUBSET Node] /\ conn \subseteq SUBSET Node
  /\ cache \in [Node -> [Id \cup Node -> Node \cup {NoNode}]]
  /\ pc \in [Thread -> {"idle", "task", "agent", "reply", "waiting", "launch", "made", "hunt", "found",
                        "recursing"}]
  /\ launch.x \in 1..(Len(launch.ids) + 1) /\ launch.phase \in {1, 2}
  /\ \A th \in Thread : Len(got[th]) <= 1 /\ call[th].id \in Id \cup {NoId}
  /\ hunt.left \subseteq Node /\ hunt.found \subseteq Id
  /\ ctx \in [Client -> Id \cup {NoId}] /\ proxyat \in [Client -> Node \cup {NoNode}]
  /\ told \cup slain \subseteq given /\ since \in [Client -> SUBSET Id]
  /\ twice \in BOOLEAN

Lives(i) == mode[i] \in OnMap
InLaunch == IF launch = NoLaunch THEN {} ELSE {launch.ids[x] : x \in launch.first..Len(launch.ids)}

\* The purpose of the two phases: when a task of a group runs, every task of the
\* group has been made, on whatever agent, so messages to it are not lost.
GroupIsWhole ==
  \A i \in Id : mode[i] \in Started => \A j \in members[i] : mode[j] # "none"

\* The master's tables tell the truth about agents it has not removed: a task that
\* lives is found at its agent and counted in that agent's load, and an entry is
\* about a task that lives, is being launched, or whose end is on its way.
TablesAreTrue ==
  /\ \A i \in Id : Lives(i) /\ mode[i] # "context" /\ home[i] \in nodes
                   => owner[i] = home[i] /\ i \in load[home[i]]
  /\ \A n \in nodes : \A i \in load[n] :
       /\ owner[i] = n
       /\ Lives(i) \/ i \in InLaunch \/ mode[i] = "ended" \/ n \notin alive
          \/ \E m \in ToSet(adminq[Master]) \cup ToSet(chan[n, Master]) : m = DeadMsg(i)

\* A reply finds the thread that waits for it (reply_msg asserts that it does), as
\* long as no message was sent twice: a client_kill_task_msg that was is replied to
\* twice, and the second reply finds nobody.
RepliesAreAwaited ==
  ~twice => \A l \in Node \X Node : \A m \in ToSet(chan[l]) :
    m.kind = "reply" /\ l[2] \in alive =>
      /\ pc[m.th] \in {"task", "agent", "reply", "made", "found"}
      /\ got[m.th] = NoReply

\* What a client was told is dead (a wait_task that returned true, an is_alive_task
\* that returned false) is dead, unless its agent has left.
ToldIsDead == \A i \in told : Lives(i) => home[i] \notin alive

\* A kill_task that returned has reached its process, unless that was over or its
\* agent has left.
KillArrives ==
  \A i \in slain : Lives(i) => i \in killed \/ home[i] \notin alive

\* A find_services names every task that lived throughout the call on an agent that
\* did not leave, though its parts are collected one agent after the other.
FindIsComplete ==
  [][\A c \in Client : call[ClientT(c)].op = "find" /\ call'[ClientT(c)].op = "none"
       => {i \in since[c] : Lives(i) /\ home[i] \in alive} \subseteq got[ClientT(c)][1]]_vars

\* The master never puts a task on a node without a free cpu while a node that
\* accepts it has one.
Overloaded(n, l) == Cardinality(l[n]) > NumCpu[n]
Spare(n, l) == Cardinality(l[n]) < NumCpu[n]
NoNeedlessOverload ==
  [][launch' # launch /\ launch = NoLaunch /\ launch'.auto =>
       \A n, k \in nodes : load[n] # load'[n] /\ Overloaded(n, load')
         => ~(Accepts(k, launch'.src) /\ Spare(k, load'))]_vars

\* As long as no message is sent twice, every call returns, but a wait for a task that
\* goes on; and what phase one of a launch made, phase two makes ready.
Busy(c) == pc[ClientT(c)] # "idle"
CallsReturn ==
  /\ \A c \in Client :
       Busy(c) /\ (call[ClientT(c)].op = "wait" => ~Lives(call[ClientT(c)].id)) ~> ~Busy(c) \/ twice
  /\ \A i \in Id : mode[i] = "born" ~> mode[i] # "born" \/ twice

\* The master forgets every task that ended, as long as no message is sent twice.
DeadAreForgotten == \A i \in Id : mode[i] = "gone" ~> owner[i] = NoNode \/ twice

\* A task no node accepts goes to the agent that asked for it.
FallsToRequester ==
  launch.auto /\ (\A n \in nodes : ~Accepts(n, launch.src))
    => \A x \in launch.first..Len(launch.ids) : launch.place[x] = launch.src
=============================================================================
