------------------------------- MODULE NetLink -------------------------------
(***************************************************************************)
(* One connection between two cluster agents (agent/clusteragent.cpp).     *)
(* Each side has links (a queue of messages for a peer) and a net link (a  *)
(* socket, a sending and a receiving thread and a slot for the one message *)
(* to send next). The side that accepts hangs the net link on a link with  *)
(* a temporary address; the hello of its peer moves it to the link of the  *)
(* peer's true address. Until a side knows that the other made that move   *)
(* only hello messages go out.                                             *)
(*                                                                         *)
(* A message of a task that is type_instant_c is executed by the receiving *)
(* thread, every other message by the admin thread, from its queue.        *)
(*                                                                         *)
(* One action is one critical section of a link's or a net link's lock, or *)
(* one read or write of the socket.                                        *)
(***************************************************************************)
EXTENDS Naturals, Sequences, SequencesExt

Side == {"opener", "acceptor"}
Peer(s) == IF s = "opener" THEN "acceptor" ELSE "opener"

CONSTANTS
  Setups,         \* who connects to whom, and what may happen to the connection:
                  \*   toMaster: a new client connects to its master; else one peer to another
                  \*   mayLose: the connection may be lost
                  \*   user: bound, the messages the tasks of each side send
  Instant         \* the numbers of those that are type_instant_c: what tasks send each
                  \*   other, replies, ... (the others: kill, wait, a broadcast, ...)

ASSUME ConstantsAssumption ==
  /\ Setups \subseteq [toMaster : BOOLEAN, mayLose : BOOLEAN, user : [Side -> Nat]]
  /\ Instant \subseteq Nat

Link == {"tmp", "known"}     \* dm_tmpaddress: true, false
NoLink == "none"

\* Messages: peer_hello_msg (n tells the two one side may make apart, tmp is its
\* dm_senderistmp), nottmp_hello_msg (the same for n) and those of the tasks.
Hello(n, t) == [kind |-> "hello", n |-> n, tmp |-> t]
NotTmp(n) == [kind |-> "nottmp", n |-> n, tmp |-> FALSE]
User(n) == [kind |-> "user", n |-> n, tmp |-> FALSE]
NoMsg == [kind |-> "none", n |-> 0, tmp |-> FALSE]
Msg == {Hello(n, t) : n \in 1..2, t \in BOOLEAN} \cup {NotTmp(n) : n \in 1..2}
         \cup UNION {{User(n) : n \in 1..u.user[s]} : u \in Setups, s \in Side}
IsTmpType(m) == m.kind \in {"hello", "nottmp"}       \* get_type() = type_tmp_c
IsInstant(m) == m.kind = "user" /\ m.n \in Instant   \* get_type() = type_instant_c

\* The two ways messages of tasks are executed; one may overtake the other.
Lane == {"instant", "queued"}
LaneOf(n) == IF n \in Instant THEN "instant" ELSE "queued"

\* What else an admin thread finds in its queue: remove_link_msg and quit_msg.
RemoveLink(l) == [kind |-> "remove", link |-> l]
Quit == [kind |-> "quit", link |-> NoLink]

\* The threads that call accept_net_link: both admin threads and a listener.
Thread == {<<"opener", "admin">>, <<"acceptor", "admin">>, <<"acceptor", "listener">>}
Admin(s) == <<s, "admin">>

VARIABLES
  setup,      \* the one of Setups
  at,         \* the link each net link hangs on (link.pm_link and net_link.pm_link)
  sendq,      \* pm_sendq of each link
  remotetmp,  \* pm_remotetmp of each link
  inmap,      \* the links in dm_peerarea.pm_peers
  master,     \* pm_masterlink is the known link
  remotemaster, \* pm_remotemaster of the known link
  slot,       \* pm_sendmsg of each net link
  sending,    \* the "ev" of the sending thread, between its write and on_sent
  via,        \* its "dalink"
  wire,       \* what each side wrote to the socket and the other has not read
  up,         \* the connection is not lost
  rpc,        \* the receiving thread: "run", "lost", "told", "done"
  closing,    \* its "lk" when the connection is lost
  admin,      \* pm_main_queue of each agent
  pc,         \* where the threads that call accept_net_link are
  lk,         \* the link each of them works on
  rtmp,       \* its copy of a pm_remotetmp
  carried,    \* "outqueue" of peer_hello_msg
  stopped,    \* a quit_msg stopped the agent
  \* history
  sent,       \* messages the tasks of each side sent
  arrived,    \* the number of the last one the other side's receiving thread took
  seen,       \* that of the last one of each lane it executed
  repeated,   \* a side executed a message it had executed before
  gone        \* each net link is destroyed

linkVars == <<at, sendq, remotetmp, inmap, master, remotemaster>>
sendVars == <<slot, sending, via>>
recvVars == <<wire, up, rpc, closing, admin>>
acceptVars == <<pc, lk, rtmp, carried, stopped>>
histVars == <<sent, arrived, seen, repeated, gone>>
vars == <<setup, linkVars, sendVars, recvVars, acceptVars, histVars>>

\* The link a side hangs its new net link on: a new temporary one, but a peer that
\* opens a connection does so for a link it already has.
FirstLink(s) == IF s = "opener" /\ ~setup.toMaster THEN "known" ELSE "tmp"

Holder == {"map", "master", "admin", "sender", "receiver", "listener"}

Init ==
  /\ setup \in Setups
  /\ at = [s \in Side |-> NoLink]
  /\ sendq = [s \in Side |-> [l \in Link |-> <<>>]]
  /\ remotetmp = [s \in Side |-> [l \in Link |-> TRUE]]
  /\ inmap = [s \in Side |-> {FirstLink(s)}]
  /\ master = [s \in Side |-> FALSE]
  /\ remotemaster = [s \in Side |-> FALSE]
  /\ slot = [s \in Side |-> NoMsg]
  /\ sending = [s \in Side |-> NoMsg]
  /\ via = [s \in Side |-> NoLink]
  /\ wire = [s \in Side |-> <<>>]
  /\ up = TRUE
  /\ rpc = [s \in Side |-> "run"]
  /\ closing = [s \in Side |-> NoLink]
  /\ admin = [s \in Side |-> <<>>]
  /\ pc = [th \in Thread |-> IF th = <<"acceptor", "admin">> THEN "idle" ELSE "attach"]
  /\ lk = [th \in Thread |-> IF th = <<"acceptor", "admin">> THEN NoLink ELSE FirstLink(th[1])]
  /\ rtmp = [th \in Thread |-> TRUE]
  /\ carried = [s \in Side |-> <<>>]
  /\ stopped = [s \in Side |-> FALSE]
  /\ sent = [s \in Side |-> 0]
  /\ arrived = [s \in Side |-> 0]
  /\ seen = [s \in Side |-> [l \in Lane |-> 0]]
  /\ repeated = [s \in Side |-> FALSE]
  /\ gone = [s \in Side |-> FALSE]

-----------------------------------------------------------------------------
(* The queue of a link and the slot of its net link                        *)

\* Mutant: messages of the tasks go out whatever the peer knows.
EligibleAlways(l, q, rt) == DOMAIN q

\* The messages unleash_a_msg may choose from, by their places in the queue.
Eligible(l, q, rt) == {i \in DOMAIN q : IsTmpType(q[i]) \/ ~(l = "tmp" \/ rt)}

\* unleash_a_msg on link l with queue q, the first of these: the slot of the net link
\* that hangs on a holds m already. The slot is overwritten, even when it is not empty.
Unleashed(a, l, q, rt, m) ==
  IF a = l /\ Eligible(l, q, rt) # {} THEN q[Min(Eligible(l, q, rt))] ELSE m

\* enqueue_msg of link l of side s.
Enqueue(s, l, m) ==
  /\ sendq' = [sendq EXCEPT ![s][l] = Append(@, m)]
  /\ slot' = [slot EXCEPT ![s] = Unleashed(at[s], l, sendq'[s][l], remotetmp[s][l], @)]

\* The counted pointers to link l of side s.
Holders(s, l) ==
  {h \in Holder :
     \/ h = "map" /\ l \in inmap[s]
     \/ h = "master" /\ l = "known" /\ master[s]
     \/ h = "admin" /\ pc[Admin(s)] # "idle"
     \/ h = "sender" /\ via[s] = l
     \/ h = "receiver" /\ closing[s] = l
     \/ h = "listener" /\ s = "acceptor" /\ l = lk[<<"acceptor", "listener">>]}

\* Holder h lets go of link l: the last one destroys it and, with it, the net link
\* that hangs on it, whose threads it waits for.
LetGo(s, l, h) ==
  gone' = [gone EXCEPT ![s] = @ \/ (at[s] = l /\ Holders(s, l) = {h})]

-----------------------------------------------------------------------------
(* accept_net_link, by a listener, by make_link_msg or by peer_hello_msg   *)

\* link::pm_link and net_link::pm_link are set, the slot is cleared, and the first
\* message of the link is unleashed.
SlotKept(m) == m                              \* mutant: set_link leaves the slot
SlotAtSetLink(m) == NoMsg

Attach(th) ==
  LET s == th[1]
      l == lk[th]
  IN /\ pc[th] = "attach"
     /\ at' = [at EXCEPT ![s] = l]
     /\ slot' = [slot EXCEPT ![s] = Unleashed(l, l, sendq[s][l], remotetmp[s][l],
                                              SlotAtSetLink(@))]
     /\ rtmp' = [rtmp EXCEPT ![th] = remotetmp[s][l]]
     /\ pc' = [pc EXCEPT ![th] = "hello"]
     /\ UNCHANGED <<setup, sendq, remotetmp, inmap, master, remotemaster, sending, via,
                    recvVars, lk, carried, stopped, histVars>>

\* A thread is done with its accept_net_link; the listener lets go of its link.
Leave(th) ==
  /\ pc' = [pc EXCEPT ![th] = "idle"]
  /\ lk' = [lk EXCEPT ![th] = NoLink]
  /\ IF th[2] = "listener" THEN LetGo(th[1], lk[th], "listener") ELSE UNCHANGED gone

SayHello(th) ==
  LET l == lk[th]
  IN /\ pc[th] = "hello"
     /\ Enqueue(th[1], l, Hello(IF l = "known" THEN 2 ELSE 1, rtmp[th]))
     /\ IF l = "known" THEN /\ pc' = [pc EXCEPT ![th] = "nottmp"]
                            /\ UNCHANGED <<lk, gone>>
                       ELSE Leave(th)
     /\ UNCHANGED <<setup, at, remotetmp, inmap, master, remotemaster, sending, via, recvVars,
                    rtmp, carried, stopped, sent, arrived, seen, repeated>>

\* The first nottmp_hello_msg, from accept_net_link; a peer that opened the
\* connection is done, the others are in peer_hello_msg.
SayNotTmp(th) ==
  /\ pc[th] = "nottmp"
  /\ Enqueue(th[1], lk[th], NotTmp(1))
  /\ IF FirstLink(th[1]) = "known" THEN Leave(th)
     ELSE pc' = [pc EXCEPT ![th] = "again"] /\ UNCHANGED <<lk, gone>>
  /\ UNCHANGED <<setup, at, remotetmp, inmap, master, remotemaster, sending, via, recvVars,
                 rtmp, carried, stopped, sent, arrived, seen, repeated>>

-----------------------------------------------------------------------------
(* The admin thread                                                        *)

\* The next message of the admin queue; its link is the one its net link hangs on
\* when the message is executed.
NextMsg(s) == Head(admin[s])
Dequeue(s, kind) ==
  /\ pc[Admin(s)] = "idle" /\ ~stopped[s]
  /\ admin[s] # <<>> /\ NextMsg(s).kind = kind
  /\ admin' = [admin EXCEPT ![s] = Tail(@)]

\* peer_hello_msg on a link of a true address: nothing to do.
OldHello(s) ==
  /\ Dequeue(s, "hello")
  /\ at[s] = "known"
  /\ UNCHANGED <<setup, linkVars, sendVars, wire, up, rpc, closing, acceptVars, histVars>>

\* peer_hello_msg on a temporary link: find or make the link of the true address
\* in the map and take the temporary one off it; a client has its master now.
Greet(s) ==
  /\ Dequeue(s, "hello")
  /\ at[s] = "tmp"
  /\ remotetmp' = [remotetmp EXCEPT ![s]["tmp"] = NextMsg(s).tmp]
  /\ inmap' = [inmap EXCEPT ![s] = {"known"}]
  /\ master' = [master EXCEPT ![s] = (setup.toMaster /\ s = "opener")]
  /\ pc' = [pc EXCEPT ![Admin(s)] = "detach"]
  /\ UNCHANGED <<setup, at, sendq, remotemaster, sendVars, wire, up, rpc, closing, lk, rtmp,
                 carried, stopped, histVars>>

\* srclk->accept_net_link(0)
Detach(s) ==
  /\ pc[Admin(s)] = "detach"
  /\ at' = [at EXCEPT ![s] = NoLink]
  /\ slot' = [slot EXCEPT ![s] = SlotAtSetLink(@)]
  /\ pc' = [pc EXCEPT ![Admin(s)] = "flush"]
  /\ UNCHANGED <<setup, sendq, remotetmp, inmap, master, remotemaster, sending, via, recvVars, lk,
                 rtmp, carried, stopped, histVars>>

\* Take over the queue and the flag of the temporary link, ...
Flush(s) ==
  /\ pc[Admin(s)] = "flush"
  /\ carried' = [carried EXCEPT ![s] = sendq[s]["tmp"]]
  /\ rtmp' = [rtmp EXCEPT ![Admin(s)] = remotetmp[s]["tmp"]]
  /\ sendq' = [sendq EXCEPT ![s]["tmp"] = <<>>]
  /\ pc' = [pc EXCEPT ![Admin(s)] = "append"]
  /\ UNCHANGED <<setup, at, remotetmp, inmap, master, remotemaster, sendVars, recvVars, lk,
                 stopped, histVars>>

\* ... behind the messages the tasks already queued; accept_net_link follows.
QueueDropped(q, r) == r                       \* mutant: the queue is replaced
Joined(q, r) == q \o r

MoveOver(s) ==
  /\ pc[Admin(s)] = "append"
  /\ remotetmp' = [remotetmp EXCEPT ![s]["known"] = rtmp[Admin(s)]]
  /\ sendq' = [sendq EXCEPT ![s]["known"] = Joined(@, carried[s])]
  /\ carried' = [carried EXCEPT ![s] = <<>>]
  /\ lk' = [lk EXCEPT ![Admin(s)] = "known"]
  /\ pc' = [pc EXCEPT ![Admin(s)] = "attach"]
  /\ UNCHANGED <<setup, at, inmap, master, remotemaster, sendVars, recvVars, rtmp, stopped,
                 histVars>>

\* The second nottmp_hello_msg, of peer_hello_msg itself.
SayNotTmpAgain(s) ==
  /\ pc[Admin(s)] = "again"
  /\ Enqueue(s, "known", NotTmp(2))
  /\ IF master[s] THEN pc' = [pc EXCEPT ![Admin(s)] = "report"] /\ UNCHANGED <<lk, gone>>
                  ELSE Leave(Admin(s))
  /\ UNCHANGED <<setup, at, remotetmp, inmap, master, remotemaster, sending, via, recvVars,
                 rtmp, carried, stopped, sent, arrived, seen, repeated>>

\* The client reports its state and marks the link as the one to its master.
MarkMaster(s) ==
  /\ pc[Admin(s)] = "report"
  /\ remotemaster' = [remotemaster EXCEPT ![s] = TRUE]
  /\ Leave(Admin(s))
  /\ UNCHANGED <<setup, at, sendq, remotetmp, inmap, master, sendVars, recvVars, rtmp, carried,
                 stopped, sent, arrived, seen, repeated>>

\* nottmp_hello_msg: the peer is on its true address, everything may go out.
StillTmp(b) == b                              \* mutant: the flag is not reset
AfterNotTmp(b) == FALSE

HearNotTmp(s) ==
  LET l == at[s]
  IN /\ Dequeue(s, "nottmp")
     /\ l \in Link
     /\ remotetmp' = [remotetmp EXCEPT ![s][l] = AfterNotTmp(@)]
     /\ slot' = [slot EXCEPT ![s] = Unleashed(l, l, sendq[s][l], remotetmp'[s][l], @)]
     /\ UNCHANGED <<setup, at, sendq, inmap, master, remotemaster, sending, via, wire, up,
                    rpc, closing, acceptVars, histVars>>

\* Message m of a task is executed.
Executed(s, m) ==
  /\ seen' = [seen EXCEPT ![s][LaneOf(m.n)] = m.n]
  /\ repeated' = [repeated EXCEPT ![s] = @ \/ m.n <= seen[s][LaneOf(m.n)]]

\* The admin thread executes one, none of type_instant_c.
Execute(s) ==
  /\ Dequeue(s, "user")
  /\ Executed(s, NextMsg(s))
  /\ UNCHANGED <<setup, linkVars, sendVars, wire, up, rpc, closing, acceptVars, sent, arrived,
                 gone>>

\* remove_link_msg
EraseLink(s) ==
  /\ Dequeue(s, "remove")
  /\ inmap' = [inmap EXCEPT ![s] = @ \ {NextMsg(s).link}]
  /\ LetGo(s, NextMsg(s).link, "map")
  /\ UNCHANGED <<setup, at, sendq, remotetmp, master, remotemaster, sendVars, wire, up, rpc,
                 closing, acceptVars, sent, arrived, seen, repeated>>

\* quit_msg(true): the handler of agent errors is called and the agent stopped.
StopAgent(s) ==
  /\ Dequeue(s, "quit")
  /\ stopped' = [stopped EXCEPT ![s] = TRUE]
  /\ UNCHANGED <<setup, linkVars, sendVars, wire, up, rpc, closing, pc, lk, rtmp, carried,
                 histVars>>

-----------------------------------------------------------------------------
(* The sending thread of a net link                                        *)

\* Empty the slot, note the link and write the message; a lost connection swallows
\* it. (The lock is let go before the write; when the bytes arrive is up to the peer's
\* read, which comes at any later time.)
Transmit(s) ==
  /\ sending[s] = NoMsg /\ ~gone[s]
  /\ slot[s] # NoMsg
  /\ sending' = [sending EXCEPT ![s] = slot[s]]
  /\ via' = [via EXCEPT ![s] = at[s]]
  /\ slot' = [slot EXCEPT ![s] = NoMsg]
  /\ wire' = IF up THEN [wire EXCEPT ![s] = Append(@, slot[s])] ELSE wire
  /\ UNCHANGED <<setup, linkVars, up, rpc, closing, admin, acceptVars, histVars>>

\* link::on_sent: the message leaves the queue it was taken from, if it is still
\* there, and the next one is unleashed; the thread lets go of the link.
FrontPopped(q, m) == IF q = <<>> THEN q ELSE Tail(q)     \* mutant: the first one goes
AfterSent(q, m) == RemoveFirst(q, m)

OnSent(s) ==
  LET l == via[s]
      q == AfterSent(sendq[s][l], sending[s])
  IN /\ sending[s] # NoMsg
     /\ sendq' = [sendq EXCEPT ![s][l] = q]
     /\ slot' = [slot EXCEPT ![s] = Unleashed(at[s], l, q, remotetmp[s][l], @)]
     /\ LetGo(s, l, "sender")
     /\ sending' = [sending EXCEPT ![s] = NoMsg]
     /\ via' = [via EXCEPT ![s] = NoLink]
     /\ UNCHANGED <<setup, at, remotetmp, inmap, master, remotemaster, recvVars, acceptVars,
                    sent, arrived, seen, repeated>>

-----------------------------------------------------------------------------
(* The receiving thread of a net link                                      *)

GoOn(s) == TRUE                               \* mutant: the thread does not wait
Hangs(s) == at[s] # NoLink

\* cluster_agent::enqueue_msg of a message that was read: one of type_instant_c is
\* executed at once, the others are left to the admin thread.
Take(s, m) ==
  \/ IsInstant(m) /\ Executed(s, m) /\ UNCHANGED admin
  \/ ~IsInstant(m) /\ admin' = [admin EXCEPT ![s] = Append(@, m)] /\ UNCHANGED <<seen, repeated>>

\* Read a message, wait until the net link hangs somewhere, and take it.
Receive(s) ==
  LET m == Head(wire[Peer(s)])
  IN /\ rpc[s] = "run"
     /\ Hangs(s)
     /\ wire[Peer(s)] # <<>>
     /\ wire' = [wire EXCEPT ![Peer(s)] = Tail(@)]
     /\ Take(s, m)
     /\ arrived' = IF m.kind = "user" THEN [arrived EXCEPT ![s] = m.n] ELSE arrived
     /\ UNCHANGED <<setup, linkVars, sendVars, up, rpc, closing, acceptVars, sent, gone>>

Lose ==
  /\ setup.mayLose /\ up
  /\ up' = FALSE
  /\ UNCHANGED <<setup, linkVars, sendVars, wire, rpc, closing, admin, acceptVars, histVars>>

\* The connection failed (what was under way is gone): look for the link, ...
LostConnection(s) ==
  /\ rpc[s] = "run" /\ ~up
  /\ wire' = [wire EXCEPT ![Peer(s)] = <<>>]
  /\ closing' = [closing EXCEPT ![s] = at[s]]
  /\ rpc' = [rpc EXCEPT ![s] = IF at[s] = NoLink THEN "done" ELSE "lost"]
  /\ UNCHANGED <<setup, linkVars, sendVars, up, admin, acceptVars, sent, arrived, seen, repeated, gone>>

\* ... have the admin thread take the link off the map, or stop the agent, ...
OnClose(s) ==
  /\ rpc[s] = "lost"
  /\ admin' = [admin EXCEPT ![s] = Append(@,
       IF closing[s] = "known" /\ remotemaster[s] THEN Quit ELSE RemoveLink(closing[s]))]
  /\ rpc' = [rpc EXCEPT ![s] = "told"]
  /\ UNCHANGED <<setup, linkVars, sendVars, wire, up, closing, acceptVars, histVars>>

\* ... let go of the link and end.
ReceiverEnds(s) ==
  /\ rpc[s] = "told"
  /\ rpc' = [rpc EXCEPT ![s] = "done"]
  /\ closing' = [closing EXCEPT ![s] = NoLink]
  /\ LetGo(s, closing[s], "receiver")
  /\ UNCHANGED <<setup, linkVars, sendVars, wire, up, admin, acceptVars, sent, arrived, seen, repeated>>

-----------------------------------------------------------------------------
(* The tasks                                                               *)

\* The first message for a peer whose link is not in the map makes the link (and
\* asks the peer, through the master, to connect).
MakeLink(s) ==
  /\ ~setup.toMaster
  /\ at[s] # "known" /\ "known" \notin inmap[s] /\ rpc[s] = "run"
  /\ inmap' = [inmap EXCEPT ![s] = @ \cup {"known"}]
  /\ UNCHANGED <<setup, at, sendq, remotetmp, master, remotemaster, sendVars, recvVars,
                 acceptVars, histVars>>

\* cluster_agent::enqueue_msg of a message for the other agent.
Send(s) ==
  /\ "known" \in inmap[s] \/ master[s]
  /\ ~stopped[s] /\ sent[s] < setup.user[s]
  /\ Enqueue(s, "known", User(sent[s] + 1))
  /\ sent' = [sent EXCEPT ![s] = @ + 1]
  /\ UNCHANGED <<setup, at, remotetmp, inmap, master, remotemaster, sending, via, recvVars,
                 acceptVars, arrived, seen, repeated, gone>>

-----------------------------------------------------------------------------

ThreadStep(th) == Attach(th) \/ SayHello(th) \/ SayNotTmp(th)

AdminStep(s) ==
  \/ OldHello(s) \/ Greet(s) \/ Detach(s) \/ Flush(s) \/ MoveOver(s)
  \/ SayNotTmpAgain(s) \/ MarkMaster(s) \/ HearNotTmp(s) \/ Execute(s)
  \/ EraseLink(s) \/ StopAgent(s)

SenderStep(s) == Transmit(s) \/ OnSent(s)

ReceiverStep(s) ==
  \/ Receive(s) \/ LostConnection(s) \/ OnClose(s) \/ ReceiverEnds(s)

Next ==
  \/ \E th \in Thread : ThreadStep(th)
  \/ \E s \in Side : \/ AdminStep(s) \/ SenderStep(s) \/ ReceiverStep(s)
                     \/ MakeLink(s) \/ Send(s)
  \/ Lose

Spec == Init /\ [][Next]_vars

\* Every thread goes on when it can; the tasks need not send, the net need not fail.
Fairness ==
  /\ \A th \in Thread : WF_vars(ThreadStep(th))
  /\ \A s \in Side : WF_vars(AdminStep(s)) /\ WF_vars(SenderStep(s)) /\ WF_vars(ReceiverStep(s))

FairSpec == Spec /\ Fairness

-----------------------------------------------------------------------------
(* Safety                                                                  *)

Queues == Seq(Msg)

TypeOK ==
  /\ setup \in Setups
  /\ at \in [Side -> Link \cup {NoLink}]
  /\ sendq \in [Side -> [Link -> Queues]]
  /\ remotetmp \in [Side -> [Link -> BOOLEAN]]
  /\ inmap \in [Side -> SUBSET Link]
  /\ master \in [Side -> BOOLEAN] /\ remotemaster \in [Side -> BOOLEAN]
  /\ slot \in [Side -> Msg \cup {NoMsg}]
  /\ sending \in [Side -> Msg \cup {NoMsg}]
  /\ via \in [Side -> Link \cup {NoLink}]
  /\ wire \in [Side -> Queues]
  /\ up \in BOOLEAN
  /\ rpc \in [Side -> {"run", "lost", "told", "done"}]
  /\ closing \in [Side -> Link \cup {NoLink}]
  /\ admin \in [Side -> Seq(Msg \cup {Quit} \cup {RemoveLink(l) : l \in Link})]
  /\ pc \in [Thread -> {"idle", "attach", "hello", "nottmp", "again", "report",
                        "detach", "flush", "append"}]
  /\ lk \in [Thread -> Link \cup {NoLink}]
  /\ rtmp \in [Thread -> BOOLEAN]
  /\ carried \in [Side -> Queues]
  /\ stopped \in [Side -> BOOLEAN]
  /\ \A s \in Side : /\ sent[s] \in 0..setup.user[s] /\ arrived[s] \in 0..setup.user[Peer(s)]
                     /\ seen[s] \in [Lane -> 0..setup.user[Peer(s)]]
  /\ repeated \in [Side -> BOOLEAN] /\ gone \in [Side -> BOOLEAN]

\* The assertion of the sending thread that "sometimes gets hit": a net link with a
\* message in its slot hangs on a link, whatever is detached, enqueued and sent
\* at the same time.
SlotHasLink == \A s \in Side : slot[s] # NoMsg => at[s] # NoLink

\* The assertions of the two hello messages: the net link they came by hangs on a
\* link when they are executed, and a temporary one is still in the map.
HelloFindsLink ==
  \A s \in Side :
     pc[Admin(s)] = "idle" /\ admin[s] # <<>> /\ IsTmpType(Head(admin[s])) =>
        at[s] = "known" \/ (at[s] = "tmp" /\ (Head(admin[s]).kind = "hello" => "tmp" \in inmap[s]))

\* The point of the handshake: a message of a task goes out only when the peer hung
\* the connection on the link with the sender's true address.
OnlyToKnown ==
  \A s \in Side :
     (\E m \in {slot[s], sending[s]} \cup Range(wire[s]) : m.kind = "user") =>
        at[Peer(s)] = "known"

\* Until it is executed, a message of a task is in the queue of its sender's link or
\* on its way, through the overwritten slots and the change of links.
Holds(q, n) == \E i \in DOMAIN q : q[i] = User(n)
OnItsWay(s, n) ==
  \/ Holds(sendq[s]["known"], n)
  \/ Holds(wire[s], n)
  \/ Holds(admin[Peer(s)], n)
NothingDropped ==
  up => \A s \in Side : \A n \in 1..sent[s] :
          n <= seen[Peer(s)][LaneOf(n)] \/ OnItsWay(s, n)

\* In order, none skipped, but for instant ones that overtake queued ones: Channel,
\* with the connection that may be lost.
Chan == INSTANCE Channel
KeepsOrder == Chan!Spec

\* A message is sent, and so executed, once.
ExactlyOnce == \A s \in Side : ~repeated[s]

-----------------------------------------------------------------------------
(* Liveness                                                                *)

\* A connection that holds delivers: every message gets through, though each side
\* holds its messages back until it hears of the other.
Delivers == Chan!Reliable
=============================================================================
