---------------------------- MODULE NetLinkProofs ----------------------------
(***************************************************************************)
(* Theorems about NetLink, for any number of messages; the last is that it *)
(* implements Channel.                                                     *)
(***************************************************************************)
EXTENDS NetLink, WellFoundedInduction, TLAPS

-----------------------------------------------------------------------------
(* A message in the slot of a net link means that it hangs on a link       *)

\* The parts of the type invariant this takes: the messages need no type.
Shapes ==
  /\ at \in [Side -> Link \cup {NoLink}]
  /\ via \in [Side -> Link \cup {NoLink}]
  /\ pc \in [Thread -> {"idle", "attach", "hello", "nottmp", "again", "report",
                        "detach", "flush", "append"}]
  /\ lk \in [Thread -> Link \cup {NoLink}]
  /\ slot = [s \in Side |-> slot[s]]
  /\ sending = [s \in Side |-> sending[s]]

\* A thread inside accept_net_link has a link to work on, and so has a sending thread
\* between its write and on_sent.
AttachHasLink == \A th \in Thread : pc[th] \in {"attach", "hello", "nottmp"} => lk[th] \in Link
SendingHasLink == \A s \in Side : sending[s] # NoMsg => via[s] \in Link

HangsInv == Shapes /\ AttachHasLink /\ SendingHasLink /\ SlotHasLink

\* Unleashing a message on a link that no net link hangs on leaves the slot alone.
LEMMA UnleashedNeedsLink ==
  ASSUME NEW a, NEW l \in Link, NEW q, NEW rt, NEW m, Unleashed(a, l, q, rt, m) # NoMsg
  PROVE  m # NoMsg \/ a \in Link
  BY DEF Unleashed

\* enqueue_msg fills the slot only of a net link that hangs.
LEMMA EnqueueNeedsLink ==
  ASSUME Shapes, SlotHasLink, NEW s \in Side, NEW l \in Link, NEW m, Enqueue(s, l, m),
         at' = at
  PROVE  (slot = [x \in Side |-> slot[x]])' /\ SlotHasLink'
<1>1. (slot = [x \in Side |-> slot[x]])'
  BY DEF Shapes, Enqueue
<1>2. \A x \in Side \ {s} : slot'[x] = slot[x]
  BY DEF Shapes, Enqueue
<1>3. slot'[s] # NoMsg => slot[s] # NoMsg \/ at[s] \in Link
  <2>1. slot'[s] = Unleashed(at[s], l, sendq'[s][l], remotetmp[s][l], slot[s])
    BY DEF Shapes, Enqueue
  <2> QED
    BY <2>1, UnleashedNeedsLink
<1> QED
  BY <1>1, <1>2, <1>3 DEF SlotHasLink, Shapes, Link, NoLink

\* The end of accept_net_link.
LEMMA LeaveKeeps ==
  ASSUME Shapes, AttachHasLink, NEW th \in Thread, Leave(th)
  PROVE  /\ pc' \in [Thread -> {"idle", "attach", "hello", "nottmp", "again", "report",
                                "detach", "flush", "append"}]
         /\ lk' \in [Thread -> Link \cup {NoLink}]
         /\ AttachHasLink'
  BY DEF Shapes, AttachHasLink, Leave

LEMMA HangsInit == Init => HangsInv
  BY DEF Init, HangsInv, Shapes, AttachHasLink, SendingHasLink, SlotHasLink, FirstLink,
         Link, NoLink, NoMsg, Thread, Side

LEMMA HangsStep == HangsInv /\ [Next]_vars => HangsInv'
<1> SUFFICES ASSUME HangsInv, [Next]_vars PROVE HangsInv'
  OBVIOUS
<1> USE DEF HangsInv
<1> \A s \in Side : Admin(s) \in Thread
  BY DEF Side, Admin, Thread
<1> \A th \in Thread : th[1] \in Side
  BY DEF Side, Thread
<1>1. ASSUME NEW th \in Thread, Attach(th) PROVE HangsInv'
  <2> DEFINE s == th[1]
  <2>1. lk[th] \in Link
    BY <1>1 DEF AttachHasLink, Attach
  <2>2. Shapes' /\ AttachHasLink' /\ SendingHasLink'
    BY <1>1, <2>1 DEF Attach, Shapes, AttachHasLink, SendingHasLink
  <2>3. SlotHasLink'
    BY <1>1, <2>1 DEF Attach, Shapes, SlotHasLink, Link, NoLink
  <2> QED
    BY <2>2, <2>3
<1>2. ASSUME NEW th \in Thread, SayHello(th) PROVE HangsInv'
  <2>1. lk[th] \in Link
    BY <1>2 DEF AttachHasLink, SayHello
  <2>2. (slot = [x \in Side |-> slot[x]])' /\ SlotHasLink'
    BY <1>2, <2>1, EnqueueNeedsLink DEF SayHello
  <2>3. /\ pc' \in [Thread -> {"idle", "attach", "hello", "nottmp", "again", "report",
                               "detach", "flush", "append"}]
        /\ lk' \in [Thread -> Link \cup {NoLink}]
        /\ AttachHasLink'
    BY <1>2, <2>1, LeaveKeeps DEF SayHello, Shapes, AttachHasLink
  <2> QED
    BY <1>2, <2>2, <2>3 DEF SayHello, Shapes, SendingHasLink
<1>3. ASSUME NEW th \in Thread, SayNotTmp(th) PROVE HangsInv'
  <2>1. lk[th] \in Link
    BY <1>3 DEF AttachHasLink, SayNotTmp
  <2>2. (slot = [x \in Side |-> slot[x]])' /\ SlotHasLink'
    BY <1>3, <2>1, EnqueueNeedsLink DEF SayNotTmp
  <2>3. /\ pc' \in [Thread -> {"idle", "attach", "hello", "nottmp", "again", "report",
                               "detach", "flush", "append"}]
        /\ lk' \in [Thread -> Link \cup {NoLink}]
        /\ AttachHasLink'
    BY <1>3, <2>1, LeaveKeeps DEF SayNotTmp, Shapes, AttachHasLink
  <2> QED
    BY <1>3, <2>2, <2>3 DEF SayNotTmp, Shapes, SendingHasLink
<1>4. ASSUME NEW s \in Side, Greet(s) \/ Flush(s) \/ MoveOver(s) PROVE HangsInv'
  BY <1>4 DEF Greet, Flush, MoveOver, sendVars, recvVars, Shapes, AttachHasLink,
              SendingHasLink, SlotHasLink, Link
<1>5. ASSUME NEW s \in Side, Detach(s) PROVE HangsInv'
  BY <1>5 DEF Detach, SlotAtSetLink, Shapes, AttachHasLink, SendingHasLink, SlotHasLink
<1>6. ASSUME NEW s \in Side, SayNotTmpAgain(s) PROVE HangsInv'
  <2>1. (slot = [x \in Side |-> slot[x]])' /\ SlotHasLink'
    BY <1>6, EnqueueNeedsLink DEF SayNotTmpAgain, Link
  <2>2. /\ pc' \in [Thread -> {"idle", "attach", "hello", "nottmp", "again", "report",
                               "detach", "flush", "append"}]
        /\ lk' \in [Thread -> Link \cup {NoLink}]
        /\ AttachHasLink'
    BY <1>6, LeaveKeeps DEF SayNotTmpAgain, Shapes, AttachHasLink
  <2> QED
    BY <1>6, <2>1, <2>2 DEF SayNotTmpAgain, Shapes, SendingHasLink
<1>7. ASSUME NEW s \in Side, MarkMaster(s) PROVE HangsInv'
  BY <1>7, LeaveKeeps DEF MarkMaster, sendVars, Shapes, SendingHasLink, SlotHasLink
<1>8. ASSUME NEW s \in Side, HearNotTmp(s) PROVE HangsInv'
  <2>1. slot'[s] # NoMsg => at[s] \in Link
    BY <1>8 DEF HearNotTmp
  <2>2. (slot = [x \in Side |-> slot[x]])' /\ \A x \in Side \ {s} : slot'[x] = slot[x]
    <3>1. PICK m : slot' = [slot EXCEPT ![s] = m]
      BY <1>8, Zenon DEF HearNotTmp
    <3> QED
      BY <3>1 DEF Shapes
  <2>3. UNCHANGED <<at, via, pc, lk, sending>>
    BY <1>8 DEF HearNotTmp, acceptVars
  <2> QED
    BY <2>1, <2>2, <2>3 DEF Shapes, AttachHasLink, SendingHasLink, SlotHasLink, Link, NoLink
<1>9. ASSUME NEW s \in Side, OldHello(s) \/ Execute(s) \/ EraseLink(s) \/ StopAgent(s)
      PROVE HangsInv'
  BY <1>9 DEF OldHello, Execute, EraseLink, StopAgent, linkVars, sendVars, acceptVars,
              Shapes, AttachHasLink, SendingHasLink, SlotHasLink
<1>10. ASSUME NEW s \in Side, Transmit(s) PROVE HangsInv'
  BY <1>10 DEF Transmit, linkVars, acceptVars, Shapes, AttachHasLink, SendingHasLink,
               SlotHasLink, Link, NoLink
<1>11. ASSUME NEW s \in Side, OnSent(s) PROVE HangsInv'
  <2>1. via[s] \in Link
    BY <1>11 DEF OnSent, SendingHasLink
  <2>2. slot'[s] # NoMsg => slot[s] # NoMsg \/ at[s] \in Link
    BY <1>11, <2>1, UnleashedNeedsLink DEF OnSent, Shapes
  <2> QED
    BY <1>11, <2>2 DEF OnSent, acceptVars, Shapes, AttachHasLink, SendingHasLink,
                       SlotHasLink, Link, NoLink
<1>12. ASSUME NEW s \in Side, ReceiverStep(s) \/ MakeLink(s) PROVE HangsInv'
  BY <1>12 DEF ReceiverStep, Receive, LostConnection, OnClose, ReceiverEnds, MakeLink,
               linkVars, sendVars, acceptVars, Shapes, AttachHasLink, SendingHasLink,
               SlotHasLink
<1>13. ASSUME NEW s \in Side, Send(s) PROVE HangsInv'
  <2>1. (slot = [x \in Side |-> slot[x]])' /\ SlotHasLink'
    BY <1>13, EnqueueNeedsLink DEF Send, Link
  <2> QED
    BY <1>13, <2>1 DEF Send, acceptVars, Shapes, AttachHasLink, SendingHasLink
<1>14. ASSUME Lose \/ UNCHANGED vars PROVE HangsInv'
  BY <1>14 DEF Lose, vars, linkVars, sendVars, acceptVars, Shapes, AttachHasLink,
               SendingHasLink, SlotHasLink
<1> QED
  BY <1>1, <1>2, <1>3, <1>4, <1>5, <1>6, <1>7, <1>8, <1>9, <1>10, <1>11, <1>12, <1>13,
     <1>14 DEF Next, ThreadStep, AdminStep, SenderStep

\* The assertion of send_thread_func that "sometimes gets hit" cannot fail over one
\* connection: whatever is detached, enqueued and sent, a net link with a message in
\* its slot hangs on a link.
THEOREM SlotNeverHangsLoose == Spec => []SlotHasLink
<1>1. HangsInv => SlotHasLink
  BY DEF HangsInv
<1> QED
  BY HangsInit, HangsStep, <1>1, PTL DEF Spec

-----------------------------------------------------------------------------
(* Where the threads are, and what their net link hangs on                 *)

Listener == <<"acceptor", "listener">>

\* The listener hangs the net link on a temporary link, before the admin thread has
\* anything to do.
ListenerInv ==
  /\ pc[Listener] \in {"idle", "attach", "hello"}
  /\ pc[Listener] # "idle" => lk[Listener] = "tmp"
  /\ pc[Listener] = "attach" => pc[Admin("acceptor")] = "idle" /\ at["acceptor"] = NoLink

\* The admin thread takes it off the temporary link and hangs it on the known one: from
\* then on it stays there.
AdminInv ==
  \A s \in Side :
    /\ pc[Admin(s)] = "detach" => at[s] = "tmp"
    /\ pc[Admin(s)] \in {"flush", "append", "attach"} => at[s] = NoLink
    /\ pc[Admin(s)] = "hello" => at[s] = lk[Admin(s)]
    /\ pc[Admin(s)] \in {"nottmp", "again", "report"} => at[s] = "known"
    /\ pc[Admin(s)] = "nottmp" => lk[Admin(s)] = "known"

PlacesInv == HangsInv /\ ListenerInv /\ AdminInv

LEMMA Threads ==
  /\ Listener \in Thread /\ Listener[1] = "acceptor" /\ "acceptor" \in Side
  /\ \A th \in Thread : th[1] \in Side /\ (th # Listener => th = Admin(th[1]))
  /\ \A s \in Side : /\ Admin(s) \in Thread /\ Admin(s) # Listener /\ Admin(s)[1] = s
                     /\ Peer(s) \in Side /\ Peer(Peer(s)) = s
                     /\ \A r \in Side : Admin(s) = Admin(r) => s = r
BY DEF Listener, Thread, Side, Admin, Peer

LEMMA PlacesInit == Init => PlacesInv
<1> SUFFICES ASSUME Init PROVE PlacesInv
  OBVIOUS
<1>1. ListenerInv
  BY DEF Init, ListenerInv, Listener, Thread, Side, Admin, FirstLink
<1>2. AdminInv
  BY DEF Init, AdminInv, Thread, Side, Admin, FirstLink
<1> QED
  BY <1>1, <1>2, HangsInit DEF PlacesInv

\* A thread moves: what that takes of where it goes.
Fits(place, l, a) ==
  /\ place = "detach" => a = "tmp"
  /\ place \in {"flush", "append", "attach"} => a = NoLink
  /\ place = "hello" => a = l
  /\ place \in {"nottmp", "again", "report"} => a = "known"
  /\ place = "nottmp" => l = "known"

LEMMA AdminMoves ==
  ASSUME PlacesInv, NEW s \in Side, NEW place, NEW l, NEW a, Fits(place, l, a),
         pc' = [pc EXCEPT ![Admin(s)] = place], lk' = [lk EXCEPT ![Admin(s)] = l],
         at' = [at EXCEPT ![s] = a], s = "acceptor" => pc[Listener] # "attach"
  PROVE  ListenerInv' /\ AdminInv'
<1>1. /\ pc'[Admin(s)] = place /\ lk'[Admin(s)] = l /\ at'[s] = a
      /\ pc'[Listener] = pc[Listener] /\ lk'[Listener] = lk[Listener]
  BY Threads DEF PlacesInv, HangsInv, Shapes
<1>2. \A r \in Side \ {s} : /\ pc'[Admin(r)] = pc[Admin(r)] /\ lk'[Admin(r)] = lk[Admin(r)]
                           /\ at'[r] = at[r]
  BY Threads DEF PlacesInv, HangsInv, Shapes
<1>3. ListenerInv'
  BY <1>1, <1>2, Threads DEF PlacesInv, ListenerInv
<1>4. AdminInv'
  BY <1>1, <1>2 DEF PlacesInv, AdminInv, Fits
<1> QED
  BY <1>3, <1>4

LEMMA ListenerMoves ==
  ASSUME PlacesInv, NEW place \in {"idle", "hello"}, NEW l, place = "hello" => l = "tmp",
         pc' = [pc EXCEPT ![Listener] = place], lk' = [lk EXCEPT ![Listener] = l],
         \/ at' = at
         \/ pc[Listener] = "attach" /\ \E a : at' = [at EXCEPT !["acceptor"] = a]
  PROVE  ListenerInv' /\ AdminInv'
<1>1. pc'[Listener] = place /\ lk'[Listener] = l
  BY Threads DEF PlacesInv, HangsInv, Shapes
<1>2. \A r \in Side : pc'[Admin(r)] = pc[Admin(r)] /\ lk'[Admin(r)] = lk[Admin(r)]
  BY Threads DEF PlacesInv, HangsInv, Shapes
<1>3. ListenerInv'
  BY <1>1 DEF ListenerInv
<1>4. CASE at' = at
  BY <1>2, <1>3, <1>4 DEF PlacesInv, AdminInv
<1>5. CASE pc[Listener] = "attach" /\ \E a : at' = [at EXCEPT !["acceptor"] = a]
  <2>1. pc[Admin("acceptor")] = "idle"
    BY <1>5 DEF PlacesInv, ListenerInv
  <2>2. \A r \in Side \ {"acceptor"} : at'[r] = at[r]
    BY <1>5 DEF PlacesInv, HangsInv, Shapes
  <2> QED
    BY <1>2, <1>3, <2>1, <2>2 DEF PlacesInv, AdminInv
<1> QED
  BY <1>4, <1>5

\* Whoever has a net link on its known link, keeps it there.
KnownStays == \A s \in Side : at[s] = "known" => at'[s] = "known"

\* What an action that leaves the net link where it is does to a thread.
LEMMA AdminGoesOn ==
  ASSUME PlacesInv, NEW s \in Side, NEW place, NEW l, Fits(place, l, at[s]), at' = at,
         pc' = [pc EXCEPT ![Admin(s)] = place],
         lk' = [lk EXCEPT ![Admin(s)] = l] \/ (l = lk[Admin(s)] /\ UNCHANGED lk),
         s = "acceptor" => pc[Listener] # "attach"
  PROVE  ListenerInv' /\ AdminInv'
<1>1. at' = [at EXCEPT ![s] = at[s]]
  BY DEF PlacesInv, HangsInv, Shapes
<1>2. lk' = [lk EXCEPT ![Admin(s)] = l]
  BY Threads DEF PlacesInv, HangsInv, Shapes
<1> QED
  BY <1>1, <1>2, AdminMoves

LEMMA AdminLeaves ==
  ASSUME PlacesInv, NEW s \in Side, Leave(Admin(s)), at' = at,
         s = "acceptor" => pc[Listener] # "attach"
  PROVE  ListenerInv' /\ AdminInv'
<1>1. Fits("idle", NoLink, at[s])
  BY DEF Fits
<1> QED
  BY <1>1, AdminGoesOn DEF Leave

LEMMA PlacesStep == PlacesInv /\ [Next]_vars => PlacesInv' /\ KnownStays
<1> SUFFICES ASSUME PlacesInv, [Next]_vars PROVE ListenerInv' /\ AdminInv' /\ KnownStays
  BY HangsStep DEF PlacesInv
<1>1. /\ \A s \in Side : at[s] \in Link \cup {NoLink}
      /\ \A th \in Thread : pc[th] \in {"attach", "hello", "nottmp"} => lk[th] \in Link
  BY DEF PlacesInv, HangsInv, Shapes, AttachHasLink
<1>2. \A s \in Side : s = "acceptor" /\ pc[Admin(s)] # "idle" => pc[Listener] # "attach"
  BY DEF PlacesInv, ListenerInv
<1>3. at' = at => KnownStays
  BY DEF KnownStays
<1>4. ASSUME NEW th \in Thread, Attach(th) PROVE ListenerInv' /\ AdminInv' /\ KnownStays
  <2> DEFINE s == th[1]
  <2>1. /\ pc[th] = "attach" /\ pc' = [pc EXCEPT ![th] = "hello"] /\ UNCHANGED lk
        /\ at' = [at EXCEPT ![s] = lk[th]] /\ s \in Side
    BY <1>4, Threads DEF Attach
  <2>2. lk' = [lk EXCEPT ![th] = lk[th]]
    BY <2>1 DEF PlacesInv, HangsInv, Shapes
  <2>3. at[s] = NoLink
    BY <2>1, Threads DEF PlacesInv, ListenerInv, AdminInv
  <2>4. KnownStays
    BY <2>1, <2>3 DEF KnownStays, NoLink, PlacesInv, HangsInv, Shapes
  <2>5. CASE th = Listener
    BY <2>1, <2>2, <2>4, <2>5, ListenerMoves, Threads DEF PlacesInv, ListenerInv
  <2>6. CASE th = Admin(s)
    BY <1>2, <2>1, <2>2, <2>4, <2>6, AdminMoves DEF Fits
  <2> QED
    BY <2>5, <2>6, Threads
<1>5. ASSUME NEW th \in Thread, SayHello(th) PROVE ListenerInv' /\ AdminInv' /\ KnownStays
  <2> DEFINE s == th[1]
  <2>1. /\ pc[th] = "hello" /\ at' = at /\ s \in Side
        /\ \/ /\ lk[th] = "known" /\ pc' = [pc EXCEPT ![th] = "nottmp"] /\ UNCHANGED lk
           \/ lk[th] # "known" /\ Leave(th)
    BY <1>5, Threads DEF SayHello
  <2>2. CASE th = Listener
    BY <1>3, <2>1, <2>2, ListenerMoves DEF PlacesInv, ListenerInv, Leave
  <2>3. CASE th = Admin(s)
    <3>1. at[s] = lk[th]
      BY <2>1, <2>3 DEF PlacesInv, AdminInv
    <3>2. CASE lk[th] = "known"
      BY <1>2, <1>3, <2>1, <2>3, <3>1, <3>2, AdminGoesOn DEF Fits
    <3>3. CASE Leave(th)
      <4> HIDE DEF s
      <4> QED
        BY <1>2, <1>3, <2>1, <2>3, <3>3, AdminLeaves
    <3> QED
      BY <2>1, <3>2, <3>3
  <2> QED
    BY <2>2, <2>3, Threads
<1>6. ASSUME NEW th \in Thread, SayNotTmp(th) PROVE ListenerInv' /\ AdminInv' /\ KnownStays
  <2> DEFINE s == th[1]
  <2>1. /\ pc[th] = "nottmp" /\ at' = at /\ s \in Side
        /\ (pc' = [pc EXCEPT ![th] = "again"] /\ UNCHANGED lk) \/ Leave(th)
    BY <1>6, Threads DEF SayNotTmp
  <2>2. th = Admin(s)
    BY <2>1, Threads DEF PlacesInv, ListenerInv
  <2>3. at[s] = "known"
    BY <2>1, <2>2 DEF PlacesInv, AdminInv
  <2>4. CASE Leave(th)
    <3> HIDE DEF s
    <3> QED
      BY <1>2, <1>3, <2>1, <2>2, <2>4, AdminLeaves
  <2>5. CASE pc' = [pc EXCEPT ![th] = "again"] /\ UNCHANGED lk
    <3> HIDE DEF s
    <3> QED
      BY <1>2, <1>3, <2>1, <2>2, <2>3, <2>5, AdminGoesOn DEF Fits
  <2> QED
    BY <2>1, <2>4, <2>5
<1>7. ASSUME NEW s \in Side, Greet(s) PROVE ListenerInv' /\ AdminInv' /\ KnownStays
  <2>1. /\ at[s] = "tmp" /\ at' = at /\ pc' = [pc EXCEPT ![Admin(s)] = "detach"]
        /\ UNCHANGED lk
    BY <1>7 DEF Greet
  <2>2. s = "acceptor" => pc[Listener] # "attach"
    BY <2>1 DEF PlacesInv, ListenerInv, NoLink
  <2> QED
    BY <1>3, <2>1, <2>2, AdminGoesOn DEF Fits
<1>8. ASSUME NEW s \in Side, Detach(s) PROVE ListenerInv' /\ AdminInv' /\ KnownStays
  <2>1. /\ pc[Admin(s)] = "detach" /\ at' = [at EXCEPT ![s] = NoLink]
        /\ pc' = [pc EXCEPT ![Admin(s)] = "flush"] /\ UNCHANGED lk
    BY <1>8 DEF Detach
  <2>2. lk' = [lk EXCEPT ![Admin(s)] = lk[Admin(s)]]
    BY <2>1, Threads DEF PlacesInv, HangsInv, Shapes
  <2>3. at[s] = "tmp"
    BY <2>1 DEF PlacesInv, AdminInv
  <2>4. KnownStays
    BY <2>1, <2>3 DEF KnownStays, PlacesInv, HangsInv, Shapes
  <2> QED
    BY <1>2, <2>1, <2>2, <2>4, AdminMoves DEF Fits
<1>9. ASSUME NEW s \in Side, Flush(s) PROVE ListenerInv' /\ AdminInv' /\ KnownStays
  <2>1. /\ pc[Admin(s)] = "flush" /\ at' = at /\ pc' = [pc EXCEPT ![Admin(s)] = "append"]
        /\ UNCHANGED lk
    BY <1>9 DEF Flush
  <2> QED
    BY <1>2, <1>3, <2>1, AdminGoesOn DEF Fits, PlacesInv, AdminInv
<1>10. ASSUME NEW s \in Side, MoveOver(s) PROVE ListenerInv' /\ AdminInv' /\ KnownStays
  <2>1. /\ pc[Admin(s)] = "append" /\ at' = at /\ pc' = [pc EXCEPT ![Admin(s)] = "attach"]
        /\ lk' = [lk EXCEPT ![Admin(s)] = "known"]
    BY <1>10 DEF MoveOver
  <2> QED
    BY <1>2, <1>3, <2>1, AdminGoesOn DEF Fits, PlacesInv, AdminInv
<1>11. ASSUME NEW s \in Side, SayNotTmpAgain(s) \/ MarkMaster(s)
       PROVE  ListenerInv' /\ AdminInv' /\ KnownStays
  <2>1. /\ pc[Admin(s)] \in {"again", "report"} /\ at' = at
        /\ (pc' = [pc EXCEPT ![Admin(s)] = "report"] /\ UNCHANGED lk) \/ Leave(Admin(s))
    BY <1>11 DEF SayNotTmpAgain, MarkMaster
  <2>2. at[s] = "known"
    BY <2>1 DEF PlacesInv, AdminInv
  <2>3. CASE Leave(Admin(s))
    BY <1>2, <1>3, <2>1, <2>3, AdminLeaves
  <2>4. CASE pc' = [pc EXCEPT ![Admin(s)] = "report"] /\ UNCHANGED lk
    BY <1>2, <1>3, <2>1, <2>2, <2>4, AdminGoesOn DEF Fits
  <2> QED
    BY <2>1, <2>3, <2>4
<1>12. CASE UNCHANGED <<at, pc, lk>>
  BY <1>3, <1>12 DEF PlacesInv, ListenerInv, AdminInv
<1>13. ASSUME NEW s \in Side,
              \/ OldHello(s) \/ HearNotTmp(s) \/ Execute(s) \/ EraseLink(s) \/ StopAgent(s)
              \/ SenderStep(s) \/ ReceiverStep(s) \/ MakeLink(s) \/ Send(s)
       PROVE  UNCHANGED <<at, pc, lk>>
  BY <1>13 DEF OldHello, HearNotTmp, Execute, EraseLink, StopAgent, SenderStep, Transmit, OnSent,
               ReceiverStep, Receive, LostConnection, OnClose, ReceiverEnds, MakeLink, Send,
               linkVars, acceptVars
<1>14. ASSUME Lose \/ UNCHANGED vars PROVE UNCHANGED <<at, pc, lk>>
  BY <1>14 DEF Lose, vars, linkVars, acceptVars
<1> QED
  BY <1>4, <1>5, <1>6, <1>7, <1>8, <1>9, <1>10, <1>11, <1>12, <1>13, <1>14
     DEF Next, ThreadStep, AdminStep

-----------------------------------------------------------------------------
(* What the messages and the flags say of where the net links hang         *)

Mess == [kind : {"hello", "nottmp", "user"}, n : Nat, tmp : BOOLEAN]
Notice == {Quit} \cup {RemoveLink(l) : l \in Link \cup {NoLink}}

\* The messages side s tells no lie with, with the net links at a: a nottmp_hello_msg
\* says that s is on the known link, a hello that finds its peer not temporary says it
\* of the peer.
Honest(a, s) ==
  {m \in Mess : /\ m.kind = "nottmp" => a[s] = "known"
                /\ m.kind = "hello" /\ ~m.tmp => a[Peer(s)] = "known"}

\* Those it may let out: messages of tasks only to a peer on its known link.
Outgoing(a, s) == {m \in Honest(a, s) : m.kind = "user" => a[Peer(s)] = "known"}

\* The flags know less than is the case.
FlagsInv ==
  /\ remotetmp \in [Side -> [Link -> BOOLEAN]]
  /\ rtmp \in [Thread -> BOOLEAN]
  /\ \A s \in Side, l \in Link : ~remotetmp[s][l] => at[Peer(s)] = "known"
  /\ \A th \in Thread : ~rtmp[th] => at[Peer(th[1])] = "known"

\* The messages a side has queued, and those it has let out.
QueuedInv ==
  /\ sendq \in [Side -> [Link -> Seq(Mess)]]
  /\ carried \in [Side -> Seq(Mess)]
  /\ \A s \in Side : carried[s] \in Seq(Honest(at, s))
  /\ \A s \in Side, l \in Link : sendq[s][l] \in Seq(Honest(at, s))
OutInv ==
  /\ wire \in [Side -> Seq(Mess)]
  /\ \A s \in Side : /\ slot[s] \in Outgoing(at, s) \cup {NoMsg}
                     /\ sending[s] \in Outgoing(at, s) \cup {NoMsg}
                     /\ wire[s] \in Seq(Outgoing(at, s))
InInv ==
  /\ admin \in [Side -> Seq(Mess \cup Notice)]
  /\ \A s \in Side : admin[s] \in Seq(Outgoing(at, Peer(s)) \cup Notice)
TellInv == FlagsInv /\ QueuedInv /\ OutInv /\ InInv /\ sent \in [Side -> Nat]

\* Nothing becomes a lie.
LEMMA StillHonest ==
  ASSUME KnownStays, NEW s \in Side
  PROVE  Honest(at, s) \subseteq Honest(at', s) /\ Outgoing(at, s) \subseteq Outgoing(at', s)
BY Threads DEF KnownStays, Honest, Outgoing

LEMMA SeqGrows ==
  ASSUME NEW S, NEW T, S \subseteq T, NEW q \in Seq(S)
  PROVE  q \in Seq(T)
OBVIOUS

\* A set of numbers that is not empty has a least one.
LEMMA Least ==
  ASSUME NEW S \in SUBSET Nat, S # {}
  PROVE  Min(S) \in S /\ \A i \in S : Min(S) <= i
<1>1. \E i \in S : \A j \in S : i <= j
  <2> DEFINE R == OpToRel(<, Nat)
  <2>1. PICK i \in S : \A j \in S : ~(<<j, i>> \in R)
    <3>1. IsWellFoundedOn(R, Nat)
      BY NatLessThanWellFounded
    <3> HIDE DEF R
    <3> QED
      BY <3>1, WFMin
  <2>2. ASSUME NEW j \in S PROVE i <= j
    <3> DEFINE e == <<j, i>>
    <3>1. i \in Nat /\ j \in Nat /\ e \notin R
      BY <2>1
    <3>2. e \in Nat \X Nat /\ e[1] = j /\ e[2] = i
      BY <3>1
    <3>3. ~(e[1] < e[2])
      <4> HIDE DEF e
      <4> QED
        BY <3>1, <3>2 DEF OpToRel
    <3>4. i \in Nat /\ j \in Nat /\ ~(j < i)
      BY <3>1, <3>2, <3>3, Zenon
    <3> HIDE DEF R, e
    <3> QED
      BY <3>4
  <2> QED
    BY <2>2
<1> QED
  BY <1>1 DEF Min

\* unleash_a_msg lets out an honest message of its queue, one of a task only when the
\* peer is known to be on its known link.
LEMMA UnleashedIsOutgoing ==
  ASSUME NEW s \in Side, NEW a, NEW l \in Link, NEW q \in Seq(Honest(at, s)), NEW rt \in BOOLEAN,
         ~rt => at[Peer(s)] = "known", NEW m \in Outgoing(at, s) \cup {NoMsg}
  PROVE  Unleashed(a, l, q, rt, m) \in Outgoing(at, s) \cup {NoMsg}
<1> DEFINE E == Eligible(l, q, rt)
<1>1. CASE a = l /\ E # {}
  <2>1. E \in SUBSET Nat
    BY DEF Eligible
  <2>2. Min(E) \in E
    <3> HIDE DEF E
    <3> QED
      BY <1>1, <2>1, Least
  <2>3. PICK i \in DOMAIN q : i = Min(E) /\ (IsTmpType(q[i]) \/ ~rt)
    BY <2>2 DEF Eligible
  <2>4. q[i] \in Honest(at, s)
    OBVIOUS
  <2>5. q[i] \in Outgoing(at, s)
    BY <2>3, <2>4 DEF Outgoing, IsTmpType
  <2> QED
    BY <1>1, <2>3, <2>5 DEF Unleashed
<1>2. CASE ~(a = l /\ E # {})
  BY <1>2 DEF Unleashed
<1> QED
  BY <1>1, <1>2

\* What is left of a queue.
LEMMA RemovedIsQueue ==
  ASSUME NEW S, NEW q \in Seq(S), NEW m
  PROVE  RemoveFirst(q, m) \in Seq(S)
<1>1. CASE \E i \in 1..Len(q) : q[i] = m
  <2> DEFINE I == {i \in 1..Len(q) : q[i] = m}
  <2>1. Min(I) \in I
    <3>1. I \in SUBSET Nat /\ I # {}
      BY <1>1
    <3> HIDE DEF I
    <3> QED
      BY <3>1, Least
  <2>2. RemoveFirst(q, m) = RemoveAt(q, Min(I))
    BY <1>1 DEF RemoveFirst, SelectInSeq
  <2>3. \A k \in 1..Len(q) : SubSeq(q, 1, k - 1) \in Seq(S) /\ SubSeq(q, k + 1, Len(q)) \in Seq(S)
    OBVIOUS
  <2>4. PICK k \in 1..Len(q) : k = Min(I)
    BY <2>1
  <2>5. RemoveFirst(q, m) = SubSeq(q, 1, k - 1) \o SubSeq(q, k + 1, Len(q))
    BY <2>2, <2>4 DEF RemoveAt
  <2> QED
    BY <2>3, <2>5
<1>2. CASE ~ \E i \in 1..Len(q) : q[i] = m
  BY <1>2 DEF RemoveFirst
<1> QED
  BY <1>1, <1>2

LEMMA TellInit == Init => TellInv
<1> SUFFICES ASSUME Init PROVE TellInv
  OBVIOUS
<1>1. FlagsInv
  BY DEF Init, FlagsInv
<1>2. \A S : <<>> \in Seq(S)
  OBVIOUS
<1>3. QueuedInv /\ OutInv /\ InInv
  BY <1>2, Threads DEF Init, QueuedInv, OutInv, InInv
<1>4. sent \in [Side -> Nat]
  BY DEF Init
<1> QED
  BY <1>1, <1>3, <1>4 DEF TellInv

\* Where nothing is written, what was true stays so.
LEMMA FlagsKept ==
  ASSUME FlagsInv, KnownStays, UNCHANGED <<remotetmp, rtmp>>
  PROVE  FlagsInv'
BY Threads DEF FlagsInv, KnownStays

LEMMA QueuedKept ==
  ASSUME QueuedInv, KnownStays, UNCHANGED <<sendq, carried>>
  PROVE  QueuedInv'
BY StillHonest, SeqGrows DEF QueuedInv

LEMMA OutKept ==
  ASSUME OutInv, KnownStays, UNCHANGED <<slot, sending, wire>>
  PROVE  OutInv'
<1>1. ASSUME NEW s \in Side PROVE /\ slot[s] \in Outgoing(at', s) \cup {NoMsg}
                                /\ sending[s] \in Outgoing(at', s) \cup {NoMsg}
                                /\ wire[s] \in Seq(Outgoing(at', s))
  <2>1. wire[s] \in Seq(Outgoing(at, s)) /\ Outgoing(at, s) \subseteq Outgoing(at', s)
    BY StillHonest DEF OutInv
  <2> QED
    BY <2>1, SeqGrows DEF OutInv
<1> QED
  BY <1>1 DEF OutInv

LEMMA InKept ==
  ASSUME InInv, KnownStays, UNCHANGED admin
  PROVE  InInv'
<1>1. ASSUME NEW s \in Side PROVE admin[s] \in Seq(Outgoing(at', Peer(s)) \cup Notice)
  <2>1. Outgoing(at, Peer(s)) \cup Notice \subseteq Outgoing(at', Peer(s)) \cup Notice
    BY StillHonest, Threads
  <2> QED
    BY <2>1, SeqGrows DEF InInv
<1> QED
  BY <1>1 DEF InInv

\* A slot gets an honest message.
LEMMA SlotWritten ==
  ASSUME OutInv, KnownStays, NEW s \in Side, NEW m \in Outgoing(at', s) \cup {NoMsg},
         slot' = [slot EXCEPT ![s] = m], slot = [x \in Side |-> slot[x]],
         UNCHANGED <<sending, wire>>
  PROVE  OutInv'
<1>1. slot'[s] = m /\ \A r \in Side \ {s} : slot'[r] = slot[r]
  OBVIOUS
<1>2. ASSUME NEW r \in Side PROVE /\ slot'[r] \in Outgoing(at', r) \cup {NoMsg}
                                /\ sending[r] \in Outgoing(at', r) \cup {NoMsg}
                                /\ wire[r] \in Seq(Outgoing(at', r))
  <2>1. wire[r] \in Seq(Outgoing(at, r)) /\ Outgoing(at, r) \subseteq Outgoing(at', r)
    BY StillHonest DEF OutInv
  <2> QED
    BY <1>1, <2>1, SeqGrows DEF OutInv
<1> QED
  BY <1>2 DEF OutInv

\* enqueue_msg of an honest message.
LEMMA EnqueueHonest ==
  ASSUME PlacesInv, FlagsInv, QueuedInv, OutInv, NEW s \in Side, NEW l \in Link, NEW m \in Honest(at, s),
         Enqueue(s, l, m), UNCHANGED <<at, carried, sending, wire>>
  PROVE  QueuedInv' /\ OutInv'
<1> DEFINE q == Append(sendq[s][l], m)
<1>1. q \in Seq(Honest(at, s)) /\ q \in Seq(Mess)
  <2>1. sendq[s][l] \in Seq(Honest(at, s)) /\ sendq[s][l] \in Seq(Mess)
    BY DEF QueuedInv
  <2>2. m \in Mess
    BY DEF Honest
  <2> QED
    BY <2>1, <2>2
<1>2. /\ sendq' = [sendq EXCEPT ![s] = [sendq[s] EXCEPT ![l] = q]]
      /\ sendq'[s][l] = q
      /\ \A r \in Side, k \in Link : r # s \/ k # l => sendq'[r][k] = sendq[r][k]
  BY DEF Enqueue, QueuedInv
<1>3. QueuedInv'
  <2>1. sendq' \in [Side -> [Link -> Seq(Mess)]]
    <3> HIDE DEF q
    <3> QED
      BY <1>1, <1>2 DEF QueuedInv
  <2>2. \A r \in Side, k \in Link : sendq'[r][k] \in Seq(Honest(at, r))
    <3> HIDE DEF q
    <3> QED
      BY <1>1, <1>2 DEF QueuedInv
  <2> QED
    BY <2>1, <2>2 DEF QueuedInv
<1>4. OutInv'
  <2> DEFINE u == Unleashed(at[s], l, q, remotetmp[s][l], slot[s])
  <2>1. slot' = [slot EXCEPT ![s] = u]
    BY <1>2 DEF Enqueue
  <2>2. remotetmp[s][l] \in BOOLEAN /\ (~remotetmp[s][l] => at[Peer(s)] = "known")
        /\ slot[s] \in Outgoing(at, s) \cup {NoMsg}
    BY DEF FlagsInv, OutInv
  <2>3. u \in Outgoing(at, s) \cup {NoMsg}
    <3> HIDE DEF q
    <3> QED
      BY <1>1, <2>2, UnleashedIsOutgoing
  <2> HIDE DEF u
  <2>4. KnownStays /\ slot = [x \in Side |-> slot[x]]
    BY DEF KnownStays, PlacesInv, HangsInv, Shapes
  <2> QED
    BY <2>1, <2>3, <2>4, SlotWritten
<1> QED
  BY <1>3, <1>4

\* The steps of accept_net_link.
LEMMA TellAttach ==
  ASSUME PlacesInv, TellInv, KnownStays, NEW th \in Thread, Attach(th)
  PROVE  TellInv'
<1> DEFINE s == th[1]
           l == lk[th]
           u == Unleashed(l, l, sendq[s][l], remotetmp[s][l], SlotAtSetLink(slot[s]))
<1>1. s \in Side /\ l \in Link
  BY Threads DEF Attach, PlacesInv, HangsInv, AttachHasLink
<1>2. remotetmp[s][l] \in BOOLEAN /\ (~remotetmp[s][l] => at[Peer(s)] = "known")
  BY <1>1 DEF TellInv, FlagsInv
<1>3. /\ slot' = [slot EXCEPT ![s] = u] /\ rtmp' = [rtmp EXCEPT ![th] = remotetmp[s][l]]
      /\ UNCHANGED <<sendq, remotetmp, sending, wire, admin, carried, sent>>
  BY DEF Attach, recvVars, histVars
<1>4. u \in Outgoing(at, s) \cup {NoMsg}
  BY <1>1, <1>2, UnleashedIsOutgoing DEF TellInv, QueuedInv, SlotAtSetLink
<1>5. u \in Outgoing(at', s) \cup {NoMsg}
  <2> HIDE DEF u
  <2> QED
    BY <1>1, <1>4, StillHonest
<1>6. FlagsInv'
  <2>1. rtmp' \in [Thread -> BOOLEAN]
    BY <1>2, <1>3 DEF TellInv, FlagsInv
  <2>2. \A t \in Thread : ~rtmp'[t] => at[Peer(t[1])] = "known"
    BY <1>2, <1>3 DEF TellInv, FlagsInv
  <2> QED
    BY <1>3, <2>1, <2>2, Threads DEF TellInv, FlagsInv, KnownStays
<1>7. OutInv'
  <2> HIDE DEF u, s
  <2> QED
    BY <1>1, <1>3, <1>5, SlotWritten DEF TellInv, PlacesInv, HangsInv, Shapes
<1> QED
  BY <1>3, <1>6, <1>7, QueuedKept, InKept DEF TellInv

LEMMA TellHello ==
  ASSUME PlacesInv, TellInv, KnownStays, NEW th \in Thread, SayHello(th)
  PROVE  TellInv'
<1> DEFINE s == th[1]
           l == lk[th]
           m == Hello(IF l = "known" THEN 2 ELSE 1, rtmp[th])
<1>1. s \in Side /\ l \in Link
  BY Threads DEF SayHello, PlacesInv, HangsInv, AttachHasLink
<1>2. /\ Enqueue(s, l, m)
      /\ UNCHANGED <<at, remotetmp, rtmp, sending, wire, admin, carried, sent>>
  BY DEF SayHello, recvVars
<1>3. m \in Honest(at, s)
  BY DEF TellInv, FlagsInv, Hello, Honest, Mess
<1>4. QueuedInv' /\ OutInv'
  <2> HIDE DEF s, l, m
  <2> QED
    BY <1>1, <1>2, <1>3, EnqueueHonest DEF TellInv
<1> QED
  BY <1>2, <1>4, FlagsKept, InKept DEF TellInv

LEMMA TellNotTmp ==
  ASSUME PlacesInv, TellInv, KnownStays, NEW s \in Side, NEW l \in Link, NEW n \in Nat,
         at[s] = "known", Enqueue(s, l, NotTmp(n)),
         UNCHANGED <<at, remotetmp, rtmp, sending, wire, admin, carried, sent>>
  PROVE  TellInv'
<1>1. NotTmp(n) \in Honest(at, s)
  BY DEF NotTmp, Honest, Mess
<1>2. QueuedInv' /\ OutInv'
  BY <1>1, EnqueueHonest DEF TellInv
<1> QED
  BY <1>2, FlagsKept, InKept DEF TellInv

\* A message taken from the admin queue is one its sender could let out.
LEMMA TakenFromAdmin ==
  ASSUME TellInv, NEW s \in Side, admin[s] # <<>>, admin' = [admin EXCEPT ![s] = Tail(admin[s])],
         KnownStays
  PROVE  InInv' /\ Head(admin[s]) \in Outgoing(at, Peer(s)) \cup Notice
<1> DEFINE S(r) == Outgoing(at', Peer(r)) \cup Notice
<1>1. /\ admin[s] \in Seq(Outgoing(at, Peer(s)) \cup Notice)
      /\ admin[s] \in Seq(Mess \cup Notice)
  BY DEF TellInv, InInv
<1>2. \A r \in Side : admin[r] \in Seq(S(r))
  <2>1. ASSUME NEW r \in Side PROVE admin[r] \in Seq(S(r))
    <3>1. Outgoing(at, Peer(r)) \cup Notice \subseteq S(r)
      BY StillHonest, Threads
    <3> QED
      BY <3>1, SeqGrows DEF TellInv, InInv
  <2> QED
    BY <2>1
<1>3. Tail(admin[s]) \in Seq(S(s)) /\ Tail(admin[s]) \in Seq(Mess \cup Notice)
  BY <1>1, <1>2
<1>4. admin' \in [Side -> Seq(Mess \cup Notice)]
  BY <1>3 DEF TellInv, InInv
<1>5. \A r \in Side : admin'[r] \in Seq(S(r))
  <2> HIDE DEF S
  <2> QED
    BY <1>2, <1>3 DEF TellInv, InInv
<1> QED
  BY <1>1, <1>4, <1>5 DEF InInv

LEMMA NoticeKinds == \A m \in Notice : m.kind \in {"remove", "quit"}
BY DEF Notice, Quit, RemoveLink

LEMMA TellAdmin ==
  ASSUME PlacesInv, TellInv, KnownStays, NEW s \in Side,
         OldHello(s) \/ Execute(s) \/ EraseLink(s) \/ StopAgent(s)
  PROVE  TellInv'
<1>1. /\ UNCHANGED <<at, remotetmp, rtmp, sendq, carried, slot, sending, wire, sent>>
      /\ admin[s] # <<>> /\ admin' = [admin EXCEPT ![s] = Tail(admin[s])]
  BY DEF OldHello, Execute, EraseLink, StopAgent, Dequeue, linkVars, sendVars, acceptVars, histVars
<1> QED
  BY <1>1, FlagsKept, QueuedKept, OutKept, TakenFromAdmin DEF TellInv

LEMMA TellGreet ==
  ASSUME PlacesInv, TellInv, KnownStays, NEW s \in Side, Greet(s)
  PROVE  TellInv'
<1> DEFINE m == Head(admin[s])
<1>1. /\ UNCHANGED <<at, rtmp, sendq, carried, slot, sending, wire, sent>>
      /\ admin[s] # <<>> /\ admin' = [admin EXCEPT ![s] = Tail(admin[s])]
      /\ m.kind = "hello" /\ at[s] = "tmp"
      /\ remotetmp' = [remotetmp EXCEPT ![s]["tmp"] = m.tmp]
  BY DEF Greet, Dequeue, NextMsg, sendVars, histVars
<1>2. m \in Outgoing(at, Peer(s))
  <2>1. m \in Outgoing(at, Peer(s)) \cup Notice
    BY <1>1, TakenFromAdmin
  <2> HIDE DEF m
  <2> QED
    BY <1>1, <2>1, NoticeKinds
<1>3. m.tmp = TRUE
  BY <1>1, <1>2, Threads DEF Outgoing, Honest, Mess
<1>4. FlagsInv'
  <2>1. remotetmp' \in [Side -> [Link -> BOOLEAN]]
    BY <1>1, <1>3 DEF TellInv, FlagsInv
  <2>2. \A r \in Side, l \in Link : ~remotetmp'[r][l] => ~remotetmp[r][l]
    BY <1>1, <1>3 DEF TellInv, FlagsInv
  <2> QED
    BY <1>1, <2>1, <2>2 DEF TellInv, FlagsInv
<1> QED
  BY <1>1, <1>4, QueuedKept, OutKept, TakenFromAdmin DEF TellInv

LEMMA TellHearNotTmp ==
  ASSUME PlacesInv, TellInv, KnownStays, NEW s \in Side, HearNotTmp(s)
  PROVE  TellInv'
<1> DEFINE m == Head(admin[s])
           l == at[s]
           u == Unleashed(l, l, sendq[s][l], remotetmp'[s][l], slot[s])
<1>1. /\ UNCHANGED <<at, rtmp, sendq, carried, sending, wire, sent>>
      /\ admin[s] # <<>> /\ admin' = [admin EXCEPT ![s] = Tail(admin[s])]
      /\ m.kind = "nottmp" /\ l \in Link
      /\ remotetmp' = [remotetmp EXCEPT ![s][l] = FALSE]
      /\ slot' = [slot EXCEPT ![s] = u]
  BY DEF HearNotTmp, Dequeue, NextMsg, acceptVars, histVars, AfterNotTmp
<1>2. m \in Outgoing(at, Peer(s))
  <2>1. m \in Outgoing(at, Peer(s)) \cup Notice
    BY <1>1, TakenFromAdmin
  <2> HIDE DEF m
  <2> QED
    BY <1>1, <2>1, NoticeKinds
<1>3. at[Peer(s)] = "known"
  BY <1>1, <1>2 DEF Outgoing, Honest
<1>4. FlagsInv'
  <2>1. remotetmp' \in [Side -> [Link -> BOOLEAN]]
    BY <1>1 DEF TellInv, FlagsInv
  <2>2. \A r \in Side, k \in Link : ~remotetmp'[r][k] => ~remotetmp[r][k] \/ r = s
    BY <1>1 DEF TellInv, FlagsInv
  <2> QED
    BY <1>1, <1>3, <2>1, <2>2 DEF TellInv, FlagsInv
<1>5. OutInv'
  <2>1. u \in Outgoing(at, s) \cup {NoMsg}
    BY <1>1, <1>3, <1>4, UnleashedIsOutgoing DEF TellInv, QueuedInv, OutInv, FlagsInv
  <2> HIDE DEF u
  <2> QED
    BY <1>1, <2>1, SlotWritten DEF TellInv, PlacesInv, HangsInv, Shapes
<1> QED
  BY <1>1, <1>4, <1>5, QueuedKept, TakenFromAdmin DEF TellInv

\* peer_hello_msg takes the net link off, and the queue over.
LEMMA TellDetach ==
  ASSUME PlacesInv, TellInv, KnownStays, NEW s \in Side, Detach(s)
  PROVE  TellInv'
<1>1. /\ UNCHANGED <<remotetmp, rtmp, sendq, carried, sending, wire, admin, sent>>
      /\ slot' = [slot EXCEPT ![s] = NoMsg]
  BY DEF Detach, SlotAtSetLink, recvVars, histVars
<1>2. OutInv'
  BY <1>1, SlotWritten DEF TellInv, PlacesInv, HangsInv, Shapes
<1> QED
  BY <1>1, <1>2, FlagsKept, QueuedKept, InKept DEF TellInv

LEMMA TellFlush ==
  ASSUME PlacesInv, TellInv, KnownStays, NEW s \in Side, Flush(s)
  PROVE  TellInv'
<1>1. /\ UNCHANGED <<at, remotetmp, slot, sending, wire, admin, sent>>
      /\ carried' = [carried EXCEPT ![s] = sendq[s]["tmp"]]
      /\ rtmp' = [rtmp EXCEPT ![Admin(s)] = remotetmp[s]["tmp"]]
      /\ sendq' = [sendq EXCEPT ![s]["tmp"] = <<>>]
  BY DEF Flush, sendVars, recvVars, histVars
<1>2. "tmp" \in Link
  BY DEF Link
<1>3. FlagsInv'
  <2>1. rtmp' \in [Thread -> BOOLEAN]
    BY <1>1, <1>2 DEF TellInv, FlagsInv
  <2>2. \A t \in Thread : ~rtmp'[t] => at[Peer(t[1])] = "known"
    BY <1>1, <1>2, Threads DEF TellInv, FlagsInv
  <2> QED
    BY <1>1, <2>1, <2>2 DEF TellInv, FlagsInv
<1>4. QueuedInv'
  <2>1. carried' \in [Side -> Seq(Mess)] /\ \A r \in Side : carried'[r] \in Seq(Honest(at, r))
    BY <1>1, <1>2 DEF TellInv, QueuedInv
  <2>2. \A S : <<>> \in Seq(S)
    OBVIOUS
  <2>3. sendq' \in [Side -> [Link -> Seq(Mess)]]
    BY <1>1, <2>2 DEF TellInv, QueuedInv
  <2>4. \A r \in Side, l \in Link : sendq'[r][l] = <<>> \/ sendq'[r][l] = sendq[r][l]
    BY <1>1 DEF TellInv, QueuedInv
  <2> QED
    BY <1>1, <2>1, <2>2, <2>3, <2>4 DEF TellInv, QueuedInv
<1> QED
  BY <1>1, <1>3, <1>4, OutKept, InKept DEF TellInv

LEMMA TellMoveOver ==
  ASSUME PlacesInv, TellInv, KnownStays, NEW s \in Side, MoveOver(s)
  PROVE  TellInv'
<1> DEFINE q == sendq[s]["known"] \o carried[s]
<1>1. /\ UNCHANGED <<at, rtmp, slot, sending, wire, admin, sent>>
      /\ remotetmp' = [remotetmp EXCEPT ![s]["known"] = rtmp[Admin(s)]]
      /\ carried' = [carried EXCEPT ![s] = <<>>]
      /\ sendq' = [sendq EXCEPT ![s]["known"] = q]
  BY DEF MoveOver, Joined, sendVars, recvVars, histVars
<1>2. "known" \in Link
  BY DEF Link
<1>3. FlagsInv'
  <2>1. rtmp[Admin(s)] \in BOOLEAN /\ (~rtmp[Admin(s)] => at[Peer(s)] = "known")
    BY Threads DEF TellInv, FlagsInv
  <2>2. remotetmp' \in [Side -> [Link -> BOOLEAN]]
    BY <1>1, <2>1 DEF TellInv, FlagsInv
  <2>3. \A r \in Side, l \in Link :
          remotetmp'[r][l] = remotetmp[r][l] \/ (r = s /\ remotetmp'[r][l] = rtmp[Admin(s)])
    BY <1>1, <2>1 DEF TellInv, FlagsInv
  <2> QED
    BY <1>1, <2>1, <2>2, <2>3 DEF TellInv, FlagsInv
<1>4. QueuedInv'
  <2>1. q \in Seq(Mess) /\ q \in Seq(Honest(at, s))
    BY <1>2 DEF TellInv, QueuedInv
  <2>2. \A S : <<>> \in Seq(S)
    OBVIOUS
  <2> HIDE DEF q
  <2>3. carried' \in [Side -> Seq(Mess)] /\ \A r \in Side : carried'[r] \in Seq(Honest(at, r))
    BY <1>1, <2>2 DEF TellInv, QueuedInv
  <2>4. sendq' \in [Side -> [Link -> Seq(Mess)]]
    BY <1>1, <2>1 DEF TellInv, QueuedInv
  <2>5. \A r \in Side, l \in Link : sendq'[r][l] = sendq[r][l] \/ (r = s /\ sendq'[r][l] = q)
    BY <1>1 DEF TellInv, QueuedInv
  <2> QED
    BY <1>1, <2>1, <2>3, <2>4, <2>5 DEF TellInv, QueuedInv
<1> QED
  BY <1>1, <1>3, <1>4, OutKept, InKept DEF TellInv

\* The sending thread writes what was in the slot, ...
LEMMA TellTransmit ==
  ASSUME PlacesInv, TellInv, KnownStays, NEW s \in Side, Transmit(s)
  PROVE  TellInv'
<1>1. /\ UNCHANGED <<at, remotetmp, rtmp, sendq, carried, admin, sent>>
      /\ slot[s] # NoMsg
      /\ sending' = [sending EXCEPT ![s] = slot[s]]
      /\ slot' = [slot EXCEPT ![s] = NoMsg]
      /\ wire' = wire \/ wire' = [wire EXCEPT ![s] = Append(wire[s], slot[s])]
  BY DEF Transmit, linkVars, acceptVars, histVars
<1>2. slot[s] \in Outgoing(at, s)
  BY <1>1 DEF TellInv, OutInv
<1>3. slot[s] \in Mess
  BY <1>2 DEF Outgoing, Honest
<1>4. /\ Append(wire[s], slot[s]) \in Seq(Outgoing(at, s))
      /\ Append(wire[s], slot[s]) \in Seq(Mess)
  BY <1>2, <1>3 DEF TellInv, OutInv
<1>5. wire' \in [Side -> Seq(Mess)] /\ \A r \in Side : wire'[r] \in Seq(Outgoing(at, r))
  BY <1>1, <1>4 DEF TellInv, OutInv
<1>6. \A r \in Side : /\ slot'[r] \in {slot[r], NoMsg}
                     /\ sending'[r] \in {slot[r], sending[r]}
  BY <1>1 DEF PlacesInv, HangsInv, Shapes
<1>7. OutInv'
  BY <1>1, <1>5, <1>6 DEF TellInv, OutInv
<1> QED
  BY <1>1, <1>7, FlagsKept, QueuedKept, InKept DEF TellInv

\* ... and takes it out of the queue when it is sent.
LEMMA TellOnSent ==
  ASSUME PlacesInv, TellInv, KnownStays, NEW s \in Side, OnSent(s)
  PROVE  TellInv'
<1> DEFINE l == via[s]
           q == RemoveFirst(sendq[s][l], sending[s])
           u == Unleashed(at[s], l, q, remotetmp[s][l], slot[s])
<1>1. /\ UNCHANGED <<at, remotetmp, rtmp, carried, wire, admin, sent>>
      /\ sending[s] # NoMsg
      /\ sendq' = [sendq EXCEPT ![s][l] = q]
      /\ slot' = [slot EXCEPT ![s] = u]
      /\ sending' = [sending EXCEPT ![s] = NoMsg]
  BY DEF OnSent, AfterSent, recvVars, acceptVars
<1>2. l \in Link
  BY <1>1 DEF PlacesInv, HangsInv, SendingHasLink
<1>3. q \in Seq(Honest(at, s)) /\ q \in Seq(Mess)
  BY <1>2, RemovedIsQueue DEF TellInv, QueuedInv
<1>4. u \in Outgoing(at, s) \cup {NoMsg}
  <2>1. remotetmp[s][l] \in BOOLEAN /\ (~remotetmp[s][l] => at[Peer(s)] = "known")
        /\ slot[s] \in Outgoing(at, s) \cup {NoMsg}
    BY <1>2 DEF TellInv, FlagsInv, OutInv
  <2> HIDE DEF q, l
  <2> QED
    BY <1>2, <1>3, <2>1, UnleashedIsOutgoing
<1>5. QueuedInv'
  <2> HIDE DEF q, l
  <2>1. sendq' \in [Side -> [Link -> Seq(Mess)]]
    BY <1>1, <1>2, <1>3 DEF TellInv, QueuedInv
  <2>2. \A r \in Side, k \in Link : sendq'[r][k] = sendq[r][k] \/ (r = s /\ sendq'[r][k] = q)
    BY <1>1, <1>2 DEF TellInv, QueuedInv
  <2> QED
    BY <1>1, <1>3, <2>1, <2>2 DEF TellInv, QueuedInv
<1>6. OutInv'
  <2> HIDE DEF u
  <2>1. \A r \in Side : /\ slot'[r] \in {slot[r], u} /\ (r # s => slot'[r] = slot[r])
                       /\ sending'[r] \in {sending[r], NoMsg}
    BY <1>1 DEF PlacesInv, HangsInv, Shapes
  <2> QED
    BY <1>1, <1>4, <2>1 DEF TellInv, OutInv
<1> QED
  BY <1>1, <1>5, <1>6, FlagsKept, InKept DEF TellInv

\* The receiving thread hands on what it reads, ...
LEMMA TellReceive ==
  ASSUME PlacesInv, TellInv, KnownStays, NEW s \in Side, Receive(s)
  PROVE  TellInv'
<1> DEFINE p == Peer(s)
           m == Head(wire[p])
           S(r) == Outgoing(at, Peer(r)) \cup Notice
<1>1. /\ UNCHANGED <<at, remotetmp, rtmp, sendq, carried, slot, sending, sent>>
      /\ wire[p] # <<>> /\ wire' = [wire EXCEPT ![p] = Tail(wire[p])]
      /\ admin' = [admin EXCEPT ![s] = Append(admin[s], m)] \/ UNCHANGED admin
  BY DEF Receive, Take, linkVars, sendVars, acceptVars, histVars
<1>2. p \in Side /\ wire[p] \in Seq(Outgoing(at, p)) /\ wire[p] \in Seq(Mess)
  BY Threads DEF TellInv, OutInv
<1>3. m \in Outgoing(at, p) /\ m \in Mess
  BY <1>1, <1>2
<1>4. Tail(wire[p]) \in Seq(Outgoing(at, p)) /\ Tail(wire[p]) \in Seq(Mess)
  BY <1>1, <1>2
<1>5. OutInv'
  <2>1. wire' \in [Side -> Seq(Mess)]
    BY <1>1, <1>4 DEF TellInv, OutInv
  <2>2. \A r \in Side : wire'[r] \in Seq(Outgoing(at, r))
    <3> HIDE DEF p
    <3> QED
      BY <1>1, <1>4 DEF TellInv, OutInv
  <2> QED
    BY <1>1, <2>1, <2>2 DEF TellInv, OutInv
<1>6. InInv'
  <2>1. \A r \in Side : admin[r] \in Seq(S(r))
    BY DEF TellInv, InInv
  <2>2. m \in S(s) /\ m \in Mess \cup Notice
    BY <1>3
  <2>3. Append(admin[s], m) \in Seq(S(s)) /\ Append(admin[s], m) \in Seq(Mess \cup Notice)
    <3> HIDE DEF S, m
    <3> QED
      BY <2>1, <2>2 DEF TellInv, InInv
  <2>4. CASE admin' = [admin EXCEPT ![s] = Append(admin[s], m)]
    <3>1. admin' \in [Side -> Seq(Mess \cup Notice)]
      BY <2>3, <2>4 DEF TellInv, InInv
    <3>2. \A r \in Side : admin'[r] \in Seq(S(r))
      <4> HIDE DEF S, m
      <4> QED
        BY <2>1, <2>3, <2>4 DEF TellInv, InInv
    <3> QED
      BY <1>1, <3>1, <3>2 DEF InInv
  <2>5. CASE UNCHANGED admin
    BY <2>5, InKept DEF TellInv
  <2> QED
    BY <1>1, <2>4, <2>5
<1> QED
  BY <1>1, <1>5, <1>6, FlagsKept, QueuedKept DEF TellInv

\* ... and throws away what it cannot read.
LEMMA TellLost ==
  ASSUME PlacesInv, TellInv, KnownStays, NEW s \in Side, LostConnection(s)
  PROVE  TellInv'
<1>1. /\ UNCHANGED <<at, remotetmp, rtmp, sendq, carried, slot, sending, admin, sent>>
      /\ wire' = [wire EXCEPT ![Peer(s)] = <<>>]
  BY DEF LostConnection, linkVars, sendVars, acceptVars
<1>2. \A S : <<>> \in Seq(S)
  OBVIOUS
<1>3. \A r \in Side : wire'[r] = wire[r] \/ wire'[r] = <<>>
  BY <1>1 DEF TellInv, OutInv
<1>4. wire' \in [Side -> Seq(Mess)]
  BY <1>1, <1>2 DEF TellInv, OutInv
<1>5. OutInv'
  BY <1>1, <1>2, <1>3, <1>4 DEF TellInv, OutInv
<1> QED
  BY <1>1, <1>5, FlagsKept, QueuedKept, InKept DEF TellInv

LEMMA TellClose ==
  ASSUME PlacesInv, TellInv, KnownStays, NEW s \in Side, OnClose(s),
         closing[s] \in Link \cup {NoLink}
  PROVE  TellInv'
<1> DEFINE m == IF closing[s] = "known" /\ remotemaster[s] THEN Quit ELSE RemoveLink(closing[s])
           S(r) == Outgoing(at, Peer(r)) \cup Notice
<1>1. /\ UNCHANGED <<at, remotetmp, rtmp, sendq, carried, slot, sending, wire, sent>>
      /\ admin' = [admin EXCEPT ![s] = Append(admin[s], m)]
  BY DEF OnClose, linkVars, sendVars, acceptVars, histVars
<1>2. m \in Notice
  BY DEF Notice
<1>3. \A r \in Side : admin[r] \in Seq(S(r))
  BY DEF TellInv, InInv
<1> HIDE DEF m
<1>4. m \in S(s) /\ m \in Mess \cup Notice
  BY <1>2
<1>5. Append(admin[s], m) \in Seq(S(s)) /\ Append(admin[s], m) \in Seq(Mess \cup Notice)
  <2> HIDE DEF S
  <2> QED
    BY <1>3, <1>4 DEF TellInv, InInv
<1>6. admin' \in [Side -> Seq(Mess \cup Notice)]
  BY <1>1, <1>5 DEF TellInv, InInv
<1>7. \A r \in Side : admin'[r] \in Seq(S(r))
  <2> HIDE DEF S
  <2> QED
    BY <1>1, <1>3, <1>5 DEF TellInv, InInv
<1>8. InInv'
  BY <1>1, <1>6, <1>7 DEF InInv
<1> QED
  BY <1>1, <1>8, FlagsKept, QueuedKept, OutKept DEF TellInv

LEMMA TellSend ==
  ASSUME PlacesInv, TellInv, KnownStays, NEW s \in Side, Send(s)
  PROVE  TellInv'
<1> DEFINE m == User(sent[s] + 1)
<1>1. /\ Enqueue(s, "known", m) /\ "known" \in Link
      /\ UNCHANGED <<at, remotetmp, rtmp, carried, sending, wire, admin>>
      /\ sent' = [sent EXCEPT ![s] = sent[s] + 1]
  BY DEF Send, recvVars, acceptVars, Link
<1>2. m \in Honest(at, s)
  BY DEF TellInv, User, Honest, Mess
<1>3. QueuedInv' /\ OutInv'
  <2> HIDE DEF m
  <2> QED
    BY <1>1, <1>2, EnqueueHonest DEF TellInv
<1>4. sent' \in [Side -> Nat]
  BY <1>1 DEF TellInv
<1> QED
  BY <1>1, <1>3, <1>4, FlagsKept, InKept DEF TellInv

\* The link a receiving thread looked for.
ClosingInv == closing \in [Side -> Link \cup {NoLink}]

LEMMA ClosingStep == PlacesInv /\ ClosingInv /\ [Next]_vars => ClosingInv'
<1> SUFFICES ASSUME PlacesInv, ClosingInv, [Next]_vars PROVE ClosingInv'
  OBVIOUS
<1>1. ASSUME NEW s \in Side, ReceiverStep(s) PROVE ClosingInv'
  BY <1>1 DEF ReceiverStep, Receive, LostConnection, OnClose, ReceiverEnds, ClosingInv,
              PlacesInv, HangsInv, Shapes
<1>2. CASE UNCHANGED closing
  BY <1>2 DEF ClosingInv
<1>3. ASSUME NEW th \in Thread, ThreadStep(th) PROVE UNCHANGED closing
  BY <1>3 DEF ThreadStep, Attach, SayHello, SayNotTmp, recvVars
<1>4. ASSUME NEW s \in Side, AdminStep(s) PROVE UNCHANGED closing
  BY <1>4, Zenon DEF AdminStep, OldHello, Greet, Detach, Flush, MoveOver, SayNotTmpAgain, MarkMaster,
              HearNotTmp, Execute, EraseLink, StopAgent, recvVars
<1>5. ASSUME NEW s \in Side, SenderStep(s) \/ MakeLink(s) \/ Send(s) PROVE UNCHANGED closing
  BY <1>5 DEF SenderStep, Transmit, OnSent, MakeLink, Send, recvVars
<1>6. ASSUME Lose \/ UNCHANGED vars PROVE UNCHANGED closing
  BY <1>6 DEF Lose, vars, recvVars
<1> QED
  BY <1>1, <1>2, <1>3, <1>4, <1>5, <1>6 DEF Next

LEMMA TellStep == PlacesInv /\ ClosingInv /\ TellInv /\ [Next]_vars => TellInv'
<1> SUFFICES ASSUME PlacesInv, ClosingInv, TellInv, [Next]_vars PROVE TellInv'
  OBVIOUS
<1>1. KnownStays
  BY PlacesStep
<1>2. ASSUME NEW th \in Thread, SayNotTmp(th) PROVE TellInv'
  <2>1. th = Admin(th[1]) /\ th[1] \in Side
    BY <1>2, Threads DEF SayNotTmp, PlacesInv, ListenerInv
  <2>2. at[th[1]] = "known" /\ lk[th] = "known" /\ "known" \in Link
    BY <1>2, <2>1 DEF SayNotTmp, PlacesInv, AdminInv, Link
  <2>3. /\ Enqueue(th[1], lk[th], NotTmp(1))
        /\ UNCHANGED <<at, remotetmp, rtmp, sending, wire, admin, carried, sent>>
    BY <1>2 DEF SayNotTmp, recvVars
  <2> QED
    BY <1>1, <2>1, <2>2, <2>3, TellNotTmp
<1>3. ASSUME NEW s \in Side, SayNotTmpAgain(s) PROVE TellInv'
  <2>1. at[s] = "known" /\ "known" \in Link
    BY <1>3 DEF SayNotTmpAgain, PlacesInv, AdminInv, Link
  <2>2. /\ Enqueue(s, "known", NotTmp(2))
        /\ UNCHANGED <<at, remotetmp, rtmp, sending, wire, admin, carried, sent>>
    BY <1>3 DEF SayNotTmpAgain, recvVars
  <2> QED
    BY <1>1, <2>1, <2>2, TellNotTmp
<1>4. CASE UNCHANGED <<at, remotetmp, rtmp, sendq, carried, slot, sending, wire, admin, sent>>
  BY <1>1, <1>4, FlagsKept, QueuedKept, OutKept, InKept DEF TellInv
<1>5. ASSUME NEW s \in Side, MarkMaster(s) \/ ReceiverEnds(s) \/ MakeLink(s) PROVE TellInv'
  BY <1>4, <1>5 DEF MarkMaster, ReceiverEnds, MakeLink, linkVars, sendVars, recvVars, acceptVars,
                    histVars
<1>6. ASSUME Lose \/ UNCHANGED vars PROVE TellInv'
  BY <1>4, <1>6 DEF Lose, vars, linkVars, sendVars, recvVars, acceptVars, histVars
<1>7. ASSUME NEW s \in Side, OnClose(s) PROVE TellInv'
  BY <1>1, <1>7, TellClose DEF ClosingInv
<1> QED
  BY <1>1, <1>2, <1>3, <1>5, <1>6, <1>7, TellAttach, TellHello, TellAdmin, TellGreet, TellHearNotTmp,
     TellDetach, TellFlush, TellMoveOver, TellTransmit, TellOnSent, TellReceive, TellLost, TellSend
     DEF Next, ThreadStep, AdminStep, SenderStep, ReceiverStep

LEMMA TellInvariant == Spec => [](PlacesInv /\ ClosingInv /\ TellInv)
<1>1. Init => ClosingInv
  BY DEF Init, ClosingInv
<1> QED
  BY <1>1, PlacesInit, PlacesStep, ClosingStep, TellInit, TellStep, PTL DEF Spec

\* A message of a task is let out only when the peer has hung the connection on the link
\* with the sender's true address, and so knows from whom it is: whatever is in the slots,
\* queues and on the wire meanwhile, and for any number of messages.
THEOREM LetOutOnlyToKnown == Spec => []OnlyToKnown
<1>1. TellInv => OnlyToKnown
  <2> SUFFICES ASSUME TellInv, NEW s \in Side, NEW m \in {slot[s], sending[s]} \cup Range(wire[s]),
                      m.kind = "user"
               PROVE  at[Peer(s)] = "known"
    BY DEF OnlyToKnown
  <2>1. wire[s] \in Seq(Outgoing(at, s))
    BY DEF TellInv, OutInv
  <2>2. Range(wire[s]) \subseteq Outgoing(at, s)
    BY <2>1 DEF Range
  <2>3. m \in Outgoing(at, s) \cup {NoMsg}
    BY <2>2 DEF TellInv, OutInv
  <2> QED
    BY <2>3 DEF Outgoing, NoMsg
<1> QED
  BY <1>1, TellInvariant, PTL

-----------------------------------------------------------------------------
(* A hello message finds the link it came by                               *)

\* Of a side whose net link hangs at a, whose admin thread is at p with link l and finds
\* q in its queue, whose receiving thread is at r and whose map holds m: a notice of the
\* end is the last thing in the queue, nothing arrives before the net link hangs
\* somewhere, and its temporary link is on the map until a hello or the last notice.
Finds(a, p, l, q, r, m) ==
  /\ r \in {"run", "lost"} => \A i \in DOMAIN q : q[i] \notin Notice
  /\ \A i \in DOMAIN q : q[i] \in Notice => i = Len(q)
  /\ p = "idle" /\ a = NoLink => q = <<>> /\ r \in {"run", "done"}
  /\ a = "tmp" /\ p \in {"idle", "hello"} /\ "tmp" \notin m => q = <<>> /\ r \in {"told", "done"}
  /\ p = "attach" /\ l = "tmp" => "tmp" \in m

FindsInv ==
  /\ rpc \in [Side -> {"run", "lost", "told", "done"}]
  /\ inmap \in [Side -> SUBSET Link]
  /\ pc[Listener] = "attach" => "tmp" \in inmap["acceptor"]
  /\ \A s \in Side : Finds(at[s], pc[Admin(s)], lk[Admin(s)], admin[s], rpc[s], inmap[s])

LEMMA FindsInit == Init => FindsInv
<1> SUFFICES ASSUME Init PROVE FindsInv
  OBVIOUS
<1>1. inmap \in [Side -> SUBSET Link]
  BY DEF Init, FirstLink, Link
<1>2. \A s \in Side : inmap[s] = {FirstLink(s)} /\ admin[s] = <<>> /\ rpc[s] = "run" /\ at[s] = NoLink
  BY DEF Init
<1>3. \A s \in Side : pc[Admin(s)] = "attach" => lk[Admin(s)] = FirstLink(s)
  BY Threads DEF Init
<1>4. \A s \in Side : Finds(at[s], pc[Admin(s)], lk[Admin(s)], admin[s], rpc[s], inmap[s])
  BY <1>2, <1>3 DEF Finds, NoLink
<1>5. "tmp" \in inmap["acceptor"]
  BY <1>2, Threads DEF FirstLink
<1> QED
  BY <1>1, <1>4, <1>5 DEF Init, FindsInv

\* A step of one side.
LEMMA FindsOf ==
  ASSUME PlacesInv, FindsInv, NEW s \in Side,
         \A x \in Side \ {s} : /\ at'[x] = at[x] /\ admin'[x] = admin[x] /\ rpc'[x] = rpc[x]
                              /\ inmap'[x] = inmap[x] /\ pc'[Admin(x)] = pc[Admin(x)]
                              /\ lk'[Admin(x)] = lk[Admin(x)],
         rpc' \in [Side -> {"run", "lost", "told", "done"}], inmap' \in [Side -> SUBSET Link],
         Finds(at'[s], pc'[Admin(s)], lk'[Admin(s)], admin'[s], rpc'[s], inmap'[s]),
         pc'[Listener] = "attach" => pc[Listener] = "attach" /\ inmap["acceptor"] \subseteq inmap'["acceptor"]
  PROVE  FindsInv'
<1>1. \A x \in Side : Finds(at'[x], pc'[Admin(x)], lk'[Admin(x)], admin'[x], rpc'[x], inmap'[x])
  BY DEF FindsInv
<1> QED
  BY <1>1 DEF FindsInv

\* What is left of the admin queue has its notice at the end, too.
LEMMA TailFinds ==
  ASSUME InInv, NEW s \in Side, admin[s] # <<>>,
         \A i \in DOMAIN admin[s] : admin[s][i] \in Notice => i = Len(admin[s])
  PROVE  /\ \A i \in DOMAIN Tail(admin[s]) : /\ Tail(admin[s])[i] = admin[s][i + 1]
                                            /\ i + 1 \in DOMAIN admin[s]
                                            /\ (Tail(admin[s])[i] \in Notice => i = Len(Tail(admin[s])))
         /\ Head(admin[s]) \in Notice => Tail(admin[s]) = <<>>
<1> DEFINE q == admin[s]
<1>1. q \in Seq(Mess \cup Notice)
  BY DEF InInv
<1> HIDE DEF q
<1>2. q # <<>> /\ \A i \in DOMAIN q : q[i] \in Notice => i = Len(q)
  BY DEF q
<1>3. DOMAIN q = 1..Len(q) /\ Len(q) \in Nat \ {0} /\ Head(q) = q[1] /\ DOMAIN Tail(q) = 1..(Len(q) - 1)
      /\ Len(Tail(q)) = Len(q) - 1
  BY <1>1, <1>2
<1>4. \A i \in DOMAIN Tail(q) : Tail(q)[i] = q[i + 1] /\ i + 1 \in DOMAIN q
  BY <1>1, <1>2, <1>3
<1>5. \A i \in DOMAIN Tail(q) : Tail(q)[i] \in Notice => i = Len(Tail(q))
  BY <1>2, <1>3, <1>4
<1>6. Head(q) \in Notice => Tail(q) = <<>>
  BY <1>1, <1>2, <1>3
<1> QED
  BY <1>4, <1>5, <1>6 DEF q

\* The admin thread takes a message.
LEMMA FindsTaken ==
  ASSUME PlacesInv, InInv, FindsInv, NEW s \in Side, pc[Admin(s)] = "idle", admin[s] # <<>>,
         admin' = [admin EXCEPT ![s] = Tail(admin[s])], UNCHANGED <<at, rpc>>,
         \/ UNCHANGED <<pc, lk, inmap>>
         \/ /\ UNCHANGED <<pc, lk>> /\ Head(admin[s]) \in Notice
            /\ inmap' = [inmap EXCEPT ![s] = inmap[s] \ {Head(admin[s]).link}]
         \/ /\ pc' = [pc EXCEPT ![Admin(s)] = "detach"] /\ UNCHANGED lk
            /\ at[s] = "tmp" /\ inmap' = [inmap EXCEPT ![s] = {"known"}]
  PROVE  FindsInv'
<1>1. /\ pc'[Listener] = pc[Listener]
      /\ \A x \in Side \ {s} : /\ at'[x] = at[x] /\ admin'[x] = admin[x] /\ rpc'[x] = rpc[x]
                              /\ inmap'[x] = inmap[x] /\ pc'[Admin(x)] = pc[Admin(x)]
                              /\ lk'[Admin(x)] = lk[Admin(x)]
  BY Threads DEF PlacesInv, HangsInv, Shapes, FindsInv, InInv
<1>2. rpc' \in [Side -> {"run", "lost", "told", "done"}] /\ inmap' \in [Side -> SUBSET Link]
  BY DEF FindsInv, Link
<1>3. Finds(at[s], pc[Admin(s)], lk[Admin(s)], admin[s], rpc[s], inmap[s])
  BY DEF FindsInv
<1>4. at[s] # NoLink
  BY <1>3 DEF Finds
<1>5. pc[Listener] = "attach" => s # "acceptor"
  BY <1>4 DEF PlacesInv, ListenerInv
<1>6. admin'[s] = Tail(admin[s]) /\ Admin(s) \in DOMAIN pc /\ s \in DOMAIN inmap
  BY Threads DEF InInv, PlacesInv, HangsInv, Shapes, FindsInv
<1> DEFINE q == admin[s]
           t == Tail(admin[s])
<1>7. /\ \A i \in DOMAIN t : t[i] = q[i + 1] /\ i + 1 \in DOMAIN q /\ (t[i] \in Notice => i = Len(t))
      /\ Head(q) \in Notice => t = <<>>
  BY <1>3, TailFinds DEF Finds
<1>8. Head(q) \in Notice => rpc[s] \in {"told", "done"}
  <2>1. q \in Seq(Mess \cup Notice) /\ q # <<>>
    BY DEF InInv
  <2>2. 1 \in DOMAIN q /\ Head(q) = q[1]
    BY <2>1
  <2> QED
    BY <1>3, <2>2 DEF Finds, FindsInv
<1> HIDE DEF q, t
<1>9. admin'[s] = t /\ q # <<>> /\ q = admin[s]
  BY <1>6 DEF q, t
<1>10. CASE UNCHANGED <<pc, lk, inmap>>
  <2>1. Finds(at'[s], pc'[Admin(s)], lk'[Admin(s)], admin'[s], rpc'[s], inmap'[s])
    BY <1>3, <1>4, <1>7, <1>9, <1>10 DEF Finds
  <2> QED
    BY <1>1, <1>2, <1>10, <2>1, FindsOf
<1>11. CASE /\ UNCHANGED <<pc, lk>> /\ Head(admin[s]) \in Notice
            /\ inmap' = [inmap EXCEPT ![s] = inmap[s] \ {Head(admin[s]).link}]
  <2>1. t = <<>> /\ rpc[s] \in {"told", "done"}
    BY <1>7, <1>8, <1>11 DEF q
  <2>2. Finds(at'[s], pc'[Admin(s)], lk'[Admin(s)], admin'[s], rpc'[s], inmap'[s])
    BY <1>4, <1>9, <1>11, <2>1 DEF Finds
  <2>3. pc[Listener] = "attach" => inmap'["acceptor"] = inmap["acceptor"]
    BY <1>1, <1>5, Threads
  <2> QED
    BY <1>1, <1>2, <2>2, <2>3, FindsOf
<1>12. CASE /\ pc' = [pc EXCEPT ![Admin(s)] = "detach"] /\ UNCHANGED lk
            /\ at[s] = "tmp" /\ inmap' = [inmap EXCEPT ![s] = {"known"}]
  <2>1. pc'[Admin(s)] = "detach"
    BY <1>6, <1>12
  <2>2. Finds(at'[s], pc'[Admin(s)], lk'[Admin(s)], admin'[s], rpc'[s], inmap'[s])
    BY <1>3, <1>7, <1>9, <2>1 DEF Finds
  <2>3. pc[Listener] = "attach" => inmap'["acceptor"] = inmap["acceptor"]
    BY <1>1, <1>5, Threads
  <2> QED
    BY <1>1, <1>2, <2>2, <2>3, FindsOf
<1> QED
  BY <1>10, <1>11, <1>12

\* A thread goes on, its queues are the same.
LEMMA FindsMoved ==
  ASSUME PlacesInv, FindsInv, NEW th \in Thread, NEW place, NEW l, NEW a,
         pc' = [pc EXCEPT ![th] = place], lk' = [lk EXCEPT ![th] = l], at' = [at EXCEPT ![th[1]] = a],
         UNCHANGED <<admin, rpc, inmap>>, th = Listener => place # "attach",
         LET s == th[1]
         IN  Finds(a, IF th = Listener THEN pc[Admin(s)] ELSE place,
                   IF th = Listener THEN lk[Admin(s)] ELSE l, admin[s], rpc[s], inmap[s])
  PROVE  FindsInv'
<1> DEFINE s == th[1]
<1>1. s \in Side /\ (th = Listener \/ (th = Admin(s) /\ th # Listener))
  BY Threads
<1>2. \A x \in Side \ {s} : /\ at'[x] = at[x] /\ admin'[x] = admin[x] /\ rpc'[x] = rpc[x]
                           /\ inmap'[x] = inmap[x] /\ pc'[Admin(x)] = pc[Admin(x)]
                           /\ lk'[Admin(x)] = lk[Admin(x)]
  BY <1>1, Threads DEF PlacesInv, HangsInv, Shapes
<1>3. /\ at'[s] = a
      /\ pc'[Admin(s)] = IF th = Listener THEN pc[Admin(s)] ELSE place
      /\ lk'[Admin(s)] = IF th = Listener THEN lk[Admin(s)] ELSE l
  BY <1>1, Threads DEF PlacesInv, HangsInv, Shapes
<1>4. Finds(at'[s], pc'[Admin(s)], lk'[Admin(s)], admin'[s], rpc'[s], inmap'[s])
  BY <1>3
<1>5. pc'[Listener] = "attach" => pc[Listener] = "attach"
  BY <1>1, Threads DEF PlacesInv, HangsInv, Shapes
<1>6. rpc' \in [Side -> {"run", "lost", "told", "done"}] /\ inmap' \in [Side -> SUBSET Link]
  BY DEF FindsInv
<1> HIDE DEF s
<1> QED
  BY <1>1, <1>2, <1>4, <1>5, <1>6, FindsOf

LEMMA FindsStays ==
  ASSUME PlacesInv, FindsInv, NEW th \in Thread, NEW place, NEW l, at' = at,
         pc' = [pc EXCEPT ![th] = place],
         lk' = [lk EXCEPT ![th] = l] \/ (l = lk[th] /\ UNCHANGED lk),
         UNCHANGED <<admin, rpc, inmap>>, th = Listener => place # "attach",
         th # Listener => Finds(at[th[1]], place, l, admin[th[1]], rpc[th[1]], inmap[th[1]])
  PROVE  FindsInv'
<1>1. th[1] \in Side /\ at' = [at EXCEPT ![th[1]] = at[th[1]]] /\ lk' = [lk EXCEPT ![th] = l]
  BY Threads DEF PlacesInv, HangsInv, Shapes
<1>2. Finds(at[th[1]], pc[Admin(th[1])], lk[Admin(th[1])], admin[th[1]], rpc[th[1]], inmap[th[1]])
  BY <1>1 DEF FindsInv
<1> QED
  BY <1>1, <1>2, FindsMoved

\* The steps of accept_net_link and of peer_hello_msg.
LEMMA FindsThread ==
  ASSUME PlacesInv, FindsInv, NEW th \in Thread, ThreadStep(th)
  PROVE  FindsInv'
<1> DEFINE s == th[1]
           F(a, p, l) == Finds(a, p, l, admin[s], rpc[s], inmap[s])
<1>1. s \in Side /\ (th = Listener \/ (th = Admin(s) /\ th # Listener))
  BY Threads
<1>2. F(at[s], pc[Admin(s)], lk[Admin(s)])
  BY <1>1 DEF FindsInv
<1>3. UNCHANGED <<admin, rpc, inmap>>
  BY DEF ThreadStep, Attach, SayHello, SayNotTmp, recvVars
<1>4. CASE Attach(th)
  <2>1. /\ pc[th] = "attach" /\ pc' = [pc EXCEPT ![th] = "hello"] /\ UNCHANGED lk
        /\ at' = [at EXCEPT ![s] = lk[th]] /\ lk[th] \in Link
    BY <1>4 DEF Attach, PlacesInv, HangsInv, AttachHasLink
  <2>2. lk' = [lk EXCEPT ![th] = lk[th]]
    BY <2>1 DEF PlacesInv, HangsInv, Shapes
  <2>3. CASE th = Listener
    <3>1. s = "acceptor" /\ pc[Admin(s)] = "idle" /\ at[s] = NoLink /\ "tmp" \in inmap[s]
      BY <2>1, <2>3, Threads DEF PlacesInv, ListenerInv, FindsInv
    <3>2. F(lk[th], pc[Admin(s)], lk[Admin(s)])
      BY <1>2, <2>1, <3>1 DEF Finds, Link, NoLink
    <3> QED
      BY <1>3, <2>1, <2>2, <2>3, <3>2, FindsMoved
  <2>4. CASE th = Admin(s) /\ th # Listener
    <3>1. F(lk[th], "hello", lk[th])
      BY <1>2, <2>1, <2>4 DEF Finds, Link, NoLink
    <3> QED
      BY <1>3, <2>1, <2>2, <2>4, <3>1, FindsMoved
  <2> QED
    BY <1>1, <2>3, <2>4
<1>5. CASE SayHello(th)
  <2>1. /\ pc[th] = "hello" /\ at' = at /\ lk[th] \in Link
        /\ \/ /\ lk[th] = "known" /\ pc' = [pc EXCEPT ![th] = "nottmp"] /\ UNCHANGED lk
           \/ lk[th] # "known" /\ Leave(th)
    BY <1>5 DEF SayHello, PlacesInv, HangsInv, AttachHasLink
  <2>2. th # Listener => at[s] = lk[th]
    BY <1>1, <2>1 DEF PlacesInv, AdminInv
  <2>3. th # Listener => (lk[th] = "known" => F(at[s], "nottmp", lk[th])) /\ F(at[s], "idle", NoLink)
    BY <1>1, <1>2, <2>1, <2>2 DEF Finds, Link, NoLink
  <2>4. CASE lk[th] = "known" /\ pc' = [pc EXCEPT ![th] = "nottmp"] /\ UNCHANGED lk
    BY <1>3, <2>1, <2>3, <2>4, FindsStays
  <2>5. CASE Leave(th)
    <3>1. pc' = [pc EXCEPT ![th] = "idle"] /\ lk' = [lk EXCEPT ![th] = NoLink]
      BY <2>5 DEF Leave
    <3> QED
      BY <1>3, <2>1, <2>3, <3>1, FindsStays
  <2> QED
    BY <2>1, <2>4, <2>5
<1>6. CASE SayNotTmp(th)
  <2>1. /\ pc[th] = "nottmp" /\ at' = at
        /\ (pc' = [pc EXCEPT ![th] = "again"] /\ UNCHANGED lk) \/ Leave(th)
    BY <1>6 DEF SayNotTmp
  <2>2. th # Listener /\ at[s] = "known"
    BY <1>1, <2>1, Threads DEF PlacesInv, ListenerInv, AdminInv
  <2>3. F(at[s], "again", lk[th]) /\ F(at[s], "idle", NoLink)
    BY <1>2, <2>2 DEF Finds, NoLink
  <2>4. CASE pc' = [pc EXCEPT ![th] = "again"] /\ UNCHANGED lk
    BY <1>3, <2>1, <2>3, <2>4, FindsStays
  <2>5. CASE Leave(th)
    <3>1. pc' = [pc EXCEPT ![th] = "idle"] /\ lk' = [lk EXCEPT ![th] = NoLink]
      BY <2>5 DEF Leave
    <3> QED
      BY <1>3, <2>1, <2>3, <3>1, FindsStays
  <2> QED
    BY <2>1, <2>4, <2>5
<1> QED
  BY <1>4, <1>5, <1>6 DEF ThreadStep

LEMMA FindsAdmin ==
  ASSUME PlacesInv, InInv, FindsInv, NEW s \in Side, AdminStep(s)
  PROVE  FindsInv'
<1> DEFINE F(a, p, l) == Finds(a, p, l, admin[s], rpc[s], inmap[s])
<1>1. /\ F(at[s], pc[Admin(s)], lk[Admin(s)]) /\ Admin(s) \in Thread /\ Admin(s) # Listener
      /\ Admin(s)[1] = s
  BY Threads DEF FindsInv
<1>2. CASE OldHello(s) \/ HearNotTmp(s) \/ Execute(s) \/ StopAgent(s)
  <2>1. /\ pc[Admin(s)] = "idle" /\ admin[s] # <<>> /\ admin' = [admin EXCEPT ![s] = Tail(admin[s])]
        /\ UNCHANGED <<at, rpc, pc, lk, inmap>>
    BY <1>2 DEF OldHello, HearNotTmp, Execute, StopAgent, Dequeue, linkVars, acceptVars
  <2> QED
    BY <2>1, FindsTaken
<1>3. CASE EraseLink(s)
  <2>1. /\ pc[Admin(s)] = "idle" /\ admin[s] # <<>> /\ admin' = [admin EXCEPT ![s] = Tail(admin[s])]
        /\ UNCHANGED <<at, rpc, pc, lk>> /\ Head(admin[s]).kind = "remove"
        /\ inmap' = [inmap EXCEPT ![s] = inmap[s] \ {Head(admin[s]).link}]
    BY <1>3 DEF EraseLink, Dequeue, NextMsg, acceptVars
  <2>2. Head(admin[s]) \in Notice
    <3>1. Head(admin[s]) \in Mess \cup Notice
      BY <2>1 DEF InInv
    <3>2. Head(admin[s]) \notin Mess
      BY <2>1 DEF Mess
    <3> QED
      BY <3>1, <3>2
  <2> QED
    BY <2>1, <2>2, FindsTaken
<1>4. CASE Greet(s)
  <2>1. /\ pc[Admin(s)] = "idle" /\ admin[s] # <<>> /\ admin' = [admin EXCEPT ![s] = Tail(admin[s])]
        /\ UNCHANGED <<at, rpc, lk>> /\ pc' = [pc EXCEPT ![Admin(s)] = "detach"]
        /\ at[s] = "tmp" /\ inmap' = [inmap EXCEPT ![s] = {"known"}]
    BY <1>4 DEF Greet, Dequeue
  <2> QED
    BY <2>1, FindsTaken
<1>5. CASE Detach(s)
  <2>1. /\ pc' = [pc EXCEPT ![Admin(s)] = "flush"] /\ UNCHANGED lk /\ at' = [at EXCEPT ![s] = NoLink]
        /\ UNCHANGED <<admin, rpc, inmap>>
    BY <1>5 DEF Detach, recvVars
  <2>2. F(NoLink, "flush", lk[Admin(s)])
    BY <1>1 DEF Finds, NoLink
  <2>3. lk' = [lk EXCEPT ![Admin(s)] = lk[Admin(s)]]
    BY <1>1, <2>1 DEF PlacesInv, HangsInv, Shapes
  <2> QED
    BY <1>1, <2>1, <2>2, <2>3, FindsMoved
<1>6. CASE Flush(s)
  <2>1. /\ pc' = [pc EXCEPT ![Admin(s)] = "append"] /\ UNCHANGED <<at, lk, admin, rpc, inmap>>
    BY <1>6 DEF Flush, recvVars
  <2>2. F(at[s], "append", lk[Admin(s)])
    BY <1>1 DEF Finds
  <2> QED
    BY <1>1, <2>1, <2>2, FindsStays
<1>7. CASE MoveOver(s)
  <2>1. /\ pc' = [pc EXCEPT ![Admin(s)] = "attach"] /\ lk' = [lk EXCEPT ![Admin(s)] = "known"]
        /\ UNCHANGED <<at, admin, rpc, inmap>>
    BY <1>7 DEF MoveOver, recvVars
  <2>2. F(at[s], "attach", "known")
    BY <1>1 DEF Finds
  <2> QED
    BY <1>1, <2>1, <2>2, FindsStays
<1>8. CASE SayNotTmpAgain(s) \/ MarkMaster(s)
  <2>1. /\ pc[Admin(s)] \in {"again", "report"} /\ UNCHANGED <<at, admin, rpc, inmap>>
        /\ (pc' = [pc EXCEPT ![Admin(s)] = "report"] /\ UNCHANGED lk) \/ Leave(Admin(s))
    BY <1>8 DEF SayNotTmpAgain, MarkMaster, recvVars
  <2>2. at[s] = "known"
    BY <2>1 DEF PlacesInv, AdminInv
  <2>3. F(at[s], "report", lk[Admin(s)]) /\ F(at[s], "idle", NoLink)
    BY <1>1, <2>2 DEF Finds, NoLink
  <2>4. CASE pc' = [pc EXCEPT ![Admin(s)] = "report"] /\ UNCHANGED lk
    BY <1>1, <2>1, <2>3, <2>4, FindsStays
  <2>5. CASE Leave(Admin(s))
    <3>1. pc' = [pc EXCEPT ![Admin(s)] = "idle"] /\ lk' = [lk EXCEPT ![Admin(s)] = NoLink]
      BY <2>5 DEF Leave
    <3> QED
      BY <1>1, <2>1, <2>3, <3>1, FindsStays
  <2> QED
    BY <2>1, <2>4, <2>5
<1> QED
  BY <1>2, <1>3, <1>4, <1>5, <1>6, <1>7, <1>8 DEF AdminStep

LEMMA FindsReceiver ==
  ASSUME PlacesInv, InInv, OutInv, FindsInv, NEW s \in Side, ReceiverStep(s)
  PROVE  FindsInv'
<1> DEFINE q == admin[s]
           F(k, r) == Finds(at[s], pc[Admin(s)], lk[Admin(s)], k, r, inmap[s])
<1>1. F(q, rpc[s]) /\ q \in Seq(Mess \cup Notice)
  BY DEF FindsInv, InInv
<1>2. UNCHANGED <<at, pc, lk, inmap>>
  BY DEF ReceiverStep, Receive, LostConnection, OnClose, ReceiverEnds, linkVars, acceptVars
<1>3. /\ rpc' \in [Side -> {"run", "lost", "told", "done"}]
      /\ \A x \in Side \ {s} : admin'[x] = admin[x] /\ rpc'[x] = rpc[x]
  BY DEF ReceiverStep, Receive, Take, LostConnection, OnClose, ReceiverEnds, FindsInv, InInv
<1>4. F(admin'[s], rpc'[s])
  <2>1. CASE Receive(s)
    <3> DEFINE m == Head(wire[Peer(s)])
    <3>1. /\ rpc[s] = "run" /\ rpc' = rpc /\ at[s] # NoLink
          /\ admin'[s] = Append(q, m) \/ admin'[s] = q
      BY <2>1 DEF Receive, Take, Hangs, InInv
    <3>2. m \in Mess
      <4>1. wire[Peer(s)] \in Seq(Mess) /\ wire[Peer(s)] # <<>>
        BY <2>1, Threads DEF Receive, OutInv
      <4> QED
        BY <4>1
    <3>3. m \notin Notice
      BY <3>2, NoticeKinds DEF Mess
    <3> HIDE DEF q, m
    <3>4. \A i \in DOMAIN Append(q, m) : Append(q, m)[i] \in {q[i], m} /\ (i \in DOMAIN q \/ Append(q, m)[i] = m)
      BY <1>1, <3>2
    <3>5. \A i \in DOMAIN q : Append(q, m)[i] = q[i]
      BY <1>1, <3>2
    <3>6. \A i \in DOMAIN Append(q, m) : Append(q, m)[i] \notin Notice
      BY <1>1, <3>1, <3>3, <3>4, <3>5 DEF Finds
    <3> QED
      BY <1>1, <3>1, <3>5, <3>6 DEF Finds
  <2>2. CASE LostConnection(s)
    <3>1. /\ rpc[s] = "run" /\ admin' = admin
          /\ rpc'[s] = IF at[s] = NoLink THEN "done" ELSE "lost"
      BY <2>2 DEF LostConnection, FindsInv
    <3> QED
      BY <1>1, <3>1 DEF Finds
  <2>3. CASE OnClose(s)
    <3>1. /\ rpc[s] = "lost" /\ rpc'[s] = "told"
          /\ \E m : admin'[s] = Append(q, m)
      BY <2>3 DEF OnClose, FindsInv, InInv
    <3>2. PICK m : admin'[s] = Append(q, m)
      BY <3>1
    <3> HIDE DEF q
    <3>3. /\ Len(Append(q, m)) = Len(q) + 1
          /\ \A i \in DOMAIN Append(q, m) : i = Len(q) + 1 \/ (i \in DOMAIN q /\ Append(q, m)[i] = q[i])
      BY <1>1
    <3> QED
      BY <1>1, <3>1, <3>2, <3>3 DEF Finds
  <2>4. CASE ReceiverEnds(s)
    <3>1. rpc[s] = "told" /\ rpc'[s] = "done" /\ admin' = admin
      BY <2>4 DEF ReceiverEnds, FindsInv
    <3> QED
      BY <1>1, <3>1 DEF Finds
  <2> QED
    BY <2>1, <2>2, <2>3, <2>4 DEF ReceiverStep
<1> HIDE DEF q
<1>5. inmap' \in [Side -> SUBSET Link]
  BY <1>2 DEF FindsInv
<1> QED
  BY <1>2, <1>3, <1>4, <1>5, FindsOf

LEMMA FindsStep == PlacesInv /\ TellInv /\ FindsInv /\ [Next]_vars => FindsInv'
<1> SUFFICES ASSUME PlacesInv, TellInv, FindsInv, [Next]_vars PROVE FindsInv'
  OBVIOUS
<1>1. CASE UNCHANGED <<at, pc, lk, admin, rpc, inmap>>
  BY <1>1 DEF FindsInv
<1>2. ASSUME NEW s \in Side, SenderStep(s) \/ Send(s) PROVE FindsInv'
  BY <1>1, <1>2 DEF SenderStep, Transmit, OnSent, Send, linkVars, recvVars, acceptVars
<1>3. ASSUME Lose \/ UNCHANGED vars PROVE FindsInv'
  BY <1>1, <1>3 DEF Lose, vars, linkVars, recvVars, acceptVars
<1>4. ASSUME NEW s \in Side, MakeLink(s) PROVE FindsInv'
  <2>1. UNCHANGED <<at, pc, lk, admin, rpc>> /\ inmap' = [inmap EXCEPT ![s] = inmap[s] \cup {"known"}]
    BY <1>4 DEF MakeLink, recvVars, acceptVars
  <2>2. inmap' \in [Side -> SUBSET Link] /\ \A x \in Side : inmap[x] \subseteq inmap'[x]
    BY <2>1 DEF FindsInv, Link
  <2> QED
    BY <2>1, <2>2, Threads DEF FindsInv, Finds
<1> QED
  BY <1>2, <1>3, <1>4, FindsThread, FindsAdmin, FindsReceiver DEF Next, TellInv

\* The assertions of the hello messages never fail over one connection: when a
\* peer_hello_msg or a nottmp_hello_msg is executed, the net link it came by hangs on a
\* link, and for a hello on the temporary one this is still on the map - though the
\* receiving thread, a loss of the connection and the tasks all go on meanwhile.
THEOREM HelloIsSafe == Spec => []HelloFindsLink
<1>1. InInv /\ FindsInv /\ PlacesInv => HelloFindsLink
  <2> SUFFICES ASSUME PlacesInv, FindsInv, NEW s \in Side, pc[Admin(s)] = "idle", admin[s] # <<>>
               PROVE  at[s] = "known" \/ (at[s] = "tmp" /\ "tmp" \in inmap[s])
    BY DEF HelloFindsLink
  <2>1. Finds(at[s], pc[Admin(s)], lk[Admin(s)], admin[s], rpc[s], inmap[s])
    BY DEF FindsInv
  <2>2. at[s] \in {"tmp", "known", NoLink}
    BY DEF PlacesInv, HangsInv, Shapes, Link
  <2> QED
    BY <2>1, <2>2 DEF Finds
<1>2. TellInv => InInv
  BY DEF TellInv
<1> QED
  BY <1>1, <1>2, TellInvariant, FindsInit, FindsStep, PTL DEF Spec

-----------------------------------------------------------------------------
(* NetLink implements Channel: the messages of tasks arrive in the order   *)
(* they were sent, and none is skipped, although one may be sent twice;    *)
(* those that wait for the admin thread are executed in that order, too.   *)


-----------------------------------------------------------------------------
(* Runs of numbered messages                                               *)

IsUser(m) == m.kind = "user"

\* The messages of tasks in q, with other ones between them, lead from number a to
\* number b: f is the number of the last one so far, D by how much it may grow.
Climbs(q, f, a, b) ==
  /\ f[0] = a /\ f[Len(q)] = b
  /\ \A i, j \in 0..Len(q) : i <= j => f[i] <= f[j]
Counts(q, f, D) ==
  \A i \in 1..Len(q) : IF IsUser(q[i]) THEN q[i] = User(f[i]) /\ f[i] - f[i - 1] \in D
                       ELSE f[i] = f[i - 1]
Leads(q, f, a, b, D) == Climbs(q, f, a, b) /\ Counts(q, f, D)
Run(q, a, b, D) == \E f \in [0..Len(q) -> Nat] : Leads(q, f, a, b, D)

LEMMA RunEmpty == ASSUME NEW a \in Nat, NEW D PROVE Run(<<>>, a, a, D)
<1> DEFINE f == [i \in 0..0 |-> a]
<1>1. f \in [0..Len(<<>>) -> Nat] /\ Leads(<<>>, f, a, a, D)
  BY DEF Leads, Climbs, Counts
<1> QED
  BY <1>1 DEF Run

\* A run does not go down.
LEMMA RunBounds ==
  ASSUME NEW S, NEW q \in Seq(S), NEW a, NEW b, NEW D, Run(q, a, b, D)
  PROVE  a \in Nat /\ b \in Nat /\ a <= b
<1>1. PICK f \in [0..Len(q) -> Nat] : Leads(q, f, a, b, D)
  BY DEF Run
<1>2. 0 \in 0..Len(q) /\ Len(q) \in 0..Len(q)
  OBVIOUS
<1> QED
  BY <1>1, <1>2 DEF Leads, Climbs

LEMMA RunAppend ==
  ASSUME NEW S, NEW q \in Seq(S), NEW a, NEW b, NEW D, Run(q, a, b, D), NEW m \in S, NEW c \in Nat,
         IF IsUser(m) THEN m = User(c) /\ c - b \in D /\ b <= c ELSE c = b
  PROVE  Run(Append(q, m), a, c, D)
<1>1. PICK f \in [0..Len(q) -> Nat] : Leads(q, f, a, b, D)
  BY DEF Run
<1> DEFINE r == Append(q, m)
           g == [i \in 0..(Len(q) + 1) |-> IF i <= Len(q) THEN f[i] ELSE c]
<1>2. Len(r) = Len(q) + 1 /\ Len(q) \in Nat /\ r[Len(q) + 1] = m /\ \A i \in 1..Len(q) : r[i] = q[i]
  OBVIOUS
<1>3. g \in [0..Len(r) -> Nat]
  BY <1>2
<1>4. \A i \in 0..Len(q) : g[i] = f[i] /\ f[i] \in Nat /\ f[i] <= b
  BY <1>1, <1>2 DEF Leads, Climbs
<1>5. g[Len(q) + 1] = c /\ b \in Nat /\ b <= c /\ g[0] = a /\ g[Len(q)] = b
  BY <1>1, <1>2, <1>4 DEF Leads, Climbs
<1> HIDE DEF g, r
<1>6. \A i, j \in 0..Len(r) : i <= j => g[i] <= g[j]
  <2> SUFFICES ASSUME NEW i \in 0..Len(r), NEW j \in 0..Len(r), i <= j PROVE g[i] <= g[j]
    OBVIOUS
  <2>1. CASE j <= Len(q)
    BY <1>1, <1>2, <1>4, <2>1 DEF Leads, Climbs
  <2>2. CASE j = Len(q) + 1
    <3>1. i \in 0..Len(q) \/ i = j
      BY <1>2, <2>2
    <3> QED
      BY <1>4, <1>5, <2>2, <3>1
  <2> QED
    BY <1>2, <2>1, <2>2
<1>7. \A i \in 1..Len(r) : IF IsUser(r[i]) THEN r[i] = User(g[i]) /\ g[i] - g[i - 1] \in D
                           ELSE g[i] = g[i - 1]
  <2> SUFFICES ASSUME NEW i \in 1..Len(r)
               PROVE  IF IsUser(r[i]) THEN r[i] = User(g[i]) /\ g[i] - g[i - 1] \in D ELSE g[i] = g[i - 1]
    OBVIOUS
  <2>1. CASE i <= Len(q)
    <3>1. i \in 1..Len(q) /\ g[i] = f[i] /\ g[i - 1] = f[i - 1] /\ r[i] = q[i]
      BY <1>2, <1>4, <2>1
    <3> QED
      BY <1>1, <3>1 DEF Leads, Counts
  <2>2. CASE i = Len(q) + 1
    BY <1>2, <1>5, <2>2
  <2> QED
    BY <1>2, <2>1, <2>2
<1>8. Leads(r, g, a, c, D)
  BY <1>2, <1>5, <1>6, <1>7 DEF Leads, Climbs, Counts
<1> QED
  BY <1>3, <1>8 DEF Run, r

LEMMA RunTail ==
  ASSUME NEW S, NEW q \in Seq(S), NEW a, NEW b, NEW D, Run(q, a, b, D), q # <<>>
  PROVE  \E c \in Nat : /\ Run(Tail(q), c, b, D) /\ a <= c
                        /\ IF IsUser(Head(q)) THEN Head(q) = User(c) /\ c - a \in D ELSE c = a
<1>1. PICK f \in [0..Len(q) -> Nat] : Leads(q, f, a, b, D)
  BY DEF Run
<1> DEFINE r == Tail(q)
           g == [i \in 0..(Len(q) - 1) |-> f[i + 1]]
<1>2. /\ Len(q) \in Nat \ {0} /\ Len(r) = Len(q) - 1 /\ Head(q) = q[1]
      /\ \A i \in 1..Len(r) : r[i] = q[i + 1]
  OBVIOUS
<1>3. g \in [0..Len(r) -> Nat]
  BY <1>2
<1>4. \A i \in 0..Len(r) : g[i] = f[i + 1] /\ i + 1 \in 0..Len(q) /\ i + 1 \in 1..Len(q)
  BY <1>2
<1> HIDE DEF g, r
<1>5. \A i, j \in 0..Len(r) : i <= j => g[i] <= g[j]
  BY <1>1, <1>2, <1>4 DEF Leads, Climbs
<1>6. \A i \in 1..Len(r) : IF IsUser(r[i]) THEN r[i] = User(g[i]) /\ g[i] - g[i - 1] \in D
                           ELSE g[i] = g[i - 1]
  <2> SUFFICES ASSUME NEW i \in 1..Len(r)
               PROVE  IF IsUser(r[i]) THEN r[i] = User(g[i]) /\ g[i] - g[i - 1] \in D ELSE g[i] = g[i - 1]
    OBVIOUS
  <2>1. /\ i + 1 \in 1..Len(q) /\ g[i] = f[i + 1] /\ g[i - 1] = f[i] /\ r[i] = q[i + 1]
        /\ (i + 1) - 1 = i
    BY <1>2, <1>4
  <2>2. IF IsUser(q[i + 1]) THEN q[i + 1] = User(f[i + 1]) /\ f[i + 1] - f[(i + 1) - 1] \in D
        ELSE f[i + 1] = f[(i + 1) - 1]
    BY <1>1, <2>1 DEF Leads, Counts
  <2> QED
    BY <2>1, <2>2
<1>7. g[0] = f[1] /\ g[Len(r)] = b
  BY <1>1, <1>2, <1>4 DEF Leads, Climbs
<1>8. Leads(r, g, f[1], b, D)
  BY <1>5, <1>6, <1>7 DEF Leads, Climbs, Counts
<1>9. f[1] \in Nat /\ Run(r, f[1], b, D)
  BY <1>2, <1>3, <1>8 DEF Run
<1>10. a = f[0] /\ f[0] <= f[1] /\ 1 \in 1..Len(q) /\ 1 - 1 = 0
  BY <1>1, <1>2 DEF Leads, Climbs
<1>11. IF IsUser(q[1]) THEN q[1] = User(f[1]) /\ f[1] - f[0] \in D ELSE f[1] = f[0]
  BY <1>1, <1>10 DEF Leads, Counts
<1> QED
  BY <1>2, <1>9, <1>10, <1>11 DEF r

\* Other messages behind a run change nothing.
LEMMA RunJoin ==
  ASSUME NEW S, NEW q \in Seq(S), NEW r \in Seq(S), \A i \in DOMAIN r : ~IsUser(r[i]),
         NEW a, NEW b, NEW D, Run(q, a, b, D)
  PROVE  Run(q \o r, a, b, D)
<1>1. PICK f \in [0..Len(q) -> Nat] : Leads(q, f, a, b, D)
  BY DEF Run
<1> DEFINE t == q \o r
           g == [i \in 0..(Len(q) + Len(r)) |-> IF i <= Len(q) THEN f[i] ELSE b]
<1>2. /\ Len(t) = Len(q) + Len(r) /\ Len(q) \in Nat /\ Len(r) \in Nat
      /\ \A i \in 1..Len(q) : t[i] = q[i]
      /\ \A i \in (Len(q) + 1)..Len(t) : t[i] = r[i - Len(q)] /\ i - Len(q) \in DOMAIN r
  OBVIOUS
<1>3. b \in Nat
  BY <1>1, <1>2 DEF Leads, Climbs
<1>4. g \in [0..Len(t) -> Nat]
  BY <1>2, <1>3
<1>5. /\ \A i \in 0..Len(q) : g[i] = f[i] /\ f[i] \in Nat /\ f[i] <= b
      /\ \A i \in (Len(q) + 1)..Len(t) : g[i] = b
  <2>1. \A i \in 0..Len(q) : g[i] = f[i] /\ f[i] \in Nat
    BY <1>2
  <2>2. \A i \in (Len(q) + 1)..Len(t) : g[i] = b
    BY <1>2
  <2>3. \A i \in 0..Len(q) : f[i] <= b
    BY <1>1, <1>2 DEF Leads, Climbs
  <2> QED
    BY <2>1, <2>2, <2>3
<1> HIDE DEF g, t
<1>6. g[0] = a /\ g[Len(q)] = b /\ g[Len(t)] = b
  <2>1. 0 \in 0..Len(q) /\ Len(q) \in 0..Len(q) /\ (Len(t) = Len(q) \/ Len(t) \in (Len(q) + 1)..Len(t))
    BY <1>2
  <2>2. g[0] = f[0] /\ g[Len(q)] = f[Len(q)] /\ f[0] = a /\ f[Len(q)] = b
    BY <1>1, <1>5, <2>1 DEF Leads, Climbs
  <2> QED
    BY <1>5, <2>1, <2>2
<1>7. \A i, j \in 0..Len(t) : i <= j => g[i] <= g[j]
  <2> SUFFICES ASSUME NEW i \in 0..Len(t), NEW j \in 0..Len(t), i <= j PROVE g[i] <= g[j]
    OBVIOUS
  <2>1. (i \in 0..Len(q) \/ i \in (Len(q) + 1)..Len(t)) /\ (j \in 0..Len(q) \/ j \in (Len(q) + 1)..Len(t))
    BY <1>2
  <2>2. CASE j \in 0..Len(q)
    <3>1. i \in 0..Len(q) /\ g[i] = f[i] /\ g[j] = f[j]
      BY <1>2, <1>5, <2>2
    <3> QED
      BY <1>1, <2>2, <3>1 DEF Leads, Climbs
  <2>3. CASE j \in (Len(q) + 1)..Len(t)
    <3>1. g[j] = b /\ (g[i] = b \/ g[i] <= b)
      BY <1>5, <2>1, <2>3
    <3> QED
      BY <1>3, <3>1
  <2> QED
    BY <2>1, <2>2, <2>3
<1>8. \A i \in 1..Len(t) : IF IsUser(t[i]) THEN t[i] = User(g[i]) /\ g[i] - g[i - 1] \in D
                           ELSE g[i] = g[i - 1]
  <2> SUFFICES ASSUME NEW i \in 1..Len(t)
               PROVE  IF IsUser(t[i]) THEN t[i] = User(g[i]) /\ g[i] - g[i - 1] \in D ELSE g[i] = g[i - 1]
    OBVIOUS
  <2>1. CASE i \in 1..Len(q)
    <3>1. i \in 0..Len(q) /\ i - 1 \in 0..Len(q)
      BY <1>2, <2>1
    <3>2. g[i] = f[i] /\ g[i - 1] = f[i - 1] /\ t[i] = q[i]
      BY <1>2, <1>5, <2>1, <3>1
    <3> QED
      BY <1>1, <2>1, <3>2 DEF Leads, Counts
  <2>2. CASE i \in (Len(q) + 1)..Len(t)
    <3>1. ~IsUser(t[i]) /\ g[i] = b
      BY <1>2, <1>5, <2>2
    <3>2. i - 1 = Len(q) \/ i - 1 \in (Len(q) + 1)..Len(t)
      BY <1>2, <2>2
    <3>3. g[i - 1] = b
      BY <1>5, <1>6, <3>2
    <3> QED
      BY <3>1, <3>3
  <2>3. i \in 1..Len(q) \/ i \in (Len(q) + 1)..Len(t)
    BY <1>2
  <2> QED
    BY <2>1, <2>2, <2>3
<1>9. Leads(t, g, a, b, D)
  BY <1>6, <1>7, <1>8 DEF Leads, Climbs, Counts
<1> QED
  BY <1>4, <1>9 DEF Run, t

\* A run that goes up by ones, or stays, has every number on its way.
LEMMA RunHolds ==
  ASSUME NEW S, NEW q \in Seq(S), NEW a, NEW b, NEW D \in SUBSET {0, 1}, Run(q, a, b, D),
         NEW n \in Nat, a < n, n <= b
  PROVE  \E i \in DOMAIN q : q[i] = User(n)
<1>1. PICK f \in [0..Len(q) -> Nat] : Leads(q, f, a, b, D)
  BY DEF Run
<1> DEFINE I == {i \in 0..Len(q) : f[i] >= n}
<1>2. Len(q) \in Nat /\ f[0] = a /\ f[Len(q)] = b /\ I \in SUBSET Nat
  BY <1>1 DEF Leads, Climbs
<1>3. Len(q) \in I
  BY <1>2
<1>4. Min(I) \in I /\ \A i \in I : Min(I) <= i
  <2> HIDE DEF I
  <2> QED
    BY <1>2, <1>3, Least
<1>5. PICK k \in I : \A i \in I : k <= i
  BY <1>4
<1>6. k \in 0..Len(q) /\ f[k] >= n /\ k # 0
  BY <1>2, <1>5
<1>7. k - 1 \in 0..Len(q) /\ k \in 1..Len(q) /\ k - 1 \notin I
  BY <1>2, <1>5, <1>6
<1>8. f[k - 1] \in Nat /\ f[k - 1] < n /\ f[k] \in Nat
  BY <1>6, <1>7
<1>9. IF IsUser(q[k]) THEN q[k] = User(f[k]) /\ f[k] - f[k - 1] \in D ELSE f[k] = f[k - 1]
  BY <1>1, <1>7 DEF Leads, Counts
<1>10. f[k] = n /\ q[k] = User(f[k])
  BY <1>6, <1>8, <1>9
<1> QED
  BY <1>7, <1>10

\* A run without its message at place k, all before it being at most as high.
LEMMA RunRemoved ==
  ASSUME NEW S, NEW q \in Seq(S), NEW a, NEW b, NEW f \in [0..Len(q) -> Nat],
         Leads(q, f, a, b, {1}), NEW k \in 1..Len(q), NEW d \in {0, 1}, f[k] = f[k - 1] + d,
         d = 1 => f[k - 1] = a
  PROVE  Run(RemoveAt(q, k), a + d, b, {1})
<1> DEFINE r == RemoveAt(q, k)
           g == [i \in 0..(Len(q) - 1) |-> IF i < k THEN f[i] + d ELSE f[i + 1]]
<1>1. /\ Len(q) \in Nat \ {0} /\ Len(r) = Len(q) - 1 /\ k \in Nat \ {0}
      /\ \A i \in 1..Len(r) : r[i] = IF i < k THEN q[i] ELSE q[i + 1]
  <2> DEFINE u == SubSeq(q, 1, k - 1)
             v == SubSeq(q, k + 1, Len(q))
  <2>1. /\ Len(q) \in Nat \ {0} /\ k \in Nat \ {0} /\ k <= Len(q)
        /\ u \in Seq(S) /\ v \in Seq(S)
    OBVIOUS
  <2>2. Len(u) = k - 1 /\ Len(v) = Len(q) - k
    BY <2>1
  <2>3. (\A i \in 1..(k - 1) : u[i] = q[i]) /\ \A i \in 1..(Len(q) - k) : v[i] = q[i + k]
    BY <2>1
  <2> HIDE DEF u, v
  <2>4. r = u \o v
    BY DEF RemoveAt, u, v
  <2> HIDE DEF r
  <2>5. Len(r) = Len(q) - 1
    <3>1. u \in Seq(S) /\ v \in Seq(S)
      BY <2>1
    <3>2. Len(u \o v) = Len(u) + Len(v)
      BY <3>1
    <3> QED
      BY <2>1, <2>2, <2>4, <3>2
  <2>6. ASSUME NEW i \in 1..Len(r) PROVE r[i] = IF i < k THEN q[i] ELSE q[i + 1]
    <3>1. r[i] = IF i <= Len(u) THEN u[i] ELSE v[i - Len(u)]
      BY <2>1, <2>2, <2>4, <2>5, <2>6
    <3>2. CASE i < k
      <4>1. i <= k - 1 /\ i \in 1..(k - 1)
        BY <2>1, <2>5, <3>2
      <4> QED
        BY <2>2, <2>3, <3>1, <3>2, <4>1
    <3>3. CASE ~(i < k)
      <4>1. ~(i <= k - 1) /\ i - (k - 1) \in 1..(Len(q) - k) /\ (i - (k - 1)) + k = i + 1
        BY <2>1, <2>5, <3>3
      <4> QED
        BY <2>2, <2>3, <3>1, <3>3, <4>1
    <3> QED
      BY <3>2, <3>3
  <2> QED
    BY <2>1, <2>5, <2>6
<1>2. /\ \A i \in 0..Len(r) : i < k => g[i] = f[i] + d /\ i \in 0..Len(q) /\ i <= k - 1
      /\ \A i \in 0..Len(r) : ~(i < k) => g[i] = f[i + 1] /\ i + 1 \in 0..Len(q) /\ k <= i + 1
      /\ k - 1 \in 0..Len(q) /\ k \in 0..Len(q) /\ f[k] \in Nat /\ f[k - 1] \in Nat
      /\ \A i \in 0..Len(q) : f[i] \in Nat
  <2>1. /\ Len(q) \in Nat \ {0} /\ Len(r) = Len(q) - 1 /\ k \in Nat \ {0} /\ k <= Len(q)
        /\ k - 1 \in 0..Len(q) /\ k \in 0..Len(q)
    BY <1>1
  <2>2. /\ \A i \in 0..Len(q) : f[i] \in Nat
        /\ f[k] \in Nat /\ f[k - 1] \in Nat
    BY <2>1
  <2> HIDE DEF r
  <2>3. ASSUME NEW i \in 0..Len(r)
        PROVE  i \in 0..(Len(q) - 1) /\ i \in 0..Len(q) /\ i + 1 \in 0..Len(q)
    BY <2>1, <2>3
  <2>4. ASSUME NEW i \in 0..Len(r) PROVE g[i] = IF i < k THEN f[i] + d ELSE f[i + 1]
    BY <2>3, <2>4
  <2>5. ASSUME NEW i \in 0..Len(r), i < k PROVE i <= k - 1
    BY <2>1, <2>3, <2>5
  <2>6. ASSUME NEW i \in 0..Len(r), ~(i < k) PROVE k <= i + 1
    BY <2>1, <2>3, <2>6
  <2> HIDE DEF g
  <2>7. \A i \in 0..Len(r) : i < k => g[i] = f[i] + d /\ i \in 0..Len(q) /\ i <= k - 1
    BY <2>3, <2>4, <2>5
  <2>8. \A i \in 0..Len(r) : ~(i < k) => g[i] = f[i + 1] /\ i + 1 \in 0..Len(q) /\ k <= i + 1
    BY <2>3, <2>4, <2>6
  <2> QED
    BY <2>1, <2>2, <2>7, <2>8
<1>3. g \in [0..Len(r) -> Nat]
  BY <1>1, <1>2, SMTT(30)
<1> HIDE DEF g, r
<1>4. /\ \A i, j \in 0..Len(q) : i <= j => f[i] <= f[j]
      /\ f[0] = a /\ f[Len(q)] = b /\ a \in Nat
  BY <1>1 DEF Leads, Climbs
<1>5. \A i, j \in 0..Len(r) : i <= j => g[i] <= g[j]
  <2> SUFFICES ASSUME NEW i \in 0..Len(r), NEW j \in 0..Len(r), i <= j PROVE g[i] <= g[j]
    OBVIOUS
  <2>1. CASE j < k
    <3>0. i < k
      BY <1>1, <2>1
    <3>1. i \in 0..Len(q) /\ j \in 0..Len(q) /\ g[i] = f[i] + d /\ g[j] = f[j] + d
      BY <1>2, <2>1, <3>0
    <3>2. f[i] \in Nat /\ f[j] \in Nat /\ f[i] <= f[j]
      BY <1>4, <3>1
    <3> QED
      BY <3>1, <3>2
  <2>2. CASE ~(i < k)
    <3>1. ~(j < k) /\ i + 1 <= j + 1
      BY <1>1, <2>2
    <3>2. i + 1 \in 0..Len(q) /\ j + 1 \in 0..Len(q) /\ g[i] = f[i + 1] /\ g[j] = f[j + 1]
      BY <1>2, <2>2, <3>1
    <3> QED
      BY <1>4, <3>1, <3>2
  <2>3. CASE i < k /\ ~(j < k)
    <3>1. /\ g[i] = f[i] + d /\ g[j] = f[j + 1] /\ i \in 0..Len(q) /\ j + 1 \in 0..Len(q)
          /\ i <= k - 1 /\ k <= j + 1 /\ k \in 0..Len(q) /\ k - 1 \in 0..Len(q)
      BY <1>2, <2>3
    <3>2. f[i] <= f[k - 1] /\ f[k] <= f[j + 1]
      BY <1>4, <3>1
    <3> QED
      BY <1>2, <3>1, <3>2
  <2> QED
    BY <2>1, <2>2, <2>3
<1>6. Counts(q, f, {1})
  BY DEF Leads
<1>7. \A i \in 1..Len(r) : IF IsUser(r[i]) THEN r[i] = User(g[i]) /\ g[i] - g[i - 1] \in {1}
                           ELSE g[i] = g[i - 1]
  <2> SUFFICES ASSUME NEW i \in 1..Len(r)
               PROVE  IF IsUser(r[i]) THEN r[i] = User(g[i]) /\ g[i] - g[i - 1] \in {1}
                      ELSE g[i] = g[i - 1]
    OBVIOUS
  <2>1. i \in 0..Len(r) /\ i - 1 \in 0..Len(r) /\ i \in 1..Len(q) /\ i + 1 \in 1..Len(q) /\ (i + 1) - 1 = i
    BY <1>1
  <2>2. CASE i < k
    <3>1. r[i] = q[i] /\ g[i] = f[i] + d /\ g[i - 1] = f[i - 1] + d
      BY <1>1, <1>2, <2>1, <2>2
    <3>2. f[i] \in Nat /\ f[i - 1] \in Nat
      BY <1>2, <2>1, <2>2
    <3>3. IF IsUser(q[i]) THEN q[i] = User(f[i]) /\ f[i] - f[i - 1] = 1 ELSE f[i] = f[i - 1]
      BY <1>6, <2>1 DEF Counts
    <3>4. CASE d = 0
      BY <3>1, <3>2, <3>3, <3>4
    <3>5. CASE d = 1
      <4>1. i \in 0..Len(q) /\ i - 1 \in 0..Len(q) /\ i <= k - 1 /\ 0 \in 0..Len(q) /\ 0 <= i - 1
        BY <1>1, <1>2, <2>1, <2>2
      <4>2. f[0] <= f[i - 1] /\ f[i - 1] <= f[i] /\ f[i] <= f[k - 1] /\ f[k - 1] = f[0]
        BY <1>2, <1>4, <2>1, <3>5, <4>1
      <4>3. f[i] = f[i - 1]
        BY <1>4, <3>2, <4>2
      <4> QED
        BY <3>1, <3>2, <3>3, <4>3
    <3> QED
      BY <3>4, <3>5
  <2>3. CASE ~(i < k)
    <3>1. r[i] = q[i + 1] /\ g[i] = f[i + 1]
      BY <1>1, <1>2, <2>1, <2>3
    <3>2. g[i - 1] = f[i]
      <4>1. CASE i = k
        BY <1>1, <1>2, <2>1, <4>1
      <4>2. CASE i # k
        <5>1. ~(i - 1 < k) /\ (i - 1) + 1 = i
          BY <1>1, <2>3, <4>2
        <5> QED
          BY <1>2, <2>1, <5>1
      <4> QED
        BY <4>1, <4>2
    <3>3. IF IsUser(q[i + 1]) THEN q[i + 1] = User(f[i + 1]) /\ f[i + 1] - f[(i + 1) - 1] \in {1}
          ELSE f[i + 1] = f[(i + 1) - 1]
      BY <1>6, <2>1 DEF Counts
    <3> QED
      BY <2>1, <3>1, <3>2, <3>3
  <2> QED
    BY <2>2, <2>3
<1>8. g[0] = a + d
  <2>1. 0 \in 0..Len(r) /\ 0 < k
    BY <1>1
  <2> QED
    BY <1>2, <1>4, <2>1
<1>9. g[Len(r)] = b
  <2>1. Len(r) \in 0..Len(r) /\ Len(r) + 1 = Len(q)
    BY <1>1
  <2>2. CASE Len(r) < k
    <3>1. k = Len(q) /\ Len(r) = k - 1
      BY <1>1, <2>2
    <3>2. g[Len(r)] = f[k - 1] + d
      BY <1>2, <2>1, <2>2, <3>1
    <3> QED
      BY <1>4, <3>1, <3>2
  <2>3. CASE ~(Len(r) < k)
    BY <1>2, <1>4, <2>1, <2>3
  <2> QED
    BY <2>2, <2>3
<1>10. Leads(r, g, a + d, b, {1})
  BY <1>5, <1>7, <1>8, <1>9 DEF Leads, Climbs, Counts
<1> QED
  BY <1>3, <1>10 DEF Run, r

\* on_sent takes a message of no task or the first of the tasks' messages, or finds
\* that what it sent is gone.
LEMMA RunSent ==
  ASSUME NEW S, NEW q \in Seq(S), NEW a, NEW b, Run(q, a, b, {1}), NEW m,
         IsUser(m) => m = User(m.n) /\ m.n \in Nat /\ m.n <= a + 1
  PROVE  \/ Run(RemoveFirst(q, m), a, b, {1}) /\ ~(IsUser(m) /\ m.n = a + 1 /\ a < b)
         \/ Run(RemoveFirst(q, m), a + 1, b, {1}) /\ IsUser(m) /\ m.n = a + 1
<1> DEFINE I == {i \in 1..Len(q) : q[i] = m}
<1>1. CASE I = {}
  <2>1. RemoveFirst(q, m) = q
    BY <1>1 DEF RemoveFirst
  <2>2. ~(IsUser(m) /\ m.n = a + 1 /\ a < b)
    <3>1. ASSUME IsUser(m), m.n = a + 1, a < b PROVE FALSE
      <4>1. a \in Nat /\ b \in Nat
        BY RunBounds
      <4>2. \E i \in DOMAIN q : q[i] = User(a + 1)
        BY <3>1, <4>1, RunHolds
      <4> QED
        BY <1>1, <3>1, <4>2
    <3> QED
      BY <3>1
  <2> QED
    BY <2>1, <2>2
<1>2. CASE I # {}
  <2>1. Min(I) \in I
    <3>1. I \in SUBSET Nat
      OBVIOUS
    <3> HIDE DEF I
    <3> QED
      BY <1>2, <3>1, Least
  <2>2. RemoveFirst(q, m) = RemoveAt(q, Min(I))
    BY <1>2 DEF RemoveFirst, SelectInSeq
  <2>3. PICK k \in 1..Len(q) : k = Min(I) /\ q[k] = m
    BY <2>1
  <2>4. RemoveFirst(q, m) = RemoveAt(q, k)
    BY <2>2, <2>3
  <2>5. PICK f \in [0..Len(q) -> Nat] : Leads(q, f, a, b, {1})
    BY DEF Run
  <2>6. IF IsUser(q[k]) THEN q[k] = User(f[k]) /\ f[k] - f[k - 1] \in {1} ELSE f[k] = f[k - 1]
    BY <2>5 DEF Leads, Counts
  <2>7. /\ k \in 0..Len(q) /\ k - 1 \in 0..Len(q) /\ 0 \in 0..Len(q) /\ Len(q) \in 0..Len(q)
        /\ 0 <= k - 1
    OBVIOUS
  <2>8. f[k] \in Nat /\ f[k - 1] \in Nat /\ f[0] = a /\ f[Len(q)] = b /\ a \in Nat /\ b \in Nat
    BY <2>5, <2>7 DEF Leads, Climbs
  <2>9. CASE IsUser(m)
    <3>1. m.n = f[k] /\ f[k] = f[k - 1] + 1
      BY <2>3, <2>6, <2>8, <2>9 DEF User
    <3>2. f[0] <= f[k - 1]
      BY <2>5, <2>7 DEF Leads, Climbs
    <3>3. f[k - 1] = a /\ m.n = a + 1
      BY <2>8, <2>9, <3>1, <3>2
    <3>4. Run(RemoveAt(q, k), a + 1, b, {1})
      BY <2>5, <3>1, <3>3, RunRemoved
    <3> QED
      BY <2>4, <2>9, <3>3, <3>4
  <2>10. CASE ~IsUser(m)
    <3>1. f[k] = f[k - 1] + 0
      BY <2>3, <2>6, <2>8, <2>10
    <3>2. Run(RemoveAt(q, k), a + 0, b, {1})
      BY <2>5, <3>1, RunRemoved
    <3> QED
      BY <2>4, <2>8, <2>10, <3>2
  <2> QED
    BY <2>9, <2>10
<1> QED
  BY <1>1, <1>2

-----------------------------------------------------------------------------
(* The messages of one side's tasks, from its queue to its peer's          *)
(* receiving thread                                                        *)

\* With what the peer's receiving thread has in its hands, k, the last number n it is
\* done with, the wire w, the queue q, the slot m and the message x under way of the
\* side, which has sent t messages, and the connection up or not: k leads from n to some
\* i (n when its hands are empty), the wire on to
\* the last one written, j, and the queue from the last one that left it, c, to t. On
\* a connection that holds j is c, or one more until on_sent comes; what is in the slot
\* is j (once more) or the next one.
Follows(k, n, w, q, m, x, hold, t, i, j, c) ==
  /\ Run(k, n, i, {0, 1})
  /\ Run(w, i, j, {0, 1}) /\ j <= t
  /\ Run(q, c, t, {1})
  /\ IsUser(m) => m = User(m.n) /\ m.n \in Nat /\ m.n <= c + 1 /\ m.n <= t
  /\ IsUser(x) => x = User(x.n) /\ x.n \in Nat /\ x.n <= c + 1
  /\ hold => /\ j = c \/ (j = c + 1 /\ x = User(j))
             /\ IsUser(m) => m.n = j \/ m.n = j + 1
             /\ IsUser(x) => x.n = j
Ordered(k, n, w, q, m, x, hold, t) ==
  \E i, j, c \in Nat : Follows(k, n, w, q, m, x, hold, t, i, j, c)

LEMMA IsUserOf == (\A e : IsUser(User(e)) /\ User(e).n = e /\ User(e) # NoMsg) /\ ~IsUser(NoMsg)
BY DEF IsUser, User, NoMsg

\* The slot is overwritten: by a message of no task, or by the first of the queue.
LEMMA SlotOrdered ==
  ASSUME NEW S, NEW q \in Seq(S), NEW k, NEW n, NEW w, NEW m, NEW x, NEW hold \in BOOLEAN, NEW t,
         Ordered(k, n, w, q, m, x, hold, t), NEW u,
         u = m \/ ~IsUser(u) \/ (q # <<>> /\ u = Head(q))
  PROVE  Ordered(k, n, w, q, u, x, hold, t)
<1>1. PICK i \in Nat, j \in Nat, c \in Nat : Follows(k, n, w, q, m, x, hold, t, i, j, c)
  BY DEF Ordered
<1>2. CASE u = m \/ ~IsUser(u)
  <2>1. Follows(k, n, w, q, u, x, hold, t, i, j, c)
    BY <1>1, <1>2 DEF Follows
  <2> QED
    BY <2>1 DEF Ordered
<1>3. CASE IsUser(u) /\ q # <<>> /\ u = Head(q)
  <2>1. PICK e \in Nat : Run(Tail(q), e, t, {1}) /\ Head(q) = User(e) /\ e - c = 1
    <3>1. Run(q, c, t, {1})
      BY <1>1 DEF Follows
    <3> QED
      BY <1>3, <3>1, RunTail
  <2>2. Tail(q) \in Seq(S) /\ t \in Nat
    BY <1>1, <1>3, RunBounds DEF Follows
  <2>3. e <= t
    BY <2>1, <2>2, RunBounds
  <2>4. u = User(c + 1) /\ u.n = c + 1 /\ c + 1 <= t
    BY <1>3, <2>1, <2>3, IsUserOf
  <2>5. hold => u.n = j \/ u.n = j + 1
    BY <1>1, <2>4 DEF Follows
  <2>6. Follows(k, n, w, q, u, x, hold, t, i, j, c)
    BY <1>1, <2>4, <2>5 DEF Follows
  <2> QED
    BY <2>6 DEF Ordered
<1> QED
  BY <1>2, <1>3

\* The queue changes, but for the messages of tasks.
LEMMA QueueOrdered ==
  ASSUME NEW k, NEW n, NEW w, NEW q, NEW m, NEW x, NEW hold, NEW t,
         Ordered(k, n, w, q, m, x, hold, t), NEW r,
         \A c \in Nat : Run(q, c, t, {1}) => Run(r, c, t, {1})
  PROVE  Ordered(k, n, w, r, m, x, hold, t)
BY DEF Ordered, Follows

\* A task sends a message.
LEMMA SentOrdered ==
  ASSUME NEW q \in Seq(Mess), NEW k, NEW n, NEW w, NEW m, NEW x, NEW hold \in BOOLEAN, NEW t \in Nat,
         Ordered(k, n, w, q, m, x, hold, t)
  PROVE  Ordered(k, n, w, Append(q, User(t + 1)), m, x, hold, t + 1)
<1>1. PICK i \in Nat, j \in Nat, c \in Nat : Follows(k, n, w, q, m, x, hold, t, i, j, c)
  BY DEF Ordered
<1>2. User(t + 1) \in Mess /\ t + 1 \in Nat /\ (t + 1) - t = 1 /\ t <= t + 1
  BY DEF User, Mess
<1>3. Run(q, c, t, {1})
  BY <1>1 DEF Follows
<1>4. Run(Append(q, User(t + 1)), c, t + 1, {1})
  <2> DEFINE v == User(t + 1)
  <2>1. v \in Mess /\ v = User(t + 1)
    BY <1>2
  <2> HIDE DEF v
  <2>2. Run(Append(q, v), c, t + 1, {1})
    BY <1>2, <1>3, <2>1, RunAppend, IsUserOf
  <2> QED
    BY <2>2 DEF v
<1>5. j <= t + 1 /\ (IsUser(m) => m.n <= t + 1)
  BY <1>1 DEF Follows
<1>6. Follows(k, n, w, Append(q, User(t + 1)), m, x, hold, t + 1, i, j, c)
  BY <1>1, <1>4, <1>5 DEF Follows
<1> QED
  BY <1>6 DEF Ordered

\* The sending thread takes the message in the slot; a connection that holds gets it.
LEMMA WrittenOrdered ==
  ASSUME NEW w \in Seq(Mess), NEW k, NEW n, NEW q, NEW m \in Mess, NEW hold \in BOOLEAN,
         NEW t \in Nat, Ordered(k, n, w, q, m, NoMsg, hold, t),
         NEW v, v = IF hold THEN Append(w, m) ELSE w
  PROVE  Ordered(k, n, v, q, NoMsg, m, hold, t)
<1>1. PICK i \in Nat, j \in Nat, c \in Nat : Follows(k, n, w, q, m, NoMsg, hold, t, i, j, c)
  BY DEF Ordered
<1>2. Run(w, i, j, {0, 1}) /\ (IsUser(m) => m = User(m.n) /\ m.n \in Nat)
  BY <1>1 DEF Follows
<1>3. hold => j = c
  BY <1>1, IsUserOf DEF Follows
<1>4. CASE hold /\ IsUser(m)
  <2>1. m.n - j \in {0, 1} /\ j <= m.n /\ m.n <= t /\ m.n <= c + 1
        /\ (m.n = c \/ (m.n = c + 1 /\ m = User(m.n)))
    BY <1>1, <1>2, <1>3, <1>4 DEF Follows
  <2>2. Run(v, i, m.n, {0, 1})
    BY <1>2, <1>4, <2>1, RunAppend
  <2>3. Follows(k, n, v, q, NoMsg, m, hold, t, i, m.n, c)
    BY <1>1, <1>2, <1>4, <2>1, <2>2, IsUserOf DEF Follows
  <2> QED
    BY <1>2, <1>4, <2>3 DEF Ordered
<1>5. CASE hold /\ ~IsUser(m)
  <2>1. Run(v, i, j, {0, 1})
    BY <1>2, <1>5, RunAppend
  <2>2. Follows(k, n, v, q, NoMsg, m, hold, t, i, j, c)
    BY <1>1, <1>3, <1>5, <2>1, IsUserOf DEF Follows
  <2> QED
    BY <2>2 DEF Ordered
<1>6. CASE ~hold
  <2>1. Follows(k, n, v, q, NoMsg, m, hold, t, i, j, c)
    BY <1>1, <1>6, IsUserOf DEF Follows
  <2> QED
    BY <2>1 DEF Ordered
<1> QED
  BY <1>4, <1>5, <1>6

\* on_sent, of the queue the message was taken from.
LEMMA OnSentOrdered ==
  ASSUME NEW q \in Seq(Mess), NEW k, NEW n, NEW w, NEW m, NEW x, NEW hold \in BOOLEAN, NEW t \in Nat,
         Ordered(k, n, w, q, m, x, hold, t)
  PROVE  Ordered(k, n, w, RemoveFirst(q, x), m, NoMsg, hold, t)
<1>1. PICK i \in Nat, j \in Nat, c \in Nat : Follows(k, n, w, q, m, x, hold, t, i, j, c)
  BY DEF Ordered
<1> DEFINE r == RemoveFirst(q, x)
<1>2. /\ Run(q, c, t, {1}) /\ j <= t /\ (IsUser(x) => x = User(x.n) /\ x.n \in Nat /\ x.n <= c + 1)
      /\ hold => (j = c \/ (j = c + 1 /\ x = User(j))) /\ (IsUser(x) => x.n = j)
  BY <1>1 DEF Follows
<1>3. \/ Run(r, c, t, {1}) /\ ~(IsUser(x) /\ x.n = c + 1 /\ c < t)
      \/ Run(r, c + 1, t, {1}) /\ IsUser(x) /\ x.n = c + 1
  BY <1>2, RunSent
<1> HIDE DEF r
<1>4. CASE Run(r, c, t, {1}) /\ ~(IsUser(x) /\ x.n = c + 1 /\ c < t)
  <2>1. hold => j = c
    BY <1>2, <1>4, IsUserOf
  <2>2. Follows(k, n, w, r, m, NoMsg, hold, t, i, j, c)
    BY <1>1, <1>4, <2>1, IsUserOf DEF Follows
  <2> QED
    BY <2>2 DEF Ordered, r
<1>5. CASE Run(r, c + 1, t, {1}) /\ IsUser(x) /\ x.n = c + 1
  <2>1. hold => j = c + 1
    BY <1>2, <1>5
  <2>2. IsUser(m) => m.n \in Nat /\ m.n <= (c + 1) + 1
    BY <1>1 DEF Follows
  <2>3. Follows(k, n, w, r, m, NoMsg, hold, t, i, j, c + 1)
    BY <1>1, <1>5, <2>1, <2>2, IsUserOf DEF Follows
  <2> QED
    BY <2>3 DEF Ordered, r
<1> QED
  BY <1>3, <1>4, <1>5

\* The sent message is not one of a task.
LEMMA OtherSentOrdered ==
  ASSUME NEW k, NEW n, NEW w, NEW q, NEW m, NEW x, NEW hold \in BOOLEAN, NEW t,
         Ordered(k, n, w, q, m, x, hold, t), ~IsUser(x)
  PROVE  Ordered(k, n, w, q, m, NoMsg, hold, t)
<1>1. PICK i \in Nat, j \in Nat, c \in Nat : Follows(k, n, w, q, m, x, hold, t, i, j, c)
  BY DEF Ordered
<1>2. Follows(k, n, w, q, m, NoMsg, hold, t, i, j, c)
  BY <1>1, IsUserOf DEF Follows
<1> QED
  BY <1>2 DEF Ordered

\* The receiving thread of the peer reads a message, ...
LEMMA ReadOrdered ==
  ASSUME NEW w \in Seq(Mess), w # <<>>, NEW k \in Seq(Mess \cup Notice), NEW n, NEW q, NEW m, NEW x,
         NEW hold, NEW t, Ordered(k, n, w, q, m, x, hold, t)
  PROVE  Ordered(Append(k, Head(w)), n, Tail(w), q, m, x, hold, t)
<1>1. PICK i \in Nat, j \in Nat, c \in Nat : Follows(k, n, w, q, m, x, hold, t, i, j, c)
  BY DEF Ordered
<1>2. Run(k, n, i, {0, 1}) /\ Run(w, i, j, {0, 1})
  BY <1>1 DEF Follows
<1> DEFINE h == Head(w)
<1>3. PICK e \in Nat : /\ Run(Tail(w), e, j, {0, 1}) /\ i <= e
                      /\ IF IsUser(h) THEN h = User(e) /\ e - i \in {0, 1} ELSE e = i
  BY <1>2, RunTail
<1>4. h \in Mess \cup Notice
  OBVIOUS
<1> HIDE DEF h
<1>5. Run(Append(k, h), n, e, {0, 1})
  BY <1>2, <1>3, <1>4, RunAppend
<1>6. Follows(Append(k, h), n, Tail(w), q, m, x, hold, t, e, j, c)
  BY <1>1, <1>3, <1>5 DEF Follows
<1> QED
  BY <1>6 DEF Ordered, h

\* ... and takes it: one of a task is the last one that arrived or the next.
LEMMA TakenOrdered ==
  ASSUME NEW k \in Seq(Mess \cup Notice), k # <<>>, NEW n, NEW w \in Seq(Mess), NEW q, NEW m, NEW x,
         NEW hold, NEW t \in Nat, Ordered(k, n, w, q, m, x, hold, t)
  PROVE  IF IsUser(Head(k)) THEN /\ Ordered(Tail(k), Head(k).n, w, q, m, x, hold, t)
                                 /\ n \in Nat /\ Head(k).n \in {n, n + 1} /\ Head(k).n <= t
                                 /\ Head(k) = User(Head(k).n)
         ELSE Ordered(Tail(k), n, w, q, m, x, hold, t)
<1>1. PICK i \in Nat, j \in Nat, c \in Nat : Follows(k, n, w, q, m, x, hold, t, i, j, c)
  BY DEF Ordered
<1>2. Run(k, n, i, {0, 1}) /\ Run(w, i, j, {0, 1}) /\ j <= t
  BY <1>1 DEF Follows
<1>3. PICK e \in Nat : /\ Run(Tail(k), e, i, {0, 1}) /\ n <= e
                      /\ IF IsUser(Head(k)) THEN Head(k) = User(e) /\ e - n \in {0, 1} ELSE e = n
  BY <1>2, RunTail
<1>4. Tail(k) \in Seq(Mess \cup Notice)
  OBVIOUS
<1>5. n \in Nat /\ e <= i /\ i <= j
  BY <1>2, <1>3, <1>4, RunBounds
<1>6. Follows(Tail(k), e, w, q, m, x, hold, t, i, j, c)
  BY <1>1, <1>3 DEF Follows
<1>7. Ordered(Tail(k), e, w, q, m, x, hold, t)
  BY <1>6 DEF Ordered
<1>8. e <= t
  BY <1>2, <1>5
<1> QED
  BY <1>3, <1>5, <1>7, <1>8, IsUserOf

\* The connection is lost, and with it what was under way.
LEMMA LostOrdered ==
  ASSUME NEW k, NEW w \in Seq(Mess), NEW n, NEW q, NEW m, NEW x,
         NEW hold, NEW t \in Nat, Ordered(k, n, w, q, m, x, hold, t)
  PROVE  Ordered(k, n, w, q, m, x, FALSE, t) /\ Ordered(k, n, <<>>, q, m, x, FALSE, t)
<1>1. PICK i \in Nat, j \in Nat, c \in Nat : Follows(k, n, w, q, m, x, hold, t, i, j, c)
  BY DEF Ordered
<1>2. Run(w, i, j, {0, 1}) /\ j <= t
  BY <1>1 DEF Follows
<1>3. i <= j /\ Run(<<>>, i, i, {0, 1})
  BY <1>2, RunBounds, RunEmpty
<1>4. i <= t
  BY <1>2, <1>3
<1>5. Follows(k, n, w, q, m, x, FALSE, t, i, j, c) /\ Follows(k, n, <<>>, q, m, x, FALSE, t, i, i, c)
  BY <1>1, <1>3, <1>4 DEF Follows
<1> QED
  BY <1>5 DEF Ordered

-----------------------------------------------------------------------------
(* Every step keeps the order                                              *)

Talk == {m \in Mess : ~IsUser(m)}

\* Messages of tasks are only in the queue of the known link, and let out only on it.
TalkInv ==
  /\ up \in BOOLEAN /\ arrived \in [Side -> Nat]
  /\ \A s \in Side : /\ sendq[s]["tmp"] \in Seq(Talk) /\ carried[s] \in Seq(Talk)
                     /\ IsUser(slot[s]) => at[s] = "known"
                     /\ IsUser(sending[s]) => via[s] = "known"

Flow(s) == Ordered(<<>>, arrived[Peer(s)], wire[s], sendq[s]["known"], slot[s], sending[s],
                   up, sent[s])
OrderInv == TalkInv /\ \A s \in Side : Flow(s)

LEMMA OrderInit == Init => OrderInv
<1> SUFFICES ASSUME Init PROVE OrderInv
  OBVIOUS
<1>1. \A S : <<>> \in Seq(S)
  OBVIOUS
<1>2. TalkInv
  BY <1>1, IsUserOf DEF Init, TalkInv, Link
<1>3. ASSUME NEW s \in Side PROVE Flow(s)
  <2>1. Run(<<>>, 0, 0, {0, 1}) /\ Run(<<>>, 0, 0, {1})
    BY RunEmpty
  <2>2. Follows(<<>>, 0, <<>>, <<>>, NoMsg, NoMsg, TRUE, 0, 0, 0, 0)
    BY <2>1, IsUserOf DEF Follows
  <2>3. Ordered(<<>>, 0, <<>>, <<>>, NoMsg, NoMsg, TRUE, 0)
    BY <2>2 DEF Ordered
  <2> QED
    BY <2>3, Threads DEF Init, Flow, Link
<1> QED
  BY <1>2, <1>3 DEF OrderInv

\* A step that touches the messages of one side only.
LEMMA FlowOf ==
  ASSUME OrderInv, NEW s \in Side, TalkInv', Flow(s)', UNCHANGED up,
         \A x \in Side \ {s} : /\ arrived'[Peer(x)] = arrived[Peer(x)]
                               /\ wire'[x] = wire[x] /\ sendq'[x]["known"] = sendq[x]["known"]
                               /\ slot'[x] = slot[x] /\ sending'[x] = sending[x] /\ sent'[x] = sent[x]
  PROVE  OrderInv'
BY DEF OrderInv, Flow

\* What unleash_a_msg finds.
LEMMA UnleashedIsFirst ==
  ASSUME NEW l \in Link, NEW q \in Seq(Mess), NEW a, NEW rt \in BOOLEAN, NEW m
  PROVE  LET u == Unleashed(a, l, q, rt, m)
         IN u = m \/ ~IsUser(u) \/ (a = "known" /\ l = "known" /\ q # <<>> /\ u = Head(q))
<1> DEFINE E == Eligible(l, q, rt)
<1>1. CASE a = l /\ E # {}
  <2>1. E \in SUBSET Nat
    BY DEF Eligible
  <2>2. Min(E) \in E /\ \A i \in E : Min(E) <= i
    <3> HIDE DEF E
    <3> QED
      BY <1>1, <2>1, Least
  <2>3. PICK i \in DOMAIN q : i = Min(E) /\ (IsTmpType(q[i]) \/ ~(l = "tmp" \/ rt))
    BY <2>2 DEF Eligible
  <2>4. CASE IsTmpType(q[i])
    BY <1>1, <2>3, <2>4 DEF Unleashed, IsTmpType, IsUser
  <2>5. CASE ~(l = "tmp" \/ rt)
    <3>1. 1 \in E /\ q # <<>> /\ l = "known"
      BY <2>3, <2>5 DEF Eligible, Link
    <3>2. i = 1
      <4>1. i <= 1
        BY <2>2, <2>3, <3>1
      <4> QED
        BY <4>1
    <3> QED
      BY <1>1, <2>3, <3>1, <3>2 DEF Unleashed
  <2> QED
    BY <2>3, <2>4, <2>5
<1>2. CASE ~(a = l /\ E # {})
  BY <1>2 DEF Unleashed
<1> QED
  BY <1>1, <1>2

\* Only the slot and the place of a net link change.
LEMMA OrderSlot ==
  ASSUME PlacesInv, TellInv, OrderInv, NEW s \in Side, NEW u,
         LET q == sendq[s]["known"] IN u = slot[s] \/ ~IsUser(u) \/ (q # <<>> /\ u = Head(q)),
         slot' = [slot EXCEPT ![s] = u], IsUser(u) => at'[s] = "known",
         \A x \in Side \ {s} : at'[x] = at[x],
         UNCHANGED <<sendq, sending, via, wire, up, carried, sent, arrived>>
  PROVE  OrderInv'
<1>1. slot'[s] = u /\ \A x \in Side \ {s} : slot'[x] = slot[x]
  BY DEF PlacesInv, HangsInv, Shapes
<1>2. TalkInv'
  BY <1>1 DEF OrderInv, TalkInv
<1>3. Flow(s)'
  <2>1. sendq[s]["known"] \in Seq(Mess)
    BY DEF TellInv, QueuedInv, Link
  <2>2. Ordered(<<>>, arrived[Peer(s)], wire[s], sendq[s]["known"], slot[s], sending[s], up, sent[s])
        /\ up \in BOOLEAN
    BY DEF OrderInv, Flow, TalkInv
  <2>3. Ordered(<<>>, arrived[Peer(s)], wire[s], sendq[s]["known"], u, sending[s], up, sent[s])
    BY <2>1, <2>2, SlotOrdered
  <2> QED
    BY <1>1, <2>3 DEF Flow
<1> QED
  BY <1>1, <1>2, <1>3, FlowOf

LEMMA OrderAttach ==
  ASSUME PlacesInv, TellInv, OrderInv, NEW th \in Thread, Attach(th)
  PROVE  OrderInv'
<1> DEFINE s == th[1]
           l == lk[th]
           u == Unleashed(l, l, sendq[s][l], remotetmp[s][l], SlotAtSetLink(slot[s]))
<1>1. s \in Side /\ l \in Link
  BY Threads DEF Attach, PlacesInv, HangsInv, AttachHasLink
<1>2. /\ slot' = [slot EXCEPT ![s] = u] /\ at' = [at EXCEPT ![s] = l]
      /\ UNCHANGED <<sendq, sending, via, wire, up, carried, sent, arrived>>
  BY DEF Attach, recvVars, histVars
<1>3. u = NoMsg \/ ~IsUser(u) \/ (l = "known" /\ sendq[s][l] # <<>> /\ u = Head(sendq[s][l]))
  BY <1>1, UnleashedIsFirst DEF TellInv, QueuedInv, FlagsInv, SlotAtSetLink
<1>4. at'[s] = l /\ \A x \in Side \ {s} : at'[x] = at[x]
  BY <1>1, <1>2 DEF PlacesInv, HangsInv, Shapes
<1> HIDE DEF u, l, s
<1> QED
  BY <1>1, <1>2, <1>3, <1>4, IsUserOf, OrderSlot

LEMMA OrderDetach ==
  ASSUME PlacesInv, TellInv, OrderInv, NEW s \in Side, Detach(s)
  PROVE  OrderInv'
<1>1. /\ slot' = [slot EXCEPT ![s] = NoMsg] /\ at' = [at EXCEPT ![s] = NoLink]
      /\ UNCHANGED <<sendq, sending, via, wire, up, carried, sent, arrived>>
  BY DEF Detach, recvVars, histVars, SlotAtSetLink
<1>2. \A x \in Side \ {s} : at'[x] = at[x]
  BY <1>1 DEF PlacesInv, HangsInv, Shapes
<1> QED
  BY <1>1, <1>2, IsUserOf, OrderSlot

\* enqueue_msg: of a message of no task, or of a task's next on the known link.
LEMMA OrderEnqueue ==
  ASSUME PlacesInv, TellInv, OrderInv, NEW s \in Side, NEW l \in Link, NEW m \in Mess, Enqueue(s, l, m),
         UNCHANGED <<at, carried, sending, via, wire, up, arrived>>,
         \/ ~IsUser(m) /\ sent' = sent
         \/ l = "known" /\ m = User(sent[s] + 1) /\ sent' = [sent EXCEPT ![s] = sent[s] + 1]
  PROVE  OrderInv'
<1> DEFINE q == Append(sendq[s][l], m)
           u == Unleashed(at[s], l, q, remotetmp[s][l], slot[s])
           o == sendq[s]["known"]
           p == sendq'[s]["known"]
<1>1. /\ sendq[s][l] \in Seq(Mess) /\ q \in Seq(Mess) /\ remotetmp[s][l] \in BOOLEAN
      /\ sent[s] \in Nat /\ o \in Seq(Mess)
  BY DEF TellInv, QueuedInv, FlagsInv, Link
<1>2. /\ sendq'[s][l] = q /\ \A x \in Side, k \in Link : x # s \/ k # l => sendq'[x][k] = sendq[x][k]
      /\ slot' = [slot EXCEPT ![s] = u]
  BY DEF Enqueue, TellInv, QueuedInv
<1>3. slot'[s] = u /\ \A x \in Side \ {s} : slot'[x] = slot[x]
  BY <1>2 DEF PlacesInv, HangsInv, Shapes
<1>4. u = slot[s] \/ ~IsUser(u) \/ (at[s] = "known" /\ l = "known" /\ q # <<>> /\ u = Head(q))
  <2> HIDE DEF q
  <2> QED
    BY <1>1, UnleashedIsFirst
<1> HIDE DEF u
<1>5. p = IF l = "known" THEN q ELSE o
  BY <1>2 DEF Link
<1>6. TalkInv'
  <2>1. sendq'[s]["tmp"] \in Seq(Talk)
    <3>1. sendq[s]["tmp"] \in Seq(Talk)
      BY DEF OrderInv, TalkInv
    <3>2. CASE l = "tmp"
      <4>1. m \in Talk
        BY <3>2 DEF Talk
      <4>2. Append(sendq[s]["tmp"], m) \in Seq(Talk)
        BY <3>1, <4>1
      <4> QED
        BY <1>2, <3>2, <4>2
    <3> QED
      BY <1>2, <3>1, <3>2 DEF Link
  <2>2. \A x \in Side \ {s} : sendq'[x]["tmp"] = sendq[x]["tmp"]
    BY <1>2 DEF Link
  <2> QED
    BY <1>3, <1>4, <2>1, <2>2 DEF OrderInv, TalkInv
<1>7. Flow(s)'
  <2> DEFINE F(v, a, n) == Ordered(<<>>, arrived[Peer(s)], wire[s], v, a, sending[s], up, n)
  <2>1. F(o, slot[s], sent[s]) /\ up \in BOOLEAN
    BY DEF OrderInv, Flow, TalkInv
  <2>2. F(p, slot[s], sent'[s])
    <3>1. CASE ~IsUser(m) /\ sent' = sent
      <4>1. ASSUME NEW c \in Nat, Run(o, c, sent[s], {1}) PROVE Run(p, c, sent[s], {1})
        <5>1. CASE l = "known"
          BY <1>1, <1>5, <3>1, <4>1, <5>1, RunAppend
        <5>2. CASE l # "known"
          BY <1>5, <4>1, <5>2
        <5> QED
          BY <5>1, <5>2
      <4> QED
        BY <2>1, <3>1, <4>1, QueueOrdered
    <3>2. CASE l = "known" /\ m = User(sent[s] + 1) /\ sent' = [sent EXCEPT ![s] = sent[s] + 1]
      <4>1. p = Append(o, User(sent[s] + 1)) /\ sent'[s] = sent[s] + 1
        BY <1>5, <3>2 DEF TellInv
      <4> HIDE DEF p
      <4> QED
        BY <1>1, <2>1, <4>1, SentOrdered
    <3> QED
      BY <3>1, <3>2
  <2>3. u = slot[s] \/ ~IsUser(u) \/ (p # <<>> /\ u = Head(p))
    BY <1>4, <1>5
  <2>4. p \in Seq(Mess)
    BY <1>1, <1>5
  <2> HIDE DEF p, o
  <2>5. F(p, u, sent'[s])
    BY <2>1, <2>2, <2>3, <2>4, SlotOrdered
  <2> QED
    BY <1>3, <2>5 DEF Flow, p
<1>8. \A x \in Side \ {s} : sendq'[x]["known"] = sendq[x]["known"] /\ sent'[x] = sent[x]
  BY <1>2 DEF Link, TellInv
<1> QED
  BY <1>3, <1>6, <1>7, <1>8, FlowOf

\* Taking over the queue of the temporary link moves no message of a task.
LEMMA OrderFlush ==
  ASSUME TellInv, OrderInv, NEW s \in Side, Flush(s)
  PROVE  OrderInv'
<1>1. /\ carried' = [carried EXCEPT ![s] = sendq[s]["tmp"]] /\ sendq' = [sendq EXCEPT ![s]["tmp"] = <<>>]
      /\ UNCHANGED <<at, slot, sending, via, wire, up, sent, arrived>>
  BY DEF Flush, sendVars, recvVars, histVars
<1>2. \A x \in Side : /\ sendq'[x]["tmp"] \in {<<>>, sendq[x]["tmp"]}
                     /\ sendq'[x]["known"] = sendq[x]["known"]
                     /\ carried'[x] \in {carried[x], sendq[x]["tmp"]}
  BY <1>1 DEF TellInv, QueuedInv, Link
<1>3. <<>> \in Seq(Talk)
  OBVIOUS
<1>4. TalkInv'
  BY <1>1, <1>2, <1>3 DEF OrderInv, TalkInv
<1> QED
  BY <1>1, <1>2, <1>4 DEF OrderInv, Flow

LEMMA OrderMoveOver ==
  ASSUME TellInv, OrderInv, NEW s \in Side, MoveOver(s)
  PROVE  OrderInv'
<1> DEFINE o == sendq[s]["known"]
           q == o \o carried[s]
<1>1. /\ carried' = [carried EXCEPT ![s] = <<>>] /\ sendq' = [sendq EXCEPT ![s]["known"] = q]
      /\ UNCHANGED <<at, slot, sending, via, wire, up, sent, arrived>>
  BY DEF MoveOver, Joined, sendVars, recvVars, histVars
<1>2. /\ \A x \in Side : /\ sendq'[x]["tmp"] = sendq[x]["tmp"] /\ carried'[x] \in {<<>>, carried[x]}
      /\ \A x \in Side \ {s} : sendq'[x]["known"] = sendq[x]["known"]
      /\ sendq'[s]["known"] = q
  BY <1>1 DEF TellInv, QueuedInv, Link
<1>3. <<>> \in Seq(Talk)
  OBVIOUS
<1>4. TalkInv'
  BY <1>1, <1>2, <1>3 DEF OrderInv, TalkInv
<1>5. Flow(s)'
  <2>1. o \in Seq(Mess) /\ carried[s] \in Seq(Mess) /\ carried[s] \in Seq(Talk)
    BY DEF TellInv, QueuedInv, Link, OrderInv, TalkInv
  <2>2. \A i \in DOMAIN carried[s] : ~IsUser(carried[s][i])
    BY <2>1 DEF Talk
  <2>3. \A c \in Nat : Run(o, c, sent[s], {1}) => Run(q, c, sent[s], {1})
    BY <2>1, <2>2, RunJoin
  <2>4. Ordered(<<>>, arrived[Peer(s)], wire[s], o, slot[s], sending[s], up, sent[s])
    BY DEF OrderInv, Flow
  <2> HIDE DEF o, q
  <2>5. Ordered(<<>>, arrived[Peer(s)], wire[s], q, slot[s], sending[s], up, sent[s])
    BY <2>3, <2>4, QueueOrdered
  <2> QED
    BY <1>1, <1>2, <2>5 DEF Flow
<1> QED
  BY <1>1, <1>2, <1>4, <1>5, FlowOf

\* Types of what a side's messages go through.
LEMMA Ways ==
  ASSUME TellInv, OrderInv, NEW s \in Side
  PROVE  /\ wire[s] \in Seq(Mess)
         /\ sendq[s]["known"] \in Seq(Mess) /\ slot[s] \in Mess \cup {NoMsg} /\ sent[s] \in Nat
         /\ up \in BOOLEAN /\ Peer(s) \in Side /\ Peer(Peer(s)) = s
         /\ Ordered(<<>>, arrived[Peer(s)], wire[s], sendq[s]["known"], slot[s], sending[s],
                    up, sent[s])
<1>1. slot[s] \in Mess \cup {NoMsg}
  BY DEF TellInv, OutInv, Outgoing, Honest
<1>2. wire[s] \in Seq(Mess) /\ sendq[s]["known"] \in Seq(Mess) /\ sent[s] \in Nat
  BY DEF TellInv, OutInv, QueuedInv, Link
<1> QED
  BY <1>1, <1>2, Threads DEF OrderInv, TalkInv, Flow

\* The side that learns of its peer lets another message out.
LEMMA OrderHearNotTmp ==
  ASSUME PlacesInv, TellInv, OrderInv, NEW s \in Side, HearNotTmp(s), TellInv'
  PROVE  OrderInv'
<1> DEFINE l == at[s]
           u == Unleashed(l, l, sendq[s][l], remotetmp'[s][l], slot[s])
<1>1. /\ l \in Link /\ slot' = [slot EXCEPT ![s] = u]
      /\ UNCHANGED <<at, sendq, sending, via, wire, up, carried, sent, arrived>>
  BY DEF HearNotTmp, histVars, acceptVars
<1>2. u = slot[s] \/ ~IsUser(u) \/ (l = "known" /\ sendq[s][l] # <<>> /\ u = Head(sendq[s][l]))
  <2>1. sendq[s][l] \in Seq(Mess) /\ remotetmp'[s][l] \in BOOLEAN
    BY <1>1 DEF TellInv, QueuedInv, FlagsInv
  <2> HIDE DEF l
  <2> QED
    BY <1>1, <2>1, UnleashedIsFirst
<1>3. IsUser(slot[s]) => l = "known"
  BY DEF OrderInv, TalkInv
<1> HIDE DEF u
<1> QED
  BY <1>1, <1>2, <1>3, OrderSlot

LEMMA OrderTransmit ==
  ASSUME PlacesInv, TellInv, OrderInv, NEW s \in Side, Transmit(s)
  PROVE  OrderInv'
<1>1. /\ slot[s] # NoMsg /\ sending[s] = NoMsg /\ sending' = [sending EXCEPT ![s] = slot[s]]
      /\ via' = [via EXCEPT ![s] = at[s]] /\ slot' = [slot EXCEPT ![s] = NoMsg]
      /\ wire' = IF up THEN [wire EXCEPT ![s] = Append(wire[s], slot[s])] ELSE wire
      /\ UNCHANGED <<at, sendq, up, carried, sent, arrived>>
  BY DEF Transmit, linkVars, acceptVars, histVars
<1>2. /\ slot'[s] = NoMsg /\ sending'[s] = slot[s] /\ via'[s] = at[s]
      /\ \A x \in Side \ {s} : slot'[x] = slot[x] /\ sending'[x] = sending[x] /\ via'[x] = via[x]
  BY <1>1 DEF PlacesInv, HangsInv, Shapes
<1>3. /\ wire'[s] = IF up THEN Append(wire[s], slot[s]) ELSE wire[s]
      /\ \A x \in Side \ {s} : wire'[x] = wire[x]
  <2>1. wire \in [Side -> Seq(Mess)]
    BY DEF TellInv, OutInv
  <2>2. CASE up
    <3>1. wire' = [wire EXCEPT ![s] = Append(wire[s], slot[s])]
      BY <1>1, <2>2
    <3> QED
      BY <2>1, <2>2, <3>1
  <2>3. CASE ~up
    BY <1>1, <2>3
  <2> QED
    BY <2>2, <2>3
<1>4. TalkInv'
  BY <1>1, <1>2, IsUserOf DEF OrderInv, TalkInv
<1>5. Ordered(<<>>, arrived[Peer(s)], wire'[s], sendq[s]["known"], NoMsg, slot[s], up, sent[s])
  <2>1. /\ wire[s] \in Seq(Mess) /\ slot[s] \in Mess /\ up \in BOOLEAN /\ sent[s] \in Nat
        /\ Ordered(<<>>, arrived[Peer(s)], wire[s], sendq[s]["known"], slot[s], NoMsg, up, sent[s])
    BY <1>1, Ways
  <2> QED
    BY <1>3, <2>1, WrittenOrdered
<1>6. Flow(s)'
  BY <1>1, <1>2, <1>5 DEF Flow
<1> QED
  BY <1>1, <1>2, <1>3, <1>4, <1>6, FlowOf

LEMMA OrderOnSent ==
  ASSUME PlacesInv, TellInv, OrderInv, NEW s \in Side, OnSent(s)
  PROVE  OrderInv'
<1> DEFINE l == via[s]
           q == RemoveFirst(sendq[s][l], sending[s])
           u == Unleashed(at[s], l, q, remotetmp[s][l], slot[s])
           o == sendq[s]["known"]
           p == sendq'[s]["known"]
<1>1. /\ sending[s] # NoMsg /\ sendq' = [sendq EXCEPT ![s][l] = q] /\ slot' = [slot EXCEPT ![s] = u]
      /\ sending' = [sending EXCEPT ![s] = NoMsg] /\ via' = [via EXCEPT ![s] = NoLink]
      /\ UNCHANGED <<at, carried, wire, up, sent, arrived>>
  BY DEF OnSent, AfterSent, recvVars, acceptVars
<1>2. l \in Link
  BY <1>1 DEF PlacesInv, HangsInv, SendingHasLink
<1>3. /\ sendq[s][l] \in Seq(Mess) /\ q \in Seq(Mess) /\ remotetmp[s][l] \in BOOLEAN
  BY <1>2, RemovedIsQueue DEF TellInv, QueuedInv, FlagsInv
<1>4. u = slot[s] \/ ~IsUser(u) \/ (at[s] = "known" /\ l = "known" /\ q # <<>> /\ u = Head(q))
  <2> HIDE DEF q, l
  <2> QED
    BY <1>2, <1>3, UnleashedIsFirst
<1>5. /\ sendq'[s][l] = q /\ \A x \in Side, k \in Link : x # s \/ k # l => sendq'[x][k] = sendq[x][k]
  BY <1>1, <1>2 DEF TellInv, QueuedInv
<1>6. sendq'[s]["tmp"] \in Seq(Talk)
  <2>1. sendq[s]["tmp"] \in Seq(Talk)
    BY DEF OrderInv, TalkInv
  <2>2. RemoveFirst(sendq[s]["tmp"], sending[s]) \in Seq(Talk)
    BY <2>1, RemovedIsQueue
  <2> QED
    BY <1>5, <2>1, <2>2 DEF Link
<1> HIDE DEF u
<1>7. p = IF l = "known" THEN q ELSE o
  BY <1>5 DEF Link
<1>8. /\ slot'[s] = u /\ sending'[s] = NoMsg /\ via'[s] = NoLink
      /\ \A x \in Side \ {s} : /\ slot'[x] = slot[x] /\ sending'[x] = sending[x] /\ via'[x] = via[x]
                             /\ sendq'[x]["known"] = sendq[x]["known"] /\ sendq'[x]["tmp"] = sendq[x]["tmp"]
  BY <1>1, <1>5 DEF PlacesInv, HangsInv, Shapes, Link
<1>9. TalkInv'
  BY <1>1, <1>4, <1>6, <1>8, IsUserOf DEF OrderInv, TalkInv
<1>10. Flow(s)'
  <2> DEFINE F(v, a, x) == Ordered(<<>>, arrived[Peer(s)], wire[s], v, a, x, up, sent[s])
  <2>1. F(o, slot[s], sending[s]) /\ o \in Seq(Mess) /\ up \in BOOLEAN /\ sent[s] \in Nat
    BY Ways
  <2>2. F(p, slot[s], NoMsg) /\ p \in Seq(Mess)
    <3>1. CASE l = "known"
      <4>1. p = RemoveFirst(o, sending[s]) /\ p \in Seq(Mess)
        BY <1>3, <1>7, <3>1
      <4> HIDE DEF p, o
      <4>2. F(RemoveFirst(o, sending[s]), slot[s], NoMsg)
        BY <2>1, OnSentOrdered
      <4> QED
        BY <4>1, <4>2
    <3>2. CASE l # "known"
      <4>1. p = o /\ ~IsUser(sending[s])
        BY <1>7, <3>2 DEF OrderInv, TalkInv
      <4> HIDE DEF p, o
      <4>2. F(o, slot[s], NoMsg)
        BY <2>1, <4>1, OtherSentOrdered
      <4> QED
        BY <2>1, <4>1, <4>2
    <3> QED
      BY <3>1, <3>2
  <2>3. u = slot[s] \/ ~IsUser(u) \/ (p # <<>> /\ u = Head(p))
    BY <1>4, <1>7
  <2> HIDE DEF p, o
  <2>4. F(p, u, NoMsg)
    BY <2>1, <2>2, <2>3, SlotOrdered
  <2> QED
    BY <1>1, <1>8, <2>4 DEF Flow, p
<1> QED
  BY <1>1, <1>8, <1>9, <1>10, FlowOf

\* What the receiving thread takes is the last message that arrived again, or the next.
LEMMA TakenInOrder ==
  ASSUME TellInv, OrderInv, NEW s \in Side, Receive(s)
  PROVE  LET r == Peer(s)
             m == Head(wire[r])
             c == IF IsUser(m) THEN m.n ELSE arrived[s]
         IN /\ Ordered(<<>>, c, Tail(wire[r]), sendq[r]["known"], slot[r], sending[r], up, sent[r])
            /\ m \in Mess /\ arrived[s] \in Nat
            /\ IsUser(m) => m = User(m.n) /\ m.n \in {arrived[s], arrived[s] + 1} /\ m.n <= sent[r]
<1> DEFINE r == Peer(s)
           m == Head(wire[r])
           k == Append(<<>>, m)
           c == IF IsUser(m) THEN m.n ELSE arrived[s]
           O(h, n, w) == Ordered(h, n, w, sendq[r]["known"], slot[r], sending[r], up, sent[r])
<1>1. r \in Side /\ Peer(r) = s /\ wire[r] # <<>>
  BY Threads DEF Receive
<1>2. /\ wire[r] \in Seq(Mess) /\ sent[r] \in Nat /\ O(<<>>, arrived[s], wire[r])
      /\ arrived[s] \in Nat
  <2> HIDE DEF r
  <2> QED
    BY <1>1, Ways DEF OrderInv, TalkInv
<1>3. O(k, arrived[s], Tail(wire[r]))
  <2>1. <<>> \in Seq(Mess \cup Notice)
    OBVIOUS
  <2> HIDE DEF r
  <2> QED
    BY <1>1, <1>2, <2>1, ReadOrdered
<1>4. m \in Mess /\ Tail(wire[r]) \in Seq(Mess)
  BY <1>1, <1>2
<1>5. /\ k \in Seq(Mess \cup Notice) /\ k # <<>> /\ Head(k) = m /\ Tail(k) = <<>>
  <2> HIDE DEF m
  <2> QED
    BY <1>4
<1> HIDE DEF k, m, r
<1>6. IF IsUser(m) THEN /\ O(<<>>, m.n, Tail(wire[r])) /\ m.n \in {arrived[s], arrived[s] + 1}
                        /\ m.n <= sent[r] /\ m = User(m.n)
      ELSE O(<<>>, arrived[s], Tail(wire[r]))
  BY <1>2, <1>3, <1>4, <1>5, TakenOrdered
<1> QED
  BY <1>2, <1>4, <1>6 DEF r, m

LEMMA OrderReceive ==
  ASSUME TellInv, OrderInv, NEW s \in Side, Receive(s)
  PROVE  OrderInv'
<1> DEFINE r == Peer(s)
           m == Head(wire[r])
           c == IF IsUser(m) THEN m.n ELSE arrived[s]
<1>1. r \in Side /\ Peer(r) = s /\ \A x \in Side \ {r} : Peer(x) \in Side \ {s}
  BY DEF Side, Peer
<1>2. /\ wire' = [wire EXCEPT ![r] = Tail(wire[r])]
      /\ arrived' = IF IsUser(m) THEN [arrived EXCEPT ![s] = m.n] ELSE arrived
      /\ UNCHANGED <<at, sendq, slot, sending, via, up, carried, sent>>
  BY DEF Receive, linkVars, sendVars, acceptVars, IsUser
<1>3. /\ Ordered(<<>>, c, Tail(wire[r]), sendq[r]["known"], slot[r], sending[r], up, sent[r])
      /\ c \in Nat
  BY TakenInOrder
<1> HIDE DEF r, m
<1>4. arrived' = [arrived EXCEPT ![s] = c]
  <2>1. arrived = [arrived EXCEPT ![s] = arrived[s]]
    BY DEF OrderInv, TalkInv
  <2> QED
    BY <1>2, <2>1
<1> HIDE DEF c
<1>5. /\ wire'[r] = Tail(wire[r]) /\ \A x \in Side \ {r} : wire'[x] = wire[x]
      /\ arrived'[s] = c /\ \A x \in Side \ {r} : arrived'[Peer(x)] = arrived[Peer(x)]
      /\ arrived' \in [Side -> Nat]
  BY <1>1, <1>2, <1>3, <1>4 DEF TellInv, OutInv, OrderInv, TalkInv
<1>6. TalkInv'
  BY <1>2, <1>5 DEF OrderInv, TalkInv
<1>7. Flow(r)'
  BY <1>1, <1>2, <1>3, <1>5 DEF Flow
<1> QED
  BY <1>1, <1>2, <1>5, <1>6, <1>7, FlowOf

\* The end of the connection.
LEMMA OrderLost ==
  ASSUME TellInv, OrderInv, NEW s \in Side, LostConnection(s)
  PROVE  OrderInv'
<1> DEFINE r == Peer(s)
<1>1. r \in Side /\ up \in BOOLEAN
  BY Threads DEF OrderInv, TalkInv
<1>2. /\ up = FALSE /\ wire' = [wire EXCEPT ![r] = <<>>]
      /\ UNCHANGED <<at, sendq, slot, sending, via, up, carried, sent, arrived>>
  BY <1>1 DEF LostConnection, linkVars, sendVars, acceptVars
<1> HIDE DEF r
<1>3. wire'[r] = <<>> /\ \A x \in Side \ {r} : wire'[x] = wire[x]
  BY <1>1, <1>2 DEF TellInv, OutInv
<1>4. TalkInv'
  BY <1>2 DEF OrderInv, TalkInv
<1>5. Ordered(<<>>, arrived[Peer(r)], <<>>, sendq[r]["known"], slot[r], sending[r], FALSE, sent[r])
  BY <1>1, Ways, LostOrdered
<1>6. Flow(r)'
  BY <1>2, <1>3, <1>5 DEF Flow
<1> QED
  BY <1>1, <1>2, <1>3, <1>4, <1>6, FlowOf

LEMMA OrderLose ==
  ASSUME TellInv, OrderInv, Lose
  PROVE  OrderInv'
<1>1. /\ up' = FALSE
      /\ UNCHANGED <<at, sendq, slot, sending, via, wire, carried, sent, arrived>>
  BY DEF Lose, linkVars, sendVars, acceptVars, histVars
<1>2. TalkInv'
  BY <1>1 DEF OrderInv, TalkInv
<1>3. ASSUME NEW s \in Side PROVE Flow(s)'
  <2>1. Ordered(<<>>, arrived[Peer(s)], wire[s], sendq[s]["known"], slot[s], sending[s], FALSE, sent[s])
    BY Ways, LostOrdered
  <2> QED
    BY <1>1, <2>1 DEF Flow
<1> QED
  BY <1>2, <1>3 DEF OrderInv

LEMMA OrderStep ==
  PlacesInv /\ TellInv /\ TellInv' /\ OrderInv /\ [Next]_vars => OrderInv'
<1> SUFFICES ASSUME PlacesInv, TellInv, TellInv', OrderInv, [Next]_vars PROVE OrderInv'
  OBVIOUS
<1>1. ASSUME NEW th \in Thread, SayHello(th) PROVE OrderInv'
  <2> DEFINE m == Hello(IF lk[th] = "known" THEN 2 ELSE 1, rtmp[th])
  <2>1. /\ th[1] \in Side /\ lk[th] \in Link /\ Enqueue(th[1], lk[th], m)
        /\ UNCHANGED <<at, carried, sending, via, wire, up, arrived, sent>>
    BY <1>1, Threads DEF SayHello, recvVars, PlacesInv, HangsInv, AttachHasLink
  <2>2. m \in Mess /\ ~IsUser(m)
    BY DEF TellInv, FlagsInv, Hello, Mess, IsUser
  <2> HIDE DEF m
  <2> QED
    BY <2>1, <2>2, OrderEnqueue
<1>2. ASSUME NEW th \in Thread, SayNotTmp(th) PROVE OrderInv'
  <2>1. /\ th[1] \in Side /\ lk[th] \in Link /\ Enqueue(th[1], lk[th], NotTmp(1))
        /\ UNCHANGED <<at, carried, sending, via, wire, up, arrived, sent>>
    BY <1>2, Threads DEF SayNotTmp, recvVars, PlacesInv, HangsInv, AttachHasLink
  <2>2. NotTmp(1) \in Mess /\ ~IsUser(NotTmp(1))
    BY DEF NotTmp, Mess, IsUser
  <2> QED
    BY <2>1, <2>2, OrderEnqueue
<1>3. ASSUME NEW s \in Side, SayNotTmpAgain(s) PROVE OrderInv'
  <2>1. /\ Enqueue(s, "known", NotTmp(2)) /\ "known" \in Link
        /\ UNCHANGED <<at, carried, sending, via, wire, up, arrived, sent>>
    BY <1>3 DEF SayNotTmpAgain, recvVars, Link
  <2>2. NotTmp(2) \in Mess /\ ~IsUser(NotTmp(2))
    BY DEF NotTmp, Mess, IsUser
  <2> QED
    BY <2>1, <2>2, OrderEnqueue
<1>4. ASSUME NEW s \in Side, Send(s) PROVE OrderInv'
  <2>1. /\ Enqueue(s, "known", User(sent[s] + 1)) /\ "known" \in Link
        /\ UNCHANGED <<at, carried, sending, via, wire, up, arrived>>
        /\ sent' = [sent EXCEPT ![s] = sent[s] + 1]
    BY <1>4 DEF Send, recvVars, acceptVars, Link
  <2>2. User(sent[s] + 1) \in Mess
    BY DEF TellInv, User, Mess
  <2> QED
    BY <2>1, <2>2, OrderEnqueue
<1>5. CASE UNCHANGED <<at, sendq, slot, sending, via, wire, up, carried, sent, arrived>>
  BY <1>5 DEF OrderInv, TalkInv, Flow
<1>6. ASSUME NEW s \in Side,
             \/ OldHello(s) \/ Greet(s) \/ Execute(s) \/ EraseLink(s) \/ StopAgent(s)
             \/ MarkMaster(s) \/ OnClose(s) \/ ReceiverEnds(s) \/ MakeLink(s)
      PROVE  OrderInv'
  BY <1>5, <1>6 DEF OldHello, Greet, Execute, EraseLink, StopAgent, MarkMaster, OnClose, ReceiverEnds,
                    MakeLink, linkVars, sendVars, recvVars, acceptVars, histVars
<1>7. CASE UNCHANGED vars
  BY <1>5, <1>7 DEF vars, linkVars, sendVars, recvVars, acceptVars, histVars
<1> QED
  BY <1>1, <1>2, <1>3, <1>4, <1>6, <1>7, OrderAttach, OrderDetach, OrderFlush, OrderMoveOver,
     OrderHearNotTmp, OrderTransmit, OrderOnSent, OrderReceive, OrderLost, OrderLose
     DEF Next, ThreadStep, AdminStep, SenderStep, ReceiverStep


-----------------------------------------------------------------------------
(* What waits for the admin thread                                         *)

Number(n) == n \in Nat /\ n \notin Instant

\* Of the messages of tasks that arrived, the last one with number b, and that are not
\* instant, the admin thread executed those up to number a; the others are in its queue
\* q, in order. (The last one may be there again.)
Awaits(q, a, b) ==
  /\ \A i \in DOMAIN q : IsUser(q[i]) =>
        q[i] = User(q[i].n) /\ Number(q[i].n) /\ a <= q[i].n /\ q[i].n <= b
  /\ \A i, j \in DOMAIN q : IsUser(q[i]) /\ IsUser(q[j]) /\ i < j => q[i].n <= q[j].n
  /\ \A n : Number(n) /\ a < n /\ n <= b => Holds(q, n)

\* Of those that are instant the one with number a was executed last.
UpToDate(a, b) == \A n \in Nat : n \in Instant /\ a < n => b < n

InboxInv ==
  /\ seen \in [Side -> [Lane -> Nat]]
  /\ \A s \in Side : /\ Awaits(admin[s], seen[s]["queued"], arrived[s])
                     /\ UpToDate(seen[s]["instant"], arrived[s])
                     /\ \A l \in Lane : seen[s][l] <= arrived[s]

LEMMA InboxInit == Init => InboxInv
<1> SUFFICES ASSUME Init PROVE InboxInv
  OBVIOUS
<1>1. Awaits(<<>>, 0, 0) /\ UpToDate(0, 0)
  BY DEF Awaits, UpToDate, Number
<1>2. seen \in [Side -> [Lane -> Nat]] /\ "queued" \in Lane /\ "instant" \in Lane
  BY DEF Init, Lane
<1>3. \A s \in Side : /\ admin[s] = <<>> /\ arrived[s] = 0
                      /\ \A l \in Lane : seen[s][l] = 0
  BY DEF Init
<1> QED
  BY <1>1, <1>2, <1>3 DEF InboxInv

\* A message that is none of a task, or one that arrives in order, is put into the queue.
LEMMA AwaitsAppend ==
  ASSUME NEW q \in Seq(Mess \cup Notice), NEW a \in Nat, NEW b \in Nat, Awaits(q, a, b),
         NEW m \in Mess \cup Notice, NEW c \in Nat, a <= b,
         IF IsUser(m) THEN m = User(c) /\ Number(c) /\ c \in {b, b + 1} ELSE c = b
  PROVE  Awaits(Append(q, m), a, c)
<1> DEFINE r == Append(q, m)
<1>1. /\ \A i \in DOMAIN r : i = Len(q) + 1 \/ (i \in DOMAIN q /\ r[i] = q[i])
      /\ \A i \in DOMAIN q : i \in DOMAIN r /\ r[i] = q[i] /\ i \in Nat /\ i < Len(q) + 1
      /\ Len(q) + 1 \in DOMAIN r /\ r[Len(q) + 1] = m
  OBVIOUS
<1>2. /\ \A i \in DOMAIN q : IsUser(q[i]) =>
            q[i] = User(q[i].n) /\ Number(q[i].n) /\ a <= q[i].n /\ q[i].n <= b
      /\ \A i, j \in DOMAIN q : IsUser(q[i]) /\ IsUser(q[j]) /\ i < j => q[i].n <= q[j].n
      /\ \A n : Number(n) /\ a < n /\ n <= b => Holds(q, n)
  BY DEF Awaits
<1> HIDE DEF r
<1>3. IsUser(m) => m.n = c /\ m = User(m.n) /\ Number(m.n) /\ b <= c
  BY IsUserOf
<1>4. \A n : Number(n) => n \in Nat
  BY DEF Number
<1>5. b <= c /\ a <= c
  BY <1>3
<1>6. \A i \in DOMAIN r : IsUser(r[i]) =>
         r[i] = User(r[i].n) /\ Number(r[i].n) /\ a <= r[i].n /\ r[i].n <= c
  <2> TAKE i \in DOMAIN r
  <2>1. CASE i = Len(q) + 1
    BY <1>1, <1>3, <1>5, <2>1
  <2>2. CASE i \in DOMAIN q /\ r[i] = q[i]
    <3>1. IsUser(q[i]) => q[i].n \in Nat /\ q[i].n <= b
      BY <1>2, <1>4, <2>2
    <3> QED
      BY <1>2, <1>5, <2>2, <3>1
  <2> QED
    BY <1>1, <2>1, <2>2
<1>7. \A i, j \in DOMAIN r : IsUser(r[i]) /\ IsUser(r[j]) /\ i < j => r[i].n <= r[j].n
  <2> SUFFICES ASSUME NEW i \in DOMAIN r, NEW j \in DOMAIN r, IsUser(r[i]), IsUser(r[j]), i < j
               PROVE  r[i].n <= r[j].n
    OBVIOUS
  <2>1. i \in DOMAIN q /\ r[i] = q[i]
    BY <1>1
  <2>2. CASE j = Len(q) + 1
    BY <1>1, <1>3, <1>6, <2>1, <2>2
  <2>3. CASE j \in DOMAIN q /\ r[j] = q[j]
    BY <1>2, <2>1, <2>3
  <2> QED
    BY <1>1, <2>2, <2>3
<1>8. ASSUME NEW n, Number(n), a < n, n <= c PROVE Holds(r, n)
  <2>1. CASE n <= b
    BY <1>1, <1>2, <1>8, <2>1 DEF Holds
  <2>2. CASE ~(n <= b)
    <3>1. n = c /\ IsUser(m)
      BY <1>4, <1>8, <2>2
    <3> QED
      BY <1>1, <3>1 DEF Holds
  <2> QED
    BY <2>1, <2>2
<1> QED
  BY <1>6, <1>7, <1>8 DEF Awaits, r

\* An instant message arrives.
LEMMA AwaitsInstant ==
  ASSUME NEW q, NEW a \in Nat, NEW b \in Nat, Awaits(q, a, b), NEW c \in Instant, c \in {b, b + 1}
  PROVE  Awaits(q, a, c)
<1>1. \A n : Number(n) /\ n <= c => n <= b /\ n \in Nat
  BY DEF Number
<1>2. b <= c /\ c \in Nat
  OBVIOUS
<1>3. \A i \in DOMAIN q : IsUser(q[i]) => q[i].n \in Nat /\ q[i].n <= b
  BY DEF Awaits, Number
<1>4. \A i \in DOMAIN q : IsUser(q[i]) => q[i].n <= c
  BY <1>2, <1>3
<1> QED
  BY <1>1, <1>4 DEF Awaits

\* The admin thread takes a message: one of a task is the last one again, or the next.
LEMMA AwaitsTail ==
  ASSUME NEW q \in Seq(Mess \cup Notice), q # <<>>, NEW a \in Nat, NEW b \in Nat, Awaits(q, a, b)
  PROVE  LET c == IF IsUser(Head(q)) THEN Head(q).n ELSE a
         IN /\ Awaits(Tail(q), c, b) /\ c \in Nat /\ a <= c
            /\ IsUser(Head(q)) => /\ Number(c) /\ c <= b
                                  /\ \A k : Number(k) /\ k < c => k <= a
<1> DEFINE h == Head(q)
           r == Tail(q)
           c == IF IsUser(h) THEN h.n ELSE a
<1>1. /\ 1 \in DOMAIN q /\ q[1] = h
      /\ \A i \in DOMAIN r : i + 1 \in DOMAIN q /\ r[i] = q[i + 1] /\ i \in Nat /\ 1 < i + 1
      /\ \A i \in DOMAIN q : i \in Nat /\ (i = 1 \/ (1 < i /\ i - 1 \in DOMAIN r /\ r[i - 1] = q[i]))
  OBVIOUS
<1>2. /\ \A i \in DOMAIN q : IsUser(q[i]) =>
            q[i] = User(q[i].n) /\ Number(q[i].n) /\ a <= q[i].n /\ q[i].n <= b
      /\ \A i, j \in DOMAIN q : IsUser(q[i]) /\ IsUser(q[j]) /\ i < j => q[i].n <= q[j].n
      /\ \A n : Number(n) /\ a < n /\ n <= b => Holds(q, n)
  BY DEF Awaits
<1> HIDE DEF h, r
<1>3. \A n : Number(n) => n \in Nat
  BY DEF Number
<1>4. IsUser(h) => Number(h.n) /\ h.n \in Nat /\ a <= h.n /\ h.n <= b /\ h = User(h.n)
  BY <1>1, <1>2, <1>3
<1>5. c \in Nat /\ a <= c
  BY <1>4
<1>6. \A k : Number(k) /\ IsUser(h) /\ k < h.n => k <= a
  <2> SUFFICES ASSUME NEW k, Number(k), IsUser(h), k < h.n, ~(k <= a) PROVE FALSE
    OBVIOUS
  <2>1. k \in Nat /\ a < k /\ k <= b
    BY <1>3, <1>4
  <2>2. PICK i \in DOMAIN q : q[i] = User(k)
    BY <1>2, <2>1 DEF Holds
  <2>3. IsUser(q[i]) /\ q[i].n = k
    BY <2>2, IsUserOf
  <2>4. i # 1
    BY <1>1, <1>4, <2>1, <2>3
  <2>5. h.n <= k
    BY <1>1, <1>2, <2>3, <2>4
  <2> QED
    BY <1>4, <2>1, <2>5
<1>7. \A i \in DOMAIN r : IsUser(r[i]) =>
         r[i] = User(r[i].n) /\ Number(r[i].n) /\ c <= r[i].n /\ r[i].n <= b
  BY <1>1, <1>2
<1>8. \A i, j \in DOMAIN r : IsUser(r[i]) /\ IsUser(r[j]) /\ i < j => r[i].n <= r[j].n
  <2> SUFFICES ASSUME NEW i \in DOMAIN r, NEW j \in DOMAIN r, IsUser(r[i]), IsUser(r[j]), i < j
               PROVE  r[i].n <= r[j].n
    OBVIOUS
  <2>1. i + 1 \in DOMAIN q /\ j + 1 \in DOMAIN q /\ i + 1 < j + 1 /\ r[i] = q[i + 1] /\ r[j] = q[j + 1]
    BY <1>1
  <2> QED
    BY <1>2, <2>1
<1>9. ASSUME NEW n, Number(n), c < n, n <= b PROVE Holds(r, n)
  <2>1. a < n /\ n \in Nat
    BY <1>3, <1>5, <1>9
  <2>2. PICK i \in DOMAIN q : q[i] = User(n)
    BY <1>2, <1>9, <2>1 DEF Holds
  <2>3. i # 1
    BY <1>1, <1>4, <1>9, <2>1, <2>2, IsUserOf
  <2> QED
    BY <1>1, <2>2, <2>3 DEF Holds
<1>10. Awaits(r, c, b)
  BY <1>7, <1>8, <1>9 DEF Awaits
<1> QED
  BY <1>4, <1>5, <1>6, <1>10 DEF h, r

\* A step that touches the messages of one side only.
LEMMA InboxOf ==
  ASSUME InboxInv, NEW s \in Side, NEW q, NEW a \in Nat, NEW e \in Nat, NEW b \in Nat,
         Awaits(q, a, b), UpToDate(e, b), a <= b, e <= b,
         admin'[s] = q, seen'[s]["queued"] = a, seen'[s]["instant"] = e, arrived'[s] = b,
         seen' \in [Side -> [Lane -> Nat]],
         \A x \in Side \ {s} : admin'[x] = admin[x] /\ seen'[x] = seen[x] /\ arrived'[x] = arrived[x]
  PROVE  InboxInv'
<1>1. \A x \in Side : /\ Awaits(admin'[x], seen'[x]["queued"], arrived'[x])
                      /\ UpToDate(seen'[x]["instant"], arrived'[x])
                      /\ \A l \in Lane : seen'[x][l] <= arrived'[x]
  BY DEF InboxInv, Lane
<1> QED
  BY <1>1 DEF InboxInv

\* Types of what a side has got.
LEMMA Gets ==
  ASSUME TellInv, OrderInv, InboxInv, NEW s \in Side
  PROVE  /\ admin \in [Side -> Seq(Mess \cup Notice)] /\ admin[s] \in Seq(Mess \cup Notice)
         /\ arrived \in [Side -> Nat] /\ arrived[s] \in Nat
         /\ seen[s]["queued"] \in Nat /\ seen[s]["instant"] \in Nat
         /\ Awaits(admin[s], seen[s]["queued"], arrived[s]) /\ UpToDate(seen[s]["instant"], arrived[s])
         /\ seen[s]["queued"] <= arrived[s] /\ seen[s]["instant"] <= arrived[s]
BY DEF TellInv, InInv, OrderInv, TalkInv, InboxInv, Lane

\* The receiving thread executes an instant message: it is the last one again, or the
\* next. The others go into the queue.
LEMMA InboxReceive ==
  ASSUME TellInv, OrderInv, InboxInv, NEW s \in Side, Receive(s)
  PROVE  /\ InboxInv'
         /\ \/ UNCHANGED seen
            \/ \E n \in 1..sent[Peer(s)] : /\ Chan!IsNext(s, "instant", n)
                                           /\ seen' = [seen EXCEPT ![s]["instant"] = n]
<1> DEFINE m == Head(wire[Peer(s)])
           a == seen[s]["queued"]
           e == seen[s]["instant"]
           b == arrived[s]
<1>1. /\ Take(s, m) /\ arrived' = IF IsUser(m) THEN [arrived EXCEPT ![s] = m.n] ELSE arrived
      /\ m \in Mess /\ b \in Nat
      /\ IsUser(m) => m = User(m.n) /\ m.n \in {b, b + 1} /\ m.n <= sent[Peer(s)]
  BY TakenInOrder DEF Receive, IsUser
<1>2. sent[Peer(s)] \in Nat
  BY Threads DEF TellInv
<1>3. CASE ~IsInstant(m)
  <2> DEFINE c == IF IsUser(m) THEN m.n ELSE b
  <2>1. /\ admin' = [admin EXCEPT ![s] = Append(admin[s], m)] /\ UNCHANGED seen
        /\ arrived'[s] = c /\ \A x \in Side \ {s} : arrived'[x] = arrived[x]
    BY <1>1, <1>3, Gets DEF Take
  <2>2. IF IsUser(m) THEN m = User(c) /\ Number(c) /\ c \in {b, b + 1} ELSE c = b
    BY <1>1, <1>3 DEF IsInstant, IsUser, Number
  <2>3. c \in Nat /\ b <= c
    BY <1>1
  <2>4. \A n \in Nat : n <= c => n <= b \/ n = c
    BY <1>1
  <2> HIDE DEF m, c
  <2>5. Awaits(Append(admin[s], m), a, c)
    BY <1>1, <2>2, <2>3, Gets, AwaitsAppend
  <2>6. UpToDate(e, c)
    <3>1. c \in Instant => c = b
      BY <1>1, <2>2 DEF Number
    <3> QED
      BY <2>3, <2>4, <3>1, Gets DEF UpToDate
  <2>7. a <= c /\ e <= c
    BY <1>1, <2>3, Gets
  <2>8. admin'[s] = Append(admin[s], m) /\ \A x \in Side \ {s} : admin'[x] = admin[x]
    BY <2>1, Gets
  <2>9. InboxInv'
    BY <2>1, <2>3, <2>5, <2>6, <2>7, <2>8, Gets, InboxOf DEF InboxInv
  <2> QED
    BY <2>1, <2>9
<1>4. CASE IsInstant(m)
  <2> DEFINE c == m.n
  <2>1. /\ UNCHANGED admin /\ seen' = [seen EXCEPT ![s][LaneOf(c)] = c]
        /\ arrived'[s] = c /\ \A x \in Side \ {s} : arrived'[x] = arrived[x]
        /\ c \in Instant /\ c \in {b, b + 1} /\ c <= sent[Peer(s)] /\ LaneOf(c) = "instant"
    BY <1>1, <1>4, Gets DEF Take, Executed, IsInstant, IsUser, LaneOf
  <2> HIDE DEF m, c
  <2>2. c \in Nat /\ b <= c
    BY <1>1, <2>1
  <2>3. seen' = [seen EXCEPT ![s]["instant"] = c]
    BY <2>1
  <2>4. /\ seen'[s]["instant"] = c /\ seen'[s]["queued"] = a /\ \A x \in Side \ {s} : seen'[x] = seen[x]
        /\ seen' \in [Side -> [Lane -> Nat]]
    BY <2>2, <2>3 DEF InboxInv, Lane
  <2>5. Awaits(admin[s], a, c) /\ UpToDate(c, c) /\ a <= c
    BY <1>1, <2>1, <2>2, Gets, AwaitsInstant DEF UpToDate
  <2>6. InboxInv'
    <3>1. Awaits(admin[s], a, c) /\ UpToDate(c, c) /\ a <= c /\ c <= c /\ a \in Nat /\ c \in Nat
      BY <2>2, <2>5, Gets
    <3>2. /\ admin'[s] = admin[s] /\ seen'[s]["queued"] = a /\ seen'[s]["instant"] = c
          /\ arrived'[s] = c /\ seen' \in [Side -> [Lane -> Nat]]
      BY <2>1, <2>4
    <3>3. \A x \in Side \ {s} : admin'[x] = admin[x] /\ seen'[x] = seen[x] /\ arrived'[x] = arrived[x]
      BY <2>1, <2>4
    <3> HIDE DEF a
    <3> QED
      BY <3>1, <3>2, <3>3, InboxOf
  <2>7. \A k \in Nat : k \in Instant /\ k < c => k <= e
    BY <1>1, <2>1, Gets DEF UpToDate
  <2>8. e <= c
    BY <1>1, <2>2, Gets
  <2>9. CASE e = c
    BY <2>3, <2>6, <2>9 DEF InboxInv, Lane
  <2>10. CASE e < c
    <3>1. c \in 1..sent[Peer(s)]
      BY <1>2, <2>1, <2>2, <2>10, Gets
    <3>2. Chan!IsNext(s, "instant", c)
      BY <2>1, <2>2, <2>7, <2>10 DEF Chan!IsNext, LaneOf
    <3> QED
      BY <2>3, <2>6, <3>1, <3>2
  <2>11. e = c \/ e < c
    BY <2>2, <2>8, Gets
  <2> QED
    BY <2>9, <2>10, <2>11
<1> QED
  BY <1>3, <1>4

\* The admin thread takes a message of its queue.
LEMMA InboxAdmin ==
  ASSUME TellInv, OrderInv, InboxInv, NEW s \in Side,
         OldHello(s) \/ Greet(s) \/ HearNotTmp(s) \/ EraseLink(s) \/ StopAgent(s)
  PROVE  InboxInv' /\ UNCHANGED seen
<1> DEFINE a == seen[s]["queued"]
           e == seen[s]["instant"]
           b == arrived[s]
<1>1. /\ admin[s] # <<>> /\ admin' = [admin EXCEPT ![s] = Tail(admin[s])]
      /\ ~IsUser(Head(admin[s])) /\ UNCHANGED <<seen, arrived>>
  BY DEF OldHello, Greet, HearNotTmp, EraseLink, StopAgent, Dequeue, NextMsg, IsUser, histVars
<1>2. Awaits(Tail(admin[s]), a, b)
  BY <1>1, Gets, AwaitsTail
<1>3. admin'[s] = Tail(admin[s]) /\ \A x \in Side \ {s} : admin'[x] = admin[x]
  BY <1>1, Gets
<1> QED
  BY <1>1, <1>2, <1>3, Gets, InboxOf DEF InboxInv

\* What the admin thread executes is the last message again, or the next.
LEMMA InboxExecute ==
  ASSUME TellInv, OrderInv, InboxInv, NEW s \in Side, Execute(s)
  PROVE  /\ InboxInv'
         /\ \/ UNCHANGED seen
            \/ \E n \in 1..arrived[s] : /\ Chan!IsNext(s, "queued", n)
                                        /\ seen' = [seen EXCEPT ![s]["queued"] = n]
<1> DEFINE c == Head(admin[s]).n
           a == seen[s]["queued"]
           e == seen[s]["instant"]
           b == arrived[s]
<1>1. /\ admin[s] # <<>> /\ admin' = [admin EXCEPT ![s] = Tail(admin[s])]
      /\ IsUser(Head(admin[s])) /\ seen' = [seen EXCEPT ![s][LaneOf(c)] = c] /\ UNCHANGED arrived
  BY DEF Execute, Executed, Dequeue, NextMsg, IsUser
<1>2. /\ Awaits(Tail(admin[s]), c, b) /\ c \in Nat /\ a <= c /\ Number(c) /\ c <= b
      /\ \A k : Number(k) /\ k < c => k <= a
  BY <1>1, Gets, AwaitsTail
<1> HIDE DEF c
<1>3. LaneOf(c) = "queued"
  BY <1>2 DEF LaneOf, Number
<1>4. seen' = [seen EXCEPT ![s]["queued"] = c]
  BY <1>1, <1>3
<1>5. /\ seen'[s]["instant"] = e /\ seen'[s]["queued"] = c /\ \A x \in Side \ {s} : seen'[x] = seen[x]
      /\ seen' \in [Side -> [Lane -> Nat]]
  BY <1>2, <1>4 DEF InboxInv, Lane
<1>6. admin'[s] = Tail(admin[s]) /\ \A x \in Side \ {s} : admin'[x] = admin[x]
  BY <1>1, Gets
<1>7. InboxInv'
  BY <1>1, <1>2, <1>5, <1>6, Gets, InboxOf
<1>8. CASE a = c
  BY <1>4, <1>7, <1>8 DEF InboxInv, Lane
<1>9. CASE a < c
  <2>1. c \in 1..b
    BY <1>2, <1>9, Gets
  <2>2. \A k \in 1..(c - 1) : LaneOf(k) = "queued" => Number(k) /\ k < c
    BY <1>2 DEF LaneOf, Number
  <2>3. Chan!IsNext(s, "queued", c)
    BY <1>2, <1>3, <1>9, <2>2 DEF Chan!IsNext
  <2> QED
    BY <1>4, <1>7, <2>1, <2>3
<1> QED
  BY <1>2, <1>8, <1>9, Gets

LEMMA InboxClose ==
  ASSUME TellInv, ClosingInv, OrderInv, InboxInv, NEW s \in Side, OnClose(s)
  PROVE  InboxInv' /\ UNCHANGED seen
<1> DEFINE h == IF closing[s] = "known" /\ remotemaster[s] THEN Quit ELSE RemoveLink(closing[s])
           a == seen[s]["queued"]
           b == arrived[s]
<1>1. admin' = [admin EXCEPT ![s] = Append(admin[s], h)] /\ UNCHANGED <<seen, arrived>>
  BY DEF OnClose, histVars
<1>2. h \in Notice
  BY DEF Notice, ClosingInv
<1> HIDE DEF h
<1>3. ~IsUser(h)
  BY <1>2, NoticeKinds DEF IsUser
<1>4. Awaits(Append(admin[s], h), a, b)
  BY <1>2, <1>3, Gets, AwaitsAppend
<1>5. admin'[s] = Append(admin[s], h) /\ \A x \in Side \ {s} : admin'[x] = admin[x]
  BY <1>1, Gets
<1> QED
  BY <1>1, <1>4, <1>5, Gets, InboxOf DEF InboxInv

\* No other step takes, queues or executes a message.
LEMMA InboxQuiet ==
  ASSUME [Next]_vars
  PROVE  \/ UNCHANGED <<admin, arrived, seen>>
         \/ \E s \in Side : \/ Receive(s) \/ Execute(s) \/ OnClose(s) \/ OldHello(s) \/ Greet(s)
                            \/ HearNotTmp(s) \/ EraseLink(s) \/ StopAgent(s)
BY DEF Next, ThreadStep, AdminStep, SenderStep, ReceiverStep, Attach, SayHello, SayNotTmp, Detach,
       Flush, MoveOver, SayNotTmpAgain, MarkMaster, Transmit, OnSent, LostConnection, ReceiverEnds,
       MakeLink, Send, Lose, vars, recvVars, histVars

LEMMA InboxStep ==
  TellInv /\ ClosingInv /\ OrderInv /\ InboxInv /\ [Next]_vars => InboxInv'
<1> SUFFICES ASSUME TellInv, ClosingInv, OrderInv, InboxInv, [Next]_vars PROVE InboxInv'
  OBVIOUS
<1>1. CASE UNCHANGED <<admin, arrived, seen>>
  BY <1>1 DEF InboxInv
<1> QED
  BY <1>1, InboxQuiet, InboxReceive, InboxAdmin, InboxExecute, InboxClose

LEMMA InboxInvariant == Spec => [](PlacesInv /\ ClosingInv /\ TellInv /\ OrderInv /\ InboxInv)
BY TellInvariant, OrderInit, OrderStep, InboxInit, InboxStep, PTL DEF Spec

-----------------------------------------------------------------------------
(* NetLink implements Channel                                              *)

\* What arrived was sent.
LEMMA ArrivedWasSent ==
  ASSUME TellInv, OrderInv, NEW s \in Side
  PROVE  arrived[s] <= sent[Peer(s)]
<1> DEFINE r == Peer(s)
<1>1. r \in Side /\ Peer(r) = s
  BY Threads
<1> HIDE DEF r
<1>2. /\ wire[r] \in Seq(Mess) /\ sent[r] \in Nat
      /\ Ordered(<<>>, arrived[s], wire[r], sendq[r]["known"], slot[r], sending[r], up, sent[r])
  BY <1>1, Ways
<1>3. PICK i \in Nat, j \in Nat, c \in Nat :
         Follows(<<>>, arrived[s], wire[r], sendq[r]["known"], slot[r], sending[r], up, sent[r], i, j, c)
  BY <1>2 DEF Ordered
<1>4. Run(<<>>, arrived[s], i, {0, 1}) /\ Run(wire[r], i, j, {0, 1}) /\ j <= sent[r]
  BY <1>3 DEF Follows
<1>5. arrived[s] \in Nat /\ arrived[s] <= i /\ i <= j
  <2>1. <<>> \in Seq(Mess)
    OBVIOUS
  <2> QED
    BY <1>2, <1>4, <2>1, RunBounds
<1> QED
  BY <1>2, <1>4, <1>5 DEF r

\* Whatever becomes of the connection, of the slots that are overwritten and of the
\* links that are exchanged, what a side executes of its peer's tasks is what they sent:
\* in order and without a gap what its receiving thread executes, and so what waits for
\* its admin thread. A message that goes out twice is executed twice in a row.
THEOREM LinkKeepsOrder == Spec => KeepsOrder
<1>1. Init => Chan!Init
  BY DEF Init, Chan!Init
<1>2. TellInv /\ ClosingInv /\ OrderInv /\ InboxInv /\ [Next]_vars => [Chan!Next]_(Chan!vars)
  <2> SUFFICES ASSUME TellInv, ClosingInv, OrderInv, InboxInv, [Next]_vars
               PROVE  [Chan!Next]_(Chan!vars)
    OBVIOUS
  <2>1. CASE UNCHANGED <<sent, seen>>
    BY <2>1 DEF Chan!vars
  <2>2. ASSUME NEW s \in Side, Send(s) PROVE Chan!Next
    BY <2>2 DEF Send, Chan!Next, Chan!Send
  <2>3. ASSUME NEW s \in Side, Receive(s) PROVE [Chan!Next]_(Chan!vars)
    <3>1. UNCHANGED sent /\ "instant" \in Lane
      BY <2>3 DEF Receive, Lane
    <3> QED
      BY <2>1, <2>3, <3>1, InboxReceive DEF Chan!Next, Chan!See
  <2>4. ASSUME NEW s \in Side, Execute(s) PROVE [Chan!Next]_(Chan!vars)
    <3>1. UNCHANGED sent /\ "queued" \in Lane
      BY <2>4 DEF Execute, Lane
    <3>2. arrived[s] \in Nat /\ sent[Peer(s)] \in Nat /\ arrived[s] <= sent[Peer(s)]
      BY ArrivedWasSent, Threads, Gets DEF TellInv
    <3>3. 1..arrived[s] \subseteq 1..sent[Peer(s)]
      BY <3>2
    <3> QED
      BY <2>1, <2>4, <3>1, <3>3, InboxExecute DEF Chan!Next, Chan!See
  <2>5. ASSUME NEW s \in Side, \/ OnClose(s) \/ OldHello(s) \/ Greet(s) \/ HearNotTmp(s)
                               \/ EraseLink(s) \/ StopAgent(s)
        PROVE  UNCHANGED <<sent, seen>>
    BY <2>5 DEF OnClose, OldHello, Greet, HearNotTmp, EraseLink, StopAgent, histVars
  <2>6. \/ UNCHANGED <<sent, seen>>
        \/ \E s \in Side : Send(s) \/ Receive(s) \/ Execute(s)
    BY DEF Next, ThreadStep, AdminStep, SenderStep, ReceiverStep, Attach, SayHello, SayNotTmp, OldHello,
           Greet, Detach, Flush, MoveOver, SayNotTmpAgain, MarkMaster, HearNotTmp, EraseLink, StopAgent,
           Transmit, OnSent, LostConnection, OnClose, ReceiverEnds, MakeLink, Lose, vars, histVars
  <2> QED
    BY <2>1, <2>2, <2>3, <2>4, <2>6
<1> QED
  BY <1>1, <1>2, InboxInvariant, PTL DEF Spec, KeepsOrder, Chan!Spec

\* On a connection that holds no message of a task is lost: until it is executed it is
\* in the queue of its sender's link or on its way, though the slot it is written from
\* may be overwritten and the link exchanged at any time.
THEOREM NoMessageDropped == Spec => []NothingDropped
<1>1. TellInv /\ OrderInv /\ InboxInv => NothingDropped
  <2> SUFFICES ASSUME TellInv, OrderInv, InboxInv, up, NEW s \in Side, NEW n \in 1..sent[s],
                      ~(n <= seen[Peer(s)][LaneOf(n)])
               PROVE  OnItsWay(s, n)
    BY DEF NothingDropped
  <2> DEFINE p == Peer(s)
             w == wire[s]
             q == sendq[s]["known"]
             t == sent[s]
  <2>1. /\ w \in Seq(Mess) /\ q \in Seq(Mess) /\ t \in Nat /\ p \in Side
        /\ Ordered(<<>>, arrived[p], w, q, slot[s], sending[s], up, t)
    BY Ways
  <2>2. n \in Nat /\ n <= t
    BY <2>1
  <2> HIDE DEF p, w, q, t
  <2>3. PICK i \in Nat, j \in Nat, c \in Nat :
           Follows(<<>>, arrived[p], w, q, slot[s], sending[s], up, t, i, j, c)
    BY <2>1 DEF Ordered
  <2>4. Run(<<>>, arrived[p], i, {0, 1}) /\ Run(w, i, j, {0, 1}) /\ Run(q, c, t, {1}) /\ c <= j
    BY <2>3 DEF Follows
  <2>5. arrived[p] \in Nat /\ i = arrived[p]
    BY <2>4 DEF Run, Leads, Climbs
  <2>6. CASE n <= arrived[p]
    <3>1. LaneOf(n) = "queued" /\ n \notin Instant
      BY <2>1, <2>2, <2>6, Gets DEF LaneOf, UpToDate, p
    <3>2. seen[p]["queued"] < n
      BY <2>1, <2>2, <3>1, Gets DEF p
    <3>3. Holds(admin[p], n)
      BY <2>1, <2>2, <2>6, <3>1, <3>2, Gets DEF Awaits, Number
    <3> QED
      BY <3>3 DEF OnItsWay, p
  <2>7. CASE arrived[p] < n /\ n <= j
    BY <2>1, <2>2, <2>4, <2>5, <2>7, RunHolds, SMTT(30) DEF OnItsWay, Holds, w
  <2>8. CASE j < n
    <3>1. c < n
      BY <2>2, <2>4, <2>8
    <3>2. \E e \in DOMAIN q : q[e] = User(n)
      BY <2>1, <2>2, <2>4, <3>1, RunHolds
    <3> QED
      BY <3>2 DEF OnItsWay, Holds, q
  <2> QED
    BY <2>2, <2>5, <2>6, <2>7, <2>8
<1> QED
  BY <1>1, InboxInvariant, PTL
=============================================================================
