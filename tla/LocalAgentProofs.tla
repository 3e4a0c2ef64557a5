-------------------------- MODULE LocalAgentProofs --------------------------
(***************************************************************************)
(* Proofs about LocalAgent, for any number of processes, clients and cpus. *)
(***************************************************************************)
EXTENDS LocalAgent, FiniteSetTheorems, TLAPS

TypeInv == TypeOK /\ HoldingTask

USE DEF procVars, kernelVars, workerVars, clientVars, histVars, NoTask

LEMMA Cardinalities ==
  /\ Cardinality(Task) \in Nat
  /\ \A S \in SUBSET Task : Cardinality(S) \in Nat /\ Cardinality(S) <= Cardinality(Task)
<1>1. \A S \in SUBSET Task : IsFiniteSet(S) /\ Cardinality(S) <= Cardinality(Task)
  BY ConstantsAssumption, FS_Subset
<1>2. QED
  BY <1>1, ConstantsAssumption, FS_CardinalityType

LEMMA ThreadBounds ==
  /\ MaxThread \in Nat /\ NumCpu \in Nat
  /\ NumCpu <= MaxThread /\ Cardinality(Task) <= MaxThread
BY Cardinalities, ConstantsAssumption DEF MaxThread

LEMMA InboxBound == MaxInbox \in Nat
BY ConstantsAssumption

LEMMA ZeroIsNoTask == NoTask \notin Task
BY ConstantsAssumption

LEMMA TypeInit == Init => TypeInv
<1> SUFFICES ASSUME Init PROVE TypeInv
  OBVIOUS
<1>1. threads \in NumCpu..MaxThread
  BY ThreadBounds DEF Init
<1>2. size \in [Client -> 0..Cardinality(Task)]
  BY Cardinalities DEF Init
<1>3. inbox \in [Task -> 0..MaxInbox]
  BY ConstantsAssumption DEF Init
<1>4. /\ op \in [Client -> ClientPc]
      /\ arg \in [Client -> Task \cup {NoTask}]
      /\ HoldingTask
  BY DEF Init, ClientPc, Holding, HoldingTask
<1>5. wpc \in [Worker -> WorkerPc] /\ wps \in [Worker -> Task \cup {NoTask}]
  BY DEF Init, WorkerPc
<1>6. mode \in [Task -> Mode] /\ late \in [Task -> 0..2] /\ reported \in [Task -> 0..2]
  BY DEF Init, Mode
<1>7. QED
  BY <1>1, <1>2, <1>3, <1>4, <1>5, <1>6 DEF Init, TypeInv, TypeOK

\* A notification leaves every client at a place of its call, with what it found.
LEMMA NotifiedType ==
  ASSUME TypeInv, NEW t
  PROVE  /\ Notified(t, op) \in [Client -> ClientPc]
         /\ \A c \in Client : Notified(t, op)[c] \in Holding => op[c] \in Holding
BY DEF TypeInv, TypeOK, Notified, ClientPc, Holding

LEMMA WorkerType ==
  ASSUME TypeInv, NEW w \in Worker, WorkerStep(w)
  PROVE  TypeInv'
<1> USE DEF TypeInv, TypeOK, HoldingTask
<1>1. CASE Hunt(w)
  BY <1>1 DEF Hunt, WorkerPc
<1>2. CASE Pick(w)
  BY <1>2 DEF Pick, WorkerPc, Mode
<1>3. CASE Skip(w)
  BY <1>3 DEF Skip, WorkerPc
<1>4. CASE CheckKill(w)
  BY <1>4 DEF CheckKill, WorkerPc
<1>5. CASE Enter(w)
  <2>1. CASE killreq[wps[w]] /\ late[wps[w]] < 2
    <3>1. late' = [late EXCEPT ![wps[w]] = late[wps[w]] + 1]
      BY <1>5, <2>1 DEF Enter
    <3>2. wps[w] \in Task => late[wps[w]] + 1 \in 0..2
      BY <2>1
    <3>3. late' \in [Task -> 0..2]
      BY <3>1, <3>2
    <3>4. QED
      BY <1>5, <3>3 DEF Enter, WorkerPc
  <2>2. CASE ~(killreq[wps[w]] /\ late[wps[w]] < 2)
    BY <1>5, <2>2 DEF Enter, WorkerPc
  <2>3. QED
    BY <2>1, <2>2
<1>6. CASE RecvBegin(w)
  BY <1>6 DEF RecvBegin, WorkerPc
<1>7. CASE RecvEnd(w)
  <2>1. inbox' \in [Task -> 0..MaxInbox]
    <3>1. inbox' = [inbox EXCEPT ![wps[w]] = inbox[wps[w]] - 1] /\ inbox[wps[w]] > 0
      BY <1>7 DEF RecvEnd
    <3>2. wps[w] \in Task => inbox[wps[w]] - 1 \in 0..MaxInbox
      <4>1. wps[w] \in Task => inbox[wps[w]] \in 0..MaxInbox
        OBVIOUS
      <4>2. QED
        BY <3>1, <4>1, InboxBound
    <3>3. QED
      BY <3>1, <3>2
  <2>2. op' \in [Client -> ClientPc] /\ HoldingTask'
    BY <1>7, NotifiedType DEF RecvEnd
  <2>3. QED
    BY <1>7, <2>1, <2>2 DEF RecvEnd, WorkerPc
<1>8. CASE Return(w)
  <2>1. PICK r \in RetCodes :
          /\ onmsg' = [onmsg EXCEPT ![wps[w]] = "onmsg" \in r]
          /\ ontime' = [ontime EXCEPT ![wps[w]] = IF "timed" \in r THEN "armed" ELSE "never"]
          /\ wpc' = [wpc EXCEPT ![w] = AfterRun(wps[w], r)]
    BY <1>8 DEF Return
  <2>2. onmsg' \in [Task -> BOOLEAN]
    <3>1. onmsg \in [Task -> BOOLEAN] /\ ("onmsg" \in r) \in BOOLEAN
      OBVIOUS
    <3>2. QED
      BY <2>1, <3>1
  <2>6. ontime' \in [Task -> {"never", "armed", "due"}]
    BY <2>1
  <2>3. AfterRun(wps[w], r) \in {"enter", "erase", "tosleep"}
    BY DEF AfterRun
  <2>4. wpc' \in [Worker -> WorkerPc]
    BY <2>1, <2>3 DEF WorkerPc
  <2>5. QED
    BY <1>8, <2>2, <2>4, <2>6 DEF Return
<1>9. CASE FallAsleep(w)
  BY <1>9 DEF FallAsleep, PutToSleep, WorkerPc, Mode
<1>10. CASE Erase(w)
  BY <1>10 DEF Erase, AfterErase, WorkerPc
<1>11. CASE Mark(w)
  <2>1. op' \in [Client -> ClientPc] /\ HoldingTask'
    BY <1>11, NotifiedType DEF Mark
  <2>2. QED
    BY <1>11, <2>1 DEF Mark, WorkerPc, Mode
<1>12. CASE Report(w)
  <2>1. CASE reported[wps[w]] < 2
    <3>1. reported' = [reported EXCEPT ![wps[w]] = reported[wps[w]] + 1]
      BY <1>12, <2>1 DEF Report
    <3>2. wps[w] \in Task => reported[wps[w]] + 1 \in 0..2
      BY <2>1
    <3>3. reported' \in [Task -> 0..2]
      BY <3>1, <3>2
    <3>4. QED
      BY <1>12, <3>3 DEF Report, WorkerPc
  <2>2. CASE ~(reported[wps[w]] < 2)
    BY <1>12, <2>2 DEF Report, WorkerPc
  <2>3. QED
    BY <2>1, <2>2
<1>13. QED
  BY <1>1, <1>2, <1>3, <1>4, <1>5, <1>6, <1>7, <1>8, <1>9, <1>10, <1>11, <1>12 DEF WorkerStep

LEMMA ClientType ==
  ASSUME TypeInv, NEW c \in Client, ClientStep(c)
  PROVE  TypeInv'
<1> USE DEF TypeInv, TypeOK, HoldingTask, ClientPc, Holding
<1>1. ASSUME NEW S \in SUBSET Task, NEW m \in Mode, Insert(c, S, m) PROVE TypeInv'
  BY <1>1 DEF Insert
<1>2. CASE Launch(c)
  BY <1>1, <1>2 DEF Launch, Mode
<1>3. CASE LaunchBorn(c)
  BY <1>1, <1>3 DEF LaunchBorn, Mode
<1>4. CASE RegContext(c)
  BY <1>1, <1>4 DEF RegContext, Mode
<1>5. CASE LaunchReady(c)
  BY <1>5 DEF LaunchReady, Mode
<1>6. CASE UnregContext(c)
  BY <1>6 DEF UnregContext
<1>7. CASE ReadSize(c)
  <2>1. size' \in [Client -> 0..Cardinality(Task)]
    BY <1>7, Cardinalities DEF ReadSize
  <2>2. QED
    BY <1>7, <2>1 DEF ReadSize
<1>8. CASE Grow(c)
  <2>1. Grown(size[c]) \in NumCpu..MaxThread
    BY ThreadBounds, Cardinalities DEF Grown
  <2>2. size' \in [Client -> 0..Cardinality(Task)]
    BY <1>8, Cardinalities DEF Grow
  <2>3. QED
    BY <1>8, <2>1, <2>2 DEF Grow
<1>9. ASSUME NEW call, NEW t \in Task, NEW pc \in Holding, Find(c, call, t, pc) PROVE TypeInv'
  BY <1>9 DEF Find
<1>10. CASE FindVictim(c)
  BY <1>9, <1>10 DEF FindVictim
<1>11. CASE WaitTask(c)
  BY <1>9, <1>11 DEF WaitTask
<1>12. CASE FindDest(c)
  BY <1>9, <1>12 DEF FindDest
<1>13. ASSUME NEW t, SetKill(t) PROVE killreq' \in [Task -> BOOLEAN]
  BY <1>13 DEF SetKill
<1>14. ASSUME NEW t, NEW pc, pc \in {op, Notified(t, op)}, Hangup(c, pc)
       PROVE  /\ op' \in [Client -> ClientPc]
              /\ arg' \in [Client -> Task \cup {NoTask}]
              /\ HoldingTask'
  BY <1>14, NotifiedType DEF Hangup
<1>15. CASE Kill(c)
  BY <1>13, <1>14, <1>15 DEF Kill
<1>16. CASE Stop(c)
  BY <1>16 DEF Stop
<1>17. CASE Snapshot(c)
  BY <1>17 DEF Snapshot
<1>18. CASE KillNext(c)
  <2>1. PICK t \in doomed[c] :
          /\ SetKill(t)
          /\ doomed' = [doomed EXCEPT ![c] = @ \ {t}]
          /\ op' = IF doomed[c] = {t} THEN [Notified(t, op) EXCEPT ![c] = "idle"]
                   ELSE Notified(t, op)
    BY <1>18 DEF KillNext
  <2>2. op' \in [Client -> ClientPc] /\ HoldingTask'
    BY <1>18, <2>1, NotifiedType DEF KillNext
  <2>3. killreq' \in [Task -> BOOLEAN] /\ doomed' \in [Client -> SUBSET Task]
    BY <1>13, <2>1
  <2>4. QED
    BY <1>18, <2>2, <2>3 DEF KillNext
<1>19. CASE NotFound(c)
  BY <1>19 DEF NotFound
<1>20. CASE AnswerDead(c)
  BY <1>14, <1>20 DEF AnswerDead
<1>21. CASE Block(c)
  BY <1>21 DEF Block
<1>22. CASE TimedOut(c)
  BY <1>14, <1>22 DEF TimedOut
<1>23. CASE AnswerAlive(c)
  BY <1>14, <1>23 DEF AnswerAlive
<1>24. CASE Push(c)
  <2>1. inbox' \in [Task -> 0..MaxInbox]
    <3>1. /\ inbox' = [inbox EXCEPT ![arg[c]] = inbox[arg[c]] + 1]
          /\ arg[c] \in Task /\ inbox[arg[c]] < MaxInbox
      BY <1>24 DEF Push
    <3>2. inbox[arg[c]] + 1 \in 0..MaxInbox
      <4>1. inbox[arg[c]] \in 0..MaxInbox
        BY <3>1
      <4>2. QED
        BY <3>1, <4>1, InboxBound
    <3>3. QED
      BY <3>1, <3>2
  <2>2. QED
    BY <1>14, <1>24, <2>1 DEF Push
<1>25. QED
  BY <1>2, <1>3, <1>4, <1>5, <1>6, <1>7, <1>8, <1>10, <1>11, <1>12, <1>15, <1>16, <1>17,
     <1>18, <1>19, <1>20, <1>21, <1>22, <1>23, <1>24 DEF ClientStep

LEMMA TypeStep == TypeInv /\ [Next]_vars => TypeInv'
<1> SUFFICES ASSUME TypeInv, [Next]_vars PROVE TypeInv'
  OBVIOUS
<1>1. ASSUME NEW t \in Task, TimePasses(t) PROVE TypeInv'
  BY <1>1 DEF TimePasses, TypeInv, TypeOK, HoldingTask
<1>2. CASE UNCHANGED vars
  BY <1>2 DEF vars, TypeInv, TypeOK, HoldingTask
<1>3. QED
  BY <1>1, <1>2, WorkerType, ClientType DEF Next

\* Every variable keeps its type: in particular pm_threads never outgrows the number
\* of processes, and a call that keeps a pointer keeps one to a process.
THEOREM TypeCorrect == Spec => [](TypeOK /\ HoldingTask)
<1>1. QED
  BY TypeInit, TypeStep, PTL DEF Spec, TypeInv

-----------------------------------------------------------------------------
(* Who has which process: the invariant Ownership is inductive, given the  *)
(* types. It is stated conjunct by conjunct for each step.                 *)

Inv == TypeInv /\ Ownership

LEMMA InvInit == Init => Ownership
BY DEF Init, Ownership, OneHunter, IteratorsValid, OneWorkerPerProcess, WorkerHasWhatItTook,
       RunningIsOnMap, RunningHasWorker, OnMapIsAlive, ToldIsOffMap, LateOnce, Reported,
       Has, Owning, OnMapPc

LEMMA InvWorker ==
  ASSUME Inv, NEW w \in Worker, WorkerStep(w)
  PROVE  Ownership'
<1> USE DEF Inv, TypeInv, TypeOK, Ownership, Has, Owning, OnMapPc
<1>1. CASE Hunt(w)
  <2>1. OneHunter'
    BY <1>1 DEF Hunt, KernelFree, OneHunter
  <2>2. IteratorsValid'
    BY <1>1 DEF Hunt, IteratorsValid
  <2>3. OneWorkerPerProcess'
    BY <1>1 DEF Hunt, OneWorkerPerProcess
  <2>4. WorkerHasWhatItTook'
    BY <1>1 DEF Hunt, WorkerHasWhatItTook
  <2>5. RunningIsOnMap'
    BY <1>1 DEF Hunt, RunningIsOnMap
  <2>6. RunningHasWorker'
    BY <1>1 DEF Hunt, RunningHasWorker
  <2>7. OnMapIsAlive'
    BY <1>1 DEF Hunt, OnMapIsAlive
  <2>8. ToldIsOffMap'
    BY <1>1 DEF Hunt, ToldIsOffMap
  <2>9. LateOnce'
    BY <1>1 DEF Hunt, LateOnce
  <2>10. Reported'
    BY <1>1 DEF Hunt, Reported
  <2>11. QED
    BY <2>1, <2>2, <2>3, <2>4, <2>5, <2>6, <2>7, <2>8, <2>9, <2>10
<1>2. CASE Pick(w)
  <2>12. curii \in ps /\ curii \in Task
    BY <1>2 DEF Pick, IteratorsValid
  <2>13. mode[curii] \in {"ready", "sleep"}
    BY <1>2 DEF Pick, Runnable
  <2>14. \A v \in Worker : wps[v] # curii
    BY <2>12, <2>13, ZeroIsNoTask DEF WorkerHasWhatItTook
  <2>15. /\ mode' = [mode EXCEPT ![curii] = "running"] /\ mode'[curii] = "running"
         /\ \A t \in Task : t # curii => mode'[t] = mode[t]
         /\ wps' = [wps EXCEPT ![w] = curii] /\ wps'[w] = curii
         /\ wpc' = [wpc EXCEPT ![w] = "picked"] /\ ps' = ps /\ late' = late
         /\ killreq' = killreq
    BY <1>2, <2>12 DEF Pick
  <2>1. OneHunter'
    BY <1>2 DEF Pick, Runnable, OneHunter
  <2>2. IteratorsValid'
    BY <1>2 DEF Pick, OneHunter, IteratorsValid
  <2>3. OneWorkerPerProcess'
    BY <2>14, <2>15 DEF OneWorkerPerProcess
  <2>4. WorkerHasWhatItTook'
    <3>1. ASSUME NEW v \in Worker, v # w
          PROVE  /\ wps'[v] # NoTask <=> wpc'[v] \in Owning
                 /\ wpc'[v] \in OnMapPc \cup {"mark"} => mode'[wps'[v]] = "running"
                 /\ wpc'[v] = "dead" => mode'[wps'[v]] = "done"
                 /\ wpc'[v] \in {"mark", "dead"} => wps'[v] \notin ps'
      <4>1. wps'[v] = wps[v] /\ wpc'[v] = wpc[v] /\ wps[v] # curii
        BY <2>14, <2>15, <3>1
      <4>2. wpc[v] \in Owning => wps[v] \in Task
        BY <3>1 DEF WorkerHasWhatItTook
      <4>3. QED
        BY <2>15, <3>1, <4>1, <4>2 DEF WorkerHasWhatItTook
    <3>2. QED
      BY <2>12, <2>15, <3>1, ZeroIsNoTask DEF WorkerHasWhatItTook
  <2>5. RunningIsOnMap'
    BY <2>12, <2>15 DEF RunningIsOnMap
  <2>6. RunningHasWorker'
    <3>1. ASSUME NEW t \in ps, mode'[t] = "running" PROVE \E v \in Worker : wps'[v] = t
      <4>1. CASE t = curii
        BY <2>15, <4>1
      <4>2. CASE t # curii
        <5>1. PICK v \in Worker : wps[v] = t
          BY <2>15, <3>1, <4>2 DEF RunningHasWorker
        <5>2. v # w
          BY <1>2, <5>1, ZeroIsNoTask DEF Pick, WorkerHasWhatItTook
        <5>3. QED
          BY <2>15, <5>1, <5>2
      <4>3. QED
        BY <4>1, <4>2
    <3>2. QED
      BY <2>15, <3>1 DEF RunningHasWorker
  <2>7. OnMapIsAlive'
    BY <1>2 DEF Pick, Runnable, OnMapIsAlive
  <2>8. ToldIsOffMap'
    BY <1>2 DEF Pick, Runnable, ToldIsOffMap
  <2>9. LateOnce'
    BY <1>2 DEF Pick, Runnable, LateOnce
  <2>10. Reported'
    BY <1>2 DEF Pick, Runnable, Reported
  <2>11. QED
    BY <2>1, <2>2, <2>3, <2>4, <2>5, <2>6, <2>7, <2>8, <2>9, <2>10
<1>3. CASE Skip(w)
  <2>1. OneHunter'
    BY <1>3 DEF Skip, OneHunter
  <2>2. IteratorsValid'
    <3>1. /\ curii' \in ps /\ nextii' \in ps /\ wpc' = wpc
          \/ wpc' = [wpc EXCEPT ![w] = "idle"]
      BY <1>3 DEF Skip, IteratorsValid
    <3>2. ps' = ps /\ wpc[w] = "hunt"
      BY <1>3 DEF Skip
    <3>3. QED
      BY <3>1, <3>2 DEF IteratorsValid, OneHunter
  <2>3. OneWorkerPerProcess'
    BY <1>3 DEF Skip, OneWorkerPerProcess
  <2>4. WorkerHasWhatItTook'
    BY <1>3 DEF Skip, WorkerHasWhatItTook
  <2>5. RunningIsOnMap'
    BY <1>3 DEF Skip, RunningIsOnMap
  <2>6. RunningHasWorker'
    BY <1>3 DEF Skip, RunningHasWorker
  <2>7. OnMapIsAlive'
    BY <1>3 DEF Skip, OnMapIsAlive
  <2>8. ToldIsOffMap'
    BY <1>3 DEF Skip, ToldIsOffMap
  <2>9. LateOnce'
    BY <1>3 DEF Skip, LateOnce
  <2>10. Reported'
    BY <1>3 DEF Skip, Reported
  <2>11. QED
    BY <2>1, <2>2, <2>3, <2>4, <2>5, <2>6, <2>7, <2>8, <2>9, <2>10
<1>4. CASE CheckKill(w)
  <2>1. OneHunter'
    BY <1>4 DEF CheckKill, OneHunter
  <2>2. IteratorsValid'
    BY <1>4 DEF CheckKill, IteratorsValid
  <2>3. OneWorkerPerProcess'
    BY <1>4 DEF CheckKill, OneWorkerPerProcess
  <2>4. WorkerHasWhatItTook'
    BY <1>4 DEF CheckKill, WorkerHasWhatItTook
  <2>5. RunningIsOnMap'
    BY <1>4 DEF CheckKill, RunningIsOnMap
  <2>6. RunningHasWorker'
    BY <1>4 DEF CheckKill, RunningHasWorker
  <2>7. OnMapIsAlive'
    BY <1>4 DEF CheckKill, OnMapIsAlive
  <2>8. ToldIsOffMap'
    BY <1>4 DEF CheckKill, ToldIsOffMap
  <2>9. LateOnce'
    <3>1. wps[w] \in Task
      BY <1>4 DEF CheckKill, RunningIsOnMap
    <3>2. /\ late' = late /\ killreq' = killreq /\ wps' = wps
          /\ wpc' = [wpc EXCEPT ![w] = IF killreq[wps[w]] THEN "erase" ELSE "enter"]
      BY <1>4 DEF CheckKill
    <3>3. ~killreq[wps[w]] => late[wps[w]] = 0
      BY <3>1 DEF LateOnce
    <3>4. QED
      BY <3>2, <3>3 DEF LateOnce
  <2>10. Reported'
    BY <1>4 DEF CheckKill, Reported
  <2>11. QED
    BY <2>1, <2>2, <2>3, <2>4, <2>5, <2>6, <2>7, <2>8, <2>9, <2>10
<1>5. CASE Enter(w)
  <2>1. OneHunter'
    BY <1>5 DEF Enter, OneHunter
  <2>2. IteratorsValid'
    BY <1>5 DEF Enter, IteratorsValid
  <2>3. OneWorkerPerProcess'
    BY <1>5 DEF Enter, OneWorkerPerProcess
  <2>4. WorkerHasWhatItTook'
    BY <1>5 DEF Enter, WorkerHasWhatItTook
  <2>5. RunningIsOnMap'
    BY <1>5 DEF Enter, RunningIsOnMap
  <2>6. RunningHasWorker'
    BY <1>5 DEF Enter, RunningHasWorker
  <2>7. OnMapIsAlive'
    BY <1>5 DEF Enter, OnMapIsAlive
  <2>8. ToldIsOffMap'
    BY <1>5 DEF Enter, ToldIsOffMap
  <2>9. LateOnce'
    <3>1. wps[w] \in Task /\ late[wps[w]] = 0
      BY <1>5 DEF Enter, RunningIsOnMap, LateOnce
    <3>2. /\ killreq' = killreq /\ wps' = wps /\ wpc' = [wpc EXCEPT ![w] = "run"]
          /\ \/ late' = late
             \/ killreq[wps[w]] /\ late' = [late EXCEPT ![wps[w]] = late[wps[w]] + 1]
      BY <1>5 DEF Enter
    <3>3. \A v \in Worker : v # w /\ wpc[v] = "enter" => wps[v] # wps[w]
      BY <3>1, ZeroIsNoTask DEF OneWorkerPerProcess
    <3>4. CASE late' = late
      BY <3>2, <3>4 DEF LateOnce
    <3>5. CASE killreq[wps[w]] /\ late' = [late EXCEPT ![wps[w]] = late[wps[w]] + 1]
      <4>1. late'[wps[w]] = 1 /\ \A t \in Task : t # wps[w] => late'[t] = late[t]
        BY <3>1, <3>5
      <4>2. \A v \in Worker : wpc[v] = "enter" => wps[v] \in Task
        BY DEF RunningIsOnMap
      <4>3. QED
        BY <3>1, <3>2, <3>3, <3>5, <4>1, <4>2 DEF LateOnce
    <3>6. QED
      BY <3>2, <3>4, <3>5
  <2>10. Reported'
    BY <1>5 DEF Enter, Reported
  <2>11. QED
    BY <2>1, <2>2, <2>3, <2>4, <2>5, <2>6, <2>7, <2>8, <2>9, <2>10
<1>6. CASE RecvBegin(w)
  <2>1. OneHunter'
    BY <1>6 DEF RecvBegin, OneHunter
  <2>2. IteratorsValid'
    BY <1>6 DEF RecvBegin, IteratorsValid
  <2>3. OneWorkerPerProcess'
    BY <1>6 DEF RecvBegin, OneWorkerPerProcess
  <2>4. WorkerHasWhatItTook'
    BY <1>6 DEF RecvBegin, WorkerHasWhatItTook
  <2>5. RunningIsOnMap'
    BY <1>6 DEF RecvBegin, RunningIsOnMap
  <2>6. RunningHasWorker'
    BY <1>6 DEF RecvBegin, RunningHasWorker
  <2>7. OnMapIsAlive'
    BY <1>6 DEF RecvBegin, OnMapIsAlive
  <2>8. ToldIsOffMap'
    BY <1>6 DEF RecvBegin, ToldIsOffMap
  <2>9. LateOnce'
    BY <1>6 DEF RecvBegin, LateOnce
  <2>10. Reported'
    BY <1>6 DEF RecvBegin, Reported
  <2>11. QED
    BY <2>1, <2>2, <2>3, <2>4, <2>5, <2>6, <2>7, <2>8, <2>9, <2>10
<1>7. CASE RecvEnd(w)
  <2>1. OneHunter'
    BY <1>7 DEF RecvEnd, OneHunter
  <2>2. IteratorsValid'
    BY <1>7 DEF RecvEnd, IteratorsValid
  <2>3. OneWorkerPerProcess'
    BY <1>7 DEF RecvEnd, OneWorkerPerProcess
  <2>4. WorkerHasWhatItTook'
    BY <1>7 DEF RecvEnd, WorkerHasWhatItTook
  <2>5. RunningIsOnMap'
    BY <1>7 DEF RecvEnd, RunningIsOnMap
  <2>6. RunningHasWorker'
    BY <1>7 DEF RecvEnd, RunningHasWorker
  <2>7. OnMapIsAlive'
    BY <1>7 DEF RecvEnd, OnMapIsAlive
  <2>8. ToldIsOffMap'
    BY <1>7 DEF RecvEnd, ToldIsOffMap
  <2>9. LateOnce'
    BY <1>7 DEF RecvEnd, LateOnce
  <2>10. Reported'
    BY <1>7 DEF RecvEnd, Reported
  <2>11. QED
    BY <2>1, <2>2, <2>3, <2>4, <2>5, <2>6, <2>7, <2>8, <2>9, <2>10
<1>8. CASE Return(w)
  <2>1. OneHunter'
    BY <1>8 DEF Return, AfterRun, OneHunter
  <2>2. IteratorsValid'
    BY <1>8 DEF Return, AfterRun, IteratorsValid
  <2>3. OneWorkerPerProcess'
    BY <1>8 DEF Return, AfterRun, OneWorkerPerProcess
  <2>4. WorkerHasWhatItTook'
    BY <1>8 DEF Return, AfterRun, WorkerHasWhatItTook
  <2>5. RunningIsOnMap'
    BY <1>8 DEF Return, AfterRun, RunningIsOnMap
  <2>6. RunningHasWorker'
    BY <1>8 DEF Return, AfterRun, RunningHasWorker
  <2>7. OnMapIsAlive'
    BY <1>8 DEF Return, AfterRun, OnMapIsAlive
  <2>8. ToldIsOffMap'
    BY <1>8 DEF Return, AfterRun, ToldIsOffMap
  <2>9. LateOnce'
    <3>1. wps[w] \in Task
      BY <1>8 DEF Return, RunningIsOnMap
    <3>2. PICK r \in RetCodes : wpc' = [wpc EXCEPT ![w] = AfterRun(wps[w], r)]
      BY <1>8 DEF Return
    <3>3. AfterRun(wps[w], r) = "enter" => late[wps[w]] = 0
      BY <3>1 DEF AfterRun, LateOnce
    <3>4. late' = late /\ killreq' = killreq /\ wps' = wps
      BY <1>8 DEF Return
    <3>5. QED
      BY <3>2, <3>3, <3>4 DEF LateOnce
  <2>10. Reported'
    BY <1>8 DEF Return, AfterRun, Reported
  <2>11. QED
    BY <2>1, <2>2, <2>3, <2>4, <2>5, <2>6, <2>7, <2>8, <2>9, <2>10
<1>9. CASE FallAsleep(w)
  <2>1. OneHunter'
    BY <1>9 DEF FallAsleep, PutToSleep, OneHunter
  <2>2. IteratorsValid'
    BY <1>9 DEF FallAsleep, PutToSleep, IteratorsValid
  <2>3. OneWorkerPerProcess'
    BY <1>9 DEF FallAsleep, PutToSleep, OneWorkerPerProcess
  <2>4. WorkerHasWhatItTook'
    <3>1. wps[w] \in Task /\ wps[w] # NoTask
      BY <1>9, ZeroIsNoTask DEF FallAsleep, RunningIsOnMap, WorkerHasWhatItTook
    <3>2. \A v \in Worker : v # w => wps[v] # wps[w]
      BY <3>1 DEF OneWorkerPerProcess
    <3>3. \A v \in Worker : wpc[v] \in Owning => wps[v] \in Task
      BY DEF WorkerHasWhatItTook
    <3>4. QED
      BY <1>9, <3>1, <3>2, <3>3, ZeroIsNoTask DEF FallAsleep, PutToSleep, WorkerHasWhatItTook
  <2>5. RunningIsOnMap'
    BY <1>9 DEF FallAsleep, PutToSleep, RunningIsOnMap
  <2>6. RunningHasWorker'
    BY <1>9 DEF FallAsleep, PutToSleep, RunningHasWorker
  <2>7. OnMapIsAlive'
    BY <1>9 DEF FallAsleep, PutToSleep, OnMapIsAlive
  <2>8. ToldIsOffMap'
    BY <1>9 DEF FallAsleep, PutToSleep, ToldIsOffMap
  <2>9. LateOnce'
    BY <1>9 DEF FallAsleep, PutToSleep, LateOnce
  <2>10. Reported'
    <3>1. wps[w] \in Task /\ wps[w] # NoTask
      BY <1>9, ZeroIsNoTask DEF FallAsleep, RunningIsOnMap, WorkerHasWhatItTook
    <3>2. \A v \in Worker : v # w => wps[v] # wps[w]
      BY <3>1 DEF OneWorkerPerProcess
    <3>3. \A v \in Worker : wpc[v] \in Owning => wps[v] \in Task
      BY DEF WorkerHasWhatItTook
    <3>4. QED
      BY <1>9, <3>1, <3>2, <3>3, ZeroIsNoTask DEF FallAsleep, PutToSleep, Reported, WorkerHasWhatItTook
  <2>11. QED
    BY <2>1, <2>2, <2>3, <2>4, <2>5, <2>6, <2>7, <2>8, <2>9, <2>10
<1>10. CASE Erase(w)
  <2>1. OneHunter'
    BY <1>10 DEF Erase, AfterErase, MapWritable, KernelFree, OneHunter
  <2>2. IteratorsValid'
    BY <1>10 DEF Erase, AfterErase, MapWritable, KernelFree, IteratorsValid
  <2>3. OneWorkerPerProcess'
    BY <1>10 DEF Erase, AfterErase, MapWritable, KernelFree, OneWorkerPerProcess
  <2>4. WorkerHasWhatItTook'
    BY <1>10 DEF Erase, AfterErase, MapWritable, KernelFree, WorkerHasWhatItTook
  <2>5. RunningIsOnMap'
    <3>1. wps[w] \in Task /\ wps[w] # NoTask
      BY <1>10, ZeroIsNoTask DEF Erase, RunningIsOnMap, WorkerHasWhatItTook
    <3>2. \A v \in Worker : v # w => wps[v] # wps[w]
      BY <3>1 DEF OneWorkerPerProcess
    <3>3. \A v \in Worker : wpc[v] \in Owning => wps[v] \in Task
      BY DEF WorkerHasWhatItTook
    <3>4. QED
      BY <1>10, <3>1, <3>2, <3>3, ZeroIsNoTask DEF Erase, AfterErase, RunningIsOnMap
  <2>6. RunningHasWorker'
    BY <1>10 DEF Erase, AfterErase, MapWritable, KernelFree, RunningHasWorker
  <2>7. OnMapIsAlive'
    BY <1>10 DEF Erase, AfterErase, MapWritable, KernelFree, OnMapIsAlive
  <2>8. ToldIsOffMap'
    BY <1>10 DEF Erase, AfterErase, MapWritable, KernelFree, ToldIsOffMap
  <2>9. LateOnce'
    BY <1>10 DEF Erase, AfterErase, MapWritable, KernelFree, LateOnce
  <2>10. Reported'
    BY <1>10 DEF Erase, AfterErase, MapWritable, KernelFree, Reported
  <2>11. QED
    BY <2>1, <2>2, <2>3, <2>4, <2>5, <2>6, <2>7, <2>8, <2>9, <2>10
<1>11. CASE Mark(w)
  <2>1. OneHunter'
    BY <1>11 DEF Mark, OneHunter
  <2>2. IteratorsValid'
    BY <1>11 DEF Mark, IteratorsValid
  <2>3. OneWorkerPerProcess'
    BY <1>11 DEF Mark, OneWorkerPerProcess
  <2>4. WorkerHasWhatItTook'
    <3>1. wps[w] \in Task /\ wps[w] # NoTask
      BY <1>11, ZeroIsNoTask DEF Mark, RunningIsOnMap, WorkerHasWhatItTook
    <3>2. \A v \in Worker : v # w => wps[v] # wps[w]
      BY <3>1 DEF OneWorkerPerProcess
    <3>3. \A v \in Worker : wpc[v] \in Owning => wps[v] \in Task
      BY DEF WorkerHasWhatItTook
    <3>4. QED
      BY <1>11, <3>1, <3>2, <3>3, ZeroIsNoTask DEF Mark, WorkerHasWhatItTook
  <2>5. RunningIsOnMap'
    BY <1>11 DEF Mark, RunningIsOnMap
  <2>6. RunningHasWorker'
    BY <1>11 DEF Mark, RunningHasWorker
  <2>7. OnMapIsAlive'
    <3>1. wps[w] \in Task /\ wps[w] # NoTask
      BY <1>11, ZeroIsNoTask DEF Mark, RunningIsOnMap, WorkerHasWhatItTook
    <3>2. \A v \in Worker : v # w => wps[v] # wps[w]
      BY <3>1 DEF OneWorkerPerProcess
    <3>3. \A v \in Worker : wpc[v] \in Owning => wps[v] \in Task
      BY DEF WorkerHasWhatItTook
    <3>4. QED
      BY <1>11, <3>1, <3>2, <3>3, ZeroIsNoTask DEF Mark, OnMapIsAlive, WorkerHasWhatItTook
  <2>8. ToldIsOffMap'
    BY <1>11 DEF Mark, ToldIsOffMap
  <2>9. LateOnce'
    BY <1>11 DEF Mark, LateOnce
  <2>10. Reported'
    BY <1>11 DEF Mark, Reported
  <2>11. QED
    BY <2>1, <2>2, <2>3, <2>4, <2>5, <2>6, <2>7, <2>8, <2>9, <2>10
<1>12. CASE Report(w)
  <2>1. OneHunter'
    BY <1>12 DEF Report, OneHunter
  <2>2. IteratorsValid'
    BY <1>12 DEF Report, IteratorsValid
  <2>3. OneWorkerPerProcess'
    BY <1>12 DEF Report, OneWorkerPerProcess
  <2>4. WorkerHasWhatItTook'
    BY <1>12 DEF Report, WorkerHasWhatItTook
  <2>5. RunningIsOnMap'
    BY <1>12 DEF Report, RunningIsOnMap
  <2>6. RunningHasWorker'
    <3>1. wps[w] \in Task /\ wps[w] # NoTask
      BY <1>12, ZeroIsNoTask DEF Report, RunningIsOnMap, WorkerHasWhatItTook
    <3>2. \A v \in Worker : v # w => wps[v] # wps[w]
      BY <3>1 DEF OneWorkerPerProcess
    <3>3. \A v \in Worker : wpc[v] \in Owning => wps[v] \in Task
      BY DEF WorkerHasWhatItTook
    <3>4. QED
      BY <1>12, <3>1, <3>2, <3>3, ZeroIsNoTask DEF Report, RunningHasWorker, WorkerHasWhatItTook
  <2>7. OnMapIsAlive'
    BY <1>12 DEF Report, OnMapIsAlive
  <2>8. ToldIsOffMap'
    BY <1>12 DEF Report, ToldIsOffMap
  <2>9. LateOnce'
    BY <1>12 DEF Report, LateOnce
  <2>10. Reported'
    <3>1. wps[w] \in Task /\ wps[w] # NoTask
      BY <1>12, ZeroIsNoTask DEF Report, RunningIsOnMap, WorkerHasWhatItTook
    <3>2. \A v \in Worker : v # w => wps[v] # wps[w]
      BY <3>1 DEF OneWorkerPerProcess
    <3>3. \A v \in Worker : wpc[v] \in Owning => wps[v] \in Task
      BY DEF WorkerHasWhatItTook
    <3>4. QED
      BY <1>12, <3>1, <3>2, <3>3, ZeroIsNoTask DEF Report, Reported, WorkerHasWhatItTook
  <2>11. QED
    BY <2>1, <2>2, <2>3, <2>4, <2>5, <2>6, <2>7, <2>8, <2>9, <2>10
<1>13. QED
  BY <1>1, <1>2, <1>3, <1>4, <1>5, <1>6, <1>7, <1>8, <1>9, <1>10, <1>11, <1>12 DEF WorkerStep

\* Most calls of the clients leave everything Ownership speaks of alone, except that
\* they may kill.
LEMMA QuietStep ==
  ASSUME Inv, UNCHANGED <<ps, mode, curii, nextii, wpc, wps, told, late, reported>>,
         \A t \in Task : killreq[t] => killreq'[t]
  PROVE  Ownership'
BY DEF Inv, Ownership, OneHunter, IteratorsValid, OneWorkerPerProcess, WorkerHasWhatItTook,
       RunningIsOnMap, RunningHasWorker, OnMapIsAlive, ToldIsOffMap, LateOnce, Reported, Has

LEMMA KillKeepsKills ==
  ASSUME TypeInv, NEW t, SetKill(t)
  PROVE  \A u \in Task : killreq[u] => killreq'[u]
BY DEF SetKill, TypeInv, TypeOK

\* New processes get ids nobody used, and no worker hunts while they are put on the map.
LEMMA InsertStep ==
  ASSUME Inv, NEW c \in Client, NEW S \in SUBSET Task, NEW m \in {"ready", "born", "context"},
         Insert(c, S, m)
  PROVE  Ownership'
<1> USE DEF Inv, TypeInv, TypeOK, Ownership, Has, Owning, OnMapPc
<1>1. /\ ps' = ps \cup S /\ \A t \in S : mode[t] = "empty"
      /\ mode' = [t \in Task |-> IF t \in S THEN m ELSE mode[t]]
      /\ UNCHANGED <<killreq, curii, nextii, wpc, wps, told, late, reported>>
  BY DEF Insert
<1>2. \A w \in Worker : wpc[w] \in Owning => wps[w] \in Task /\ wps[w] \notin S
  <2>1. SUFFICES ASSUME NEW w \in Worker, wpc[w] \in Owning
                 PROVE  wps[w] \in Task /\ wps[w] \notin S
    OBVIOUS
  <2>2. wps[w] \in Task /\ mode[wps[w]] \in {"running", "done"}
    BY <2>1 DEF WorkerHasWhatItTook
  <2>3. QED
    BY <1>1, <2>2
<1>3. OneHunter' /\ IteratorsValid' /\ OneWorkerPerProcess'
  BY <1>1 DEF OneHunter, IteratorsValid, OneWorkerPerProcess
<1>4. WorkerHasWhatItTook'
  BY <1>1, <1>2 DEF WorkerHasWhatItTook
<1>5. RunningIsOnMap'
  BY <1>1 DEF RunningIsOnMap
<1>6. RunningHasWorker'
  BY <1>1 DEF RunningHasWorker
<1>7. OnMapIsAlive'
  BY <1>1 DEF OnMapIsAlive
<1>8. ToldIsOffMap'
  BY <1>1 DEF ToldIsOffMap
<1>9. LateOnce'
  BY <1>1 DEF LateOnce
<1>10. Reported'
  BY <1>1, <1>2 DEF Reported
<1>11. QED
  BY <1>3, <1>4, <1>5, <1>6, <1>7, <1>8, <1>9, <1>10

\* Somebody is told that a process is dead which is off the map.
LEMMA TellStep ==
  ASSUME Inv, NEW t \in Task, t \notin ps, mode[t] # "empty", told' = told \cup {t},
         UNCHANGED <<ps, mode, killreq, curii, nextii, wpc, wps, late, reported>>
  PROVE  Ownership'
BY DEF Inv, Ownership, OneHunter, IteratorsValid, OneWorkerPerProcess, WorkerHasWhatItTook,
       RunningIsOnMap, RunningHasWorker, OnMapIsAlive, ToldIsOffMap, LateOnce, Reported, Has

\* The id a client found stays off the map once its process is done.
LEMMA DoneIsOffMap ==
  ASSUME Inv, NEW t \in Task, mode[t] = "done"
  PROVE  t \notin ps
BY DEF Inv, Ownership, OnMapIsAlive

LEMMA InvClient ==
  ASSUME Inv, NEW c \in Client, ClientStep(c)
  PROVE  Ownership'
<1>1. CASE Launch(c)
  BY <1>1, InsertStep DEF Launch
<1>2. CASE LaunchBorn(c)
  BY <1>2, InsertStep DEF LaunchBorn
<1>3. CASE RegContext(c)
  BY <1>3, InsertStep DEF RegContext
<1>4. CASE LaunchReady(c)
  <2> USE DEF Inv, TypeInv, TypeOK, Ownership, Has, Owning, OnMapPc
  <2>1. PICK t \in ps : mode[t] = "born" /\ mode' = [mode EXCEPT ![t] = "ready"]
    BY <1>4 DEF LaunchReady
  <2>2. UNCHANGED <<ps, killreq, curii, nextii, wpc, wps, told, late, reported>>
    BY <1>4 DEF LaunchReady
  <2>3. \A w \in Worker : wpc[w] \in Owning => wps[w] \in Task /\ wps[w] # t
    BY <2>1 DEF WorkerHasWhatItTook
  <2>4. OneHunter' /\ IteratorsValid' /\ OneWorkerPerProcess' /\ RunningIsOnMap'
    BY <2>2 DEF OneHunter, IteratorsValid, OneWorkerPerProcess, RunningIsOnMap
  <2>5. WorkerHasWhatItTook'
    BY <2>1, <2>2, <2>3 DEF WorkerHasWhatItTook
  <2>6. RunningHasWorker' /\ OnMapIsAlive' /\ ToldIsOffMap'
    BY <2>1, <2>2 DEF RunningHasWorker, OnMapIsAlive, ToldIsOffMap
  <2>7. LateOnce' /\ Reported'
    BY <2>1, <2>2, <2>3 DEF LateOnce, Reported
  <2>8. QED
    BY <2>4, <2>5, <2>6, <2>7
<1>5. CASE UnregContext(c)
  <2> USE DEF Inv, TypeInv, TypeOK, Ownership, Has, Owning, OnMapPc
  <2>1. PICK t \in ps : mode[t] = "context" /\ ps' = ps \ {t}
    BY <1>5 DEF UnregContext
  <2>2. UNCHANGED <<mode, killreq, curii, nextii, wpc, wps, told, late, reported>>
    BY <1>5 DEF UnregContext
  <2>3. \A w \in Worker : wpc[w] # "hunt"
    BY <1>5 DEF UnregContext, MapWritable, KernelFree
  <2>4. OneHunter' /\ IteratorsValid' /\ OneWorkerPerProcess'
    BY <2>2, <2>3 DEF OneHunter, IteratorsValid, OneWorkerPerProcess
  <2>5. WorkerHasWhatItTook'
    BY <2>1, <2>2 DEF WorkerHasWhatItTook
  <2>6. RunningIsOnMap'
    BY <2>1, <2>2 DEF RunningIsOnMap, WorkerHasWhatItTook
  <2>7. RunningHasWorker' /\ OnMapIsAlive' /\ ToldIsOffMap'
    BY <2>1, <2>2 DEF RunningHasWorker, OnMapIsAlive, ToldIsOffMap
  <2>8. LateOnce' /\ Reported'
    BY <2>2 DEF LateOnce, Reported
  <2>9. QED
    BY <2>4, <2>5, <2>6, <2>7, <2>8
<1>6. CASE ReadSize(c)
  BY <1>6, QuietStep DEF ReadSize
<1>7. CASE Grow(c)
  BY <1>7, QuietStep DEF Grow
<1>8. ASSUME NEW call, NEW t, NEW pc, Find(c, call, t, pc) PROVE Ownership'
  BY <1>8, QuietStep DEF Find
<1>9. CASE FindVictim(c) \/ WaitTask(c) \/ FindDest(c)
  BY <1>8, <1>9 DEF FindVictim, WaitTask, FindDest
<1>10. CASE Kill(c)
  BY <1>10, QuietStep, KillKeepsKills DEF Kill, Inv
<1>11. CASE Stop(c) \/ Snapshot(c)
  BY <1>11, QuietStep DEF Stop, Snapshot
<1>12. CASE KillNext(c)
  <2>1. \A t \in Task : killreq[t] => killreq'[t]
    BY <1>12, KillKeepsKills DEF KillNext, Inv
  <2>2. QED
    BY <1>12, <2>1, QuietStep DEF KillNext
<1>13. CASE NotFound(c)
  BY <1>13, TellStep DEF NotFound
<1>14. CASE AnswerDead(c)
  <2>1. arg[c] \in Task
    BY <1>14 DEF AnswerDead, Inv, TypeInv, HoldingTask, Holding
  <2>2. QED
    BY <1>14, <2>1, DoneIsOffMap, TellStep DEF AnswerDead
<1>15. CASE Block(c) \/ AnswerAlive(c)
  BY <1>15, QuietStep DEF Block, AnswerAlive
<1>16. CASE TimedOut(c)
  <2>1. arg[c] \in Task
    BY <1>16 DEF TimedOut, Inv, TypeInv, HoldingTask, Holding
  <2>2. CASE mode[arg[c]] = "done"
    BY <1>16, <2>1, <2>2, DoneIsOffMap, TellStep DEF TimedOut
  <2>3. CASE mode[arg[c]] # "done"
    BY <1>16, <2>3, QuietStep DEF TimedOut
  <2>4. QED
    BY <2>2, <2>3
<1>17. CASE Push(c)
  BY <1>17, QuietStep DEF Push
<1>18. QED
  BY <1>1, <1>2, <1>3, <1>4, <1>5, <1>6, <1>7, <1>9, <1>10, <1>11, <1>12, <1>13, <1>14,
     <1>15, <1>16, <1>17 DEF ClientStep

LEMMA InvStep == Inv /\ [Next]_vars => Inv'
<1> SUFFICES ASSUME Inv, [Next]_vars PROVE Inv'
  OBVIOUS
<1>1. TypeInv'
  BY TypeStep DEF Inv
<1>2. ASSUME NEW t \in Task, TimePasses(t) PROVE Ownership'
  BY <1>2, QuietStep DEF TimePasses
<1>3. ASSUME UNCHANGED vars PROVE Ownership'
  BY <1>3, QuietStep DEF vars
<1>4. QED
  BY <1>1, <1>2, <1>3, InvWorker, InvClient DEF Next, Inv

LEMMA Invariance == Spec => []Inv
<1>1. Init => Inv
  BY TypeInit, InvInit DEF Inv
<1>2. QED
  BY <1>1, InvStep, PTL DEF Spec

\* Who has which process, as the run checks it.
THEOREM OwnershipHolds == Spec => []Ownership
<1>1. Inv => Ownership
  BY DEF Inv
<1>2. QED
  BY <1>1, Invariance, PTL

\* However many workers, clients and processes there are, no two workers ever have the
\* same process: no run method is called by two threads at once.
THEOREM MutualExclusion == Spec => []OneWorkerPerProcess
<1>1. Inv => OneWorkerPerProcess
  BY DEF Inv, Ownership
<1>2. QED
  BY <1>1, Invariance, PTL

\* The assertions of worker_func and is_killed_task hold: what is run is on the map.
THEOREM MapIsConsistent == Spec => []RunningIsOnMap
<1>1. Inv => RunningIsOnMap
  BY DEF Inv, Ownership
<1>2. QED
  BY <1>1, Invariance, PTL

\* A process on the map that is marked running has a worker that runs it.
THEOREM RunningIsRun == Spec => []RunningHasWorker
<1>1. Inv => RunningHasWorker
  BY DEF Inv, Ownership
<1>2. QED
  BY <1>1, Invariance, PTL

\* No map writer invalidates the iterators of a hunt.
THEOREM HuntIsSafe == Spec => []IteratorsValid
<1>1. Inv => IteratorsValid
  BY DEF Inv, Ownership
<1>2. QED
  BY <1>1, Invariance, PTL

\* A caller told that a process is dead is told the truth.
THEOREM ToldTheTruth == Spec => []DeadIsDead
<1>1. Inv => DeadIsDead
  <2> SUFFICES ASSUME Inv, NEW t \in told
               PROVE  /\ t \notin ps
                      /\ \A w \in Worker : Has(w, t) => wpc[w] \in {"mark", "dead"}
    BY DEF DeadIsDead
  <2>1. t \notin ps /\ t \in Task
    BY DEF Inv, Ownership, ToldIsOffMap, TypeInv, TypeOK
  <2>2. ASSUME NEW w \in Worker, wps[w] = t PROVE wpc[w] \in {"mark", "dead"}
    <3>1. wpc[w] \in Owning
      BY <2>1, <2>2, ZeroIsNoTask DEF Inv, Ownership, WorkerHasWhatItTook
    <3>2. wpc[w] \notin OnMapPc
      BY <2>1, <2>2 DEF Inv, Ownership, RunningIsOnMap, OnMapPc
    <3>3. QED
      BY <3>1, <3>2 DEF Owning
  <2>3. QED
    BY <2>1, <2>2 DEF Has
<1>2. QED
  BY <1>1, Invariance, PTL

\* At most one run of a process begins after its kill.
THEOREM KilledSoon == Spec => []KilledAtNextCheckpoint
<1>1. Inv => KilledAtNextCheckpoint
  BY DEF Inv, Ownership, LateOnce, KilledAtNextCheckpoint
<1>2. QED
  BY <1>1, Invariance, PTL

\* la_dead_task is called at most once, for a process that is marked and off the map.
THEOREM DeathReportedOnce == Spec => []ReportedOnce
<1>1. Inv => ReportedOnce
  BY DEF Inv, Ownership, Reported, OnMapIsAlive, ReportedOnce, TypeInv, TypeOK
<1>2. QED
  BY <1>1, Invariance, PTL

-----------------------------------------------------------------------------
(* The size of the thread pool: either it is large enough, or a caller is  *)
(* on its way to make it so.                                               *)

PoolInv ==
  \/ Cardinality(ps) <= threads
  \/ \E c \in Client : op[c] = "size"
  \/ \E c \in Client : op[c] = "grow" /\ Cardinality(ps) <= size[c]

LEMMA SmallerMap ==
  ASSUME TypeInv, NEW S, S \subseteq ps
  PROVE  /\ Cardinality(S) \in Nat /\ Cardinality(ps) \in Nat
         /\ Cardinality(S) <= Cardinality(ps)
<1>1. ps \in SUBSET Task /\ IsFiniteSet(ps)
  BY ConstantsAssumption, FS_Subset DEF TypeInv, TypeOK
<1>2. QED
  BY <1>1, Cardinalities, FS_Subset

\* A step that adds no process and leaves the callers inside set_min_threads alone.
LEMMA PoolKept ==
  ASSUME TypeInv, PoolInv, ps' \subseteq ps, threads' = threads, size' = size,
         \A c \in Client : op[c] \in {"size", "grow"} => op'[c] = op[c]
  PROVE  PoolInv'
<1>1. /\ Cardinality(ps') \in Nat /\ Cardinality(ps) \in Nat
      /\ Cardinality(ps') <= Cardinality(ps)
  BY SmallerMap
<1>2. threads \in Nat /\ \A c \in Client : size[c] \in Nat
  BY ThreadBounds, Cardinalities DEF TypeInv, TypeOK
<1>3. QED
  BY <1>1, <1>2 DEF PoolInv

LEMMA PoolWorker ==
  ASSUME TypeInv, PoolInv, NEW w \in Worker, WorkerStep(w)
  PROVE  PoolInv'
<1>1. ps' \subseteq ps /\ threads' = threads /\ size' = size
  BY DEF WorkerStep, Hunt, Pick, Skip, CheckKill, Enter, RecvBegin, RecvEnd, Return,
         FallAsleep, Erase, Mark, Report
<1>2. op' = op \/ op' = Notified(wps[w], op)
  BY DEF WorkerStep, Hunt, Pick, Skip, CheckKill, Enter, RecvBegin, RecvEnd, Return,
         FallAsleep, Erase, Mark, Report
<1>3. \A c \in Client : op[c] \in {"size", "grow"} => op'[c] = op[c]
  BY <1>2 DEF Notified
<1>4. QED
  BY <1>1, <1>3, PoolKept

LEMMA PoolClient ==
  ASSUME TypeInv, PoolInv, NEW c \in Client, ClientStep(c)
  PROVE  PoolInv'
<1>t. op \in [Client -> ClientPc] /\ size \in [Client -> 0..Cardinality(Task)]
  BY DEF TypeInv, TypeOK
<1>n. threads \in Nat /\ \A d \in Client : size[d] \in Nat
  BY <1>t, ThreadBounds, Cardinalities DEF TypeInv, TypeOK
<1>1. CASE op' = [op EXCEPT ![c] = "size"]
  BY <1>1, <1>t DEF PoolInv
<1>2. CASE ReadSize(c)
  <2>1. /\ op' = [op EXCEPT ![c] = "grow"] /\ size' = [size EXCEPT ![c] = Cardinality(ps)]
        /\ ps' = ps
    BY <1>2 DEF ReadSize
  <2>2. op'[c] = "grow" /\ size'[c] = Cardinality(ps) /\ Cardinality(ps) \in Nat
    BY <1>t, <2>1, SmallerMap
  <2>3. QED
    BY <2>1, <2>2 DEF PoolInv
<1>3. CASE Grow(c)
  <2>1. /\ op[c] = "grow" /\ op' = [op EXCEPT ![c] = "idle"]
        /\ size' = [size EXCEPT ![c] = 0] /\ ps' = ps /\ threads' = Grown(size[c])
    BY <1>3 DEF Grow
  <2>2. threads' >= threads /\ threads' >= size[c] /\ threads' \in Nat
    BY <1>n, <2>1 DEF Grown
  <2>3. Cardinality(ps) \in Nat
    BY SmallerMap
  <2>4. CASE Cardinality(ps) <= threads \/ Cardinality(ps) <= size[c]
    BY <1>n, <2>1, <2>2, <2>3, <2>4 DEF PoolInv
  <2>5. ASSUME NEW d \in Client, d # c,
               op[d] = "size" \/ (op[d] = "grow" /\ Cardinality(ps) <= size[d])
        PROVE  PoolInv'
    BY <1>t, <2>1, <2>5 DEF PoolInv
  <2>6. QED
    BY <2>1, <2>4, <2>5 DEF PoolInv
<1>4. CASE Launch(c) \/ LaunchBorn(c) \/ LaunchReady(c) \/ RegContext(c)
  BY <1>1, <1>4 DEF Launch, LaunchBorn, LaunchReady, RegContext, Insert
<1>5. CASE UnregContext(c) \/ FindVictim(c) \/ Stop(c) \/ WaitTask(c) \/ FindDest(c)
           \/ Snapshot(c) \/ NotFound(c) \/ Block(c)
  <2>1. ps' \subseteq ps /\ threads' = threads /\ size' = size
    BY <1>5 DEF UnregContext, FindVictim, Find, Stop, WaitTask, FindDest, Snapshot,
                NotFound, Block
  <2>2. op' = op \/ op[c] \notin {"size", "grow"}
    BY <1>5 DEF UnregContext, FindVictim, Find, Stop, WaitTask, FindDest, Snapshot,
                NotFound, Block
  <2>5. \A d \in Client : d # c => op'[d] = op[d]
    BY <1>5, <1>t DEF UnregContext, FindVictim, Find, Stop, WaitTask, FindDest, Snapshot,
                NotFound, Block
  <2>3. \A d \in Client : op[d] \in {"size", "grow"} => op'[d] = op[d]
    BY <2>2, <2>5
  <2>4. QED
    BY <2>1, <2>3, PoolKept
<1>6. CASE Kill(c) \/ KillNext(c) \/ AnswerDead(c) \/ TimedOut(c) \/ AnswerAlive(c) \/ Push(c)
  <2>1. ps' \subseteq ps /\ threads' = threads /\ size' = size
    BY <1>6 DEF Kill, KillNext, AnswerDead, TimedOut, AnswerAlive, Push
  <2>2. op[c] \notin {"size", "grow"}
    BY <1>6 DEF Kill, KillNext, AnswerDead, TimedOut, AnswerAlive, Push
  <2>3. \A d \in Client : op[d] \in {"size", "grow"} => op'[d] = op[d]
    BY <1>6, <1>t, <2>2 DEF Kill, KillNext, AnswerDead, TimedOut, AnswerAlive, Push, Hangup, Notified
  <2>4. QED
    BY <2>1, <2>3, PoolKept
<1>7. QED
  BY <1>2, <1>3, <1>4, <1>5, <1>6 DEF ClientStep

\* The pool has a thread for every process on the map whenever nobody is inside
\* set_min_threads, however many callers launch at once.
THEOREM PoolIsLargeEnough == Spec => []EnoughThreads
<1>1. Init => PoolInv
  <2> SUFFICES ASSUME Init PROVE PoolInv
    OBVIOUS
  <2>1. Cardinality(ps) = 0
    BY FS_EmptySet DEF Init
  <2>2. QED
    BY <2>1, ThreadBounds DEF Init, PoolInv
<1>2. TypeInv /\ PoolInv /\ [Next]_vars => PoolInv'
  <2> SUFFICES ASSUME TypeInv, PoolInv, [Next]_vars PROVE PoolInv'
    OBVIOUS
  <2>1. ASSUME NEW t \in Task, TimePasses(t) PROVE PoolInv'
    BY <2>1, PoolKept DEF TimePasses
  <2>2. ASSUME UNCHANGED vars PROVE PoolInv'
    BY <2>2, PoolKept DEF vars
  <2>3. QED
    BY <2>1, <2>2, PoolWorker, PoolClient DEF Next
<1>3. PoolInv => EnoughThreads
  BY DEF PoolInv, EnoughThreads
<1>4. Inv => TypeInv
  BY DEF Inv
<1>5. QED
  BY <1>1, <1>2, <1>3, <1>4, Invariance, PTL DEF Spec

-----------------------------------------------------------------------------
(* What no step undoes.                                                    *)

Kept ==
  \A t \in Task :
     /\ mode[t] # "empty" /\ t \notin ps => t \notin ps'
     /\ mode[t] = "done" => mode'[t] = "done"
     /\ killreq[t] => killreq'[t]

LEMMA KeptByWorker ==
  ASSUME Inv, NEW w \in Worker, WorkerStep(w)
  PROVE  Kept
<1>t. mode \in [Task -> Mode]
  BY DEF Inv, TypeInv, TypeOK
<1>1. CASE Pick(w)
  BY <1>1, <1>t DEF Pick, Runnable, Kept
<1>2. CASE FallAsleep(w) \/ Mark(w)
  <2>1. mode[wps[w]] = "running"
    BY <1>2 DEF FallAsleep, Mark, Inv, Ownership, WorkerHasWhatItTook, OnMapPc
  <2>2. QED
    BY <1>2, <1>t, <2>1 DEF FallAsleep, PutToSleep, Mark, Kept
<1>3. CASE ~(Pick(w) \/ FallAsleep(w) \/ Mark(w))
  BY <1>3 DEF WorkerStep, Hunt, Skip, CheckKill, Enter, RecvBegin, RecvEnd, Return, Erase,
              Report, Kept
<1>4. QED
  BY <1>1, <1>2, <1>3

LEMMA KeptByClient ==
  ASSUME Inv, NEW c \in Client, ClientStep(c)
  PROVE  Kept
<1>t. mode \in [Task -> Mode] /\ ps \subseteq Task
  BY DEF Inv, TypeInv, TypeOK
<1>1. ASSUME NEW S \in SUBSET Task, NEW m, Insert(c, S, m) PROVE Kept
  BY <1>1, <1>t DEF Insert, Kept
<1>2. CASE Launch(c) \/ LaunchBorn(c) \/ RegContext(c)
  BY <1>1, <1>2 DEF Launch, LaunchBorn, RegContext
<1>3. CASE LaunchReady(c)
  BY <1>3, <1>t DEF LaunchReady, Kept
<1>4. CASE Kill(c) \/ KillNext(c)
  <2>1. PICK t : SetKill(t)
    BY <1>4 DEF Kill, KillNext
  <2>2. \A u \in Task : killreq[u] => killreq'[u]
    BY <2>1, KillKeepsKills DEF Inv
  <2>3. ps' = ps /\ mode' = mode
    BY <1>4 DEF Kill, KillNext
  <2>4. QED
    BY <2>2, <2>3 DEF Kept
<1>5. CASE UnregContext(c)
  BY <1>5 DEF UnregContext, Kept
<1>6. CASE UNCHANGED procVars
  BY <1>6 DEF Kept
<1>7. CASE Push(c)
  BY <1>7 DEF Push, Kept
<1>8. QED
  BY <1>2, <1>3, <1>4, <1>5, <1>6, <1>7
     DEF ClientStep, ReadSize, Grow, FindVictim, Find, Stop, Snapshot, NotFound, WaitTask,
         AnswerDead, Block, TimedOut, AnswerAlive, FindDest

\* No step brings a process back, revives a dead one or takes a kill back.
THEOREM NothingUndone == Spec => NothingIsUndone
<1>1. Inv /\ [Next]_vars => [Kept]_vars
  <2> SUFFICES ASSUME Inv, Next PROVE Kept
    OBVIOUS
  <2>1. ASSUME NEW t \in Task, TimePasses(t) PROVE Kept
    BY <2>1 DEF TimePasses, Kept
  <2>2. QED
    BY <2>1, KeptByWorker, KeptByClient DEF Next
<1>2. [Kept]_vars => [\A t \in Task :
                       /\ mode[t] # "empty" /\ t \notin ps => t \notin ps'
                       /\ mode[t] = "done" => mode'[t] = "done"
                       /\ killreq[t] => killreq'[t]]_vars
  BY DEF Kept
<1>3. QED
  BY <1>1, <1>2, Invariance, PTL DEF Spec, NothingIsUndone

-----------------------------------------------------------------------------
(***************************************************************************)
(* LocalAgent implements TaskLife, for any number of processes, clients    *)
(* and cpus: every step is a step of the promise or a stutter of it.       *)
(***************************************************************************)

PromiseStep == [Promise!Next]_(Promise!vars)

\* The places of a worker inside the run method of its task.
InRunPc == {"run", "recv"}

\* The lives are unchanged if the map is and no process comes into being.
LEMMA SameLife ==
  ASSUME ps' = ps, \A t \in Task : (mode'[t] = "empty") <=> (mode[t] = "empty")
  PROVE  Life' = Life
BY DEF Life

\* Who is in a run method depends on the workers in one.
LEMMA SameRun ==
  ASSUME \A v \in Worker, t \in Task :
            wps'[v] = t /\ wpc'[v] \in InRunPc <=> wps[v] = t /\ wpc[v] \in InRunPc
  PROVE  InRun' = InRun
BY DEF InRun, InRunPc, Has

LEMMA Stutter ==
  ASSUME Life' = Life, InRun' = InRun, told' = told
  PROVE  PromiseStep
BY DEF PromiseStep, Promise!vars

\* A process one worker has is in a run method exactly if that worker is.
LEMMA OnlyItsWorker ==
  ASSUME Inv, NEW w \in Worker, wps[w] \in Task
  PROVE  wps[w] \in InRun <=> wpc[w] \in InRunPc
<1>1. \A v \in Worker : wps[v] = wps[w] => v = w
  BY ZeroIsNoTask DEF Inv, Ownership, OneWorkerPerProcess
<1>2. QED
  BY <1>1 DEF InRun, InRunPc, Has

LEMMA HasTask ==
  ASSUME Inv, NEW w \in Worker, wpc[w] \in Owning
  PROVE  wps[w] \in Task
BY ZeroIsNoTask DEF Inv, Ownership, WorkerHasWhatItTook, TypeInv, TypeOK

LEMMA LiveOnMap ==
  ASSUME Inv, NEW t \in Task
  PROVE  /\ Life[t] = "live" <=> t \in ps
         /\ Life[t] = "dead" <=> t \notin ps /\ mode[t] # "empty"
         /\ Life[t] = "unborn" <=> mode[t] = "empty"
BY DEF Life, Inv, Ownership, OnMapIsAlive

LEMMA WorkerKeeps ==
  ASSUME Inv, NEW w \in Worker, WorkerStep(w)
  PROVE  PromiseStep
<1> USE DEF InRunPc
<1>t. /\ wpc \in [Worker -> WorkerPc] /\ wps \in [Worker -> Task \cup {NoTask}]
      /\ mode \in [Task -> Mode] /\ ps \subseteq Task
  BY DEF Inv, TypeInv, TypeOK
<1>1. CASE Hunt(w) \/ Skip(w) \/ CheckKill(w)
  <2>1. Life' = Life /\ told' = told
    BY <1>1, SameLife DEF Hunt, Skip, CheckKill
  <2>2. InRun' = InRun
    BY <1>1, <1>t, SameRun DEF Hunt, Skip, CheckKill
  <2>3. QED
    BY <2>1, <2>2, Stutter
<1>2. CASE Pick(w)
  <2>1. Runnable(curii) /\ mode' = [mode EXCEPT ![curii] = "running"] /\ ps' = ps
    BY <1>2 DEF Pick
  <2>2. mode[curii] # "empty"
    BY <2>1 DEF Runnable
  <2>3. \A t \in Task : (mode'[t] = "empty") <=> (mode[t] = "empty")
    BY <2>1, <2>2, <1>t
  <2>4. InRun' = InRun
    BY <1>2, <1>t, SameRun DEF Pick
  <2>5. QED
    BY <1>2, <2>1, <2>3, <2>4, SameLife, Stutter DEF Pick
<1>3. CASE Enter(w)
  <2>1. wps[w] \in Task /\ wps[w] \in ps
    BY <1>3, HasTask DEF Enter, Owning, OnMapPc, Inv, Ownership, RunningIsOnMap
  <2>2. wps[w] \notin InRun
    BY <1>3, <2>1, OnlyItsWorker DEF Enter
  <2>3. InRun' = InRun \cup {wps[w]}
    BY <1>3, <1>t, <2>1 DEF Enter, InRun, Has
  <2>4. Life' = Life /\ told' = told
    BY <1>3, SameLife DEF Enter
  <2>5. Promise!Begin(wps[w])
    BY <2>1, <2>2, <2>3, <2>4, LiveOnMap DEF Promise!Begin
  <2>6. QED
    BY <2>1, <2>5 DEF PromiseStep, Promise!Next
<1>4. CASE RecvBegin(w) \/ RecvEnd(w)
  <2>1. Life' = Life /\ told' = told
    BY <1>4, SameLife DEF RecvBegin, RecvEnd
  <2>2. InRun' = InRun
    BY <1>4, <1>t, SameRun DEF RecvBegin, RecvEnd
  <2>3. QED
    BY <2>1, <2>2, Stutter
<1>5. CASE Return(w)
  <2>1. wps[w] \in Task
    BY <1>5, HasTask DEF Return, Owning, OnMapPc
  <2>2. wps[w] \in InRun
    BY <1>5, <2>1, OnlyItsWorker DEF Return
  <2>3. PICK r \in RetCodes : wpc' = [wpc EXCEPT ![w] = AfterRun(wps[w], r)]
    BY <1>5 DEF Return
  <2>4. wpc'[w] \notin InRunPc
    BY <2>3, <1>t DEF AfterRun
  <2>5. \A v \in Worker : wps[v] = wps[w] => v = w
    BY <2>1, ZeroIsNoTask DEF Inv, Ownership, OneWorkerPerProcess
  <2>6. wps' = wps
    BY <1>5 DEF Return
  <2>7. InRun' = InRun \ {wps[w]}
    BY <1>t, <2>3, <2>4, <2>5, <2>6 DEF InRun, Has
  <2>8. Life' = Life /\ told' = told
    BY <1>5, SameLife DEF Return
  <2>9. Promise!End(wps[w])
    BY <2>2, <2>7, <2>8 DEF Promise!End
  <2>10. QED
    BY <2>1, <2>9 DEF PromiseStep, Promise!Next
<1>6. CASE FallAsleep(w) \/ Mark(w)
  <2>1. wps[w] \in Task /\ mode[wps[w]] = "running" /\ ps' = ps /\ told' = told
    BY <1>6, HasTask DEF FallAsleep, Mark, Owning, OnMapPc, Inv, Ownership, WorkerHasWhatItTook
  <2>2. \A t \in Task : (mode'[t] = "empty") <=> (mode[t] = "empty")
    BY <1>6, <1>t, <2>1 DEF FallAsleep, PutToSleep, Mark
  <2>3. InRun' = InRun
    BY <1>6, <1>t, SameRun DEF FallAsleep, Mark
  <2>4. QED
    BY <2>1, <2>2, <2>3, SameLife, Stutter
<1>7. CASE Erase(w)
  <2>1. wps[w] \in Task /\ wps[w] \in ps /\ mode[wps[w]] = "running"
    BY <1>7, HasTask DEF Erase, Owning, OnMapPc, Inv, Ownership, RunningIsOnMap, WorkerHasWhatItTook
  <2>2. wps[w] \notin InRun
    BY <1>7, <2>1, OnlyItsWorker DEF Erase
  <2>3. ps' = ps \ {wps[w]} /\ mode' = mode /\ told' = told
    BY <1>7 DEF Erase
  <2>4. Life' = [Life EXCEPT ![wps[w]] = "dead"]
    BY <2>1, <2>3 DEF Life
  <2>5. InRun' = InRun
    BY <1>7, <1>t, SameRun DEF Erase, AfterErase
  <2>6. Promise!Die(wps[w])
    BY <2>1, <2>2, <2>3, <2>4, <2>5, LiveOnMap DEF Promise!Die
  <2>7. QED
    BY <2>1, <2>6 DEF PromiseStep, Promise!Next
<1>8. CASE Report(w)
  <2>1. Life' = Life /\ told' = told
    BY <1>8, SameLife DEF Report
  <2>2. InRun' = InRun
    BY <1>8, <1>t, SameRun DEF Report
  <2>3. QED
    BY <2>1, <2>2, Stutter
<1>9. QED
  BY <1>1, <1>2, <1>3, <1>4, <1>5, <1>6, <1>7, <1>8 DEF WorkerStep

\* A client tells somebody that a dead process is dead.
LEMMA TellKeeps ==
  ASSUME Inv, NEW t \in Task, t \notin ps, mode[t] # "empty",
         told' = told \cup {t}, UNCHANGED <<ps, mode, wpc, wps>>
  PROVE  PromiseStep
<1>1. Life' = Life
  BY SameLife
<1>2. InRun' = InRun
  BY SameRun
<1>3. Promise!Tell(t)
  BY <1>1, <1>2, LiveOnMap DEF Promise!Tell
<1>4. QED
  BY <1>3 DEF PromiseStep, Promise!Next

LEMMA InsertKeeps ==
  ASSUME Inv, NEW c \in Client, NEW S \in SUBSET Task,
         NEW m \in {"ready", "born", "context"}, Insert(c, S, m)
  PROVE  PromiseStep
<1>1. /\ mode' = [t \in Task |-> IF t \in S THEN m ELSE mode[t]]
      /\ ps' = ps \cup S /\ told' = told /\ wpc' = wpc /\ wps' = wps
      /\ S # {} /\ \A t \in S : mode[t] = "empty"
  BY DEF Insert
<1>2. Life' = [t \in Task |-> IF t \in S THEN "live" ELSE Life[t]]
  BY <1>1 DEF Life
<1>3. \A t \in S : Life[t] = "unborn"
  BY <1>1, LiveOnMap
<1>4. InRun' = InRun
  BY <1>1, SameRun
<1>5. Promise!Create(S)
  BY <1>1, <1>2, <1>3, <1>4 DEF Promise!Create
<1>6. QED
  BY <1>5 DEF PromiseStep, Promise!Next

\* The calls that only look, kill, send or grow the pool.
LEMMA QuietKeeps ==
  ASSUME UNCHANGED <<ps, mode, wpc, wps, told>>
  PROVE  PromiseStep
BY SameLife, SameRun, Stutter

LEMMA ClientKeeps ==
  ASSUME Inv, NEW c \in Client, ClientStep(c)
  PROVE  PromiseStep
<1>t. mode \in [Task -> Mode] /\ ps \subseteq Task
  BY DEF Inv, TypeInv, TypeOK
<1>1. CASE Launch(c)
  BY <1>1, InsertKeeps DEF Launch
<1>2. CASE LaunchBorn(c) \/ RegContext(c)
  <2>1. PICK t \in Task : Insert(c, {t}, "born") \/ Insert(c, {t}, "context")
    BY <1>2 DEF LaunchBorn, RegContext
  <2>2. QED
    BY <2>1, InsertKeeps
<1>3. CASE LaunchReady(c)
  <2>1. PICK t \in ps : mode[t] = "born" /\ mode' = [mode EXCEPT ![t] = "ready"]
    BY <1>3 DEF LaunchReady
  <2>2. \A u \in Task : (mode'[u] = "empty") <=> (mode[u] = "empty")
    BY <1>t, <2>1
  <2>3. UNCHANGED <<ps, wpc, wps, told>>
    BY <1>3 DEF LaunchReady
  <2>4. QED
    BY <2>2, <2>3, SameLife, SameRun, Stutter
<1>4. CASE UnregContext(c)
  <2>1. PICK t \in ps : mode[t] = "context" /\ ps' = ps \ {t}
    BY <1>4 DEF UnregContext
  <2>2. UNCHANGED <<mode, wpc, wps, told>>
    BY <1>4 DEF UnregContext
  <2>3. t \in Task /\ t \notin InRun
    BY <1>t, <2>1 DEF InRun, Has, Inv, Ownership, WorkerHasWhatItTook, OnMapPc
  <2>4. Life' = [Life EXCEPT ![t] = "dead"]
    BY <1>t, <2>1, <2>2 DEF Life
  <2>5. InRun' = InRun
    BY <2>2, SameRun
  <2>6. Promise!Die(t)
    BY <2>1, <2>2, <2>3, <2>4, <2>5, LiveOnMap DEF Promise!Die
  <2>7. QED
    BY <2>3, <2>6 DEF PromiseStep, Promise!Next
<1>5. CASE \/ ReadSize(c) \/ Grow(c) \/ FindVictim(c) \/ Kill(c) \/ Stop(c)
           \/ Snapshot(c) \/ KillNext(c)
  BY <1>5, QuietKeeps DEF ReadSize, Grow, FindVictim, Find, Kill, Stop, Snapshot, KillNext
<1>6. CASE \/ WaitTask(c) \/ Block(c) \/ AnswerAlive(c) \/ FindDest(c) \/ Push(c)
  BY <1>6, QuietKeeps DEF WaitTask, Find, Block, AnswerAlive, FindDest, Push
<1>7. CASE NotFound(c)
  BY <1>7, TellKeeps DEF NotFound
<1>8. CASE AnswerDead(c)
  <2>1. arg[c] \in Task
    BY <1>8 DEF AnswerDead, Inv, TypeInv, HoldingTask, Holding
  <2>2. QED
    BY <1>8, <2>1, DoneIsOffMap, TellKeeps DEF AnswerDead
<1>9. CASE TimedOut(c)
  <2>1. arg[c] \in Task
    BY <1>9 DEF TimedOut, Inv, TypeInv, HoldingTask, Holding
  <2>2. CASE mode[arg[c]] = "done"
    BY <1>9, <2>1, <2>2, DoneIsOffMap, TellKeeps DEF TimedOut
  <2>3. CASE mode[arg[c]] # "done"
    BY <1>9, <2>3, QuietKeeps DEF TimedOut
  <2>4. QED
    BY <2>2, <2>3
<1>10. QED
  BY <1>1, <1>2, <1>3, <1>4, <1>5, <1>6, <1>7, <1>8, <1>9 DEF ClientStep

\* Whatever the threads of the agent and its callers do, they do what TaskLife
\* promises: a task is created once, run by one thread at a time while it lives, dies
\* for good, and only of dead tasks anybody is told that they are dead.
THEOREM Refinement == Spec => KeepsPromise
<1>1. Init => Promise!Init
  BY DEF Init, Promise!Init, Life, InRun, Has
<1>2. Inv /\ [Next]_vars => [Promise!Next]_(Promise!vars)
  <2> SUFFICES ASSUME Inv, [Next]_vars PROVE PromiseStep
    BY DEF PromiseStep
  <2>1. ASSUME NEW t \in Task, TimePasses(t) PROVE PromiseStep
    BY <2>1, QuietKeeps DEF TimePasses
  <2>2. ASSUME UNCHANGED vars PROVE PromiseStep
    BY <2>2, QuietKeeps DEF vars
  <2>3. QED
    BY <2>1, <2>2, WorkerKeeps, ClientKeeps DEF Next
<1>3. QED
  BY <1>1, <1>2, Invariance, PTL DEF Spec, KeepsPromise, Promise!Spec

=============================================================================
