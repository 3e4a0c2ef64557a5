----------------------------- MODULE LocalAgent -----------------------------
(***************************************************************************)
(* The local agent of scopira (agent/localagent.cpp): a map of processes,  *)
(* a pool of worker threads that hunt the map for a runnable process, run  *)
(* it and put it to sleep or bury it, and the calls other threads make at  *)
(* the same time: launch, kill, wait, ask, send and stop.                  *)
(*                                                                         *)
(* One action is one critical section of the code (or one call of a task's *)
(* run method): the kernel lock and the read lock a worker holds for the   *)
(* whole hunt are the fact that it is "hunting", every other section takes *)
(* its locks and lets them go within the action.                           *)
(***************************************************************************)
EXTENDS Integers, FiniteSets

CONSTANTS
  Task,       \* the ids processes get, in the order of the std::map; 0 is the zero uuid
  Client,     \* the threads that call the agent
  NumCpu,     \* dm_spec.pm_numcpu, the threads started by the constructor
  RetCodes,   \* the codes the run methods under study return
  Calls,      \* the calls the clients under study make
  MaxInbox    \* bound: messages kept in one process's queue

RunFlags == {"again0", "timed", "onmsg", "canmove"}

\* A return code of agent_task_i::run as its set of flags: {} is run_done_c, and
\* the low eight bits hold at most one of run_again_0_c and run_again_{1,10,100}_c.
RetCode == {r \in SUBSET RunFlags : ~({"again0", "timed"} \subseteq r)}

ApiCalls == {"launch", "born", "context", "kill", "wait", "timedwait",
             "ask", "send", "stop"}

ASSUME ConstantsAssumption ==
  /\ Task \subseteq Nat \ {0}
  /\ IsFiniteSet(Task)
  /\ NumCpu \in Nat \ {0}
  /\ RetCodes \subseteq RetCode
  /\ Calls \subseteq ApiCalls
  /\ MaxInbox \in Nat

NoTask == 0

\* set_min_threads never makes more threads than there are processes.
MaxThread == IF Cardinality(Task) > NumCpu THEN Cardinality(Task) ELSE NumCpu
Worker == 1..MaxThread

VARIABLES
  ps,         \* the keys of dm_psarea.pm_ps
  mode,       \* pm_mode of each process
  killreq,    \* pm_killreq
  onmsg,      \* pm_onmsg
  ontime,     \* pm_ontime: "never" (0), "armed" (in the future) or "due" (passed)
  inbox,      \* the length of pm_msgqueue
  alive,      \* dm_kernel.pm_alive
  threads,    \* the length of dm_kernel.pm_threads: workers 1..threads exist
  nextps,     \* dm_kernel.pm_nextps
  curii,      \* the iterators of the hunt that holds the kernel lock
  nextii,
  wpc,        \* where each worker thread is
  wps,        \* its "ps": the process it took
  op,         \* where each client is in its call
  arg,        \* the process object that call found, or the id it asks for
  size,       \* the size set_min_threads read
  doomed,     \* the list kill_all_local_tasks made
  \* history: what the callers were told, and what happened too late
  told,       \* ids a caller was told are dead (or never were)
  late,       \* runs of a process that began after its kill (counted to 2)
  reported    \* la_dead_task calls (counted to 2)

procVars   == <<ps, mode, killreq, onmsg, ontime, inbox>>
kernelVars == <<alive, threads, nextps, curii, nextii>>
workerVars == <<wpc, wps>>
clientVars == <<op, arg, size, doomed>>
histVars   == <<told, late, reported>>
vars == <<procVars, kernelVars, workerVars, clientVars, histVars>>

Mode == {"empty", "born", "ready", "running", "sleep", "done", "context"}
WorkerPc == {"idle", "hunt", "picked", "enter", "run", "recv", "tosleep",
             "erase", "mark", "dead", "exit"}
ClientPc == {"idle", "size", "grow", "kill", "check", "blocked", "checkT",
             "blockedT", "notifiedT", "ask", "push", "snapshot", "killall"}

Init ==
  /\ ps = {}
  /\ mode = [t \in Task |-> "empty"]
  /\ killreq = [t \in Task |-> FALSE]
  /\ onmsg = [t \in Task |-> FALSE]
  /\ ontime = [t \in Task |-> "never"]
  /\ inbox = [t \in Task |-> 0]
  /\ alive = TRUE
  /\ threads = NumCpu
  /\ nextps = NoTask /\ curii = NoTask /\ nextii = NoTask
  /\ wpc = [w \in Worker |-> "idle"]
  /\ wps = [w \in Worker |-> NoTask]
  /\ op = [c \in Client |-> "idle"]
  /\ arg = [c \in Client |-> NoTask]
  /\ size = [c \in Client |-> 0]
  /\ doomed = [c \in Client |-> {}]
  /\ told = {}
  /\ late = [t \in Task |-> 0]
  /\ reported = [t \in Task |-> 0]

-----------------------------------------------------------------------------
(* The map in the order of its keys, and the locks.                        *)

IsFirst(t) == t \in ps /\ \A u \in ps : t <= u
IsLast(t) == \A u \in ps : u <= t
IsNext(t, u) == u \in ps /\ t < u /\ \A v \in ps : t < v => u <= v

\* Nobody holds the kernel lock for a hunt; hence nobody holds the read lock of
\* the map either, and a writer may take its write lock.
KernelFree == \A w \in Worker : wpc[w] # "hunt"
Unlocked == TRUE                              \* mutant: an unlocked erase
MapWritable == KernelFree

\* notify_all on the condition of process t (issued right after its lock is let
\* go): a client blocked in wait_task looks again, a timed one for the last time.
NotifiedNobody(t, pc) == pc                   \* mutant: the notify_all is missing
Notified(t, pc) ==
  [c \in Client |->
     CASE pc[c] = "blocked" /\ arg[c] = t -> "check"
       [] pc[c] = "blockedT" /\ arg[c] = t -> "notifiedT"
       [] OTHER -> pc[c]]

\* The call of client c ends, the clients being at pc otherwise, and lets go of
\* the process it found.
Hangup(c, pc) ==
  /\ op' = [pc EXCEPT ![c] = "idle"]
  /\ arg' = [arg EXCEPT ![c] = NoTask]

-----------------------------------------------------------------------------
(* Worker threads: worker_func                                             *)

\* Take the kernel lock; leave if the agent is dead; start the hunt at
\* pm_nextps, or at the begin of the map if that process is gone.
Hunt(w) ==
  /\ wpc[w] = "idle" /\ w <= threads
  /\ KernelFree
  /\ \/ /\ ~alive
        /\ wpc' = [wpc EXCEPT ![w] = "exit"]
        /\ UNCHANGED <<curii, nextii>>
     \/ /\ alive
        /\ nextii' \in ps
        /\ IF nextps \in ps THEN nextii' = nextps ELSE IsFirst(nextii')
        /\ curii' = nextii'
        /\ wpc' = [wpc EXCEPT ![w] = "hunt"]
  /\ UNCHANGED <<procVars, alive, threads, nextps, wps, clientVars, histVars>>

\* Mutants: the look at the mode is missing for a kill; the look at the kill flag, the
\* clock is missing.
RunnableIfKilled(t) == mode[t] = "ready" \/ killreq[t]
RunnableUnkilled(t) ==
  \/ mode[t] = "ready"
  \/ mode[t] = "sleep" /\ (ontime[t] = "due" \/ (onmsg[t] /\ inbox[t] > 0))
RunnableUntimed(t) ==
  \/ mode[t] = "ready"
  \/ mode[t] = "sleep" /\ (killreq[t] \/ (onmsg[t] /\ inbox[t] > 0))

Runnable(t) ==
  \/ mode[t] = "ready"
  \/ mode[t] = "sleep" /\ onmsg[t] /\ inbox[t] > 0
  \/ mode[t] = "sleep" /\ ontime[t] = "due"
  \/ mode[t] = "sleep" /\ killreq[t]

\* The process under the cursor can run: take it, remember its successor.
Pick(w) ==
  /\ wpc[w] = "hunt"
  /\ Runnable(curii)
  /\ mode' = [mode EXCEPT ![curii] = "running"]
  /\ wps' = [wps EXCEPT ![w] = curii]
  /\ \/ IsLast(curii) /\ nextps' = NoTask
     \/ nextps' \in ps /\ IsNext(curii, nextps')
  /\ wpc' = [wpc EXCEPT ![w] = "picked"]
  /\ curii' = NoTask /\ nextii' = NoTask
  /\ UNCHANGED <<ps, killreq, onmsg, ontime, inbox, alive, threads, clientVars,
                 histVars>>

\* It cannot: go to the next one, around the end of the map; back at the
\* start of the hunt the worker waits (a second, or less if it is notified).
Skip(w) ==
  /\ wpc[w] = "hunt"
  /\ ~Runnable(curii)
  /\ \E t \in ps :
       /\ IF IsLast(curii) THEN IsFirst(t) ELSE IsNext(curii, t)
       /\ IF t = nextii
          THEN /\ wpc' = [wpc EXCEPT ![w] = "idle"]
               /\ curii' = NoTask /\ nextii' = NoTask
          ELSE curii' = t /\ UNCHANGED <<wpc, nextii>>
  /\ UNCHANGED <<procVars, alive, threads, nextps, wps, clientVars, histVars>>

\* The look at pm_killreq before the first run; a killed process is not run.
CheckKill(w) ==
  /\ wpc[w] = "picked"
  /\ wpc' = [wpc EXCEPT ![w] = IF killreq[wps[w]] THEN "erase" ELSE "enter"]
  /\ UNCHANGED <<procVars, kernelVars, wps, clientVars, histVars>>

\* pm_task->run(ctx) begins; by now the process may have been killed.
Enter(w) ==
  /\ wpc[w] = "enter"
  /\ wpc' = [wpc EXCEPT ![w] = "run"]
  /\ late' = IF killreq[wps[w]] /\ late[wps[w]] < 2
             THEN [late EXCEPT ![wps[w]] = @ + 1] ELSE late
  /\ UNCHANGED <<procVars, kernelVars, wps, clientVars, told, reported>>

\* Inside run the task calls recv_msg, which waits for a message whatever else
\* happens to the process (a kill wakes it only to wait again), then erases the
\* message and wakes the process's condition.
RecvBegin(w) ==
  /\ wpc[w] = "run" /\ "send" \in Calls
  /\ wpc' = [wpc EXCEPT ![w] = "recv"]
  /\ UNCHANGED <<procVars, kernelVars, wps, clientVars, histVars>>

RecvEnd(w) ==
  /\ wpc[w] = "recv"
  /\ inbox[wps[w]] > 0
  /\ inbox' = [inbox EXCEPT ![wps[w]] = @ - 1]
  /\ wpc' = [wpc EXCEPT ![w] = "run"]
  /\ op' = Notified(wps[w], op)
  /\ UNCHANGED <<ps, mode, killreq, onmsg, ontime, kernelVars, wps, arg, size,
                 doomed, histVars>>

\* What the worker does after a run of process t returned r: the loop goes on only
\* for run_again_0_c without a kill, every code but 0 ends in a sleep.
AfterRunUnchecked(t, r) ==                    \* mutant: the loop ignores a kill
  CASE "again0" \in r -> "enter" [] r = {} -> "erase" [] OTHER -> "tosleep"

AfterRun(t, r) ==
  CASE "again0" \in r /\ ~killreq[t] -> "enter"
    [] r = {} -> "erase"
    [] OTHER -> "tosleep"

\* run returns: its code is decomposed into the process's flags.
Return(w) ==
  /\ wpc[w] = "run"
  /\ \E r \in RetCodes :
       /\ onmsg' = [onmsg EXCEPT ![wps[w]] = "onmsg" \in r]
       /\ ontime' = [ontime EXCEPT ![wps[w]] = IF "timed" \in r THEN "armed" ELSE "never"]
       /\ wpc' = [wpc EXCEPT ![w] = AfterRun(wps[w], r)]
  /\ UNCHANGED <<ps, mode, killreq, inbox, kernelVars, wps, clientVars, histVars>>

\* The process is made a sleeper in a critical section of its own: only now it can
\* be hunted again.
PutToSleep(t) == [mode EXCEPT ![t] = "sleep"]

FallAsleep(w) ==
  /\ wpc[w] = "tosleep"
  /\ mode' = PutToSleep(wps[w])
  /\ wpc' = [wpc EXCEPT ![w] = "idle"]
  /\ wps' = [wps EXCEPT ![w] = NoTask]
  /\ UNCHANGED <<ps, killreq, onmsg, ontime, inbox, kernelVars, clientVars, histVars>>

\* The end of a process in three sections: off the map, ...
AfterErase == "mark"

Erase(w) ==
  /\ wpc[w] = "erase"
  /\ MapWritable
  /\ ps' = ps \ {wps[w]}
  /\ wpc' = [wpc EXCEPT ![w] = AfterErase]
  /\ UNCHANGED <<mode, killreq, onmsg, ontime, inbox, kernelVars, wps,
                 clientVars, histVars>>

\* ... marked done, with its waiters notified, ...
Mark(w) ==
  /\ wpc[w] = "mark"
  /\ mode' = [mode EXCEPT ![wps[w]] = "done"]
  /\ wpc' = [wpc EXCEPT ![w] = "dead"]
  /\ op' = Notified(wps[w], op)
  /\ UNCHANGED <<ps, killreq, onmsg, ontime, inbox, kernelVars, wps, arg, size,
                 doomed, histVars>>

\* ... and reported to the descendant (la_dead_task).
Report(w) ==
  /\ wpc[w] = "dead"
  /\ reported' = IF reported[wps[w]] < 2 THEN [reported EXCEPT ![wps[w]] = @ + 1]
                                         ELSE reported
  /\ wpc' = [wpc EXCEPT ![w] = "idle"]
  /\ wps' = [wps EXCEPT ![w] = NoTask]
  /\ UNCHANGED <<procVars, kernelVars, clientVars, told, late>>

\* The agent's clock passes a sleeper's pm_ontime.
TimePasses(t) ==
  /\ ontime[t] = "armed"
  /\ ontime' = [ontime EXCEPT ![t] = "due"]
  /\ UNCHANGED <<ps, mode, killreq, onmsg, inbox, kernelVars, workerVars,
                 clientVars, histVars>>

-----------------------------------------------------------------------------
(* Calls that put processes on the map and take contexts off it            *)

\* Put the new ids S on the map in mode m; set_min_threads follows.
Insert(c, S, m) ==
  /\ op[c] = "idle"
  /\ MapWritable
  /\ S # {} /\ \A t \in S : mode[t] = "empty"
  /\ mode' = [t \in Task |-> IF t \in S THEN m ELSE mode[t]]
  /\ ps' = ps \cup S
  /\ op' = [op EXCEPT ![c] = "size"]
  /\ UNCHANGED <<killreq, onmsg, ontime, inbox, kernelVars, workerVars, arg,
                 size, doomed, histVars>>

\* launch_task, la_launch_proxy (one id), launch_group, launch_slaves (a group).
Launch(c) == "launch" \in Calls /\ \E S \in SUBSET Task : Insert(c, S, "ready")

\* la_launch_task, phase 1, of one id, and reg_context.
LaunchBorn(c) == "born" \in Calls /\ \E t \in Task : Insert(c, {t}, "born")
RegContext(c) == "context" \in Calls /\ \E t \in Task : Insert(c, {t}, "context")

\* la_launch_task, phase 2, which the cluster agent calls once per born task.
LaunchReady(c) ==
  /\ op[c] = "idle"
  /\ MapWritable
  /\ \E t \in ps : mode[t] = "born" /\ mode' = [mode EXCEPT ![t] = "ready"]
  /\ op' = [op EXCEPT ![c] = "size"]
  /\ UNCHANGED <<ps, killreq, onmsg, ontime, inbox, kernelVars, workerVars,
                 arg, size, doomed, histVars>>

UnregContext(c) ==
  /\ op[c] = "idle"
  /\ MapWritable
  /\ \E t \in ps : mode[t] = "context" /\ ps' = ps \ {t}
  /\ UNCHANGED <<mode, killreq, onmsg, ontime, inbox, kernelVars, workerVars,
                 clientVars, histVars>>

\* set_min_threads: read the size of the map under its own lock, ...
ReadSize(c) ==
  /\ op[c] = "size"
  /\ size' = [size EXCEPT ![c] = Cardinality(ps)]
  /\ op' = [op EXCEPT ![c] = "grow"]
  /\ UNCHANGED <<procVars, kernelVars, workerVars, arg, doomed, histVars>>

\* ... then grow the pool to it under the kernel's.
GrownShort(n) == IF threads + 1 < n THEN n - 1 ELSE threads   \* mutant: one too few
Grown(n) == IF threads < n THEN n ELSE threads

Grow(c) ==
  /\ op[c] = "grow"
  /\ KernelFree
  /\ threads' = Grown(size[c])
  /\ op' = [op EXCEPT ![c] = "idle"]
  /\ size' = [size EXCEPT ![c] = 0]
  /\ UNCHANGED <<procVars, alive, nextps, curii, nextii, workerVars, arg,
                 doomed, histVars>>

-----------------------------------------------------------------------------
(* kill_task, notify_stop and kill_all_local_tasks                         *)

\* A lookup in the map under its read lock, as every call below begins: the
\* call keeps a counted pointer to the process it found.
Find(c, call, t, pc) ==
  /\ op[c] = "idle" /\ call \in Calls
  /\ t \in ps
  /\ op' = [op EXCEPT ![c] = pc]
  /\ arg' = [arg EXCEPT ![c] = t]
  /\ UNCHANGED <<procVars, kernelVars, workerVars, size, doomed, histVars>>

FindVictim(c) == \E t \in Task : Find(c, "kill", t, "kill")

\* Set the kill flag of process t unless it is done.
SetKill(t) == killreq' = [killreq EXCEPT ![t] = @ \/ mode[t] # "done"]

Kill(c) ==
  /\ op[c] = "kill"
  /\ SetKill(arg[c])
  /\ Hangup(c, Notified(arg[c], op))
  /\ UNCHANGED <<ps, mode, onmsg, ontime, inbox, kernelVars, workerVars, size,
                 doomed, histVars>>

\* notify_stop: the workers see the dead agent first, then every task on the
\* map is killed, from a list made under the lock, in the order of the ids.
Stop(c) ==
  /\ op[c] = "idle" /\ "stop" \in Calls
  /\ KernelFree
  /\ alive' = FALSE
  /\ op' = [op EXCEPT ![c] = "snapshot"]
  /\ UNCHANGED <<procVars, threads, nextps, curii, nextii, workerVars, arg,
                 size, doomed, histVars>>

Snapshot(c) ==
  /\ op[c] = "snapshot"
  /\ doomed' = [doomed EXCEPT ![c] = ps]
  /\ op' = [op EXCEPT ![c] = IF ps = {} THEN "idle" ELSE "killall"]
  /\ UNCHANGED <<procVars, kernelVars, workerVars, arg, size, histVars>>

KillNext(c) ==
  /\ op[c] = "killall"
  /\ \E t \in doomed[c] :
       /\ \A u \in doomed[c] : t <= u
       /\ SetKill(t)
       /\ doomed' = [doomed EXCEPT ![c] = @ \ {t}]
       /\ op' = IF doomed[c] = {t} THEN [Notified(t, op) EXCEPT ![c] = "idle"]
                ELSE Notified(t, op)
  /\ UNCHANGED <<ps, mode, onmsg, ontime, inbox, kernelVars, workerVars, arg,
                 size, histVars>>

-----------------------------------------------------------------------------
(* wait_task and is_alive_task                                             *)

\* The process is not on the map: the caller is told that it is dead. (The id
\* is one a launch handed out.)
NotFound(c) ==
  /\ op[c] = "idle" /\ Calls \cap {"wait", "timedwait", "ask"} # {}
  /\ \E t \in Task \ ps : mode[t] # "empty" /\ told' = told \cup {t}
  /\ UNCHANGED <<procVars, kernelVars, workerVars, clientVars, late, reported>>

WaitTask(c) == \E t \in Task : \/ Find(c, "wait", t, "check")
                               \/ Find(c, "timedwait", t, "checkT")
                               \/ Find(c, "ask", t, "ask")

\* The caller is told that the process it found is dead.
AnswerDead(c) ==
  /\ op[c] \in {"check", "checkT", "notifiedT", "ask"}
  /\ mode[arg[c]] = "done"
  /\ told' = told \cup {arg[c]}
  /\ Hangup(c, op)
  /\ UNCHANGED <<procVars, kernelVars, workerVars, size, doomed, late, reported>>

\* It is not: wait on its condition, forever or for the given time.
Block(c) ==
  /\ op[c] \in {"check", "checkT"}
  /\ mode[arg[c]] # "done"
  /\ op' = [op EXCEPT ![c] = IF op[c] = "check" THEN "blocked" ELSE "blockedT"]
  /\ UNCHANGED <<procVars, kernelVars, workerVars, arg, size, doomed, histVars>>

\* The time of a timed wait is over: answer with what the mode says now.
TimedOut(c) ==
  /\ op[c] = "blockedT"
  /\ told' = IF mode[arg[c]] = "done" THEN told \cup {arg[c]} ELSE told
  /\ Hangup(c, op)
  /\ UNCHANGED <<procVars, kernelVars, workerVars, size, doomed, late, reported>>

\* is_alive_task answers "alive"; so does a timed wait that was merely notified.
AnswerAlive(c) ==
  /\ op[c] \in {"notifiedT", "ask"}
  /\ mode[arg[c]] # "done"
  /\ Hangup(c, op)
  /\ UNCHANGED <<procVars, kernelVars, workerVars, size, doomed, histVars>>

-----------------------------------------------------------------------------
(* send_msg to a local task                                                *)

FindDest(c) == \E t \in Task : Find(c, "send", t, "push")

Push(c) ==
  /\ op[c] = "push"
  /\ inbox[arg[c]] < MaxInbox
  /\ inbox' = [inbox EXCEPT ![arg[c]] = @ + 1]
  /\ Hangup(c, Notified(arg[c], op))
  /\ UNCHANGED <<ps, mode, killreq, onmsg, ontime, kernelVars, workerVars, size,
                 doomed, histVars>>

-----------------------------------------------------------------------------

WorkerStep(w) ==
  \/ Hunt(w) \/ Pick(w) \/ Skip(w) \/ CheckKill(w) \/ Enter(w)
  \/ RecvBegin(w) \/ RecvEnd(w) \/ Return(w)
  \/ FallAsleep(w) \/ Erase(w) \/ Mark(w) \/ Report(w)

ClientStep(c) ==
  \/ Launch(c) \/ LaunchBorn(c) \/ LaunchReady(c) \/ RegContext(c) \/ UnregContext(c)
  \/ ReadSize(c) \/ Grow(c)
  \/ FindVictim(c) \/ Kill(c) \/ Stop(c) \/ Snapshot(c) \/ KillNext(c)
  \/ NotFound(c) \/ WaitTask(c) \/ AnswerDead(c) \/ Block(c) \/ TimedOut(c) \/ AnswerAlive(c)
  \/ FindDest(c) \/ Push(c)

Next ==
  \/ \E w \in Worker : WorkerStep(w)
  \/ \E c \in Client : ClientStep(c)
  \/ \E t \in Task : TimePasses(t)

Spec == Init /\ [][Next]_vars

-----------------------------------------------------------------------------
(* Safety                                                                  *)

TypeOK ==
  /\ ps \subseteq Task
  /\ mode \in [Task -> Mode]
  /\ killreq \in [Task -> BOOLEAN]
  /\ onmsg \in [Task -> BOOLEAN]
  /\ ontime \in [Task -> {"never", "armed", "due"}]
  /\ inbox \in [Task -> 0..MaxInbox]
  /\ alive \in BOOLEAN
  /\ threads \in NumCpu..MaxThread
  /\ {nextps, curii, nextii} \subseteq Task \cup {NoTask}
  /\ wpc \in [Worker -> WorkerPc]
  /\ wps \in [Worker -> Task \cup {NoTask}]
  /\ op \in [Client -> ClientPc]
  /\ arg \in [Client -> Task \cup {NoTask}]
  /\ size \in [Client -> 0..Cardinality(Task)]
  /\ doomed \in [Client -> SUBSET Task]
  /\ told \subseteq Task
  /\ late \in [Task -> 0..2]
  /\ reported \in [Task -> 0..2]

\* Worker w has process t: it took it and did not put it back or bury it yet.
Has(w, t) == wps[w] = t

\* A process is run by at most one worker at a time: the hunt, the sleep and
\* the burial of worker_func never give it to two.
OneWorkerPerProcess ==
  \A v, w \in Worker : wps[v] # NoTask /\ wps[v] = wps[w] => v = w

\* Until its worker takes it off, a process that is run is on the map: the
\* assertions of worker_func and of is_killed_task ("this task should always
\* exist") hold whatever is launched, killed and stopped meanwhile.
RunningIsOnMap ==
  \A w \in Worker :
     wpc[w] \in {"picked", "enter", "run", "recv", "tosleep", "erase"} => wps[w] \in ps

\* No process is lost: one that is marked running on the map has a worker.
RunningHasWorker ==
  \A t \in ps : mode[t] = "running" => \E w \in Worker : Has(w, t)

\* The iterators of the hunt stay valid: nobody erases the process one of them
\* is at, though the hunt takes and leaves the lock of every process it passes.
IteratorsValid ==
  (\E w \in Worker : wpc[w] = "hunt") => {curii, nextii} \subseteq ps

\* A caller told that a process is dead (by wait_task or is_alive_task) can
\* rely on it: no run method of that process goes on or begins again.
DeadIsDead ==
  \A t \in told :
     /\ t \notin ps
     /\ \A w \in Worker : Has(w, t) => wpc[w] \in {"mark", "dead"}

\* "The process will then be terminated at its next checkpoint": after kill_task
\* set the flag at most one more run of the process begins, the one whose look at
\* the flag came just before.
KilledAtNextCheckpoint == \A t \in Task : late[t] <= 1

\* la_dead_task reports a process once, after it is off the map and marked.
ReportedOnce ==
  \A t \in Task : reported[t] > 0 => reported[t] = 1 /\ mode[t] = "done" /\ t \notin ps

\* set_min_threads keeps a thread for every process on the map, whichever way
\* the calls of several threads interleave between its two locks.
EnoughThreads ==
  (\A c \in Client : op[c] \notin {"size", "grow"}) => Cardinality(ps) <= threads

\* What a step may never do: bring a process back on the map, make a dead one
\* anything else, or take back a kill.
NothingIsUndone ==
  [][\A t \in Task :
       /\ mode[t] # "empty" /\ t \notin ps => t \notin ps'
       /\ mode[t] = "done" => mode'[t] = "done"
       /\ killreq[t] => killreq'[t]]_vars

-----------------------------------------------------------------------------
(* The inductive invariant behind the properties above.                    *)

\* Where a worker has a process, and where it has one that is on the map.
OnMapPc == {"picked", "enter", "run", "recv", "tosleep", "erase"}
Owning == OnMapPc \cup {"mark", "dead"}
\* Where a client has found a process.
Holding == {"kill", "check", "blocked", "checkT", "blockedT", "notifiedT", "ask", "push"}

HoldingTask == \A c \in Client : op[c] \in Holding => arg[c] \in Task

OneHunter == \A v, w \in Worker : wpc[v] = "hunt" /\ wpc[w] = "hunt" => v = w

\* What the place of a worker says of the process it has.
WorkerHasWhatItTook ==
  \A w \in Worker :
     /\ wps[w] # NoTask <=> wpc[w] \in Owning
     /\ wpc[w] \in OnMapPc \cup {"mark"} => mode[wps[w]] = "running"
     /\ wpc[w] = "dead" => mode[wps[w]] = "done"
     /\ wpc[w] \in {"mark", "dead"} => wps[w] \notin ps

OnMapIsAlive == \A t \in ps : mode[t] \notin {"empty", "done"}
ToldIsOffMap == \A t \in told : t \notin ps /\ mode[t] # "empty"

\* A worker about to enter run saw no kill before.
LateOnce ==
  /\ \A t \in Task : late[t] <= 1 /\ (late[t] > 0 => killreq[t])
  /\ \A w \in Worker : wpc[w] = "enter" => late[wps[w]] = 0

Reported ==
  \A t \in Task :
     \/ reported[t] = 0
     \/ /\ reported[t] = 1 /\ mode[t] = "done"
        /\ \A w \in Worker : ~Has(w, t)

Ownership ==
  /\ OneHunter /\ IteratorsValid
  /\ OneWorkerPerProcess /\ WorkerHasWhatItTook
  /\ RunningIsOnMap /\ RunningHasWorker
  /\ OnMapIsAlive /\ ToldIsOffMap
  /\ LateOnce /\ Reported

-----------------------------------------------------------------------------
(* The promise of TaskLife, kept: a process is alive while it is on the    *)
(* map, whatever its mode.                                                 *)

Life == [t \in Task |-> IF t \in ps THEN "live"
                        ELSE IF mode[t] = "empty" THEN "unborn" ELSE "dead"]
InRun == {t \in Task : \E w \in Worker : Has(w, t) /\ wpc[w] \in {"run", "recv"}}

Promise == INSTANCE TaskLife WITH life <- Life, running <- InRun, told <- told

\* Every step of the threads and callers is a step of the promise: one thread runs
\* a task at a time, none runs a dead one, nobody is told too early.
KeepsPromise == Promise!Spec

-----------------------------------------------------------------------------
(* Liveness. A worker goes on unless it is in a task's code; a client in a *)
(* call goes on unless it is blocked; the clock runs. The kernel lock and  *)
(* the map's write lock are asked for by threads that compete with         *)
(* hunters: each hunt is finite, and after a vain one the hunter sleeps on *)
(* the kernel's condition, so they are granted (strong fairness).          *)

WorkerProgress(w) ==
  Hunt(w) \/ Pick(w) \/ Skip(w) \/ CheckKill(w) \/ Enter(w) \/ FallAsleep(w)
  \/ Mark(w) \/ Report(w)
ClientProgress(c) ==
  \/ ReadSize(c) \/ Kill(c) \/ Snapshot(c) \/ KillNext(c)
  \/ AnswerDead(c) \/ Block(c) \/ TimedOut(c) \/ AnswerAlive(c) \/ Push(c)

Fairness ==
  /\ \A w \in Worker : WF_vars(WorkerProgress(w)) /\ SF_vars(Erase(w))
  /\ \A c \in Client : WF_vars(ClientProgress(c)) /\ SF_vars(Grow(c))
  /\ \A t \in Task : WF_vars(TimePasses(t))

\* What a program may add: run methods that return.
RunsReturn == \A w \in Worker : WF_vars(Return(w)) /\ WF_vars(RecvEnd(w))

FairSpec == Spec /\ Fairness

\* Round robin over enough threads: a ready process is run, even when every
\* other process stays in its run method forever, until the agent is stopped.
NoStarvation == \A t \in Task : mode[t] = "ready" ~> mode[t] # "ready" \/ ~alive

Called(t) ==
  mode[t] = "sleep" /\ (ontime[t] = "due" \/ (onmsg[t] /\ inbox[t] > 0))

\* A sleeper whose message or wake-up time came is run again: the flags are set
\* before the sleep, in another section, and a message wakes no worker, yet none
\* of the two is missed.
SleeperWakes ==
  \A t \in Task : Called(t) ~> mode[t] # "sleep" \/ ~alive

\* Where run methods return, a killed process dies, unless it waits in recv_msg for a message that never
\* comes, was only born, or the agent is stopped.
KillEndsProcess ==
  RunsReturn =>
    \A t \in Task :
       killreq[t] /\ mode[t] \in {"ready", "running", "sleep"} ~>
          \/ mode[t] = "done"
          \/ ~alive
          \/ \E w \in Worker : Has(w, t) /\ wpc[w] = "recv"

\* No wake-up is lost: a wait_task on a process that died returns.
WaiterReturns ==
  \A c \in Client :
     op[c] \in {"check", "blocked"} /\ mode[arg[c]] = "done" ~> op[c] = "idle"
=============================================================================
