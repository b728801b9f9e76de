--------------------------- MODULE WorkerCluster ---------------------------
(***************************************************************************)
(* The workers of the back end and the etcd directories they share with    *)
(* the front end: the task and killer directories with their watches       *)
(* (both taskManager.go), the event loop with its execution table          *)
(* (scheduler.go), the goroutine that runs one command (executor.go), the  *)
(* lock as TaskLock describes it, and the notifications (notifier.go).     *)
(* A task is its key type/user/name.  A worker runs at most one goroutine  *)
(* per task, so goroutines are indexed by worker and task; TableGuards     *)
(* says that this is so.                                                   *)
(***************************************************************************)
EXTENDS Integers, Sequences, FiniteSets

CONSTANTS
  Workers, Tasks, NoOwner,
  Timed,            \* tasks submitted with TaskTimeOut > 0
  Endless,          \* tasks whose command ends only when it is killed
  EventCap,         \* capacity of EventChan (512 in the code)
  MaxSaves, MaxRemoves, MaxKills,   \* bounds on what the front end submits
  Faults,           \* kinds of fault that may happen, at most MaxFaults in all:
  MaxFaults,        \*   "crash", "txn", "revoke", "notify", "lease"
  SlowRestart       \* TRUE: a worker is restarted after its leases timed out

FaultKinds == {"crash", "txn", "revoke", "notify", "lease"}

ASSUME NoOwnerAssumption == NoOwner \notin Workers
ASSUME NoTaskAssumption == NoOwner \notin Tasks
ASSUME TasksAssumption == Timed \subseteq Tasks /\ Endless \subseteq Tasks
ASSUME EventCapAssumption == EventCap \in Nat \ {0}
ASSUME FaultsAssumption == Faults \subseteq FaultKinds
ASSUME BoundAssumption == {MaxSaves, MaxRemoves, MaxKills, MaxFaults} \subseteq Nat
ASSUME SlowRestartAssumption == SlowRestart \in BOOLEAN

VARIABLES
  taskDir,    \* the tasks whose key is in TaskDir
  taskLog,    \* the history of TaskDir, as its watchers are sent it
  killLog,    \* the puts in KillerDir
  lock,       \* task -> the worker whose lease its lock key is attached to
  phase,      \* worker: "down", "sync" while WatchTasks pushes todo, "up"
  todo,       \* worker -> tasks of the initial Get not yet pushed
  taskPos,    \* worker -> how much of taskLog its watch has delivered
  killPos,    \* worker -> same for killLog, or NotWatching
  events,     \* EventChan
  results,    \* ExecResultChan
  table,      \* ExecStatus: the tasks with an entry
  ctx,        \* the CancelCtx of a worker's goroutine for a task
  pc, err,    \* where that goroutine is, its local variable err
  loop,       \* the result the scheduler loop is in the middle of, or Idle
  wins, logs, answers,  \* history: locks won, logs pushed, notifications put
  runs,       \* history: commands started
  pending,    \* the front end's request for the task is unanswered
  faults      \* faults so far

etcd == <<taskDir, taskLog, killLog>>
watch == <<phase, todo, taskPos, killPos>>
queues == <<events, results>>
exec == <<table, ctx, pc, err>>
history == <<wins, logs, answers, runs, pending>>
vars == <<etcd, lock, watch, queues, exec, loop, history, faults>>

NotWatching == -1
Idle == [task |-> NoOwner, err |-> "none"]
PCs == {"none", "lock", "start", "run", "revoke", "check"}
Errors == {"none", "ok", "error", "busy", "txn_error", "timeout"}
Outcomes == [task : Tasks, err : Errors]
Event == [kind : {"save", "delete", "kill"}, task : Tasks]

TypeOK ==
  /\ taskDir \subseteq Tasks /\ taskLog \in Seq(Event) /\ killLog \in Seq(Tasks)
  /\ lock \in [Tasks -> Workers \cup {NoOwner}]
  /\ phase \in [Workers -> {"down", "sync", "up"}]
  /\ todo \in [Workers -> SUBSET Tasks]
  /\ taskPos \in [Workers -> 0..Len(taskLog)]
  /\ killPos \in [Workers -> NotWatching..Len(killLog)]
  /\ events \in [Workers -> Seq(Event)]
  /\ \A w \in Workers : Len(events[w]) <= EventCap
  /\ results \in [Workers -> Seq(Outcomes)]
  /\ table \in [Workers -> SUBSET Tasks]
  /\ ctx \in [Workers -> [Tasks -> {"live", "canceled", "deadline"}]]
  /\ pc \in [Workers -> [Tasks -> PCs]]
  /\ err \in [Workers -> [Tasks -> Errors]]
  /\ loop \in [Workers -> Outcomes \cup {Idle}]
  /\ {wins, logs, answers, runs} \subseteq [Tasks -> Nat]
  /\ pending \subseteq Tasks /\ faults \in 0..MaxFaults

Init ==
  /\ taskDir = {} /\ taskLog = <<>> /\ killLog = <<>>
  /\ lock = [t \in Tasks |-> NoOwner]
  /\ phase = [w \in Workers |-> "down"]
  /\ todo = [w \in Workers |-> {}]
  /\ taskPos = [w \in Workers |-> 0]
  /\ killPos = [w \in Workers |-> NotWatching]
  /\ events = [w \in Workers |-> <<>>] /\ results = [w \in Workers |-> <<>>]
  /\ table = [w \in Workers |-> {}]
  /\ ctx = [w \in Workers |-> [t \in Tasks |-> "live"]]
  /\ pc = [w \in Workers |-> [t \in Tasks |-> "none"]]
  /\ err = [w \in Workers |-> [t \in Tasks |-> "none"]]
  /\ loop = [w \in Workers |-> Idle]
  /\ wins = [t \in Tasks |-> 0] /\ logs = wins /\ answers = wins /\ runs = wins
  /\ pending = {} /\ faults = 0

Fault(kind) == kind \in Faults /\ faults < MaxFaults /\ faults' = faults + 1
Count(counter, t) == [counter EXCEPT ![t] = @ + 1]

-----------------------------------------------------------------------------
(* The front end, as far as the workers see it. *)

Published(kind) ==
  Cardinality({i \in 1..Len(taskLog) : taskLog[i].kind = kind})

SaveTask(t) ==
  /\ Published("save") < MaxSaves
  /\ taskDir' = taskDir \cup {t}
  /\ taskLog' = Append(taskLog, [kind |-> "save", task |-> t])
  /\ pending' = pending \cup {t}
  /\ UNCHANGED <<killLog, lock, watch, queues, exec, loop, wins, logs, answers,
                 runs, faults>>

(* Deleting a key that exists; deleting another one leaves no trace. *)
RemoveTask(t) ==
  /\ t \in taskDir
  /\ Published("delete") < MaxRemoves
  /\ taskDir' = taskDir \ {t}
  /\ taskLog' = Append(taskLog, [kind |-> "delete", task |-> t])
  /\ pending' = pending \ {t}
  /\ UNCHANGED <<killLog, lock, watch, queues, exec, loop, wins, logs, answers,
                 runs, faults>>

(* The key in KillerDir disappears two seconds later, which no worker heeds. *)
KillTask(t) ==
  /\ Len(killLog) < MaxKills
  /\ killLog' = Append(killLog, t)
  /\ UNCHANGED <<taskDir, taskLog, lock, watch, queues, exec, loop, history,
                 faults>>

-----------------------------------------------------------------------------
(* The watchers of a worker. *)

(* mutant: off by one at the capacity of the channel *)
PushOneTooMany(w, kind, t) ==
  events' = [events EXCEPT
               ![w] = IF Len(@) <= EventCap
                      THEN Append(@, [kind |-> kind, task |-> t]) ELSE @]

(* PushTaskEvent never blocks: an event that finds EventChan full is dropped. *)
PushTaskEvent(w, kind, t) ==
  events' = [events EXCEPT
               ![w] = IF Len(@) < EventCap
                      THEN Append(@, [kind |-> kind, task |-> t]) ELSE @]

(* mutant: the tasks already in the directory are not pushed *)
StartWithoutSync(w) ==
  /\ phase[w] = "down"
  /\ SlowRestart => \A t \in Tasks : lock[t] # w
  /\ phase' = [phase EXCEPT ![w] = "sync"]
  /\ todo' = [todo EXCEPT ![w] = {}]
  /\ taskPos' = [taskPos EXCEPT ![w] = Len(taskLog)]
  /\ UNCHANGED <<etcd, lock, killPos, queues, exec, loop, history, faults>>

(* main starts the watchers; WatchTasks reads the directory and its revision. *)
StartWatchTasks(w) ==
  /\ phase[w] = "down"
  /\ SlowRestart => \A t \in Tasks : lock[t] # w
  /\ phase' = [phase EXCEPT ![w] = "sync"]
  /\ todo' = [todo EXCEPT ![w] = taskDir]
  /\ taskPos' = [taskPos EXCEPT ![w] = Len(taskLog)]
  /\ UNCHANGED <<etcd, lock, killPos, queues, exec, loop, history, faults>>

(* Every task found in the directory is pushed as if just saved; then the
   watch begins after the revision of the Get. *)
FullSync(w) ==
  /\ phase[w] = "sync"
  /\ \/ \E t \in todo[w] :
          /\ PushTaskEvent(w, "save", t)
          /\ todo' = [todo EXCEPT ![w] = @ \ {t}]
          /\ UNCHANGED phase
     \/ /\ todo[w] = {}
        /\ phase' = [phase EXCEPT ![w] = "up"]
        /\ UNCHANGED <<todo, events>>
  /\ UNCHANGED <<etcd, lock, taskPos, killPos, results, exec, loop, history, faults>>

WatchTasks(w) ==
  /\ phase[w] = "up" /\ taskPos[w] < Len(taskLog)
  /\ LET e == taskLog[taskPos[w] + 1] IN PushTaskEvent(w, e.kind, e.task)
  /\ taskPos' = [taskPos EXCEPT ![w] = @ + 1]
  /\ UNCHANGED <<etcd, lock, phase, todo, killPos, results, exec, loop, history,
                 faults>>

(* The killer watch starts in a goroutine of its own, from now on. *)
StartWatchKiller(w) ==
  /\ phase[w] # "down" /\ killPos[w] = NotWatching
  /\ killPos' = [killPos EXCEPT ![w] = Len(killLog)]
  /\ UNCHANGED <<etcd, lock, phase, todo, taskPos, queues, exec, loop, history,
                 faults>>

WatchKiller(w) ==
  /\ killPos[w] # NotWatching /\ killPos[w] < Len(killLog)
  /\ PushTaskEvent(w, "kill", killLog[killPos[w] + 1])
  /\ killPos' = [killPos EXCEPT ![w] = @ + 1]
  /\ UNCHANGED <<etcd, lock, phase, todo, taskPos, results, exec, loop, history,
                 faults>>

-----------------------------------------------------------------------------
(* The scheduler loop takes an event when it is not busy with a result. *)

TakeEvent(w, kind) ==
  /\ loop[w] = Idle
  /\ events[w] # <<>> /\ Head(events[w]).kind = kind
  /\ events' = [events EXCEPT ![w] = Tail(@)]

(* ExecTask: a task that is already executing here is dropped, otherwise it
   gets an entry with a fresh context and a goroutine. *)
SolveSave(w) ==
  /\ TakeEvent(w, "save")
  /\ LET t == Head(events[w]).task IN
       IF t \in table[w] THEN UNCHANGED exec
       ELSE /\ table' = [table EXCEPT ![w] = @ \cup {t}]
            /\ ctx' = [ctx EXCEPT ![w][t] = "live"]
            /\ pc' = [pc EXCEPT ![w][t] = "lock"]
            /\ err' = [err EXCEPT ![w][t] = "none"]
  /\ UNCHANGED <<etcd, lock, watch, results, loop, history, faults>>

SolveDelete(w) ==
  /\ TakeEvent(w, "delete")
  /\ UNCHANGED <<etcd, lock, watch, results, exec, loop, history, faults>>

(* mutant: the kill also deletes the entry of the execution table *)
SolveKillAndDelete(w) ==
  /\ TakeEvent(w, "kill")
  /\ LET t == Head(events[w]).task IN
       /\ ctx' = IF t \in table[w] THEN [ctx EXCEPT ![w][t] = "canceled"] ELSE ctx
       /\ table' = [table EXCEPT ![w] = @ \ {t}]
  /\ UNCHANGED <<etcd, lock, watch, results, pc, err, loop, history, faults>>

(* mutant: the kill looks the task up under a key that is never in the table *)
SolveKillMisses(w) ==
  /\ TakeEvent(w, "kill")
  /\ UNCHANGED <<etcd, lock, watch, results, exec, loop, history, faults>>

(* Cancelling a context that already ended changes nothing. *)
SolveKill(w) ==
  /\ TakeEvent(w, "kill")
  /\ LET t == Head(events[w]).task IN
       ctx' = IF t \in table[w] /\ ctx[w][t] = "live"
              THEN [ctx EXCEPT ![w][t] = "canceled"] ELSE ctx
  /\ UNCHANGED <<etcd, lock, watch, results, table, pc, err, loop, history, faults>>

-----------------------------------------------------------------------------
(* The executor's goroutine for task t on worker w. *)

Goto(w, t, from, to) == pc[w][t] = from /\ pc' = [pc EXCEPT ![w][t] = to]
SetErr(w, t, e) == err' = [err EXCEPT ![w][t] = e]

(* mutant: the lock is taken without looking whether it is free *)
TryLockWinAlways(w, t) ==
  /\ Goto(w, t, "lock", "start")
  /\ lock' = [lock EXCEPT ![t] = w]
  /\ wins' = Count(wins, t)
  /\ UNCHANGED <<etcd, watch, queues, table, ctx, err, loop, logs, answers, runs,
                 pending, faults>>

TryLockWin(w, t) ==
  /\ Goto(w, t, "lock", "start")
  /\ lock[t] = NoOwner
  /\ lock' = [lock EXCEPT ![t] = w]
  /\ wins' = Count(wins, t)
  /\ UNCHANGED <<etcd, watch, queues, table, ctx, err, loop, logs, answers, runs,
                 pending, faults>>

TryLockBusy(w, t) ==
  /\ Goto(w, t, "lock", "check")
  /\ lock[t] # NoOwner
  /\ SetErr(w, t, "busy")
  /\ UNCHANGED <<etcd, lock, watch, queues, table, ctx, loop, history, faults>>

(* An etcd call of TryLock fails; the lock may have been put all the same, and
   TryLock then revokes the lease it is attached to. *)
TryLockError(w, t) ==
  /\ Fault("txn")
  /\ SetErr(w, t, "txn_error")
  /\ \/ Goto(w, t, "lock", "check") /\ UNCHANGED lock
     \/ /\ Goto(w, t, "lock", "revoke")
        /\ lock[t] = NoOwner
        /\ lock' = [lock EXCEPT ![t] = w]
  /\ UNCHANGED <<etcd, watch, queues, table, ctx, loop, history>>

(* CommandContext starts nothing under a context that has ended. *)
StartCommand(w, t) ==
  /\ \/ /\ ctx[w][t] = "live"
        /\ Goto(w, t, "start", "run")
        /\ runs' = Count(runs, t)
        /\ UNCHANGED err
     \/ /\ ctx[w][t] # "live"
        /\ Goto(w, t, "start", "revoke")
        /\ SetErr(w, t, "error")
        /\ UNCHANGED runs
  /\ UNCHANGED <<etcd, lock, watch, queues, table, ctx, loop, wins, logs, answers,
                 pending, faults>>

(* The command ends, well or badly, by itself or killed by its context. *)
FinishCommand(w, t) ==
  /\ Goto(w, t, "run", "revoke")
  /\ \/ t \notin Endless /\ SetErr(w, t, "ok")
     \/ (t \in Endless => ctx[w][t] # "live") /\ SetErr(w, t, "error")
  /\ UNCHANGED <<etcd, lock, watch, queues, table, ctx, loop, history, faults>>

(* mutant: UnLock deletes the key, whoever owns it *)
RevokeByName(w, t) ==
  /\ Goto(w, t, "revoke", "check")
  /\ lock' = [lock EXCEPT ![t] = NoOwner]
  /\ UNCHANGED <<etcd, watch, queues, table, ctx, err, loop, history, faults>>

(* UnLock, or the tail of a failed TryLock.  The lock that is freed is this
   worker's: another one could only take it after this lease had ended. *)
Revoke(w, t) ==
  /\ Goto(w, t, "revoke", "check")
  /\ \/ /\ lock' = IF lock[t] = w THEN [lock EXCEPT ![t] = NoOwner] ELSE lock
        /\ UNCHANGED faults
     \/ Fault("revoke") /\ UNCHANGED lock
  /\ UNCHANGED <<etcd, watch, queues, table, ctx, err, loop, history>>

(* Whatever happened before, an expired context makes it a timeout; the result
   goes to the scheduler. *)
PushResult(w, t) ==
  /\ Goto(w, t, "check", "none")
  /\ LET e == IF ctx[w][t] = "deadline" THEN "timeout" ELSE err[w][t] IN
       results' = [results EXCEPT ![w] = Append(@, [task |-> t, err |-> e])]
  /\ SetErr(w, t, "none")
  /\ UNCHANGED <<etcd, lock, watch, events, table, ctx, loop, history, faults>>

(* The deadline counts from the moment the scheduler took the task. *)
Deadline(w, t) ==
  /\ t \in Timed /\ pc[w][t] # "none" /\ ctx[w][t] = "live"
  /\ ctx' = [ctx EXCEPT ![w][t] = "deadline"]
  /\ UNCHANGED <<etcd, lock, watch, queues, table, pc, err, loop, history, faults>>

(* mutant: results of attempts that lost the lock are reported as well *)
SolveLosersToo(w) ==
  /\ loop[w] = Idle /\ results[w] # <<>>
  /\ results' = [results EXCEPT ![w] = Tail(@)]
  /\ LET r == Head(results[w]) IN
       /\ table' = [table EXCEPT ![w] = @ \ {r.task}]
       /\ loop' = [loop EXCEPT ![w] = r]
       /\ logs' = Count(logs, r.task)
  /\ UNCHANGED <<etcd, lock, watch, events, ctx, pc, err, wins, answers, runs,
                 pending, faults>>

-----------------------------------------------------------------------------
(* The scheduler loop handles a result: entry and log first, ... *)
SolveTaskExecResult(w) ==
  /\ loop[w] = Idle /\ results[w] # <<>>
  /\ results' = [results EXCEPT ![w] = Tail(@)]
  /\ LET r == Head(results[w]) IN
       IF r.task \notin table[w] THEN UNCHANGED <<table, loop, logs>>
       ELSE /\ table' = [table EXCEPT ![w] = @ \ {r.task}]
            /\ IF r.err = "busy" THEN UNCHANGED <<loop, logs>>
               ELSE /\ loop' = [loop EXCEPT ![w] = r]
                    /\ logs' = Count(logs, r.task)
  /\ UNCHANGED <<etcd, lock, watch, events, ctx, pc, err, wins, answers, runs,
                 pending, faults>>

(* ... then the put in FinishDir or FailDir, whose error is only logged. *)
NotifyTask(w) ==
  /\ loop[w] # Idle
  /\ LET t == loop[w].task IN
       \/ /\ answers' = Count(answers, t)
          /\ pending' = pending \ {t}
          /\ UNCHANGED faults
       \/ Fault("notify") /\ UNCHANGED <<answers, pending>>
  /\ loop' = [loop EXCEPT ![w] = Idle]
  /\ UNCHANGED <<etcd, lock, watch, queues, exec, wins, logs, runs>>

-----------------------------------------------------------------------------
(* Leases and crashes.  A lock is renewed while its worker is in the command. *)

Using(w, t) == pc[w][t] \in {"start", "run"}

LeaseExpires(t) ==
  /\ lock[t] # NoOwner /\ ~Using(lock[t], t)
  /\ lock' = [lock EXCEPT ![t] = NoOwner]
  /\ UNCHANGED <<etcd, watch, queues, exec, loop, history, faults>>

(* The worker runs the command, but its renewals do not reach etcd. *)
LeaseLost(t) ==
  /\ Fault("lease")
  /\ lock[t] # NoOwner /\ Using(lock[t], t)
  /\ lock' = [lock EXCEPT ![t] = NoOwner]
  /\ UNCHANGED <<etcd, watch, queues, exec, loop, history>>

Crash(w) ==
  /\ phase[w] # "down" /\ Fault("crash")
  /\ phase' = [phase EXCEPT ![w] = "down"]
  /\ todo' = [todo EXCEPT ![w] = {}]
  /\ taskPos' = [taskPos EXCEPT ![w] = 0]
  /\ killPos' = [killPos EXCEPT ![w] = NotWatching]
  /\ events' = [events EXCEPT ![w] = <<>>]
  /\ results' = [results EXCEPT ![w] = <<>>]
  /\ table' = [table EXCEPT ![w] = {}]
  /\ ctx' = [ctx EXCEPT ![w] = [t \in Tasks |-> "live"]]
  /\ pc' = [pc EXCEPT ![w] = [t \in Tasks |-> "none"]]
  /\ err' = [err EXCEPT ![w] = [t \in Tasks |-> "none"]]
  /\ loop' = [loop EXCEPT ![w] = Idle]
  /\ UNCHANGED <<etcd, lock, history>>

FrontEnd == \E t \in Tasks : SaveTask(t) \/ RemoveTask(t) \/ KillTask(t)
Watchers(w) == \/ StartWatchTasks(w) \/ FullSync(w) \/ WatchTasks(w)
               \/ StartWatchKiller(w) \/ WatchKiller(w)
Loop(w) == \/ SolveSave(w) \/ SolveDelete(w) \/ SolveKill(w)
           \/ SolveTaskExecResult(w) \/ NotifyTask(w)
TryLock(w, t) == TryLockWin(w, t) \/ TryLockBusy(w, t) \/ TryLockError(w, t)
Executor(w, t) == \/ TryLock(w, t) \/ StartCommand(w, t) \/ FinishCommand(w, t)
                  \/ Revoke(w, t) \/ PushResult(w, t)

Next ==
  \/ FrontEnd
  \/ \E w \in Workers : Watchers(w) \/ Loop(w) \/ Crash(w)
  \/ \E w \in Workers, t \in Tasks : Executor(w, t) \/ Deadline(w, t)
  \/ \E t \in Tasks : LeaseExpires(t) \/ LeaseLost(t)

Spec == Init /\ [][Next]_vars

(* Workers are (re)started, etcd delivers what it promised, goroutines that can
   go on do, and etcd's clock expires leases.  The watchers of a worker are
   goroutines of their own; the loop's select serves both queues in turn. *)
FairSpec ==
  /\ Spec
  /\ \A w \in Workers :
       /\ WF_vars(StartWatchTasks(w) \/ FullSync(w) \/ WatchTasks(w))
       /\ WF_vars(StartWatchKiller(w) \/ WatchKiller(w))
       /\ WF_vars(SolveSave(w) \/ SolveDelete(w) \/ SolveKill(w) \/ NotifyTask(w))
       /\ WF_vars(SolveTaskExecResult(w) \/ NotifyTask(w))
  /\ \A w \in Workers, t \in Tasks :
       WF_vars(Executor(w, t)) /\ WF_vars(Deadline(w, t))
  /\ \A t \in Tasks : WF_vars(LeaseExpires(t))

-----------------------------------------------------------------------------
(* The execution table guards the goroutines: a goroutine or a queued result
   exists only while its task is in the table.  Hence ExecTask never starts a
   second goroutine for a task, and no result is refused with
   ERROR_DELETE_EXECSTATUS, which would lose its log and its notification. *)
TableGuards ==
  \A w \in Workers : \A t \in Tasks \ table[w] :
    pc[w][t] = "none" /\ \A i \in 1..Len(results[w]) : results[w][i].task # t

(* No two workers are between TryLock and the end of the command for one task. *)
MutualExclusion ==
  \A t \in Tasks, w, v \in Workers : Using(w, t) /\ Using(v, t) => w = v

(* A worker enters the command of a task only as the owner of its key, and loses
   the key under the command only because its own lease is lost: not through the
   late UnLock of a worker that was overtaken, nor through an expiry before the
   command ended.  So each lost lease lets in one further worker and no more. *)
OverlapNeedsLostLease ==
  [][\A t \in Tasks, w \in Workers : Using(w, t)' =>
       \/ lock'[t] = w
       \/ Using(w, t) /\ (lock[t] = w => faults' = faults + 1)]_vars

(* Without crashes and failed etcd calls, each lock that is won leads to one log
   and each log to one notification: nothing is reported twice, by a loser, or
   not at all, however executors, queues and loops interleave. *)
EveryWinReported ==
  \A t \in Tasks :
    LET Executing == {w \in Workers : Using(w, t) \/ err[w][t] \in {"ok", "error"}}
        Queued == {w \in Workers : \E i \in 1..Len(results[w]) :
                     results[w][i].task = t /\ results[w][i].err # "busy"}
        Notifying == {w \in Workers : loop[w].task = t}
    IN /\ wins[t] = logs[t] + Cardinality(Executing) + Cardinality(Queued)
       /\ logs[t] = answers[t] + Cardinality(Notifying)

(* A command is started only for a submission that is still unanswered. *)
RunsOnlyPending ==
  [][\A t \in Tasks : runs'[t] # runs[t] => t \in pending]_vars

(* A submission that is not withdrawn is answered: some worker notifies the
   task's success or failure after it. *)
SubmissionAnswered == \A t \in Tasks : t \in pending ~> t \notin pending

(* A command whose worker has the kill request under way comes to an end, even
   if it would never end by itself. *)
KillUnderWay(w, t) ==
  \/ killPos[w] # NotWatching /\ \E i \in killPos[w] + 1 .. Len(killLog) : killLog[i] = t
  \/ \E i \in 1..Len(events[w]) : events[w][i] = [kind |-> "kill", task |-> t]
KilledStops ==
  \A w \in Workers, t \in Tasks :
    pc[w][t] = "run" /\ KillUnderWay(w, t) ~> pc[w][t] # "run"

(* The workers use the lock the way its abstract service allows. *)
Service ==
  INSTANCE LockService
    WITH Clients <- Workers, Keys <- Tasks, Reliable <- IF "lease" \in Faults THEN {} ELSE Workers,
         holder <- lock,
         using <- [t \in Tasks |-> {w \in Workers : Using(w, t)}]
ImplementsLockService == Service!Spec
=============================================================================
