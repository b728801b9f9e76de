------------------------ MODULE WorkerCluster_proofs ------------------------
(***************************************************************************)
(* Proofs about the cluster of workers, for any number of workers and      *)
(* tasks, queues of any capacity and any number of faults: how the         *)
(* executors use the lock, what is in queues and tables, how many workers  *)
(* run one task, and that every win is reported.                           *)
(***************************************************************************)
EXTENDS WorkerCluster, FiniteSetTheorems, TLAPS

PcType == pc \in [Workers -> [Tasks -> PCs]]
LockType == lock \in [Tasks -> Workers \cup {NoOwner}]

(* Unless leases are lost, a worker that runs a command owns the task's key. *)
UserOwns ==
  "lease" \notin Faults =>
    \A w \in Workers, t \in Tasks : Using(w, t) => lock[t] = w

LInv == PcType /\ LockType /\ UserOwns

Users == [t \in Tasks |-> {w \in Workers : Using(w, t)}]

USE NoOwnerAssumption

-----------------------------------------------------------------------------
(* The goroutine of w for t goes on to another place. *)
Moves(w, t, to) == pc' = [pc EXCEPT ![w][t] = to]

(* What an executor's step does to the program counters. *)
LEMMA PcMove ==
  ASSUME PcType, NEW w \in Workers, NEW t \in Tasks, NEW to \in PCs,
         Moves(w, t, to)
  PROVE  /\ PcType'
         /\ pc'[w][t] = to
         /\ \A v \in Workers, s \in Tasks : v # w \/ s # t => pc'[v][s] = pc[v][s]
<1>1. pc[w] \in [Tasks -> PCs] BY DEF PcType
<1>2. pc' = [pc EXCEPT ![w] = [pc[w] EXCEPT ![t] = to]]
  BY DEF Moves
<1>3. [pc[w] EXCEPT ![t] = to] \in [Tasks -> PCs]
  BY <1>1
<1> QED BY <1>1, <1>2, <1>3 DEF PcType

(* Nobody has begun. *)
LEMMA InitLInv == Init => LInv
<1> SUFFICES ASSUME Init PROVE LInv
  OBVIOUS
<1>1. pc = [w \in Workers |-> [t \in Tasks |-> "none"]] /\ lock = [t \in Tasks |-> NoOwner]
  BY DEF Init
<1> QED BY <1>1 DEF LInv, PcType, LockType, UserOwns, Using, PCs

(* The steps of the front end, of the watchers and of the loop concern neither
   locks nor executors, but for the start of one. *)
Quiet(w) == Watchers(w) \/ SolveDelete(w) \/ SolveKill(w) \/ SolveTaskExecResult(w)
            \/ NotifyTask(w)
LEMMA QuietSteps ==
  ASSUME FrontEnd \/ (\E w \in Workers : Quiet(w) \/ \E t \in Tasks : Deadline(w, t))
  PROVE  UNCHANGED <<pc, lock>>
<1>1. CASE FrontEnd
  BY <1>1 DEF FrontEnd, SaveTask, RemoveTask, KillTask, exec
<1>2. CASE \E w \in Workers : Watchers(w)
  BY <1>2 DEF Watchers, StartWatchTasks, FullSync, WatchTasks, StartWatchKiller, WatchKiller,
              exec
<1>3. CASE \E w \in Workers : SolveDelete(w) \/ SolveKill(w)
  BY <1>3 DEF SolveDelete, SolveKill, exec
<1>4. CASE \E w \in Workers : SolveTaskExecResult(w) \/ NotifyTask(w)
  BY <1>4 DEF SolveTaskExecResult, NotifyTask, exec
<1>5. CASE \E w \in Workers, t \in Tasks : Deadline(w, t)
  BY <1>5 DEF Deadline
<1> QED BY <1>1, <1>2, <1>3, <1>4, <1>5 DEF Quiet

(* A step that leaves locks and executors alone. *)
LEMMA SamePcLock ==
  LInv /\ UNCHANGED <<pc, lock>> => LInv' /\ Users' = Users
BY DEF LInv, PcType, LockType, UserOwns, Users, Using

(* The other steps, as far as locks and executors are concerned: an executor wins
   the lock, starts its command, ends it or does not begin it, or moves outside of
   it, perhaps while its key is put or freed. *)
Wins(w, t) ==
  /\ lock[t] = NoOwner /\ lock' = [lock EXCEPT ![t] = w]
  /\ Moves(w, t, "start")
Starts(w, t) ==
  /\ pc[w][t] = "start" /\ Moves(w, t, "run") /\ UNCHANGED lock
Leaves(w, t) ==
  /\ \E to \in PCs \ {"start", "run"} : Moves(w, t, to)
  /\ UNCHANGED lock
Orphans(w, t) ==
  /\ lock[t] = NoOwner /\ lock' = [lock EXCEPT ![t] = w]
  /\ pc[w][t] = "lock" /\ Moves(w, t, "revoke")
Frees(w, t) ==
  /\ lock[t] = w /\ lock' = [lock EXCEPT ![t] = NoOwner]
  /\ pc[w][t] = "revoke" /\ Moves(w, t, "check")

LEMMA ExecutorSteps ==
  ASSUME NEW w \in Workers, NEW t \in Tasks, Executor(w, t)
  PROVE  Wins(w, t) \/ Starts(w, t) \/ Leaves(w, t) \/ Orphans(w, t) \/ Frees(w, t)
<1> USE DEF Goto, Moves
<1>1. CASE TryLockWin(w, t) BY <1>1 DEF TryLockWin, Wins
<1>2. CASE TryLockBusy(w, t) BY <1>2 DEF TryLockBusy, Leaves, PCs
<1>3. CASE TryLockError(w, t) BY <1>3 DEF TryLockError, Leaves, Orphans, PCs
<1>4. CASE StartCommand(w, t) BY <1>4 DEF StartCommand, Starts, Leaves, PCs
<1>5. CASE FinishCommand(w, t) BY <1>5 DEF FinishCommand, Leaves, PCs
<1>6. CASE Revoke(w, t) BY <1>6 DEF Revoke, Leaves, Frees, PCs
<1>7. CASE PushResult(w, t) BY <1>7 DEF PushResult, Leaves, PCs
<1> QED BY <1>1, <1>2, <1>3, <1>4, <1>5, <1>6, <1>7 DEF Executor, TryLock

(* ExecTask starts the goroutine of one task, or drops the event. *)
LEMMA SaveSteps ==
  ASSUME PcType, NEW w \in Workers, SolveSave(w)
  PROVE  UNCHANGED <<pc, lock>> \/ \E t \in Tasks : Leaves(w, t)
<1> DEFINE t == Head(events[w]).task
<1>1. UNCHANGED lock
  BY DEF SolveSave
<1>2. CASE t \in table[w]
  BY <1>1, <1>2 DEF SolveSave, exec
<1>3. CASE t \notin table[w] /\ t \in Tasks
  <2>1. Moves(w, t, "lock")
    BY <1>3 DEF SolveSave, Moves
  <2> HIDE DEF t
  <2> QED BY <1>1, <1>3, <2>1 DEF Leaves, PCs
<1>4. CASE t \notin table[w] /\ t \notin Tasks
  <2>1. Moves(w, t, "lock")
    BY <1>4 DEF SolveSave, Moves
  <2> HIDE DEF t
  <2>2. [pc[w] EXCEPT ![t] = "lock"] = pc[w]
    BY <1>4 DEF PcType
  <2>3. pc' = pc
    BY <2>1, <2>2 DEF PcType, Moves
  <2> QED BY <1>1, <2>3
<1> QED BY <1>2, <1>3, <1>4

(* A lease ends under the feet of nobody, or as a fault of its own kind. *)
Ends(t) ==
  /\ lock[t] # NoOwner /\ lock' = [lock EXCEPT ![t] = NoOwner] /\ UNCHANGED pc
  /\ ~Using(lock[t], t) \/ ("lease" \in Faults /\ faults' = faults + 1)

Crashes(w) ==
  UNCHANGED lock /\ pc' = [pc EXCEPT ![w] = [t \in Tasks |-> "none"]]

(* What a step can mean for locks and executors. *)
Step ==
  \/ UNCHANGED <<pc, lock>>
  \/ \E w \in Workers, t \in Tasks :
       Wins(w, t) \/ Starts(w, t) \/ Leaves(w, t) \/ Orphans(w, t) \/ Frees(w, t)
  \/ \E t \in Tasks : Ends(t)
  \/ \E w \in Workers : Crashes(w)

LEMMA NextIsStep == PcType /\ [Next]_vars => Step
<1> SUFFICES ASSUME PcType, [Next]_vars PROVE Step
  OBVIOUS
<1>1. CASE FrontEnd \/ (\E w \in Workers : Quiet(w) \/ \E t \in Tasks : Deadline(w, t))
  BY <1>1, QuietSteps DEF Step
<1>2. CASE \E w \in Workers : SolveSave(w)
  BY <1>2, SaveSteps DEF Step
<1>3. CASE \E w \in Workers, t \in Tasks : Executor(w, t)
  BY <1>3, ExecutorSteps DEF Step
<1>4. CASE \E t \in Tasks : LeaseExpires(t) \/ LeaseLost(t)
  BY <1>4 DEF Step, Ends, LeaseExpires, LeaseLost, Fault, exec
<1>5. CASE \E w \in Workers : Crash(w)
  BY <1>5 DEF Step, Crashes, Crash
<1>6. CASE UNCHANGED vars
  BY <1>6 DEF Step, vars, exec
<1> QED BY <1>1, <1>2, <1>3, <1>4, <1>5, <1>6 DEF Next, Quiet, Loop

-----------------------------------------------------------------------------
(* The invariant: the types, and that who runs a command owns its key. *)

LEMMA StepLInv == LInv /\ Step => LInv'
<1> SUFFICES ASSUME LInv, Step PROVE LInv'
  OBVIOUS
<1> USE DEF LInv, LockType, UserOwns
<1>1. CASE UNCHANGED <<pc, lock>>
  BY <1>1, SamePcLock
<1>2. ASSUME NEW w \in Workers, NEW t \in Tasks, Wins(w, t) PROVE LInv'
  <2>1. "start" \in PCs BY DEF PCs
  <2>2. PcType' /\ pc'[w][t] = "start"
        /\ \A v \in Workers, s \in Tasks : v # w \/ s # t => pc'[v][s] = pc[v][s]
    BY <1>2, <2>1, PcMove DEF Wins
  <2>3. ASSUME "lease" \notin Faults, NEW v \in Workers, NEW s \in Tasks, Using(v, s)'
        PROVE  lock'[s] = v
    BY <1>2, <2>2, <2>3 DEF Wins, Using
  <2> QED BY <1>2, <2>2, <2>3 DEF Wins
<1>3. ASSUME NEW w \in Workers, NEW t \in Tasks, Starts(w, t) PROVE LInv'
  <2>1. "run" \in PCs BY DEF PCs
  <2>2. PcType' /\ pc'[w][t] = "run"
        /\ \A v \in Workers, s \in Tasks : v # w \/ s # t => pc'[v][s] = pc[v][s]
    BY <1>3, <2>1, PcMove DEF Starts
  <2>3. ASSUME NEW v \in Workers, NEW s \in Tasks, Using(v, s)' PROVE Using(v, s)
    BY <1>3, <2>2, <2>3 DEF Starts, Using
  <2> QED BY <1>3, <2>2, <2>3 DEF Starts
<1>4. ASSUME NEW w \in Workers, NEW t \in Tasks, Leaves(w, t) PROVE LInv'
  <2>1. PICK to \in PCs \ {"start", "run"} : Moves(w, t, to)
    BY <1>4 DEF Leaves
  <2>2. PcType' /\ pc'[w][t] = to
        /\ \A v \in Workers, s \in Tasks : v # w \/ s # t => pc'[v][s] = pc[v][s]
    BY <2>1, PcMove
  <2>3. ASSUME NEW v \in Workers, NEW s \in Tasks, Using(v, s)' PROVE Using(v, s)
    BY <2>2, <2>3 DEF Using
  <2> QED BY <1>4, <2>2, <2>3 DEF Leaves
<1>5. ASSUME NEW w \in Workers, NEW t \in Tasks, Orphans(w, t) PROVE LInv'
  <2>1. "revoke" \in PCs BY DEF PCs
  <2>2. PcType' /\ pc'[w][t] = "revoke"
        /\ \A v \in Workers, s \in Tasks : v # w \/ s # t => pc'[v][s] = pc[v][s]
    BY <1>5, <2>1, PcMove DEF Orphans
  <2>3. ASSUME "lease" \notin Faults, NEW v \in Workers, NEW s \in Tasks, Using(v, s)'
        PROVE  lock'[s] = v
    BY <1>5, <2>2, <2>3 DEF Orphans, Using
  <2> QED BY <1>5, <2>2, <2>3 DEF Orphans
<1>6. ASSUME NEW w \in Workers, NEW t \in Tasks, Frees(w, t) PROVE LInv'
  <2>1. "check" \in PCs BY DEF PCs
  <2>2. PcType' /\ pc'[w][t] = "check"
        /\ \A v \in Workers, s \in Tasks : v # w \/ s # t => pc'[v][s] = pc[v][s]
    BY <1>6, <2>1, PcMove DEF Frees
  <2>3. ASSUME "lease" \notin Faults, NEW v \in Workers, NEW s \in Tasks, Using(v, s)'
        PROVE  lock'[s] = v
    BY <1>6, <2>2, <2>3 DEF Frees, Using
  <2> QED BY <1>6, <2>2, <2>3 DEF Frees
<1>7. ASSUME NEW t \in Tasks, Ends(t) PROVE LInv'
  BY <1>7 DEF Ends, PcType, Using
<1>8. ASSUME NEW w \in Workers, Crashes(w) PROVE LInv'
  <2>1. [t \in Tasks |-> "none"] \in [Tasks -> PCs] BY DEF PCs
  <2>2. PcType' BY <1>8, <2>1 DEF Crashes, PcType
  <2>3. ASSUME NEW v \in Workers, NEW s \in Tasks, Using(v, s)' PROVE Using(v, s)
    BY <1>8, <2>3 DEF Crashes, PcType, Using
  <2> QED BY <1>8, <2>2, <2>3 DEF Crashes
<1> QED BY <1>1, <1>2, <1>3, <1>4, <1>5, <1>6, <1>7, <1>8 DEF Step

(* Every reachable state has sound program counters and locks, and unless leases
   are lost the users of a task own its key. *)
THEOREM Invariance == Spec => []LInv
<1>1. LInv /\ [Next]_vars => LInv'
  BY NextIsStep, StepLInv DEF LInv
<1> QED BY <1>1, InitLInv, PTL DEF Spec

(* No two workers execute the same task, whatever crashes, restarts, failed
   transactions, failed revocations and dropped events befall them, as long as a
   worker that runs a command renews its lease. *)
THEOREM Exclusive ==
  ASSUME "lease" \notin Faults
  PROVE  Spec => []MutualExclusion
<1>1. LInv => MutualExclusion
  BY DEF LInv, UserOwns, MutualExclusion
<1> QED BY <1>1, Invariance, PTL

-----------------------------------------------------------------------------
(* The refinement: the workers that are between TryLock and the end of the
   command are the users of the abstract lock service. *)

LEMMA InitService == Init => Service!Init
<1> SUFFICES ASSUME Init PROVE Service!Init
  OBVIOUS
<1>1. pc = [w \in Workers |-> [t \in Tasks |-> "none"]] /\ lock = [t \in Tasks |-> NoOwner]
  BY DEF Init
<1>2. ASSUME NEW t \in Tasks PROVE {w \in Workers : Using(w, t)} = {}
  BY <1>1 DEF Using
<1> QED BY <1>1, <1>2 DEF Service!Init

(* A step that keeps the users keeps the abstract relation of users to tasks. *)
LEMMA SameUsers ==
  ASSUME \A v \in Workers, s \in Tasks : Using(v, s)' <=> Using(v, s)
  PROVE  Users' = Users
<1>1. ASSUME NEW s \in Tasks
      PROVE  {v \in Workers : Using(v, s)'} = {v \in Workers : Using(v, s)}
  OBVIOUS
<1> QED BY <1>1 DEF Users

(* One worker that ceases to use a task is an abstract Stop. *)
LEMMA LeavesStop ==
  ASSUME PcType, NEW w \in Workers, NEW t \in Tasks, Leaves(w, t)
  PROVE  Service!Stop({w}, {t})
<1>1. PICK to \in PCs \ {"start", "run"} : Moves(w, t, to)
  BY DEF Leaves
<1>2. pc'[w][t] = to
      /\ \A v \in Workers, s \in Tasks : v # w \/ s # t => pc'[v][s] = pc[v][s]
  BY <1>1, PcMove
<1>3. ASSUME NEW s \in Tasks
      PROVE  {v \in Workers : Using(v, s)'}
             = IF s \in {t} THEN Users[s] \ {w} ELSE Users[s]
  BY <1>2 DEF Users, Using
<1>4. Users' = [s \in Tasks |-> IF s \in {t} THEN Users[s] \ {w} ELSE Users[s]]
  BY <1>3 DEF Users
<1> QED BY <1>4 DEF Leaves, Users, Service!Stop

(* A crash stops its worker from using any task. *)
LEMMA CrashStops ==
  ASSUME PcType, NEW w \in Workers, Crashes(w)
  PROVE  Service!Stop({w}, Tasks)
<1>1. ASSUME NEW s \in Tasks
      PROVE  {v \in Workers : Using(v, s)'}
             = IF s \in Tasks THEN Users[s] \ {w} ELSE Users[s]
  BY DEF Crashes, PcType, Users, Using
<1>2. Users' = [s \in Tasks |-> IF s \in Tasks THEN Users[s] \ {w} ELSE Users[s]]
  BY <1>1 DEF Users
<1> QED BY <1>2 DEF Crashes, Users, Service!Stop

(* Winning the lock is an abstract Acquire. *)
LEMMA WinsAcquire ==
  ASSUME PcType, NEW w \in Workers, NEW t \in Tasks, Wins(w, t)
  PROVE  Service!Acquire(t, w)
<1>1. "start" \in PCs BY DEF PCs
<1>2. pc'[w][t] = "start"
      /\ \A v \in Workers, s \in Tasks : v # w \/ s # t => pc'[v][s] = pc[v][s]
  BY <1>1, PcMove DEF Wins
<1>3. ASSUME NEW s \in Tasks
      PROVE  {v \in Workers : Using(v, s)'}
             = IF s = t THEN Users[s] \cup {w} ELSE Users[s]
  BY <1>2 DEF Users, Using
<1>4. Users' = [Users EXCEPT ![t] = @ \cup {w}]
  BY <1>3 DEF Users
<1> QED BY <1>4 DEF Wins, Users, Service!Acquire

LEMMA StepService == LInv /\ Step => [Service!Next]_(Service!lockVars)
<1> SUFFICES ASSUME LInv, Step PROVE Service!Next \/ UNCHANGED Service!lockVars
  OBVIOUS
<1> USE DEF LInv
<1>1. CASE UNCHANGED <<pc, lock>>
  BY <1>1, SamePcLock DEF Users, Service!lockVars
<1>2. ASSUME NEW w \in Workers, NEW t \in Tasks, Wins(w, t) PROVE Service!Next
  BY <1>2, WinsAcquire DEF Service!Next
<1>3. ASSUME NEW w \in Workers, NEW t \in Tasks, Starts(w, t)
      PROVE  UNCHANGED Service!lockVars
  <2>1. "run" \in PCs BY DEF PCs
  <2>2. pc'[w][t] = "run"
        /\ \A v \in Workers, s \in Tasks : v # w \/ s # t => pc'[v][s] = pc[v][s]
    BY <1>3, <2>1, PcMove DEF Starts
  <2>3. Users' = Users
    BY <1>3, <2>2, SameUsers DEF Starts, Using
  <2> QED BY <1>3, <2>3 DEF Starts, Users, Service!lockVars
<1>4. ASSUME NEW w \in Workers, NEW t \in Tasks, Leaves(w, t) PROVE Service!Next
  BY <1>4, LeavesStop DEF Service!Next
<1>5. ASSUME NEW w \in Workers, NEW t \in Tasks, Orphans(w, t) PROVE Service!Next
  <2>1. "revoke" \in PCs BY DEF PCs
  <2>2. pc'[w][t] = "revoke"
        /\ \A v \in Workers, s \in Tasks : v # w \/ s # t => pc'[v][s] = pc[v][s]
    BY <1>5, <2>1, PcMove DEF Orphans
  <2>3. Users' = Users
    BY <1>5, <2>2, SameUsers DEF Orphans, Using
  <2>4. Service!Orphan(t, w)
    BY <1>5, <2>3 DEF Orphans, Users, Service!Orphan
  <2> QED BY <2>4 DEF Service!Next
<1>6. ASSUME NEW w \in Workers, NEW t \in Tasks, Frees(w, t) PROVE Service!Next
  <2>1. "check" \in PCs BY DEF PCs
  <2>2. pc'[w][t] = "check"
        /\ \A v \in Workers, s \in Tasks : v # w \/ s # t => pc'[v][s] = pc[v][s]
    BY <1>6, <2>1, PcMove DEF Frees
  <2>3. Users' = Users
    BY <1>6, <2>2, SameUsers DEF Frees, Using
  <2>4. w \notin Users[t]
    BY <1>6 DEF Frees, Users, Using
  <2>5. Service!Free(t)
    BY <1>6, <2>3, <2>4 DEF Frees, Users, Service!Free
  <2> QED BY <2>5 DEF Service!Next
<1>7. ASSUME NEW t \in Tasks, Ends(t) PROVE Service!Next
  <2>1. Users' = Users
    BY <1>7, SameUsers DEF Ends, Using
  <2>2. Service!Free(t)
    BY <1>7, <2>1 DEF Ends, Users, Service!Free
  <2> QED BY <2>2 DEF Service!Next
<1>8. ASSUME NEW w \in Workers, Crashes(w) PROVE Service!Next
  <2>1. Tasks \in SUBSET Tasks OBVIOUS
  <2> QED BY <1>8, <2>1, CrashStops DEF Service!Next
<1> QED BY <1>1, <1>2, <1>3, <1>4, <1>5, <1>6, <1>7, <1>8, Zenon DEF Step

(* The cluster of workers, with its queues, its crashes and its lost answers, uses
   the lock exactly as the abstract lock service allows. *)
THEOREM RefinesLockService == Spec => ImplementsLockService
<1>1. LInv /\ [Next]_vars => [Service!Next]_(Service!lockVars)
  BY NextIsStep, StepService DEF LInv
<1> QED BY <1>1, InitService, Invariance, PTL
        DEF Spec, ImplementsLockService, Service!Spec

-----------------------------------------------------------------------------
(* The types, in groups of what changes together.  Program counters and locks
   are typed by LInv. *)

DirTypes ==
  /\ taskDir \subseteq Tasks /\ taskLog \in Seq(Event) /\ killLog \in Seq(Tasks)
  /\ taskPos \in [Workers -> 0..Len(taskLog)]
  /\ killPos \in [Workers -> NotWatching..Len(killLog)]
WatchTypes ==
  /\ phase \in [Workers -> {"down", "sync", "up"}]
  /\ todo \in [Workers -> SUBSET Tasks]
QueueTypes ==
  /\ events \in [Workers -> Seq(Event)] /\ \A w \in Workers : Len(events[w]) <= EventCap
  /\ results \in [Workers -> Seq(Outcomes)]
  /\ loop \in [Workers -> Outcomes \cup {Idle}]
ExecTypes ==
  /\ table \in [Workers -> SUBSET Tasks]
  /\ ctx \in [Workers -> [Tasks -> {"live", "canceled", "deadline"}]]
  /\ err \in [Workers -> [Tasks -> Errors]]
CountTypes ==
  /\ {wins, logs, answers, runs} \subseteq [Tasks -> Nat]
  /\ pending \subseteq Tasks /\ faults \in 0..MaxFaults

TInv == LInv /\ DirTypes /\ WatchTypes /\ QueueTypes /\ ExecTypes /\ CountTypes

(* A table with a row per worker, after one entry of one row has been set. *)
LEMMA EntrySet ==
  ASSUME NEW R, NEW D, NEW S, NEW f \in [R -> [D -> S]], NEW r \in R, NEW d \in D,
         NEW v \in S, NEW g, g = [f EXCEPT ![r][d] = v]
  PROVE  /\ g \in [R -> [D -> S]]
         /\ \A q \in R, e \in D : g[q][e] = IF q = r /\ e = d THEN v ELSE f[q][e]
<1>1. f[r] \in [D -> S] /\ [f[r] EXCEPT ![d] = v] \in [D -> S]
  OBVIOUS
<1>2. g = [f EXCEPT ![r] = [f[r] EXCEPT ![d] = v]]
  OBVIOUS
<1>3. g \in [R -> [D -> S]]
  BY <1>1, <1>2
<1>4. ASSUME NEW q \in R, NEW e \in D
      PROVE  g[q][e] = IF q = r /\ e = d THEN v ELSE f[q][e]
  BY <1>1, <1>2
<1> QED BY <1>3, <1>4

(* The first element of a queue and the rest of it, and a queue with one more. *)
LEMMA TakeFirst ==
  ASSUME NEW S, NEW q \in Seq(S), q # <<>>
  PROVE  /\ Len(q) \in Nat \ {0} /\ Tail(q) \in Seq(S) /\ Len(Tail(q)) = Len(q) - 1
         /\ \A i \in 1..Len(q) - 1 : Tail(q)[i] = q[i + 1]
         /\ Head(q) = q[1] /\ Head(q) \in S
<1>1. Len(q) \in Nat \ {0} OBVIOUS
<1>2. Tail(q) \in Seq(S) /\ Len(Tail(q)) = Len(q) - 1 OBVIOUS
<1>3. \A i \in 1..Len(q) - 1 : Tail(q)[i] = q[i + 1] BY <1>1
<1>4. Head(q) = q[1] /\ Head(q) \in S OBVIOUS
<1> QED BY <1>1, <1>2, <1>3, <1>4

LEMMA PutLast ==
  ASSUME NEW S, NEW q \in Seq(S), NEW e \in S
  PROVE  /\ Append(q, e) \in Seq(S) /\ Len(q) \in Nat /\ Len(Append(q, e)) = Len(q) + 1
         /\ \A i \in 1..Len(q) : Append(q, e)[i] = q[i]
         /\ Append(q, e)[Len(q) + 1] = e
OBVIOUS

LEMMA InitTInv == Init => TInv
<1> SUFFICES ASSUME Init PROVE TInv
  OBVIOUS
<1> USE DEF Init
<1>1. DirTypes BY DEF DirTypes, NotWatching
<1>2. WatchTypes BY DEF WatchTypes
<1>3. QueueTypes BY EventCapAssumption DEF QueueTypes
<1>4. ExecTypes BY DEF ExecTypes, Errors
<1>5. CountTypes BY BoundAssumption DEF CountTypes
<1> QED BY <1>1, <1>2, <1>3, <1>4, <1>5, InitLInv DEF TInv

(* The watchers read the logs from where they are, up to the end. *)
LEMMA NextDirTypes == DirTypes /\ [Next]_vars => DirTypes'
<1> SUFFICES ASSUME DirTypes, [Next]_vars PROVE DirTypes'
  OBVIOUS
<1> USE DEF NotWatching
<1>0. Len(taskLog) \in Nat /\ Len(killLog) \in Nat BY DEF DirTypes
<1>1. ASSUME NEW t \in Tasks, NEW k \in {"save", "delete"},
             taskDir' \subseteq Tasks, taskLog' = Append(taskLog, [kind |-> k, task |-> t]),
             UNCHANGED <<killLog, taskPos, killPos>>
      PROVE  DirTypes'
  <2>1. [kind |-> k, task |-> t] \in Event BY DEF Event
  <2>2. taskLog' \in Seq(Event) /\ Len(taskLog') = Len(taskLog) + 1
    BY <1>1, <2>1, PutLast DEF DirTypes
  <2>3. taskPos' \in [Workers -> 0..Len(taskLog')]
    BY <1>0, <1>1, <2>2 DEF DirTypes
  <2>4. taskDir' \subseteq Tasks BY <1>1
  <2>5. killLog' \in Seq(Tasks) /\ killPos' \in [Workers -> NotWatching..Len(killLog')]
    BY <1>1 DEF DirTypes
  <2> QED BY <2>2, <2>3, <2>4, <2>5 DEF DirTypes
<1>2. ASSUME NEW t \in Tasks, SaveTask(t) PROVE DirTypes'
  <2>1. taskDir' \subseteq Tasks BY <1>2 DEF SaveTask, DirTypes
  <2>2. taskLog' = Append(taskLog, [kind |-> "save", task |-> t])
        /\ UNCHANGED <<killLog, taskPos, killPos>>
    BY <1>2 DEF SaveTask, watch
  <2> QED BY <1>1, <2>1, <2>2
<1>3. ASSUME NEW t \in Tasks, RemoveTask(t) PROVE DirTypes'
  <2>1. taskDir' \subseteq Tasks BY <1>3 DEF RemoveTask, DirTypes
  <2>2. taskLog' = Append(taskLog, [kind |-> "delete", task |-> t])
        /\ UNCHANGED <<killLog, taskPos, killPos>>
    BY <1>3 DEF RemoveTask, watch
  <2> QED BY <1>1, <2>1, <2>2
<1>4. ASSUME NEW t \in Tasks, KillTask(t) PROVE DirTypes'
  <2>1. killLog' = Append(killLog, t) /\ UNCHANGED <<taskDir, taskLog, taskPos, killPos>>
    BY <1>4 DEF KillTask, watch
  <2>2. killLog' \in Seq(Tasks) /\ Len(killLog') = Len(killLog) + 1
    BY <2>1, PutLast DEF DirTypes
  <2>3. killPos' \in [Workers -> NotWatching..Len(killLog')]
    BY <1>0, <2>1, <2>2 DEF DirTypes
  <2> QED BY <2>1, <2>2, <2>3 DEF DirTypes
<1>5. ASSUME NEW w \in Workers, Watchers(w) PROVE DirTypes'
  <2>1. CASE StartWatchTasks(w) BY <1>0, <2>1 DEF StartWatchTasks, etcd, DirTypes
  <2>2. CASE FullSync(w) BY <2>2 DEF FullSync, etcd, DirTypes
  <2>3. CASE WatchTasks(w) BY <1>0, <2>3 DEF WatchTasks, etcd, DirTypes
  <2>4. CASE StartWatchKiller(w) BY <1>0, <2>4 DEF StartWatchKiller, etcd, DirTypes
  <2>5. CASE WatchKiller(w) BY <1>0, <2>5 DEF WatchKiller, etcd, DirTypes
  <2> QED BY <1>5, <2>1, <2>2, <2>3, <2>4, <2>5 DEF Watchers
<1>6. ASSUME NEW w \in Workers, Crash(w) PROVE DirTypes'
  BY <1>0, <1>6 DEF Crash, etcd, DirTypes
<1>7. ASSUME UNCHANGED <<etcd, watch>> PROVE DirTypes'
  BY <1>7 DEF etcd, watch, DirTypes
<1>8. ASSUME NEW w \in Workers, Loop(w) PROVE DirTypes'
  BY <1>7, <1>8 DEF Loop, SolveSave, SolveDelete, SolveKill, SolveTaskExecResult, NotifyTask
<1>9. ASSUME NEW w \in Workers, NEW t \in Tasks, Executor(w, t) \/ Deadline(w, t)
      PROVE  DirTypes'
  BY <1>7, <1>9 DEF Executor, TryLock, TryLockWin, TryLockBusy, TryLockError, StartCommand,
     FinishCommand, Revoke, PushResult, Deadline
<1>10. ASSUME NEW t \in Tasks, LeaseExpires(t) \/ LeaseLost(t) PROVE DirTypes'
  BY <1>7, <1>10 DEF LeaseExpires, LeaseLost
<1>11. CASE UNCHANGED vars BY <1>7, <1>11 DEF vars
<1>12. CASE FrontEnd BY <1>2, <1>3, <1>4, <1>12 DEF FrontEnd
<1> QED BY <1>5, <1>6, <1>8, <1>9, <1>10, <1>11, <1>12 DEF Next

LEMMA NextWatchTypes == TInv /\ [Next]_vars => WatchTypes'
<1> SUFFICES ASSUME TInv, [Next]_vars PROVE WatchTypes'
  OBVIOUS
<1> USE DEF TInv, WatchTypes
<1>1. ASSUME NEW w \in Workers, Watchers(w) PROVE WatchTypes'
  <2>1. CASE StartWatchTasks(w) BY <2>1 DEF StartWatchTasks, DirTypes
  <2>2. CASE FullSync(w) BY <2>2 DEF FullSync
  <2>3. CASE WatchTasks(w) BY <2>3 DEF WatchTasks
  <2>4. CASE StartWatchKiller(w) BY <2>4 DEF StartWatchKiller
  <2>5. CASE WatchKiller(w) BY <2>5 DEF WatchKiller
  <2> QED BY <1>1, <2>1, <2>2, <2>3, <2>4, <2>5 DEF Watchers
<1>2. ASSUME NEW w \in Workers, Crash(w) PROVE WatchTypes'
  BY <1>2 DEF Crash
<1>3. ASSUME UNCHANGED watch PROVE WatchTypes'
  BY <1>3 DEF watch
<1>4. ASSUME NEW w \in Workers, Loop(w) PROVE WatchTypes'
  BY <1>3, <1>4 DEF Loop, SolveSave, SolveDelete, SolveKill, SolveTaskExecResult, NotifyTask
<1>5. ASSUME NEW w \in Workers, NEW t \in Tasks, Executor(w, t) \/ Deadline(w, t)
      PROVE  WatchTypes'
  BY <1>3, <1>5 DEF Executor, TryLock, TryLockWin, TryLockBusy, TryLockError, StartCommand,
     FinishCommand, Revoke, PushResult, Deadline
<1>6. ASSUME NEW t \in Tasks, LeaseExpires(t) \/ LeaseLost(t) PROVE WatchTypes'
  BY <1>3, <1>6 DEF LeaseExpires, LeaseLost
<1>7. CASE FrontEnd
  BY <1>3, <1>7 DEF FrontEnd, SaveTask, RemoveTask, KillTask
<1>8. CASE UNCHANGED vars BY <1>3, <1>8 DEF vars
<1> QED BY <1>1, <1>2, <1>4, <1>5, <1>6, <1>7, <1>8 DEF Next

(* PushTaskEvent puts an event behind the others or drops it; the loop takes the
   first one. *)
LEMMA PushTypes ==
  ASSUME QueueTypes, NEW w \in Workers, NEW k \in {"save", "delete", "kill"}, NEW t \in Tasks,
         PushTaskEvent(w, k, t)
  PROVE  /\ events' \in [Workers -> Seq(Event)]
         /\ \A v \in Workers : Len(events'[v]) <= EventCap
<1> DEFINE e == [kind |-> k, task |-> t]
           q == IF Len(events[w]) < EventCap THEN Append(events[w], e) ELSE events[w]
<1>1. events' = [events EXCEPT ![w] = q] BY DEF PushTaskEvent
<1>2. e \in Event BY DEF Event
<1> HIDE DEF e
<1>3. q \in Seq(Event) /\ Len(q) <= EventCap
  <2>1. events[w] \in Seq(Event) /\ Len(events[w]) <= EventCap BY DEF QueueTypes
  <2>2. Append(events[w], e) \in Seq(Event) /\ Len(events[w]) \in Nat
        /\ Len(Append(events[w], e)) = Len(events[w]) + 1
    BY <1>2, <2>1, PutLast
  <2> QED BY <2>1, <2>2, EventCapAssumption
<1> HIDE DEF q
<1> QED BY <1>1, <1>3 DEF QueueTypes

LEMMA TakeTypes ==
  ASSUME QueueTypes, NEW w \in Workers, NEW k, TakeEvent(w, k)
  PROVE  /\ events' \in [Workers -> Seq(Event)]
         /\ \A v \in Workers : Len(events'[v]) <= EventCap
         /\ Head(events[w]).task \in Tasks
<1> DEFINE q == Tail(events[w])
<1>1. events' = [events EXCEPT ![w] = q] BY DEF TakeEvent
<1>2. events[w] \in Seq(Event) /\ events[w] # <<>> /\ Len(events[w]) <= EventCap
  BY DEF QueueTypes, TakeEvent
<1>3. q \in Seq(Event) /\ Len(q) = Len(events[w]) - 1 /\ Head(events[w]) \in Event
      /\ Len(events[w]) \in Nat
  BY <1>2, TakeFirst
<1>4. Len(q) <= EventCap BY <1>2, <1>3, EventCapAssumption
<1>5. Head(events[w]).task \in Tasks BY <1>3 DEF Event
<1> HIDE DEF q
<1> QED BY <1>1, <1>3, <1>4, <1>5 DEF QueueTypes

LEMMA NextQueueTypes == TInv /\ [Next]_vars => QueueTypes'
<1> SUFFICES ASSUME TInv, [Next]_vars PROVE QueueTypes'
  OBVIOUS
<1> USE DEF TInv
<1>1. ASSUME NEW w \in Workers, NEW k \in {"save", "delete", "kill"}, NEW t \in Tasks,
             PushTaskEvent(w, k, t), UNCHANGED <<results, loop>>
      PROVE  QueueTypes'
  BY <1>1, PushTypes DEF QueueTypes
<1>2. ASSUME UNCHANGED <<queues, loop>> PROVE QueueTypes'
  BY <1>2 DEF queues, QueueTypes
<1>3. ASSUME NEW w \in Workers, Watchers(w) PROVE QueueTypes'
  <2>1. CASE StartWatchTasks(w) BY <1>2, <2>1 DEF StartWatchTasks
  <2>2. CASE FullSync(w)
    <3>1. todo[w] \subseteq Tasks BY DEF WatchTypes
    <3> QED BY <1>1, <1>2, <2>2, <3>1 DEF FullSync, queues
  <2>3. CASE WatchTasks(w)
    <3>1. taskPos[w] + 1 \in 1..Len(taskLog) /\ taskLog \in Seq(Event)
      BY <2>3 DEF WatchTasks, DirTypes
    <3>2. PICK e \in Event : e = taskLog[taskPos[w] + 1] BY <3>1
    <3>3. e.kind \in {"save", "delete", "kill"} /\ e.task \in Tasks BY DEF Event
    <3>4. PushTaskEvent(w, e.kind, e.task) /\ UNCHANGED <<results, loop>>
      BY <2>3, <3>2 DEF WatchTasks
    <3> QED BY <1>1, <3>3, <3>4
  <2>4. CASE StartWatchKiller(w) BY <1>2, <2>4 DEF StartWatchKiller
  <2>5. CASE WatchKiller(w)
    <3>1. killPos[w] + 1 \in 1..Len(killLog) /\ killLog \in Seq(Tasks)
      BY <2>5 DEF WatchKiller, DirTypes, NotWatching
    <3>2. killLog[killPos[w] + 1] \in Tasks BY <3>1
    <3> QED BY <1>1, <2>5, <3>2 DEF WatchKiller
  <2> QED BY <1>3, <2>1, <2>2, <2>3, <2>4, <2>5 DEF Watchers
<1>4. ASSUME NEW w \in Workers, NEW k, TakeEvent(w, k), UNCHANGED <<results, loop>>
      PROVE  QueueTypes'
  BY <1>4, TakeTypes DEF QueueTypes
<1>5. ASSUME NEW w \in Workers, SolveTaskExecResult(w) PROVE QueueTypes'
  <2>1. results[w] \in Seq(Outcomes) /\ results[w] # <<>>
    BY <1>5 DEF SolveTaskExecResult, QueueTypes
  <2>2. Head(results[w]) \in Outcomes /\ Tail(results[w]) \in Seq(Outcomes)
    BY <2>1, TakeFirst
  <2>3. results' = [results EXCEPT ![w] = Tail(results[w])] /\ events' = events
        /\ (loop' = loop \/ loop' = [loop EXCEPT ![w] = Head(results[w])])
    BY <1>5 DEF SolveTaskExecResult
  <2>4. results' \in [Workers -> Seq(Outcomes)] BY <2>2, <2>3 DEF QueueTypes
  <2>5. loop' \in [Workers -> Outcomes \cup {Idle}] BY <2>2, <2>3 DEF QueueTypes
  <2> QED BY <2>3, <2>4, <2>5 DEF QueueTypes
<1>6. ASSUME NEW w \in Workers, NotifyTask(w) PROVE QueueTypes'
  BY <1>6 DEF NotifyTask, queues, QueueTypes
<1>7. ASSUME NEW w \in Workers, Loop(w) PROVE QueueTypes'
  BY <1>4, <1>5, <1>6, <1>7 DEF Loop, SolveSave, SolveDelete, SolveKill
<1>8. ASSUME NEW w \in Workers, NEW t \in Tasks, PushResult(w, t) PROVE QueueTypes'
  <2> DEFINE e == IF ctx[w][t] = "deadline" THEN "timeout" ELSE err[w][t]
             r == [task |-> t, err |-> e]
             q == Append(results[w], r)
  <2>1. results' = [results EXCEPT ![w] = q] /\ events' = events /\ loop' = loop
    BY <1>8 DEF PushResult
  <2>2. err[w][t] \in Errors /\ e \in Errors BY DEF ExecTypes, Errors
  <2>3. r \in Outcomes BY <2>2 DEF Outcomes
  <2>4. results[w] \in Seq(Outcomes) BY DEF QueueTypes
  <2> HIDE DEF r
  <2>5. q \in Seq(Outcomes) BY <2>3, <2>4, PutLast
  <2> HIDE DEF q
  <2> QED BY <2>1, <2>5 DEF QueueTypes
<1>9. ASSUME NEW w \in Workers, NEW t \in Tasks, Executor(w, t) \/ Deadline(w, t)
      PROVE  QueueTypes'
  BY <1>2, <1>8, <1>9 DEF Executor, TryLock, TryLockWin, TryLockBusy, TryLockError,
     StartCommand, FinishCommand, Revoke, Deadline
<1>10. ASSUME NEW t \in Tasks, LeaseExpires(t) \/ LeaseLost(t) PROVE QueueTypes'
  BY <1>2, <1>10 DEF LeaseExpires, LeaseLost
<1>11. CASE FrontEnd
  BY <1>2, <1>11 DEF FrontEnd, SaveTask, RemoveTask, KillTask
<1>12. ASSUME NEW w \in Workers, Crash(w) PROVE QueueTypes'
  BY <1>12, EventCapAssumption DEF Crash, QueueTypes
<1>13. CASE UNCHANGED vars BY <1>2, <1>13 DEF vars
<1> QED BY <1>3, <1>7, <1>9, <1>10, <1>11, <1>12, <1>13 DEF Next

LEMMA NextExecTypes == TInv /\ [Next]_vars => ExecTypes'
<1> SUFFICES ASSUME TInv, [Next]_vars PROVE ExecTypes'
  OBVIOUS
<1> USE DEF TInv
<1> DEFINE C == {"live", "canceled", "deadline"}
<1>1. /\ table \in [Workers -> SUBSET Tasks] /\ ctx \in [Workers -> [Tasks -> C]]
      /\ err \in [Workers -> [Tasks -> Errors]]
  BY DEF ExecTypes
<1>2. ASSUME NEW w \in Workers, NEW t \in Tasks, NEW c \in C, NEW e \in Errors,
             NEW T \in SUBSET Tasks,
             table' = table \/ table' = [table EXCEPT ![w] = T],
             ctx' = ctx \/ ctx' = [ctx EXCEPT ![w][t] = c],
             err' = err \/ err' = [err EXCEPT ![w][t] = e]
      PROVE  ExecTypes'
  <2> HIDE DEF C
  <2>1. ctx' \in [Workers -> [Tasks -> C]]
    <3>1. CASE ctx' = ctx BY <1>1, <3>1
    <3>2. CASE ctx' = [ctx EXCEPT ![w][t] = c] BY <1>1, <3>2, EntrySet, Zenon
    <3> QED BY <1>2, <3>1, <3>2
  <2>2. err' \in [Workers -> [Tasks -> Errors]]
    <3>1. CASE err' = err BY <1>1, <3>1
    <3>2. CASE err' = [err EXCEPT ![w][t] = e] BY <1>1, <3>2, EntrySet, Zenon
    <3> QED BY <1>2, <3>1, <3>2
  <2>3. table' \in [Workers -> SUBSET Tasks] BY <1>1, <1>2
  <2> QED BY <2>1, <2>2, <2>3 DEF ExecTypes, C
<1> USE DEF Errors
<1>3. ASSUME NEW w \in Workers, SolveSave(w) PROVE ExecTypes'
  <2>1. PICK t \in Tasks : t = Head(events[w]).task BY <1>3, TakeTypes DEF SolveSave
  <2>2. table[w] \cup {t} \in SUBSET Tasks BY <1>1
  <2>3. /\ table' = table \/ table' = [table EXCEPT ![w] = table[w] \cup {t}]
        /\ ctx' = ctx \/ ctx' = [ctx EXCEPT ![w][t] = "live"]
        /\ err' = err \/ err' = [err EXCEPT ![w][t] = "none"]
    BY <1>3, <2>1 DEF SolveSave, exec
  <2> QED BY <1>2, <2>2, <2>3
<1>4. ASSUME NEW w \in Workers, SolveKill(w) PROVE ExecTypes'
  <2>1. PICK t \in Tasks : t = Head(events[w]).task BY <1>4, TakeTypes DEF SolveKill
  <2>2. /\ table' = table /\ err' = err
        /\ ctx' = ctx \/ ctx' = [ctx EXCEPT ![w][t] = "canceled"]
    BY <1>4, <2>1 DEF SolveKill
  <2> QED BY <1>2, <2>2
<1>5. ASSUME NEW w \in Workers, SolveTaskExecResult(w) PROVE ExecTypes'
  <2> DEFINE T == table[w] \ {Head(results[w]).task}
  <2>1. table' = table \/ table' = [table EXCEPT ![w] = T] BY <1>5 DEF SolveTaskExecResult
  <2>2. T \in SUBSET Tasks BY <1>1
  <2> HIDE DEF T
  <2> QED BY <1>1, <1>5, <2>1, <2>2 DEF SolveTaskExecResult, ExecTypes
<1>6. ASSUME NEW w \in Workers, NEW t \in Tasks, NEW e \in Errors, table' = table, ctx' = ctx,
             err' = err \/ SetErr(w, t, e)
      PROVE  ExecTypes'
  BY <1>2, <1>6 DEF SetErr
<1>7. ASSUME NEW w \in Workers, NEW t \in Tasks, Executor(w, t) PROVE ExecTypes'
  BY <1>6, <1>7 DEF Executor, TryLock, TryLockWin, TryLockBusy, TryLockError, StartCommand,
     FinishCommand, Revoke, PushResult
<1>8. ASSUME NEW w \in Workers, NEW t \in Tasks, Deadline(w, t) PROVE ExecTypes'
  BY <1>2, <1>8 DEF Deadline
<1>9. ASSUME NEW w \in Workers, Crash(w) PROVE ExecTypes'
  <2>1. [t \in Tasks |-> "live"] \in [Tasks -> C] /\ [t \in Tasks |-> "none"] \in [Tasks -> Errors]
    OBVIOUS
  <2> QED BY <1>1, <1>9, <2>1 DEF Crash, ExecTypes
<1>10. ASSUME UNCHANGED <<table, ctx, err>> PROVE ExecTypes'
  BY <1>10 DEF ExecTypes
<1>11. ASSUME NEW w \in Workers, Watchers(w) \/ SolveDelete(w) \/ NotifyTask(w)
       PROVE  ExecTypes'
  BY <1>10, <1>11 DEF Watchers, StartWatchTasks, FullSync, WatchTasks, StartWatchKiller,
     WatchKiller, SolveDelete, NotifyTask, exec
<1>12. ASSUME NEW t \in Tasks, LeaseExpires(t) \/ LeaseLost(t) PROVE ExecTypes'
  BY <1>10, <1>12 DEF LeaseExpires, LeaseLost, exec
<1>13. CASE FrontEnd
  BY <1>10, <1>13 DEF FrontEnd, SaveTask, RemoveTask, KillTask, exec
<1>14. CASE UNCHANGED vars BY <1>10, <1>14 DEF vars, exec
<1> QED
  BY <1>3, <1>4, <1>5, <1>7, <1>8, <1>9, <1>11, <1>12, <1>13, <1>14 DEF Next, Loop

LEMMA CountTypesUp ==
  ASSUME NEW c \in [Tasks -> Nat], NEW t \in Tasks
  PROVE  Count(c, t) \in [Tasks -> Nat]
BY DEF Count

LEMMA FaultCounts ==
  ASSUME CountTypes, NEW k, Fault(k) PROVE faults' \in 0..MaxFaults /\ faults' = faults + 1
BY BoundAssumption DEF CountTypes, Fault

LEMMA NextCountTypes == TInv /\ [Next]_vars => CountTypes'
<1> SUFFICES ASSUME TInv, [Next]_vars PROVE CountTypes'
  OBVIOUS
<1> USE DEF TInv
<1>1. ASSUME UNCHANGED <<wins, logs, answers, runs>>, pending' \subseteq Tasks,
             UNCHANGED faults \/ \E k \in FaultKinds : Fault(k)
      PROVE  CountTypes'
  BY <1>1, FaultCounts DEF CountTypes
<1>2. CASE FrontEnd
  <2>1. pending \subseteq Tasks BY DEF CountTypes
  <2> QED BY <1>1, <1>2, <2>1 DEF FrontEnd, SaveTask, RemoveTask, KillTask, history
<1>3. ASSUME UNCHANGED history, UNCHANGED faults \/ \E k \in FaultKinds : Fault(k)
      PROVE  CountTypes'
  BY <1>1, <1>3 DEF history, CountTypes
<1> USE DEF FaultKinds
<1>4. ASSUME NEW w \in Workers, Watchers(w) \/ SolveSave(w) \/ SolveDelete(w) \/ SolveKill(w)
      PROVE  CountTypes'
  BY <1>3, <1>4 DEF Watchers, StartWatchTasks, FullSync, WatchTasks, StartWatchKiller,
     WatchKiller, SolveSave, SolveDelete, SolveKill
<1>5. ASSUME NEW w \in Workers, SolveTaskExecResult(w) PROVE CountTypes'
  <2>1. results[w] \in Seq(Outcomes) /\ results[w] # <<>>
    BY <1>5 DEF SolveTaskExecResult, QueueTypes
  <2>2. Head(results[w]).task \in Tasks
    <3>1. Head(results[w]) \in Outcomes BY <2>1, TakeFirst
    <3> QED BY <3>1 DEF Outcomes
  <2>3. logs' = logs \/ logs' = Count(logs, Head(results[w]).task)
    BY <1>5 DEF SolveTaskExecResult
  <2>4. logs' \in [Tasks -> Nat] BY <2>2, <2>3, CountTypesUp DEF CountTypes
  <2> QED BY <1>5, <2>4 DEF SolveTaskExecResult, CountTypes
<1>6. ASSUME NEW w \in Workers, NotifyTask(w) PROVE CountTypes'
  <2>1. loop[w].task \in Tasks BY <1>6 DEF NotifyTask, QueueTypes, Outcomes
  <2>2. answers' \in [Tasks -> Nat]
    BY <1>6, <2>1, CountTypesUp DEF NotifyTask, CountTypes
  <2>3. pending' \subseteq Tasks /\ faults' \in 0..MaxFaults
    BY <1>6, FaultCounts DEF NotifyTask, CountTypes
  <2> QED BY <1>6, <2>2, <2>3 DEF NotifyTask, CountTypes
<1>7. ASSUME NEW w \in Workers, NEW t \in Tasks, Executor(w, t) \/ Deadline(w, t)
      PROVE  CountTypes'
  <2>1. CASE TryLockWin(w, t)
    BY <2>1, CountTypesUp DEF TryLockWin, CountTypes
  <2>2. CASE StartCommand(w, t)
    BY <2>2, CountTypesUp DEF StartCommand, CountTypes
  <2>3. CASE TryLockBusy(w, t) \/ TryLockError(w, t) \/ FinishCommand(w, t)
             \/ Revoke(w, t) \/ PushResult(w, t) \/ Deadline(w, t)
    BY <1>3, <2>3 DEF TryLockBusy, TryLockError, FinishCommand, Revoke, PushResult, Deadline
  <2> QED BY <1>7, <2>1, <2>2, <2>3 DEF Executor, TryLock
<1>8. ASSUME NEW t \in Tasks, LeaseExpires(t) \/ LeaseLost(t) PROVE CountTypes'
  BY <1>3, <1>8 DEF LeaseExpires, LeaseLost
<1>9. ASSUME NEW w \in Workers, Crash(w) PROVE CountTypes'
  BY <1>3, <1>9 DEF Crash
<1>10. CASE UNCHANGED vars BY <1>3, <1>10 DEF vars
<1> QED BY <1>2, <1>4, <1>5, <1>6, <1>7, <1>8, <1>9, <1>10 DEF Next, Loop

LEMMA NextTInv == TInv /\ [Next]_vars => TInv'
<1> SUFFICES ASSUME TInv, [Next]_vars PROVE TInv'
  OBVIOUS
<1>1. LInv' BY NextIsStep, StepLInv DEF TInv, LInv
<1> QED BY <1>1, NextDirTypes, NextWatchTypes, NextQueueTypes, NextExecTypes, NextCountTypes
        DEF TInv

LEMMA TypesInvariant == Spec => []TInv
BY InitTInv, NextTInv, PTL DEF Spec

(* What is in the etcd directories, in the watches' places in them, in the queues,
   in the execution tables and in the counters is what it is meant to be: no watch
   runs past the end of its directory, no queue of events grows beyond its capacity,
   and every event and result is about a task. *)
THEOREM ClusterTypeCorrect == Spec => []TypeOK
<1>1. TInv => TypeOK
  BY DEF TInv, LInv, PcType, LockType, DirTypes, WatchTypes, QueueTypes, ExecTypes, CountTypes,
         TypeOK
<1> QED BY <1>1, TypesInvariant, PTL

-----------------------------------------------------------------------------
(* Workers pile up on a task only as leases are lost. *)

(* The workers that run the task's command though the key is not theirs. *)
Overtaken(t) == {w \in Workers : Using(w, t) /\ lock[t] # w}
OvertakenBound == \A t \in Tasks : Cardinality(Overtaken(t)) <= faults

(* A step overtakes no worker, unless it is a fault, which overtakes one. *)
LEMMA StepOvertakes ==
  ASSUME LInv, Step, NEW t \in Tasks
  PROVE  \/ Overtaken(t)' \subseteq Overtaken(t)
         \/ /\ faults' = faults + 1
            /\ \E x \in Workers : Overtaken(t)' \subseteq Overtaken(t) \cup {x}
<1> USE DEF LInv, LockType
<1>1. CASE UNCHANGED <<pc, lock>>
  BY <1>1, SamePcLock DEF Overtaken, Using
<1>2. ASSUME NEW w \in Workers, NEW s \in Tasks, NEW to \in PCs, Moves(w, s, to),
             to \in {"start", "run"} => lock'[s] = w \/ (lock' = lock /\ Using(w, s)),
             lock' = lock \/ (lock[s] \in {w, NoOwner} /\ \E o \in {w, NoOwner} :
                                 lock' = [lock EXCEPT ![s] = o])
      PROVE  Overtaken(t)' \subseteq Overtaken(t)
  <2>1. pc'[w][s] = to
        /\ \A v \in Workers, u \in Tasks : v # w \/ u # s => pc'[v][u] = pc[v][u]
    BY <1>2, PcMove
  <2>2. SUFFICES ASSUME NEW v \in Workers, Using(v, t)', lock'[t] # v
                 PROVE  Using(v, t) /\ lock[t] # v
    BY DEF Overtaken
  <2>3. CASE v = w /\ s = t BY <1>2, <2>1, <2>2, <2>3 DEF Using
  <2>4. CASE v # w \/ s # t
    <3>1. Using(v, t) BY <2>1, <2>2, <2>4 DEF Using
    <3>2. s # t => lock'[t] = lock[t] BY <1>2
    <3>3. s = t /\ lock' # lock => lock[t] \in {w, NoOwner} BY <1>2
    <3> QED BY <2>2, <2>4, <3>1, <3>2, <3>3
  <2> QED BY <2>3, <2>4
<1>3. ASSUME NEW w \in Workers, NEW s \in Tasks,
             Wins(w, s) \/ Starts(w, s) \/ Leaves(w, s) \/ Orphans(w, s) \/ Frees(w, s)
      PROVE  Overtaken(t)' \subseteq Overtaken(t)
  <2> USE DEF PCs
  <2>1. CASE Wins(w, s) BY <1>2, <2>1 DEF Wins
  <2>2. CASE Starts(w, s) BY <1>2, <2>2 DEF Starts, Using
  <2>3. CASE Leaves(w, s) BY <1>2, <2>3 DEF Leaves
  <2>4. CASE Orphans(w, s) BY <1>2, <2>4 DEF Orphans
  <2>5. CASE Frees(w, s) BY <1>2, <2>5 DEF Frees
  <2> QED BY <1>3, <2>1, <2>2, <2>3, <2>4, <2>5
<1>4. ASSUME NEW s \in Tasks, Ends(s)
      PROVE  \/ Overtaken(t)' \subseteq Overtaken(t)
             \/ /\ faults' = faults + 1
                /\ \E x \in Workers : Overtaken(t)' \subseteq Overtaken(t) \cup {x}
  <2>1. pc' = pc /\ lock' = [lock EXCEPT ![s] = NoOwner] BY <1>4 DEF Ends
  <2>2. CASE s # t \/ ~Using(lock[s], s) BY <2>1, <2>2 DEF Overtaken, Using
  <2>3. CASE s = t /\ Using(lock[s], s)
    <3>1. faults' = faults + 1 /\ lock[t] \in Workers BY <1>4, <2>3 DEF Ends
    <3>2. Overtaken(t)' \subseteq Overtaken(t) \cup {lock[t]}
      BY <2>1 DEF Overtaken, Using
    <3> QED BY <3>1, <3>2
  <2> QED BY <2>2, <2>3
<1>5. ASSUME NEW w \in Workers, Crashes(w) PROVE Overtaken(t)' \subseteq Overtaken(t)
  BY <1>5 DEF Crashes, PcType, Overtaken, Using
<1> QED BY <1>1, <1>3, <1>4, <1>5 DEF Step

(* Nothing undoes a fault. *)
LEMMA FaultsGrow == CountTypes /\ [Next]_vars => faults' >= faults
<1> SUFFICES ASSUME CountTypes, [Next]_vars PROVE faults' >= faults
  OBVIOUS
<1>1. ASSUME UNCHANGED faults \/ \E k \in FaultKinds : Fault(k) PROVE faults' >= faults
  BY <1>1, BoundAssumption DEF CountTypes, Fault
<1> USE DEF FaultKinds
<1>2. CASE FrontEnd BY <1>1, <1>2 DEF FrontEnd, SaveTask, RemoveTask, KillTask
<1>3. ASSUME NEW w \in Workers, Watchers(w) PROVE faults' >= faults
  BY <1>1, <1>3 DEF Watchers, StartWatchTasks, FullSync, WatchTasks, StartWatchKiller,
     WatchKiller
<1>4. ASSUME NEW w \in Workers, Loop(w) \/ Crash(w) PROVE faults' >= faults
  BY <1>1, <1>4 DEF Loop, SolveSave, SolveDelete, SolveKill, SolveTaskExecResult, NotifyTask,
     Crash
<1>5. ASSUME NEW w \in Workers, NEW t \in Tasks, Executor(w, t) \/ Deadline(w, t)
      PROVE  faults' >= faults
  BY <1>1, <1>5 DEF Executor, TryLock, TryLockWin, TryLockBusy, TryLockError, StartCommand,
     FinishCommand, Revoke, PushResult, Deadline
<1>6. ASSUME NEW t \in Tasks, LeaseExpires(t) \/ LeaseLost(t) PROVE faults' >= faults
  BY <1>1, <1>6 DEF LeaseExpires, LeaseLost
<1>7. CASE UNCHANGED vars BY <1>1, <1>7 DEF vars
<1> QED BY <1>2, <1>3, <1>4, <1>5, <1>6, <1>7 DEF Next

(* A part of a finite set, and what one more element makes of it. *)
LEMMA OneMore ==
  ASSUME NEW S, IsFiniteSet(S), NEW x, NEW T \in SUBSET (S \cup {x})
  PROVE  Cardinality(T) \in Nat /\ Cardinality(S) \in Nat /\ Cardinality(T) <= Cardinality(S) + 1
<1>1. IsFiniteSet(S \cup {x}) /\ Cardinality(S \cup {x}) <= Cardinality(S) + 1
      /\ Cardinality(S) \in Nat /\ Cardinality(S \cup {x}) \in Nat
  BY FS_AddElement, FS_CardinalityType
<1>2. IsFiniteSet(T) /\ Cardinality(T) <= Cardinality(S \cup {x})
  BY <1>1, FS_Subset
<1>3. Cardinality(T) \in Nat BY <1>2, FS_CardinalityType
<1> QED BY <1>1, <1>2, <1>3

LEMMA NextOvertakenBound ==
  ASSUME IsFiniteSet(Workers), TInv, OvertakenBound, [Next]_vars
  PROVE  OvertakenBound'
<1> SUFFICES ASSUME NEW t \in Tasks PROVE Cardinality(Overtaken(t)') <= faults'
  BY DEF OvertakenBound
<1>1. Step /\ LInv /\ faults' >= faults /\ faults \in Nat /\ faults' \in Nat
  <2>1. faults \in Nat /\ faults' \in Nat
    BY NextCountTypes, BoundAssumption DEF TInv, CountTypes
  <2> QED BY <2>1, NextIsStep, FaultsGrow DEF TInv, LInv
<1> DEFINE O == Overtaken(t)
           P == Overtaken(t)'
<1>2. IsFiniteSet(O) /\ Cardinality(O) <= faults
  <2>1. O \in SUBSET Workers BY DEF Overtaken
  <2> QED BY <2>1, FS_Subset DEF OvertakenBound
<1>3. P \subseteq O \/ (faults' = faults + 1 /\ \E x \in Workers : P \subseteq O \cup {x})
  BY <1>1, StepOvertakes
<1> HIDE DEF O, P
<1>4. CASE P \subseteq O
  <2>1. Cardinality(P) <= Cardinality(O) /\ IsFiniteSet(P) BY <1>2, <1>4, FS_Subset
  <2>2. Cardinality(P) \in Nat /\ Cardinality(O) \in Nat BY <1>2, <2>1, FS_CardinalityType
  <2>3. Cardinality(P) <= faults' BY <1>1, <1>2, <2>1, <2>2
  <2> QED BY <2>3 DEF P
<1>5. ASSUME NEW x \in Workers, P \subseteq O \cup {x}, faults' = faults + 1
      PROVE  Cardinality(P) <= faults'
  <2>1. Cardinality(P) \in Nat /\ Cardinality(O) \in Nat /\ Cardinality(P) <= Cardinality(O) + 1
    BY <1>2, <1>5, OneMore
  <2> QED BY <1>1, <1>2, <1>5, <2>1
<1> QED BY <1>3, <1>4, <1>5 DEF P

(* What a step may do to a worker in the command of a task. *)
OwnsOrLoses(w, t) ==
  \/ lock'[t] = w
  \/ Using(w, t) /\ (lock[t] = w => faults' = faults + 1)

(* The worker whose executor moves is the only one whose key or place changes. *)
LEMMA MoveOwns ==
  ASSUME LInv, NEW v \in Workers, NEW s \in Tasks,
         Wins(v, s) \/ Starts(v, s) \/ Leaves(v, s) \/ Orphans(v, s) \/ Frees(v, s),
         NEW w \in Workers, NEW t \in Tasks, Using(w, t)'
  PROVE  OwnsOrLoses(w, t)
<1> USE DEF LInv, LockType, OwnsOrLoses
<1>1. PICK to \in PCs :
        /\ Moves(v, s, to)
        /\ to \in {"start", "run"} => lock'[s] = v \/ (lock' = lock /\ Using(v, s))
        /\ lock' = lock \/ (/\ lock[s] = NoOwner \/ (lock[s] = v /\ to = "check")
                           /\ \E o \in {v, NoOwner} : lock' = [lock EXCEPT ![s] = o])
  <2> USE DEF PCs
  <2>1. CASE Wins(v, s) BY <2>1 DEF Wins
  <2>2. CASE Starts(v, s) BY <2>2 DEF Starts, Using
  <2>3. CASE Leaves(v, s) BY <2>3 DEF Leaves
  <2>4. CASE Orphans(v, s) BY <2>4 DEF Orphans
  <2>5. CASE Frees(v, s) BY <2>5 DEF Frees
  <2> QED BY <2>1, <2>2, <2>3, <2>4, <2>5
<1>2. pc'[v][s] = to
      /\ \A x \in Workers, u \in Tasks : x # v \/ u # s => pc'[x][u] = pc[x][u]
  BY <1>1, PcMove
<1>3. CASE w = v /\ t = s
  <2>1. to \in {"start", "run"} BY <1>2, <1>3 DEF Using
  <2>2. CASE lock'[s] = v BY <1>3, <2>2
  <2>3. CASE lock' = lock /\ Using(v, s) BY <1>3, <2>3
  <2> QED BY <1>1, <2>1, <2>2, <2>3
<1>4. CASE w # v \/ t # s
  <2>1. Using(w, t) BY <1>2, <1>4 DEF Using
  <2>2. CASE lock[t] # w BY <2>1, <2>2
  <2>3. CASE lock[t] = w
    <3>1. t # s => lock'[t] = lock[t] BY <1>1
    <3>2. t = s => lock' = lock BY <1>1, <1>4, <2>3, NoOwnerAssumption
    <3> QED BY <2>3, <3>1, <3>2
  <2> QED BY <2>2, <2>3
<1> QED BY <1>3, <1>4

(* On any number of workers, and whatever crashes, fails or is dropped: who is in the
   command of a task owns its key, or has lost it as a fault while he was in it. *)
THEOREM OwnsUnlessLost == Spec => OverlapNeedsLostLease
<1>1. ASSUME TInv, [Next]_vars, NEW t \in Tasks, NEW w \in Workers, Using(w, t)'
      PROVE  OwnsOrLoses(w, t)
  <2>1. LInv /\ Step BY <1>1, NextIsStep DEF TInv, LInv
  <2> USE DEF LInv, LockType, OwnsOrLoses
  <2>2. CASE UNCHANGED <<pc, lock>> BY <1>1, <2>2 DEF Using
  <2>3. CASE \E v \in Workers, s \in Tasks :
               Wins(v, s) \/ Starts(v, s) \/ Leaves(v, s) \/ Orphans(v, s) \/ Frees(v, s)
    BY <1>1, <2>1, <2>3, MoveOwns
  <2>4. CASE \E s \in Tasks : Ends(s)
    BY <1>1, <2>1, <2>4 DEF Ends, Using
  <2>5. CASE \E v \in Workers : Crashes(v)
    BY <1>1, <2>1, <2>5 DEF Crashes, PcType, Using
  <2> QED BY <2>1, <2>2, <2>3, <2>4, <2>5 DEF Step
<1> DEFINE A == \A t \in Tasks, w \in Workers : Using(w, t)' => OwnsOrLoses(w, t)
<1>2. TInv /\ [Next]_vars => [A]_vars
  BY <1>1
<1>3. Spec => [][A]_vars
  <2> HIDE DEF A
  <2> QED BY <1>2, TypesInvariant, PTL DEF Spec
<1> QED BY <1>3 DEF OverlapNeedsLostLease, OwnsOrLoses

(* One worker owns the key, the others in the command have lost it. *)
PileUpBound ==
  \A t \in Tasks : Cardinality({w \in Workers : Using(w, t)}) <= 1 + faults

(* Whatever happens to workers, requests and leases: n faults let at most n + 1
   workers into the command of one task at the same time. *)
THEOREM OverlapBounded ==
  ASSUME IsFiniteSet(Workers)
  PROVE  Spec => []PileUpBound
<1>1. Init => OvertakenBound
  <2> SUFFICES ASSUME Init, NEW t \in Tasks PROVE Cardinality(Overtaken(t)) <= faults
    BY DEF OvertakenBound
  <2>1. pc = [w \in Workers |-> [s \in Tasks |-> "none"]] /\ faults = 0 BY DEF Init
  <2>2. Overtaken(t) = {} BY <2>1 DEF Overtaken, Using
  <2> QED BY <2>1, <2>2, FS_EmptySet
<1>2. OvertakenBound /\ TInv => PileUpBound
  <2> SUFFICES ASSUME OvertakenBound, TInv, NEW t \in Tasks
               PROVE  Cardinality({w \in Workers : Using(w, t)}) <= 1 + faults
    BY DEF PileUpBound
  <2>1. Overtaken(t) \in SUBSET Workers /\ Cardinality(Overtaken(t)) <= faults
    BY DEF Overtaken, OvertakenBound
  <2>2. IsFiniteSet(Overtaken(t)) BY <2>1, FS_Subset
  <2>3. {w \in Workers : Using(w, t)} \in SUBSET (Overtaken(t) \cup {lock[t]})
    BY DEF Overtaken
  <2> DEFINE U == {w \in Workers : Using(w, t)}
  <2> HIDE DEF U
  <2>4. Cardinality(U) \in Nat /\ Cardinality(Overtaken(t)) \in Nat
        /\ Cardinality(U) <= Cardinality(Overtaken(t)) + 1
    BY <2>2, <2>3, OneMore DEF U
  <2>5. faults \in Nat BY BoundAssumption DEF TInv, CountTypes
  <2>6. Cardinality(U) <= 1 + faults BY <2>1, <2>4, <2>5
  <2> QED BY <2>6 DEF U
<1>3. OvertakenBound /\ TInv /\ [Next]_vars => OvertakenBound'
  BY NextOvertakenBound
<1> QED BY <1>1, <1>2, <1>3, TypesInvariant, PTL DEF Spec

-----------------------------------------------------------------------------
(* The execution table: a task with an entry is either with a goroutine or with
   one result in the queue, and with neither only while the entry is all there is
   of it; a task without an entry is with none of them. *)

Distinct(q) == \A i, j \in 1..Len(q) : q[i].task = q[j].task => i = j
About(q, t) == \E i \in 1..Len(q) : q[i].task = t
Telling(q, t) == \E i \in 1..Len(q) : q[i].task = t /\ q[i].err # "busy"

Guarded(w) ==
  /\ Distinct(results[w])
  /\ \A t \in Tasks : About(results[w], t) => t \in table[w]
  /\ \A t \in Tasks : pc[w][t] # "none" => t \in table[w] /\ ~About(results[w], t)
GInv == \A w \in Workers : Guarded(w)

(* A queue of results of distinct tasks, after one more or one less. *)
LEMMA PushOutcome ==
  ASSUME NEW q \in Seq(Outcomes), NEW r \in Outcomes, Distinct(q), ~About(q, r.task)
  PROVE  /\ Distinct(Append(q, r))
         /\ \A t : About(Append(q, r), t) <=> About(q, t) \/ t = r.task
         /\ \A t : Telling(Append(q, r), t)
                     <=> Telling(q, t) \/ (t = r.task /\ r.err # "busy")
<1> DEFINE p == Append(q, r)
           n == Len(q)
<1>1. /\ n \in Nat /\ Len(p) = n + 1 /\ p[n + 1] = r
      /\ \A i \in 1..n : p[i] = q[i]
  BY PutLast
<1> HIDE DEF p
<1>2. \A i \in 1..Len(p) : i \in 1..n \/ i = n + 1
  BY <1>1
<1>3. 1..n \subseteq 1..Len(p) /\ n + 1 \in 1..Len(p)
  BY <1>1
<1>4. Distinct(p)
  BY <1>1, <1>2 DEF Distinct, About
<1>5. \A t : About(p, t) <=> About(q, t) \/ t = r.task
  BY <1>1, <1>2, <1>3 DEF About
<1>6. \A t : Telling(p, t) <=> Telling(q, t) \/ (t = r.task /\ r.err # "busy")
  BY <1>1, <1>2, <1>3 DEF Telling
<1> QED BY <1>4, <1>5, <1>6 DEF p

LEMMA PopOutcome ==
  ASSUME NEW q \in Seq(Outcomes), q # <<>>, Distinct(q)
  PROVE  /\ Head(q) \in Outcomes /\ About(q, Head(q).task)
         /\ Distinct(Tail(q))
         /\ \A t : About(Tail(q), t) <=> About(q, t) /\ t # Head(q).task
         /\ \A t : Telling(Tail(q), t) <=> Telling(q, t) /\ t # Head(q).task
         /\ Telling(q, Head(q).task) <=> Head(q).err # "busy"
<1> DEFINE p == Tail(q)
           n == Len(q)
           r == Head(q)
<1>1. /\ n \in Nat \ {0} /\ Len(p) = n - 1 /\ r = q[1] /\ r \in Outcomes
      /\ \A i \in 1..n - 1 : p[i] = q[i + 1]
  BY TakeFirst
<1> HIDE DEF p, r
<1>2. \A i \in 1..n : i = 1 \/ (i - 1 \in 1..Len(p) /\ p[i - 1] = q[i])
  <2> TAKE i \in 1..n
  <2>1. i # 1 => i - 1 \in 1..n - 1 /\ i - 1 + 1 = i BY <1>1
  <2> QED BY <1>1, <2>1
<1>3. \A i \in 1..Len(p) : i + 1 \in 1..n /\ i + 1 # 1 /\ p[i] = q[i + 1]
  BY <1>1
<1>4. 1 \in 1..n BY <1>1
<1>5. \A i \in 1..n : q[i].task = r.task => i = 1
  BY <1>1, <1>4 DEF Distinct
<1>6. Distinct(p)
  <2> SUFFICES ASSUME NEW i \in 1..Len(p), NEW j \in 1..Len(p), p[i].task = p[j].task
               PROVE  i = j
    BY DEF Distinct
  <2>1. i + 1 = j + 1 BY <1>3 DEF Distinct
  <2> QED BY <1>1, <2>1
<1>7. \A t : About(p, t) <=> About(q, t) /\ t # r.task
  <2> SUFFICES ASSUME NEW t PROVE About(p, t) <=> About(q, t) /\ t # r.task
    OBVIOUS
  <2>1. ASSUME About(p, t) PROVE About(q, t) /\ t # r.task
    BY <1>3, <1>5, <2>1 DEF About
  <2>2. ASSUME About(q, t), t # r.task PROVE About(p, t)
    BY <1>1, <1>2, <2>2 DEF About
  <2> QED BY <2>1, <2>2
<1>8. \A t : Telling(p, t) <=> Telling(q, t) /\ t # r.task
  <2> SUFFICES ASSUME NEW t PROVE Telling(p, t) <=> Telling(q, t) /\ t # r.task
    OBVIOUS
  <2>1. ASSUME Telling(p, t) PROVE Telling(q, t) /\ t # r.task
    BY <1>3, <1>5, <2>1 DEF Telling
  <2>2. ASSUME Telling(q, t), t # r.task PROVE Telling(p, t)
    BY <1>1, <1>2, <2>2 DEF Telling
  <2> QED BY <2>1, <2>2
<1>9. About(q, r.task) /\ (Telling(q, r.task) <=> r.err # "busy")
  BY <1>1, <1>4, <1>5 DEF About, Telling
<1> QED BY <1>1, <1>6, <1>7, <1>8, <1>9 DEF p, r

(* A worker whose queue and table do not change, and that starts no goroutine. *)
LEMMA SameGuard ==
  ASSUME NEW v \in Workers, Guarded(v), table'[v] = table[v], results'[v] = results[v],
         \A t \in Tasks : pc'[v][t] # "none" => pc[v][t] # "none"
  PROVE  Guarded(v)'
BY DEF Guarded, Distinct, About

LEMMA SolveSaveGuards ==
  ASSUME TInv, GInv, NEW w \in Workers, SolveSave(w)
  PROVE  GInv'
<1> USE DEF TInv
<1>1. PICK t \in Tasks : t = Head(events[w]).task BY TakeTypes DEF SolveSave
<1>2. results' = results BY DEF SolveSave
<1>3. CASE t \in table[w]
  <2>1. table' = table /\ pc' = pc BY <1>1, <1>3 DEF SolveSave, exec
  <2> QED BY <1>2, <2>1, SameGuard DEF GInv
<1>4. CASE t \notin table[w]
  <2>1. table' = [table EXCEPT ![w] = table[w] \cup {t}] /\ Moves(w, t, "lock")
    BY <1>1, <1>4 DEF SolveSave, Moves
  <2>2. pc'[w][t] = "lock"
        /\ \A v \in Workers, s \in Tasks : v # w \/ s # t => pc'[v][s] = pc[v][s]
    <3>1. "lock" \in PCs BY DEF PCs
    <3> QED BY <2>1, <3>1, PcMove DEF LInv
  <2>3. table'[w] = table[w] \cup {t} /\ \A v \in Workers : v # w => table'[v] = table[v]
    BY <2>1 DEF ExecTypes
  <2>4. ~About(results[w], t) BY <1>4 DEF GInv, Guarded
  <2>5. Guarded(w)' BY <1>2, <2>2, <2>3, <2>4 DEF GInv, Guarded, Distinct, About
  <2>6. ASSUME NEW v \in Workers, v # w PROVE Guarded(v)'
    BY <1>2, <2>2, <2>3, <2>6, SameGuard DEF GInv
  <2> QED BY <2>5, <2>6 DEF GInv
<1> QED BY <1>3, <1>4

LEMMA PushResultGuards ==
  ASSUME TInv, GInv, NEW w \in Workers, NEW t \in Tasks, PushResult(w, t)
  PROVE  GInv'
<1> USE DEF TInv
<1>1. pc[w][t] = "check" /\ Moves(w, t, "none") /\ table' = table
  BY DEF PushResult, Goto, Moves
<1>2. pc'[w][t] = "none"
      /\ \A v \in Workers, s \in Tasks : v # w \/ s # t => pc'[v][s] = pc[v][s]
  <2>1. "none" \in PCs BY DEF PCs
  <2> QED BY <1>1, <2>1, PcMove DEF LInv
<1>3. PICK r \in Outcomes : r.task = t /\ results' = [results EXCEPT ![w] = Append(results[w], r)]
  <2> DEFINE e == IF ctx[w][t] = "deadline" THEN "timeout" ELSE err[w][t]
  <2>1. e \in Errors BY DEF ExecTypes, Errors
  <2>2. [task |-> t, err |-> e] \in Outcomes BY <2>1 DEF Outcomes
  <2> QED BY <2>2 DEF PushResult
<1>4. results[w] \in Seq(Outcomes) /\ Distinct(results[w]) /\ ~About(results[w], t)
      /\ t \in table[w]
  BY <1>1 DEF QueueTypes, GInv, Guarded
<1> DEFINE q == Append(results[w], r)
<1>5. Distinct(q) /\ \A s : About(q, s) <=> About(results[w], s) \/ s = t
  BY <1>3, <1>4, PushOutcome
<1> HIDE DEF q
<1>6. results'[w] = q /\ \A v \in Workers : v # w => results'[v] = results[v]
  BY <1>3 DEF q, QueueTypes
<1>7. Guarded(w)'
  <2>1. Distinct(results[w])' BY <1>5, <1>6 DEF Distinct
  <2>2. \A s : About(results[w], s)' <=> About(results[w], s) \/ s = t
    BY <1>5, <1>6 DEF About
  <2> QED BY <1>1, <1>2, <1>4, <2>1, <2>2 DEF GInv, Guarded
<1>8. ASSUME NEW v \in Workers, v # w PROVE Guarded(v)'
  BY <1>1, <1>2, <1>6, <1>8, SameGuard DEF GInv
<1> QED BY <1>7, <1>8 DEF GInv

LEMMA SolveResultGuards ==
  ASSUME TInv, GInv, NEW w \in Workers, SolveTaskExecResult(w)
  PROVE  /\ GInv'
         /\ Head(results[w]).task \in table[w]
<1> USE DEF TInv
<1> DEFINE r == Head(results[w])
           q == Tail(results[w])
<1>1. results[w] \in Seq(Outcomes) /\ results[w] # <<>> /\ Distinct(results[w])
  BY DEF SolveTaskExecResult, QueueTypes, GInv, Guarded
<1>2. r \in Outcomes /\ About(results[w], r.task) /\ Distinct(q)
      /\ \A s : About(q, s) <=> About(results[w], s) /\ s # r.task
  BY <1>1, PopOutcome
<1>3. r.task \in Tasks /\ r.task \in table[w] /\ pc[w][r.task] = "none"
  <2>1. r.task \in Tasks BY <1>2 DEF Outcomes
  <2> QED BY <1>2, <2>1 DEF GInv, Guarded
<1>4. /\ results' = [results EXCEPT ![w] = q] /\ pc' = pc
      /\ table' = [table EXCEPT ![w] = table[w] \ {r.task}]
  BY <1>3 DEF SolveTaskExecResult
<1> HIDE DEF r, q
<1>5. /\ results'[w] = q /\ table'[w] = table[w] \ {r.task}
      /\ \A v \in Workers : v # w => results'[v] = results[v] /\ table'[v] = table[v]
  BY <1>4 DEF QueueTypes, ExecTypes
<1>6. Guarded(w)'
  <2>1. Distinct(results[w])' BY <1>2, <1>5 DEF Distinct
  <2>2. \A s : About(results[w], s)' <=> About(results[w], s) /\ s # r.task
    BY <1>2, <1>5 DEF About
  <2> QED BY <1>3, <1>4, <1>5, <2>1, <2>2 DEF GInv, Guarded
<1>7. ASSUME NEW v \in Workers, v # w PROVE Guarded(v)'
  BY <1>4, <1>5, <1>7, SameGuard DEF GInv
<1> QED BY <1>3, <1>6, <1>7 DEF GInv, r

LEMMA NextGInv == TInv /\ GInv /\ [Next]_vars => GInv'
<1> SUFFICES ASSUME TInv, GInv, [Next]_vars PROVE GInv'
  OBVIOUS
<1> USE DEF TInv
<1>1. ASSUME UNCHANGED <<table, results>>,
             \A v \in Workers, t \in Tasks : pc'[v][t] # "none" => pc[v][t] # "none"
      PROVE  GInv'
  BY <1>1, SameGuard DEF GInv
<1>2. ASSUME UNCHANGED <<table, results, pc>> PROVE GInv'
  BY <1>1, <1>2
<1>3. CASE FrontEnd
  BY <1>2, <1>3 DEF FrontEnd, SaveTask, RemoveTask, KillTask, exec, queues
<1>4. ASSUME NEW w \in Workers, Watchers(w) PROVE GInv'
  BY <1>2, <1>4 DEF Watchers, StartWatchTasks, FullSync, WatchTasks, StartWatchKiller,
     WatchKiller, exec, queues
<1>5. ASSUME NEW w \in Workers, SolveDelete(w) \/ SolveKill(w) \/ NotifyTask(w) PROVE GInv'
  BY <1>2, <1>5 DEF SolveDelete, SolveKill, NotifyTask, exec, queues
<1>6. ASSUME NEW w \in Workers, Loop(w) PROVE GInv'
  BY <1>5, <1>6, SolveSaveGuards, SolveResultGuards DEF Loop
<1>7. ASSUME NEW w \in Workers, NEW t \in Tasks, NEW to \in PCs, pc[w][t] # "none",
             Moves(w, t, to), UNCHANGED <<table, results>>
      PROVE  GInv'
  <2>1. \A v \in Workers, s \in Tasks : v # w \/ s # t => pc'[v][s] = pc[v][s]
    BY <1>7, PcMove DEF LInv
  <2> QED BY <1>1, <1>7, <2>1
<1>8. ASSUME NEW w \in Workers, NEW t \in Tasks, Executor(w, t) PROVE GInv'
  <2> USE DEF Goto, Moves, PCs, queues
  <2>1. CASE TryLock(w, t)
    BY <1>7, <2>1 DEF TryLock, TryLockWin, TryLockBusy, TryLockError
  <2>2. CASE StartCommand(w, t) BY <1>7, <2>2 DEF StartCommand
  <2>3. CASE FinishCommand(w, t) BY <1>7, <2>3 DEF FinishCommand
  <2>4. CASE Revoke(w, t) BY <1>7, <2>4 DEF Revoke
  <2> QED BY <1>8, <2>1, <2>2, <2>3, <2>4, PushResultGuards DEF Executor
<1>9. ASSUME NEW w \in Workers, NEW t \in Tasks, Deadline(w, t) PROVE GInv'
  BY <1>2, <1>9 DEF Deadline, queues
<1>10. ASSUME NEW t \in Tasks, LeaseExpires(t) \/ LeaseLost(t) PROVE GInv'
  BY <1>2, <1>10 DEF LeaseExpires, LeaseLost, exec, queues
<1>11. ASSUME NEW w \in Workers, Crash(w) PROVE GInv'
  <2>1. /\ results' = [results EXCEPT ![w] = <<>>] /\ table' = [table EXCEPT ![w] = {}]
        /\ pc' = [pc EXCEPT ![w] = [t \in Tasks |-> "none"]]
    BY <1>11 DEF Crash
  <2>2. ASSUME NEW v \in Workers PROVE Guarded(v)'
    <3>1. CASE v = w
      <4>1. results'[w] = <<>> /\ \A t \in Tasks : pc'[w][t] = "none"
        BY <2>1 DEF QueueTypes, LInv, PcType
      <4>2. Len(results'[w]) = 0 BY <4>1
      <4> QED BY <3>1, <4>1, <4>2 DEF Guarded, Distinct, About
    <3>2. CASE v # w
      BY <2>1, <3>2, SameGuard DEF GInv, QueueTypes, ExecTypes, LInv, PcType
    <3> QED BY <3>1, <3>2
  <2> QED BY <2>2 DEF GInv
<1>12. CASE UNCHANGED vars BY <1>2, <1>12 DEF vars, exec, queues
<1> QED BY <1>3, <1>4, <1>6, <1>8, <1>9, <1>10, <1>11, <1>12 DEF Next

LEMMA GuardsInvariant == Spec => []GInv
<1>1. Init => GInv
  BY DEF Init, GInv, Guarded, Distinct, About
<1> QED BY <1>1, NextGInv, TypesInvariant, PTL DEF Spec

(* Whatever is killed, crashes, fails or is dropped, a task that is not in the
   execution table has neither a goroutine nor a result under way: ExecTask never
   starts a second goroutine for a task, and no result is refused. *)
THEOREM TableIsGuard == Spec => []TableGuards
<1>1. GInv => TableGuards
  BY DEF GInv, Guarded, About, TableGuards
<1> QED BY <1>1, GuardsInvariant, PTL

-----------------------------------------------------------------------------
(* Every win is reported: who won is executing, its result is queued, or its log
   is pushed; whose log is pushed is notifying, or its answer is put.  A worker is
   counted once in each set because its queue holds one result per task. *)

(* No process dies, no deadline is set, and the calls to etcd that take a lock or
   put an answer do not fail; leases may be lost and revocations fail. *)
Undisturbed == Timed = {} /\ Faults \cap {"crash", "txn", "notify"} = {}

Executes(w, t) == Using(w, t) \/ err[w][t] \in {"ok", "error"}
Executing(t) == {w \in Workers : Executes(w, t)}
Queued(t) == {w \in Workers : Telling(results[w], t)}
Notifying(t) == {w \in Workers : loop[w].task = t}

Balanced(t) ==
  /\ wins[t] = logs[t] + Cardinality(Executing(t)) + Cardinality(Queued(t))
  /\ logs[t] = answers[t] + Cardinality(Notifying(t))

(* What the local variable err of a goroutine can be where it is. *)
ErrAt(p, e) ==
  /\ p \in {"none", "lock", "start", "run"} => e = "none"
  /\ p = "revoke" => e \in {"ok", "error"}
  /\ p = "check" => e \in {"ok", "error", "busy"}
ErrOfPc == \A w \in Workers, t \in Tasks : ErrAt(pc[w][t], err[w][t])
NoDeadline == \A w \in Workers, t \in Tasks : ctx[w][t] # "deadline"

RInv == ErrOfPc /\ NoDeadline /\ \A t \in Tasks : Balanced(t)

(* One element more, or one less. *)
LEMMA CountOne ==
  ASSUME NEW S, IsFiniteSet(S), NEW x
  PROVE  /\ Cardinality(S) \in Nat
         /\ x \notin S => Cardinality(S \cup {x}) = Cardinality(S) + 1
         /\ x \in S => Cardinality(S) = Cardinality(S \ {x}) + 1 /\ Cardinality(S \ {x}) \in Nat
<1>1. Cardinality(S) \in Nat BY FS_CardinalityType
<1>2. x \notin S => Cardinality(S \cup {x}) = Cardinality(S) + 1 BY FS_AddElement
<1>3. IsFiniteSet(S \ {x}) /\ (x \in S => Cardinality(S \ {x}) = Cardinality(S) - 1)
  BY FS_RemoveElement
<1>4. Cardinality(S \ {x}) \in Nat BY <1>3, FS_CardinalityType
<1> QED BY <1>1, <1>2, <1>3, <1>4

LEMMA FiniteParts ==
  ASSUME IsFiniteSet(Workers), NEW t
  PROVE  IsFiniteSet(Executing(t)) /\ IsFiniteSet(Queued(t)) /\ IsFiniteSet(Notifying(t))
<1>1. Executing(t) \in SUBSET Workers /\ Queued(t) \in SUBSET Workers
      /\ Notifying(t) \in SUBSET Workers
  BY DEF Executing, Queued, Notifying
<1> QED BY <1>1, FS_Subset

(* A goroutine goes on, and its err is set or left. *)
LEMMA Goes ==
  ASSUME TInv, ErrOfPc, NEW w \in Workers, NEW t \in Tasks, NEW to \in PCs, NEW e \in Errors,
         Moves(w, t, to), SetErr(w, t, e) \/ (err' = err /\ e = err[w][t]), ErrAt(to, e)
  PROVE  /\ ErrOfPc'
         /\ Executes(w, t)' <=> to \in {"start", "run"} \/ e \in {"ok", "error"}
         /\ \A v \in Workers, s \in Tasks :
              v # w \/ s # t => (Executes(v, s)' <=> Executes(v, s))
<1>1. pc'[w][t] = to
      /\ \A v \in Workers, s \in Tasks : v # w \/ s # t => pc'[v][s] = pc[v][s]
  BY PcMove DEF TInv, LInv
<1>2. \A v \in Workers, s \in Tasks : err'[v][s] = IF v = w /\ s = t THEN e ELSE err[v][s]
  <2>1. CASE SetErr(w, t, e)
    <3>1. err \in [Workers -> [Tasks -> Errors]] BY DEF TInv, ExecTypes
    <3>2. err' = [err EXCEPT ![w][t] = e] BY <2>1 DEF SetErr
    <3> QED BY <3>1, <3>2, EntrySet
  <2>2. CASE err' = err /\ e = err[w][t] BY <2>2
  <2> QED BY <2>1, <2>2
<1>3. ErrOfPc'
  <2> SUFFICES ASSUME NEW v \in Workers, NEW s \in Tasks PROVE ErrAt(pc'[v][s], err'[v][s])
    BY DEF ErrOfPc, ErrAt
  <2>1. CASE v = w /\ s = t BY <1>1, <1>2, <2>1
  <2>2. CASE v # w \/ s # t BY <1>1, <1>2, <2>2 DEF ErrOfPc
  <2> QED BY <2>1, <2>2
<1>4. Executes(w, t)' <=> to \in {"start", "run"} \/ e \in {"ok", "error"}
  BY <1>1, <1>2 DEF Executes, Using
<1>5. ASSUME NEW v \in Workers, NEW s \in Tasks, v # w \/ s # t
      PROVE  Executes(v, s)' <=> Executes(v, s)
  BY <1>1, <1>2, <1>5 DEF Executes, Using
<1> QED BY <1>3, <1>4, <1>5

(* A step that leaves alone what is counted for a task. *)
LEMMA SameBalance ==
  ASSUME NEW t \in Tasks, Balanced(t),
         wins'[t] = wins[t], logs'[t] = logs[t], answers'[t] = answers[t],
         \A v \in Workers : Executes(v, t)' <=> Executes(v, t),
         \A v \in Workers : Telling(results[v], t)' <=> Telling(results[v], t),
         \A v \in Workers : loop'[v].task = t <=> loop[v].task = t
  PROVE  Balanced(t)'
<1>1. Executing(t)' = Executing(t) /\ Queued(t)' = Queued(t) /\ Notifying(t)' = Notifying(t)
  BY DEF Executing, Queued, Notifying
<1> QED BY <1>1 DEF Balanced

(* The goroutine goes on without winning or reporting anything. *)
LEMMA GoesBalanced ==
  ASSUME TInv, RInv, NEW w \in Workers, NEW t \in Tasks, NEW to \in PCs, NEW e \in Errors,
         Moves(w, t, to), SetErr(w, t, e) \/ (err' = err /\ e = err[w][t]), ErrAt(to, e),
         Executes(w, t) <=> to \in {"start", "run"} \/ e \in {"ok", "error"},
         NoDeadline', UNCHANGED <<results, loop, wins, logs, answers>>
  PROVE  RInv'
<1>1. ErrOfPc' /\ \A v \in Workers, s \in Tasks : Executes(v, s)' <=> Executes(v, s)
  <2>1. ErrOfPc' /\ (Executes(w, t)' <=> to \in {"start", "run"} \/ e \in {"ok", "error"})
        /\ \A v \in Workers, s \in Tasks :
              v # w \/ s # t => (Executes(v, s)' <=> Executes(v, s))
    BY Goes DEF RInv
  <2> QED BY <2>1
<1>2. ASSUME NEW s \in Tasks PROVE Balanced(s)'
  <2>1. \A v \in Workers : Telling(results[v], s)' <=> Telling(results[v], s)
    BY DEF Telling
  <2> QED BY <1>1, <2>1, SameBalance DEF RInv
<1> QED BY <1>1, <1>2 DEF RInv

LEMMA WinBalanced ==
  ASSUME IsFiniteSet(Workers), TInv, RInv, NEW w \in Workers, NEW t \in Tasks, TryLockWin(w, t)
  PROVE  RInv'
<1>1. pc[w][t] = "lock" /\ Moves(w, t, "start") /\ err' = err /\ ctx' = ctx
      /\ wins' = Count(wins, t) /\ UNCHANGED <<results, loop, logs, answers>>
  BY DEF TryLockWin, Goto, Moves, queues
<1>2. err[w][t] = "none" BY <1>1 DEF RInv, ErrOfPc, ErrAt
<1>3. ErrOfPc' /\ Executes(w, t)'
      /\ \A v \in Workers, s \in Tasks :
            v # w \/ s # t => (Executes(v, s)' <=> Executes(v, s))
  <2>1. "start" \in PCs /\ "none" \in Errors /\ ErrAt("start", "none")
    BY DEF PCs, Errors, ErrAt
  <2> QED BY <1>1, <1>2, <2>1, Goes DEF RInv
<1>4. ~Executes(w, t) BY <1>1, <1>2 DEF Executes, Using
<1>5. wins'[t] = wins[t] + 1 /\ wins[t] \in Nat /\ logs[t] \in Nat
      /\ \A s \in Tasks : s # t => wins'[s] = wins[s]
  BY <1>1 DEF TInv, CountTypes, Count
<1>6. \A s \in Tasks, v \in Workers : Telling(results[v], s)' <=> Telling(results[v], s)
  BY <1>1 DEF Telling
<1>7. ASSUME NEW s \in Tasks, s # t PROVE Balanced(s)'
  BY <1>1, <1>3, <1>5, <1>6, <1>7, SameBalance DEF RInv
<1>8. Balanced(t)'
  <2> DEFINE E == Executing(t)
             Q == Queued(t)
  <2>1. Executing(t)' = E \cup {w} /\ w \notin E
    BY <1>3, <1>4 DEF Executing
  <2>2. Queued(t)' = Q /\ Notifying(t)' = Notifying(t)
    BY <1>1, <1>6 DEF Queued, Notifying
  <2>3. IsFiniteSet(E) /\ IsFiniteSet(Q) BY FiniteParts
  <2> HIDE DEF E, Q
  <2>4. Cardinality(E \cup {w}) = Cardinality(E) + 1 /\ Cardinality(E) \in Nat
        /\ Cardinality(Q) \in Nat
    BY <2>1, <2>3, CountOne
  <2>5. wins[t] = logs[t] + Cardinality(E) + Cardinality(Q) BY DEF RInv, Balanced, E, Q
  <2>6. wins'[t] = logs[t] + Cardinality(E \cup {w}) + Cardinality(Q) BY <1>5, <2>4, <2>5
  <2> QED BY <1>1, <2>1, <2>2, <2>6 DEF RInv, Balanced, E, Q
<1>9. NoDeadline' BY <1>1 DEF RInv, NoDeadline
<1> QED BY <1>3, <1>7, <1>8, <1>9 DEF RInv

LEMMA PushBalanced ==
  ASSUME IsFiniteSet(Workers), TInv, GInv, RInv, NEW w \in Workers, NEW t \in Tasks,
         PushResult(w, t)
  PROVE  RInv'
<1> DEFINE e == err[w][t]
           r == [task |-> t, err |-> e]
           q == results[w]
<1>1. /\ pc[w][t] = "check" /\ Moves(w, t, "none") /\ SetErr(w, t, "none") /\ ctx' = ctx
      /\ results' = [results EXCEPT ![w] = Append(q, r)]
      /\ UNCHANGED <<loop, wins, logs, answers>>
  <2>1. ctx[w][t] # "deadline" BY DEF RInv, NoDeadline
  <2> QED BY <2>1 DEF PushResult, Goto, Moves, history
<1>2. e \in {"ok", "error", "busy"} BY <1>1 DEF RInv, ErrOfPc, ErrAt
<1>3. r \in Outcomes /\ r.task = t /\ r.err = e BY <1>2 DEF Outcomes, Errors
<1>4. q \in Seq(Outcomes) /\ Distinct(q) /\ ~About(q, t)
  BY <1>1 DEF TInv, QueueTypes, GInv, Guarded
<1>5. ErrOfPc' /\ ~Executes(w, t)'
      /\ \A v \in Workers, s \in Tasks :
            v # w \/ s # t => (Executes(v, s)' <=> Executes(v, s))
  <2>1. "none" \in PCs /\ "none" \in Errors /\ ErrAt("none", "none")
    BY DEF PCs, Errors, ErrAt
  <2> QED BY <1>1, <2>1, Goes DEF RInv
<1>6. Executes(w, t) <=> e # "busy" BY <1>1, <1>2 DEF Executes, Using
<1>7. ~Telling(q, t) BY <1>4 DEF About, Telling
<1>8. \A s : Telling(Append(q, r), s) <=> Telling(q, s) \/ (s = t /\ e # "busy")
  <2> HIDE DEF r, q
  <2> QED BY <1>3, <1>4, PushOutcome
<1>9. /\ results'[w] = Append(q, r)
      /\ \A v \in Workers : v # w => results'[v] = results[v]
  BY <1>1 DEF TInv, QueueTypes
<1> HIDE DEF e, r, q
<1>10. \A s \in Tasks, v \in Workers :
         Telling(results[v], s)' <=> Telling(results[v], s) \/ (v = w /\ s = t /\ e # "busy")
  <2> TAKE s \in Tasks, v \in Workers
  <2>1. CASE v = w
    <3>1. Telling(results[w], s)' <=> Telling(Append(q, r), s) BY <1>9 DEF Telling
    <3> QED BY <1>8, <2>1, <3>1 DEF q
  <2>2. CASE v # w BY <1>9, <2>2 DEF Telling
  <2> QED BY <2>1, <2>2
<1>11. ASSUME NEW s \in Tasks, s # t \/ e = "busy" PROVE Balanced(s)'
  <2>1. \A v \in Workers : Executes(v, s)' <=> Executes(v, s) BY <1>5, <1>6, <1>11
  <2>2. \A v \in Workers : Telling(results[v], s)' <=> Telling(results[v], s)
    BY <1>10, <1>11
  <2> QED BY <1>1, <2>1, <2>2, SameBalance DEF RInv
<1>12. ASSUME e # "busy" PROVE Balanced(t)'
  <2> DEFINE E == Executing(t)
             Q == Queued(t)
  <2>1. Executing(t)' = E \ {w} /\ w \in E
    BY <1>5, <1>6, <1>12 DEF Executing
  <2>2. Queued(t)' = Q \cup {w} /\ w \notin Q
    BY <1>7, <1>10, <1>12 DEF Queued, q
  <2>3. Notifying(t)' = Notifying(t) BY <1>1 DEF Notifying
  <2>4. IsFiniteSet(E) /\ IsFiniteSet(Q) BY FiniteParts
  <2> HIDE DEF E, Q
  <2>5. /\ Cardinality(E) = Cardinality(E \ {w}) + 1 /\ Cardinality(E \ {w}) \in Nat
        /\ Cardinality(Q \cup {w}) = Cardinality(Q) + 1 /\ Cardinality(Q) \in Nat
    BY <2>1, <2>2, <2>4, CountOne
  <2>6. wins[t] = logs[t] + Cardinality(E) + Cardinality(Q) /\ logs[t] \in Nat
    BY DEF RInv, Balanced, E, Q, TInv, CountTypes
  <2>7. wins[t] = logs[t] + Cardinality(E \ {w}) + Cardinality(Q \cup {w}) BY <2>5, <2>6
  <2> QED BY <1>1, <2>1, <2>2, <2>3, <2>7 DEF RInv, Balanced
<1>13. NoDeadline' BY <1>1 DEF RInv, NoDeadline
<1> QED BY <1>5, <1>11, <1>12, <1>13 DEF RInv

LEMMA SolveResultBalanced ==
  ASSUME IsFiniteSet(Workers), TInv, GInv, RInv, NEW w \in Workers, SolveTaskExecResult(w)
  PROVE  RInv'
<1> DEFINE q == results[w]
<1>1. q \in Seq(Outcomes) /\ q # <<>> /\ Distinct(q) /\ loop[w] = Idle
  BY DEF SolveTaskExecResult, TInv, QueueTypes, GInv, Guarded
<1>2. PICK r \in Outcomes :
        /\ r = Head(q)
        /\ \A s : Telling(Tail(q), s) <=> Telling(q, s) /\ s # r.task
        /\ Telling(q, r.task) <=> r.err # "busy"
  <2> HIDE DEF q
  <2> QED BY <1>1, PopOutcome
<1>3. PICK t \in Tasks : t = r.task BY DEF Outcomes
<1>4. t \in table[w] BY <1>2, <1>3, SolveResultGuards
<1>5. /\ results' = [results EXCEPT ![w] = Tail(q)]
      /\ UNCHANGED <<ctx, pc, err, wins, answers>>
      /\ IF r.err = "busy" THEN UNCHANGED <<loop, logs>>
         ELSE loop' = [loop EXCEPT ![w] = r] /\ logs' = Count(logs, t)
  BY <1>2, <1>3, <1>4 DEF SolveTaskExecResult
<1>6. /\ results'[w] = Tail(q)
      /\ \A v \in Workers : v # w => results'[v] = results[v]
  BY <1>5 DEF TInv, QueueTypes
<1>7. r.err # "busy" => /\ loop'[w] = r /\ logs'[t] = logs[t] + 1
                        /\ \A v \in Workers : v # w => loop'[v] = loop[v]
                        /\ \A s \in Tasks : s # t => logs'[s] = logs[s]
  BY <1>3, <1>5 DEF TInv, QueueTypes, CountTypes, Count
<1>8. Idle.task \notin Tasks BY NoTaskAssumption DEF Idle
<1> HIDE DEF q
<1>9. \A s \in Tasks, v \in Workers : Executes(v, s)' <=> Executes(v, s)
  BY <1>5 DEF Executes, Using
<1>10. \A s \in Tasks, v \in Workers :
         Telling(results[v], s)' <=> Telling(results[v], s) /\ ~(v = w /\ s = t)
  <2> TAKE s \in Tasks, v \in Workers
  <2>1. CASE v = w
    <3>1. Telling(results[w], s)' <=> Telling(Tail(q), s) BY <1>6 DEF Telling
    <3> QED BY <1>2, <1>3, <2>1, <3>1 DEF q
  <2>2. CASE v # w BY <1>6, <2>2 DEF Telling
  <2> QED BY <2>1, <2>2
<1>11. CASE r.err = "busy"
  <2>1. ASSUME NEW s \in Tasks PROVE Balanced(s)'
    <3>1. \A v \in Workers : Telling(results[v], s)' <=> Telling(results[v], s)
      BY <1>2, <1>3, <1>10, <1>11 DEF q
    <3> QED BY <1>5, <1>9, <1>11, <3>1, SameBalance DEF RInv
  <2> QED BY <1>5, <2>1 DEF RInv, ErrOfPc, NoDeadline
<1>12. CASE r.err # "busy"
  <2>1. ASSUME NEW s \in Tasks, s # t PROVE Balanced(s)'
    <3>1. \A v \in Workers : Telling(results[v], s)' <=> Telling(results[v], s)
      BY <1>10, <2>1
    <3>2. \A v \in Workers : loop'[v].task = s <=> loop[v].task = s
      BY <1>1, <1>7, <1>8, <1>3, <1>12, <2>1
    <3> QED BY <1>5, <1>7, <1>9, <1>12, <2>1, <3>1, <3>2, SameBalance DEF RInv
  <2>2. Balanced(t)'
    <3> DEFINE E == Executing(t)
               Q == Queued(t)
               N == Notifying(t)
    <3>1. Executing(t)' = E BY <1>3, <1>9 DEF Executing
    <3>2. Queued(t)' = Q \ {w} /\ w \in Q BY <1>2, <1>3, <1>10, <1>12 DEF Queued, q
    <3>3. Notifying(t)' = N \cup {w} /\ w \notin N
      BY <1>1, <1>3, <1>7, <1>8, <1>12 DEF Notifying
    <3>4. IsFiniteSet(E) /\ IsFiniteSet(Q) /\ IsFiniteSet(N) BY FiniteParts
    <3> HIDE DEF E, Q, N
    <3>5. /\ Cardinality(Q) = Cardinality(Q \ {w}) + 1 /\ Cardinality(Q \ {w}) \in Nat
          /\ Cardinality(N \cup {w}) = Cardinality(N) + 1 /\ Cardinality(N) \in Nat
          /\ Cardinality(E) \in Nat
      BY <3>2, <3>3, <3>4, CountOne
    <3>6. wins[t] = logs[t] + Cardinality(E) + Cardinality(Q)
          /\ logs[t] = answers[t] + Cardinality(N)
      BY <1>3 DEF RInv, Balanced, E, Q, N
    <3>7. logs[t] \in Nat /\ answers[t] \in Nat BY <1>3 DEF TInv, CountTypes
    <3>8. /\ wins[t] = logs'[t] + Cardinality(E) + Cardinality(Q \ {w})
          /\ logs'[t] = answers[t] + Cardinality(N \cup {w})
      BY <1>7, <1>12, <3>5, <3>6, <3>7
    <3> QED BY <1>5, <3>1, <3>2, <3>3, <3>8 DEF Balanced
  <2> QED BY <1>5, <2>1, <2>2 DEF RInv, ErrOfPc, NoDeadline
<1> QED BY <1>11, <1>12

LEMMA NotifyBalanced ==
  ASSUME IsFiniteSet(Workers), Undisturbed, TInv, RInv, NEW w \in Workers, NotifyTask(w)
  PROVE  RInv'
<1>1. PICK t \in Tasks : loop[w].task = t
  BY DEF NotifyTask, TInv, QueueTypes, Outcomes
<1>2. /\ answers' = Count(answers, t) /\ loop' = [loop EXCEPT ![w] = Idle]
      /\ UNCHANGED <<results, ctx, pc, err, wins, logs>>
  <2>1. ~Fault("notify") BY DEF Undisturbed, Fault
  <2> QED BY <1>1, <2>1 DEF NotifyTask, queues, exec
<1>3. /\ loop'[w] = Idle /\ answers'[t] = answers[t] + 1
      /\ \A v \in Workers : v # w => loop'[v] = loop[v]
      /\ \A s \in Tasks : s # t => answers'[s] = answers[s]
  BY <1>2 DEF TInv, QueueTypes, CountTypes, Count
<1>4. Idle.task \notin Tasks BY NoTaskAssumption DEF Idle
<1>5. /\ \A s \in Tasks, v \in Workers : Executes(v, s)' <=> Executes(v, s)
      /\ \A s \in Tasks, v \in Workers : Telling(results[v], s)' <=> Telling(results[v], s)
  BY <1>2 DEF Executes, Using, Telling
<1>6. ASSUME NEW s \in Tasks, s # t PROVE Balanced(s)'
  <2>1. \A v \in Workers : loop'[v].task = s <=> loop[v].task = s
    BY <1>1, <1>3, <1>4, <1>6
  <2> QED BY <1>2, <1>3, <1>5, <1>6, <2>1, SameBalance DEF RInv
<1>7. Balanced(t)'
  <2> DEFINE N == Notifying(t)
  <2>1. Executing(t)' = Executing(t) /\ Queued(t)' = Queued(t)
    BY <1>5 DEF Executing, Queued
  <2>2. Notifying(t)' = N \ {w} /\ w \in N BY <1>1, <1>3, <1>4 DEF Notifying
  <2>3. IsFiniteSet(N) BY FiniteParts
  <2> HIDE DEF N
  <2>4. Cardinality(N) = Cardinality(N \ {w}) + 1 /\ Cardinality(N \ {w}) \in Nat
    BY <2>2, <2>3, CountOne
  <2>5. logs[t] = answers[t] + Cardinality(N) /\ answers[t] \in Nat
    BY DEF RInv, Balanced, N, TInv, CountTypes
  <2>6. logs[t] = answers'[t] + Cardinality(N \ {w}) BY <1>3, <2>4, <2>5
  <2> QED BY <1>2, <2>1, <2>2, <2>6 DEF RInv, Balanced
<1> QED BY <1>2, <1>6, <1>7 DEF RInv, ErrOfPc, NoDeadline

LEMMA SolveSaveBalanced ==
  ASSUME TInv, GInv, RInv, NEW w \in Workers, SolveSave(w)
  PROVE  RInv'
<1>1. PICK t \in Tasks : t = Head(events[w]).task BY TakeTypes DEF SolveSave, TInv
<1>2. UNCHANGED <<results, loop, wins, logs, answers>> BY DEF SolveSave, history
<1>3. CASE t \in table[w]
  <2>1. UNCHANGED <<ctx, pc, err>> BY <1>1, <1>3 DEF SolveSave, exec
  <2>2. /\ \A s \in Tasks, v \in Workers : Executes(v, s)' <=> Executes(v, s)
        /\ \A s \in Tasks, v \in Workers : Telling(results[v], s)' <=> Telling(results[v], s)
    BY <1>2, <2>1 DEF Executes, Using, Telling
  <2>3. ASSUME NEW s \in Tasks PROVE Balanced(s)'
    BY <1>2, <2>2, SameBalance DEF RInv
  <2> QED BY <2>1, <2>3 DEF RInv, ErrOfPc, NoDeadline
<1>4. CASE t \notin table[w]
  <2>1. Moves(w, t, "lock") /\ SetErr(w, t, "none") /\ ctx' = [ctx EXCEPT ![w][t] = "live"]
    BY <1>1, <1>4 DEF SolveSave, Moves, SetErr
  <2>2. ~Executes(w, t)
    <3>1. pc[w][t] = "none" BY <1>4 DEF GInv, Guarded
    <3>2. err[w][t] = "none" BY <3>1 DEF RInv, ErrOfPc, ErrAt
    <3> QED BY <3>1, <3>2 DEF Executes, Using
  <2>3. NoDeadline'
    <3> DEFINE C == {"live", "canceled", "deadline"}
    <3>1. ctx \in [Workers -> [Tasks -> C]] /\ "live" \in C BY DEF TInv, ExecTypes
    <3> HIDE DEF C
    <3>2. \A v \in Workers, s \in Tasks :
            ctx'[v][s] = IF v = w /\ s = t THEN "live" ELSE ctx[v][s]
      BY <2>1, <3>1, EntrySet
    <3> QED BY <3>2 DEF RInv, NoDeadline
  <2>4. "lock" \in PCs /\ "none" \in Errors /\ ErrAt("lock", "none")
    BY DEF PCs, Errors, ErrAt
  <2> QED BY <1>2, <2>1, <2>2, <2>3, <2>4, GoesBalanced
<1> QED BY <1>3, <1>4

LEMMA ExecutorBalanced ==
  ASSUME IsFiniteSet(Workers), Undisturbed, TInv, GInv, RInv,
         NEW w \in Workers, NEW t \in Tasks, Executor(w, t)
  PROVE  RInv'
<1> DEFINE Kept == UNCHANGED <<ctx, results, loop, wins, logs, answers>>
<1>1. Kept => NoDeadline' BY DEF RInv, NoDeadline
<1>2. ErrAt(pc[w][t], err[w][t]) BY DEF RInv, ErrOfPc
<1>3. CASE TryLockBusy(w, t)
  <2>1. Kept /\ pc[w][t] = "lock" /\ Moves(w, t, "check") /\ SetErr(w, t, "busy")
    BY <1>3 DEF TryLockBusy, Goto, Moves, queues, history
  <2>2. ~Executes(w, t) BY <1>2, <2>1 DEF Executes, Using, ErrAt
  <2>3. "check" \in PCs /\ "busy" \in Errors /\ ErrAt("check", "busy")
    BY DEF PCs, Errors, ErrAt
  <2> QED BY <1>1, <2>1, <2>2, <2>3, GoesBalanced
<1>4. ~TryLockError(w, t) BY DEF Undisturbed, TryLockError, Fault
<1>5. CASE StartCommand(w, t)
  <2>1. Kept /\ pc[w][t] = "start"
        /\ \/ Moves(w, t, "run") /\ err' = err
           \/ Moves(w, t, "revoke") /\ SetErr(w, t, "error")
    BY <1>5 DEF StartCommand, Goto, Moves, queues
  <2>2. Executes(w, t) /\ err[w][t] = "none" BY <1>2, <2>1 DEF Executes, Using, ErrAt
  <2>3. {"run", "revoke"} \subseteq PCs /\ {"none", "error"} \subseteq Errors
        /\ ErrAt("run", "none") /\ ErrAt("revoke", "error")
    BY DEF PCs, Errors, ErrAt
  <2>4. CASE Moves(w, t, "run") /\ err' = err
    BY <1>1, <2>1, <2>2, <2>3, <2>4, GoesBalanced
  <2>5. CASE Moves(w, t, "revoke") /\ SetErr(w, t, "error")
    BY <1>1, <2>1, <2>2, <2>3, <2>5, GoesBalanced
  <2> QED BY <2>1, <2>4, <2>5
<1>6. CASE FinishCommand(w, t)
  <2>1. PICK e \in {"ok", "error"} :
          Kept /\ pc[w][t] = "run" /\ Moves(w, t, "revoke") /\ SetErr(w, t, e)
    BY <1>6 DEF FinishCommand, Goto, Moves, queues, history
  <2>2. Executes(w, t) BY <2>1 DEF Executes, Using
  <2>3. "revoke" \in PCs /\ e \in Errors /\ ErrAt("revoke", e)
    BY DEF PCs, Errors, ErrAt
  <2> QED BY <1>1, <2>1, <2>2, <2>3, GoesBalanced
<1>7. CASE Revoke(w, t)
  <2>1. Kept /\ pc[w][t] = "revoke" /\ Moves(w, t, "check") /\ err' = err
    BY <1>7 DEF Revoke, Goto, Moves, queues, history
  <2>2. Executes(w, t) /\ err[w][t] \in {"ok", "error"} BY <1>2, <2>1 DEF Executes, ErrAt
  <2>3. "check" \in PCs /\ err[w][t] \in Errors /\ ErrAt("check", err[w][t])
    BY <2>2 DEF PCs, Errors, ErrAt
  <2> QED BY <1>1, <2>1, <2>2, <2>3, GoesBalanced
<1> QED BY <1>3, <1>4, <1>5, <1>6, <1>7, WinBalanced, PushBalanced DEF Executor, TryLock

LEMMA NextRInv ==
  ASSUME IsFiniteSet(Workers), Undisturbed, TInv, GInv, RInv, [Next]_vars
  PROVE  RInv'
<1>1. ASSUME UNCHANGED <<pc, err, results, loop, wins, logs, answers>>, NoDeadline' PROVE RInv'
  <2>1. /\ \A s \in Tasks, v \in Workers : Executes(v, s)' <=> Executes(v, s)
        /\ \A s \in Tasks, v \in Workers : Telling(results[v], s)' <=> Telling(results[v], s)
    BY <1>1 DEF Executes, Using, Telling
  <2>2. ASSUME NEW s \in Tasks PROVE Balanced(s)'
    BY <1>1, <2>1, SameBalance DEF RInv
  <2> QED BY <1>1, <2>2 DEF RInv, ErrOfPc
<1>2. ASSUME UNCHANGED <<pc, err, ctx, results, loop, wins, logs, answers>> PROVE RInv'
  BY <1>1, <1>2 DEF RInv, NoDeadline
<1>3. CASE FrontEnd
  BY <1>2, <1>3 DEF FrontEnd, SaveTask, RemoveTask, KillTask, exec, queues, history
<1>4. ASSUME NEW w \in Workers, Watchers(w) PROVE RInv'
  BY <1>2, <1>4 DEF Watchers, StartWatchTasks, FullSync, WatchTasks, StartWatchKiller,
     WatchKiller, exec, queues, history
<1>5. ASSUME NEW w \in Workers, SolveKill(w) PROVE RInv'
  <2>1. PICK t \in Tasks : t = Head(events[w]).task BY <1>5, TakeTypes DEF SolveKill, TInv
  <2>2. ctx' = ctx \/ ctx' = [ctx EXCEPT ![w][t] = "canceled"] BY <1>5, <2>1 DEF SolveKill
  <2> DEFINE C == {"live", "canceled", "deadline"}
  <2>3. ctx \in [Workers -> [Tasks -> C]] /\ "canceled" \in C BY DEF TInv, ExecTypes
  <2> HIDE DEF C
  <2>4. CASE ctx' = [ctx EXCEPT ![w][t] = "canceled"]
    <3>1. \A v \in Workers, s \in Tasks :
            ctx'[v][s] = IF v = w /\ s = t THEN "canceled" ELSE ctx[v][s]
      BY <2>3, <2>4, EntrySet
    <3>2. NoDeadline' BY <3>1 DEF RInv, NoDeadline
    <3> QED BY <1>1, <1>5, <3>2 DEF SolveKill, history
  <2>5. CASE ctx' = ctx BY <1>2, <1>5, <2>5 DEF SolveKill, history
  <2> QED BY <2>2, <2>4, <2>5
<1>6. ASSUME NEW w \in Workers, SolveDelete(w) PROVE RInv'
  BY <1>2, <1>6 DEF SolveDelete, exec, history
<1>7. ASSUME NEW w \in Workers, Loop(w) PROVE RInv'
  BY <1>5, <1>6, <1>7, SolveSaveBalanced, SolveResultBalanced, NotifyBalanced DEF Loop
<1>8. ASSUME NEW w \in Workers, NEW t \in Tasks, Executor(w, t) PROVE RInv'
  BY <1>8, ExecutorBalanced
<1>9. ~\E w \in Workers, t \in Tasks : Deadline(w, t) BY DEF Undisturbed, Deadline
<1>10. ~\E w \in Workers : Crash(w) BY DEF Undisturbed, Crash, Fault
<1>11. ASSUME NEW t \in Tasks, LeaseExpires(t) \/ LeaseLost(t) PROVE RInv'
  BY <1>2, <1>11 DEF LeaseExpires, LeaseLost, exec, queues, history
<1>12. CASE UNCHANGED vars BY <1>2, <1>12 DEF vars, exec, queues, history
<1> QED BY <1>3, <1>4, <1>7, <1>8, <1>9, <1>10, <1>11, <1>12 DEF Next

LEMMA InitRInv == Init => RInv
<1> SUFFICES ASSUME Init PROVE RInv
  OBVIOUS
<1>1. ErrOfPc /\ NoDeadline BY DEF Init, ErrOfPc, ErrAt, NoDeadline
<1>2. ASSUME NEW t \in Tasks PROVE Balanced(t)
  <2>1. /\ \A w \in Workers : pc[w][t] = "none" /\ err[w][t] = "none" /\ results[w] = <<>>
                             /\ loop[w] = Idle
        /\ wins[t] = 0 /\ logs[t] = 0 /\ answers[t] = 0
    BY DEF Init
  <2>2. Executing(t) = {} BY <2>1 DEF Executing, Executes, Using
  <2>3. Queued(t) = {} BY <2>1 DEF Queued, Telling
  <2>4. Notifying(t) = {} BY <2>1, NoTaskAssumption DEF Notifying, Idle
  <2> QED BY <2>1, <2>2, <2>3, <2>4, FS_EmptySet DEF Balanced
<1> QED BY <1>1, <1>2 DEF RInv

(* However executors, queues and loops interleave, with kills, lost leases, failed
   revocations and dropped events: every lock that is won leads to one log and
   every log to one notification.  Of what Undisturbed rules out, a crash or a
   failed put loses a report; a deadline or a failed TryLock reports a task whose
   lock was not won. *)
THEOREM WinsReported ==
  ASSUME IsFiniteSet(Workers), Undisturbed
  PROVE  Spec => []EveryWinReported
<1>1. RInv => EveryWinReported
  BY DEF RInv, Balanced, Executing, Executes, Queued, Telling, Notifying, EveryWinReported
<1>2. TInv /\ GInv /\ RInv /\ [Next]_vars => RInv'
  BY NextRInv
<1> QED BY <1>1, <1>2, InitRInv, TypesInvariant, GuardsInvariant, PTL DEF Spec

-----------------------------------------------------------------------------
(* No submission is forgotten: the safety half of SubmissionAnswered. *)

(* What can be lost is ruled out: a lock outlives neither its worker's process (a
   restart waits for the lease) nor its revocation, and answers are put. *)
Recoverable == SlowRestart /\ Faults \cap {"revoke", "notify"} = {} /\ Workers # {}

(* A process that is down has nothing; an entry of the table is of a goroutine or of
   a queued result; and only who has just been refused the lock says "busy". *)
Sane(w) ==
  /\ phase[w] = "down" => /\ \A t \in Tasks : pc[w][t] = "none"
                         /\ results[w] = <<>> /\ events[w] = <<>>
                         /\ killPos[w] = NotWatching
  /\ \A t \in table[w] : pc[w][t] # "none" \/ About(results[w], t)
  /\ \A t \in Tasks : err[w][t] = "busy" => pc[w][t] = "check"
SInv == \A w \in Workers : Sane(w)

(* The owner of a key is down or on its way to revoke its lease. *)
HolderKnown ==
  \A w \in Workers, t \in Tasks :
    lock[t] = w => phase[w] = "down" \/ pc[w][t] \in {"start", "run", "revoke"}

(* A worker's step. *)
Acts(w) ==
  Watchers(w) \/ Loop(w) \/ Crash(w) \/ \E t \in Tasks : Executor(w, t) \/ Deadline(w, t)

(* Workers share nothing but etcd: a step changes the memory of one of them. *)
LEMMA Local ==
  ASSUME TInv, NEW w \in Workers, Acts(w), NEW v \in Workers, v # w
  PROVE  /\ phase'[v] = phase[v] /\ todo'[v] = todo[v] /\ taskPos'[v] = taskPos[v]
         /\ killPos'[v] = killPos[v] /\ events'[v] = events[v] /\ results'[v] = results[v]
         /\ table'[v] = table[v] /\ pc'[v] = pc[v] /\ err'[v] = err[v] /\ loop'[v] = loop[v]
<1>1. /\ phase \in [Workers -> {"down", "sync", "up"}] /\ todo \in [Workers -> SUBSET Tasks]
      /\ DOMAIN taskPos = Workers /\ DOMAIN killPos = Workers /\ DOMAIN events = Workers
      /\ DOMAIN results = Workers /\ DOMAIN table = Workers /\ DOMAIN pc = Workers
      /\ DOMAIN err = Workers /\ DOMAIN loop = Workers
  BY DEF TInv, LInv, PcType, DirTypes, WatchTypes, QueueTypes, ExecTypes
<1> USE <1>1
<1>2. CASE Watchers(w)
  <2>1. CASE StartWatchTasks(w) BY <2>1 DEF StartWatchTasks, queues, exec
  <2>2. CASE FullSync(w) BY <2>2 DEF FullSync, PushTaskEvent, exec
  <2>3. CASE WatchTasks(w) BY <2>3 DEF WatchTasks, PushTaskEvent, exec
  <2>4. CASE StartWatchKiller(w) BY <2>4 DEF StartWatchKiller, queues, exec
  <2>5. CASE WatchKiller(w) BY <2>5 DEF WatchKiller, PushTaskEvent, exec
  <2> QED BY <1>2, <2>1, <2>2, <2>3, <2>4, <2>5 DEF Watchers
<1>3. CASE Loop(w)
  <2>1. CASE SolveSave(w) BY <2>1 DEF SolveSave, TakeEvent, watch, exec
  <2>2. CASE SolveDelete(w) BY <2>2 DEF SolveDelete, TakeEvent, watch, exec
  <2>3. CASE SolveKill(w) BY <2>3 DEF SolveKill, TakeEvent, watch
  <2>4. CASE SolveTaskExecResult(w) BY <2>4 DEF SolveTaskExecResult, watch
  <2>5. CASE NotifyTask(w) BY <2>5 DEF NotifyTask, watch, queues, exec
  <2> QED BY <1>3, <2>1, <2>2, <2>3, <2>4, <2>5 DEF Loop
<1>4. CASE Crash(w) BY <1>4 DEF Crash
<1>5. ASSUME NEW t \in Tasks, Executor(w, t) \/ Deadline(w, t)
      PROVE  /\ UNCHANGED <<watch, events, table, loop>>
             /\ results'[v] = results[v] /\ pc'[v] = pc[v] /\ err'[v] = err[v]
  <2> USE DEF Goto, SetErr, queues
  <2>1. CASE TryLock(w, t)
    BY <2>1 DEF TryLock, TryLockWin, TryLockBusy, TryLockError
  <2>2. CASE StartCommand(w, t) BY <2>2 DEF StartCommand
  <2>3. CASE FinishCommand(w, t) BY <2>3 DEF FinishCommand
  <2>4. CASE Revoke(w, t) BY <2>4 DEF Revoke
  <2>5. CASE PushResult(w, t) BY <2>5 DEF PushResult
  <2>6. CASE Deadline(w, t) BY <2>6 DEF Deadline
  <2> QED BY <1>5, <2>1, <2>2, <2>3, <2>4, <2>5, <2>6 DEF Executor
<1> QED BY <1>2, <1>3, <1>4, <1>5 DEF Acts, watch

(* A worker has been refused the task's lock and has not yet forgotten the task. *)
Busy(w, t) ==
  \/ pc[w][t] = "check" /\ err[w][t] = "busy"
  \/ About(results[w], t) /\ ~Telling(results[w], t)

(* The task is under way with a worker: it will be started and read the directory,
   its watch has not delivered the put, the event waits, or the goroutine, the result
   or the notification is there. *)
Saved(t) == [kind |-> "save", task |-> t]
Awaits(w, t) == \E i \in taskPos[w] + 1 .. Len(taskLog) : taskLog[i] = Saved(t)
Holds(w, t) == \E i \in 1..Len(events[w]) : events[w][i] = Saved(t)
UnderWay(w, t) ==
  \/ phase[w] = "down" \/ t \in todo[w] \/ Awaits(w, t) \/ Holds(w, t)
  \/ pc[w][t] # "none" \/ Telling(results[w], t) \/ loop[w].task = t

(* What is pending is in the directory, and under way with a worker that does not
   rely on another one. *)
PendingUnderWay ==
  \A t \in pending : t \in taskDir /\ \E w \in Workers : UnderWay(w, t) /\ ~Busy(w, t)
SomeoneFree == \A t \in Tasks : \E w \in Workers : ~Busy(w, t)

Roomy == \A w \in Workers : Len(events[w]) < EventCap

(* What a step of a worker is to preserve of its own; who is refused a lock relies
   on the one who has it. *)
Keeps(w) ==
  /\ Sane(w)'
  /\ \A t \in Tasks :
       /\ Busy(w, t)' => Busy(w, t) \/ TryLockBusy(w, t)
       /\ UnderWay(w, t) /\ ~Busy(w, t) /\ t \in pending' => UnderWay(w, t)'

LEMMA PushHolds ==
  ASSUME TInv, Roomy, NEW w \in Workers, NEW k \in {"save", "delete", "kill"}, NEW t \in Tasks,
         PushTaskEvent(w, k, t)
  PROVE  \A s : Holds(w, s) \/ (k = "save" /\ s = t) => Holds(w, s)'
<1> DEFINE e == [kind |-> k, task |-> t]
           q == events[w]
<1>1. events' = [events EXCEPT ![w] = Append(q, e)] BY DEF PushTaskEvent, Roomy
<1>2. e \in Event /\ q \in Seq(Event) BY DEF Event, TInv, QueueTypes
<1>3. k = "save" => e = Saved(t) BY DEF Saved
<1>4. events'[w] = Append(q, e) BY <1>1 DEF TInv, QueueTypes
<1> HIDE DEF e, q
<1>5. /\ Len(q) \in Nat /\ Len(Append(q, e)) = Len(q) + 1 /\ Append(q, e)[Len(q) + 1] = e
      /\ \A i \in 1..Len(q) : Append(q, e)[i] = q[i]
  BY <1>2, PutLast
<1> TAKE s
<1>6. ASSUME NEW i \in 1..Len(q), q[i] = Saved(s) PROVE Holds(w, s)'
  <2>1. i \in 1..Len(Append(q, e)) /\ Append(q, e)[i] = Saved(s) BY <1>5, <1>6
  <2> QED BY <1>4, <2>1 DEF Holds, Saved
<1>7. ASSUME k = "save", s = t PROVE Holds(w, s)'
  <2>1. Len(q) + 1 \in 1..Len(Append(q, e)) /\ Append(q, e)[Len(q) + 1] = Saved(s)
    BY <1>3, <1>5, <1>7
  <2> QED BY <1>4, <2>1 DEF Holds, Saved
<1> QED BY <1>6, <1>7 DEF Holds, q

LEMMA TakeHolds ==
  ASSUME TInv, NEW w \in Workers, NEW k, TakeEvent(w, k)
  PROVE  /\ events[w] # <<>> /\ loop[w] = Idle
         /\ \A s : Holds(w, s) => Holds(w, s)' \/ (k = "save" /\ s = Head(events[w]).task)
<1> DEFINE q == events[w]
<1>1. q \in Seq(Event) /\ q # <<>> /\ Head(q).kind = k /\ loop[w] = Idle
  BY DEF TakeEvent, TInv, QueueTypes
<1>2. events'[w] = Tail(q) BY DEF TakeEvent, TInv, QueueTypes
<1>3. /\ Len(q) \in Nat \ {0} /\ Len(Tail(q)) = Len(q) - 1 /\ Head(q) = q[1]
      /\ \A i \in 1..Len(q) - 1 : Tail(q)[i] = q[i + 1]
  BY <1>1, TakeFirst
<1>4. ASSUME NEW s, NEW i \in 1..Len(q), q[i] = Saved(s), ~(k = "save" /\ s = Head(q).task)
      PROVE  Holds(w, s)'
  <2>1. i # 1 BY <1>1, <1>3, <1>4 DEF Saved
  <2>2. i - 1 \in 1..Len(q) - 1 /\ i - 1 + 1 = i BY <1>3, <2>1
  <2>3. i - 1 \in 1..Len(Tail(q)) /\ Tail(q)[i - 1] = Saved(s) BY <1>3, <1>4, <2>2
  <2> QED BY <1>2, <2>3 DEF Holds, Saved
<1> QED BY <1>1, <1>4 DEF Holds

(* A step that changes neither executors nor results of its worker. *)
LEMMA SameBusy ==
  ASSUME NEW w \in Workers, pc'[w] = pc[w], err'[w] = err[w], results'[w] = results[w]
  PROVE  /\ \A t : Busy(w, t)' <=> Busy(w, t)
         /\ \A t : About(results[w], t)' <=> About(results[w], t)
         /\ \A t : Telling(results[w], t)' <=> Telling(results[w], t)
BY DEF Busy, About, Telling

(* The watchers hand on what is put, as long as no channel is full. *)
LEMMA WatchersKeep ==
  ASSUME TInv, SInv, Roomy, PendingUnderWay, NEW w \in Workers, Watchers(w)
  PROVE  Keeps(w) /\ pending' = pending /\ taskDir' = taskDir /\ taskLog' = taskLog
<1>1. /\ pc' = pc /\ err' = err /\ results' = results /\ table' = table /\ loop' = loop
      /\ pending' = pending /\ taskDir' = taskDir /\ taskLog' = taskLog
  BY DEF Watchers, StartWatchTasks, FullSync, WatchTasks, StartWatchKiller, WatchKiller,
     etcd, exec, queues, history
<1> SUFFICES Keeps(w)
  BY <1>1
<1>2. /\ \A t : Busy(w, t)' <=> Busy(w, t)
      /\ \A t : Telling(results[w], t)' <=> Telling(results[w], t)
      /\ \A t : About(results[w], t)' <=> About(results[w], t)
  BY <1>1, SameBusy
<1>3. phase \in [Workers -> {"down", "sync", "up"}] /\ todo \in [Workers -> SUBSET Tasks]
      /\ DOMAIN events = Workers /\ taskPos \in [Workers -> 0..Len(taskLog)]
      /\ killPos \in [Workers -> NotWatching..Len(killLog)]
      /\ taskLog \in Seq(Event) /\ killLog \in Seq(Tasks)
  BY DEF TInv, DirTypes, WatchTypes, QueueTypes
<1>4. ASSUME phase'[w] # "down",
             \A t \in pending : t \in todo[w] \/ Awaits(w, t) \/ Holds(w, t) \/ phase[w] = "down"
                               => t \in todo'[w] \/ Awaits(w, t)' \/ Holds(w, t)'
      PROVE  Keeps(w)
  <2>1. Sane(w)' BY <1>1, <1>2, <1>4 DEF SInv, Sane
  <2>2. ASSUME NEW t \in Tasks, UnderWay(w, t), t \in pending' PROVE UnderWay(w, t)'
    BY <1>1, <1>2, <1>4, <2>2 DEF UnderWay
  <2> QED BY <1>2, <2>1, <2>2 DEF Keeps
<1>5. CASE StartWatchTasks(w)
  <2>1. phase'[w] = "sync" /\ todo'[w] = taskDir BY <1>3, <1>5 DEF StartWatchTasks
  <2> QED BY <1>4, <2>1 DEF PendingUnderWay
<1>6. CASE FullSync(w)
  <2>1. phase[w] = "sync" /\ phase'[w] \in {"sync", "up"} /\ taskPos' = taskPos
    BY <1>3, <1>6 DEF FullSync
  <2>2. \A t : Awaits(w, t) => Awaits(w, t)' BY <1>1, <2>1 DEF Awaits, Saved
  <2>3. CASE todo[w] = {} /\ UNCHANGED <<todo, events>>
    BY <1>4, <2>1, <2>2, <2>3 DEF Holds, Saved
  <2>4. ASSUME NEW u \in todo[w], PushTaskEvent(w, "save", u),
               todo' = [todo EXCEPT ![w] = @ \ {u}]
        PROVE  Keeps(w)
    <3>1. u \in Tasks BY <1>3
    <3>2. \A t : Holds(w, t) \/ t = u => Holds(w, t)' BY <2>4, <3>1, PushHolds
    <3>3. todo'[w] = todo[w] \ {u} BY <1>3, <2>4
    <3> QED BY <1>4, <2>1, <2>2, <3>2, <3>3
  <2> QED BY <1>6, <2>3, <2>4 DEF FullSync
<1>7. CASE WatchTasks(w)
  <2> DEFINE p == taskPos[w] + 1
  <2>1. phase[w] = "up" /\ phase' = phase /\ todo' = todo /\ p \in 1..Len(taskLog)
        /\ PushTaskEvent(w, taskLog[p].kind, taskLog[p].task) /\ taskPos'[w] = p
    BY <1>3, <1>7 DEF WatchTasks
  <2>2. taskLog[p] \in Event BY <1>3, <2>1
  <2>3. taskLog[p].kind \in {"save", "delete", "kill"} /\ taskLog[p].task \in Tasks
    BY <2>2 DEF Event
  <2>4. \A t : Holds(w, t) \/ (taskLog[p].kind = "save" /\ t = taskLog[p].task) => Holds(w, t)'
    BY <2>1, <2>3, PushHolds
  <2>5. ASSUME NEW t, Awaits(w, t) PROVE Awaits(w, t)' \/ Holds(w, t)'
    <3>1. PICK i \in p..Len(taskLog) : taskLog[i] = Saved(t) BY <2>5 DEF Awaits
    <3>2. CASE i = p BY <2>4, <3>1, <3>2 DEF Saved
    <3>3. CASE i # p
      <4>1. i \in taskPos'[w] + 1 .. Len(taskLog') BY <1>1, <1>3, <2>1, <3>1, <3>3
      <4> QED BY <1>1, <3>1, <4>1 DEF Awaits, Saved
    <3> QED BY <3>2, <3>3
  <2> QED BY <1>4, <2>1, <2>4, <2>5
<1>8. CASE StartWatchKiller(w) \/ WatchKiller(w)
  <2>1. phase[w] # "down" /\ phase' = phase /\ todo' = todo /\ taskPos' = taskPos
    BY <1>8 DEF StartWatchKiller, WatchKiller, SInv, Sane
  <2>2. \A t : Awaits(w, t) => Awaits(w, t)' BY <1>1, <2>1 DEF Awaits, Saved
  <2>3. \A t : Holds(w, t) => Holds(w, t)'
    <3>1. CASE StartWatchKiller(w) BY <3>1 DEF StartWatchKiller, queues, Holds, Saved
    <3>2. CASE WatchKiller(w)
      <4>1. killPos[w] + 1 \in 1..Len(killLog) BY <1>3, <3>2 DEF WatchKiller, NotWatching
      <4>2. killLog[killPos[w] + 1] \in Tasks BY <1>3, <4>1
      <4> QED BY <3>2, <4>2, PushHolds DEF WatchKiller
    <3> QED BY <1>8, <3>1, <3>2
  <2> QED BY <1>4, <2>1, <2>2, <2>3
<1> QED BY <1>5, <1>6, <1>7, <1>8 DEF Watchers

(* The loop turns what it takes from its queues into a goroutine, a notification or
   an answer; an event is dropped only for a task that is under way already. *)
LEMMA LoopKeeps ==
  ASSUME TInv, GInv, SInv, Recoverable, NEW w \in Workers, Loop(w)
  PROVE  Keeps(w) /\ pending' \subseteq pending /\ taskDir' = taskDir /\ taskLog' = taskLog
<1>1. /\ phase' = phase /\ todo' = todo /\ taskPos' = taskPos /\ killPos' = killPos
      /\ taskDir' = taskDir /\ taskLog' = taskLog /\ pending' \subseteq pending
  BY DEF Loop, SolveSave, SolveDelete, SolveKill, SolveTaskExecResult, NotifyTask,
     etcd, watch, history
<1> SUFFICES Keeps(w)
  BY <1>1
<1>2. \A t : Awaits(w, t)' <=> Awaits(w, t) BY <1>1 DEF Awaits, Saved
<1>3. DOMAIN loop = Workers /\ DOMAIN results = Workers /\ DOMAIN table = Workers
      /\ Idle.task \notin Tasks
  BY NoTaskAssumption DEF TInv, QueueTypes, ExecTypes, Idle
<1>4. CASE SolveDelete(w) \/ SolveKill(w)
  <2>1. /\ pc' = pc /\ err' = err /\ results' = results /\ table' = table /\ loop' = loop
        /\ TakeEvent(w, "delete") \/ TakeEvent(w, "kill")
    BY <1>4 DEF SolveDelete, SolveKill, exec
  <2>2. events[w] # <<>> /\ \A t : Holds(w, t) => Holds(w, t)' BY <2>1, TakeHolds
  <2>3. /\ \A t : Busy(w, t)' <=> Busy(w, t)
        /\ \A t : Telling(results[w], t)' <=> Telling(results[w], t)
        /\ \A t : About(results[w], t)' <=> About(results[w], t)
    BY <2>1, SameBusy
  <2>4. Sane(w)' BY <1>1, <2>1, <2>2, <2>3 DEF SInv, Sane
  <2>5. \A t \in Tasks : UnderWay(w, t) => UnderWay(w, t)'
    BY <1>1, <1>2, <2>1, <2>2, <2>3 DEF UnderWay
  <2> QED BY <2>3, <2>4, <2>5 DEF Keeps
<1>5. CASE SolveSave(w)
  <2>1. PICK u \in Tasks : u = Head(events[w]).task BY <1>5, TakeTypes DEF SolveSave, TInv
  <2>2. TakeEvent(w, "save") /\ results' = results /\ loop' = loop BY <1>5 DEF SolveSave
  <2>3. phase[w] # "down" /\ \A t : Holds(w, t) => Holds(w, t)' \/ t = u
    BY <2>1, <2>2, TakeHolds DEF SInv, Sane
  <2>4. /\ \A t : Telling(results[w], t)' <=> Telling(results[w], t)
        /\ \A t : About(results[w], t)' <=> About(results[w], t)
    BY <2>2 DEF Telling, About
  <2>5. CASE u \in table[w]
    <3>1. pc' = pc /\ err' = err /\ table' = table BY <1>5, <2>1, <2>5 DEF SolveSave, exec
    <3>2. \A t : Busy(w, t)' <=> Busy(w, t) BY <2>2, <3>1, SameBusy
    <3>3. Sane(w)' BY <1>1, <2>3, <2>4, <3>1 DEF SInv, Sane
    <3>4. ~Busy(w, u) => UnderWay(w, u)'
      BY <2>4, <2>5, <3>1 DEF SInv, Sane, Busy, UnderWay
    <3>5. ASSUME NEW t \in Tasks, UnderWay(w, t), ~Busy(w, t) PROVE UnderWay(w, t)'
      BY <1>1, <1>2, <2>2, <2>3, <2>4, <3>1, <3>4, <3>5 DEF UnderWay
    <3> QED BY <3>2, <3>3, <3>5 DEF Keeps
  <2>6. CASE u \notin table[w]
    <3>1. table' = [table EXCEPT ![w] = @ \cup {u}] /\ Moves(w, u, "lock") /\ SetErr(w, u, "none")
      BY <1>5, <2>1, <2>6 DEF SolveSave, Moves, SetErr
    <3>2. /\ \A t \in Tasks : pc'[w][t] = IF t = u THEN "lock" ELSE pc[w][t]
          /\ \A t \in Tasks : err'[w][t] = IF t = u THEN "none" ELSE err[w][t]
      <4>1. "lock" \in PCs /\ "none" \in Errors BY DEF PCs, Errors
      <4>2. pc \in [Workers -> [Tasks -> PCs]] /\ err \in [Workers -> [Tasks -> Errors]]
        BY DEF TInv, LInv, PcType, ExecTypes
      <4>3. \A t \in Tasks : pc'[w][t] = IF t = u THEN "lock" ELSE pc[w][t]
        BY <3>1, <4>1, <4>2, EntrySet DEF Moves
      <4>4. \A t \in Tasks : err'[w][t] = IF t = u THEN "none" ELSE err[w][t]
        BY <3>1, <4>1, <4>2, EntrySet DEF SetErr
      <4> QED BY <4>3, <4>4
    <3>3. table'[w] = table[w] \cup {u} /\ table[w] \subseteq Tasks
      BY <3>1 DEF TInv, ExecTypes
    <3>4. \A t \in Tasks : Busy(w, t)' => Busy(w, t) BY <2>4, <3>2 DEF Busy
    <3>5. Sane(w)' BY <1>1, <2>3, <2>4, <3>2, <3>3 DEF SInv, Sane
    <3>6. \A t \in Tasks : UnderWay(w, t) => UnderWay(w, t)'
      BY <1>1, <1>2, <2>2, <2>3, <2>4, <3>2 DEF UnderWay
    <3> QED BY <3>4, <3>5, <3>6 DEF Keeps
  <2> QED BY <2>5, <2>6
<1>6. CASE SolveTaskExecResult(w)
  <2> DEFINE q == results[w]
  <2>1. q \in Seq(Outcomes) /\ q # <<>> /\ Distinct(q) /\ loop[w] = Idle
    BY <1>6 DEF SolveTaskExecResult, TInv, QueueTypes, GInv, Guarded
  <2>2. PICK r \in Outcomes :
          /\ r = Head(q) /\ About(q, r.task)
          /\ \A s : About(Tail(q), s) <=> About(q, s) /\ s # r.task
          /\ \A s : Telling(Tail(q), s) <=> Telling(q, s) /\ s # r.task
          /\ Telling(q, r.task) <=> r.err # "busy"
    <3> HIDE DEF q
    <3> QED BY <2>1, PopOutcome
  <2>3. PICK u \in Tasks : u = r.task BY DEF Outcomes
  <2>4. u \in table[w] /\ pc[w][u] = "none"
    BY <1>6, <2>2, <2>3, SolveResultGuards DEF GInv, Guarded
  <2>5. /\ pc' = pc /\ err' = err /\ events' = events /\ pending' = pending
        /\ results'[w] = Tail(q) /\ table'[w] = table[w] \ {u}
        /\ loop'[w] = IF r.err = "busy" THEN Idle ELSE r
    BY <1>3, <1>6, <2>1, <2>2, <2>3, <2>4 DEF SolveTaskExecResult
  <2> HIDE DEF q
  <2>6. /\ \A t : About(results[w], t)' <=> About(results[w], t) /\ t # u
        /\ \A t : Telling(results[w], t)' <=> Telling(results[w], t) /\ t # u
    <3>1. \A t : About(results[w], t)' <=> About(Tail(q), t) BY <2>5 DEF About
    <3>2. \A t : Telling(results[w], t)' <=> Telling(Tail(q), t) BY <2>5 DEF Telling
    <3> QED BY <2>2, <2>3, <3>1, <3>2 DEF q
  <2>7. \A t \in Tasks : Busy(w, t)' => Busy(w, t) BY <2>5, <2>6 DEF Busy
  <2>8. phase[w] # "down" BY <2>1 DEF SInv, Sane, q
  <2>9. Sane(w)' BY <1>1, <2>5, <2>6, <2>8 DEF SInv, Sane
  <2>10. \A t : Holds(w, t)' <=> Holds(w, t) BY <2>5 DEF Holds, Saved
  <2>11. ASSUME NEW t \in Tasks, UnderWay(w, t), ~Busy(w, t) PROVE UnderWay(w, t)'
    <3>1. CASE t # u
      BY <1>1, <1>2, <1>3, <2>1, <2>5, <2>6, <2>10, <2>11, <3>1 DEF UnderWay
    <3>2. CASE t = u
      <4>1. Telling(results[w], u) BY <2>2, <2>3, <2>11, <3>2 DEF Busy, q
      <4>2. loop'[w] = r BY <2>2, <2>3, <2>5, <4>1 DEF q
      <4> QED BY <2>3, <3>2, <4>2 DEF UnderWay
    <3> QED BY <3>1, <3>2
  <2> QED BY <2>7, <2>9, <2>11 DEF Keeps
<1>7. CASE NotifyTask(w)
  <2>1. ~Fault("notify") BY DEF Recoverable, Fault
  <2>2. /\ pc' = pc /\ err' = err /\ events' = events /\ results' = results /\ table' = table
        /\ pending' = pending \ {loop[w].task}
    BY <1>7, <2>1 DEF NotifyTask, queues, exec
  <2>3. /\ \A t : Busy(w, t)' <=> Busy(w, t)
        /\ \A t : Telling(results[w], t)' <=> Telling(results[w], t)
        /\ \A t : About(results[w], t)' <=> About(results[w], t)
    BY <2>2, SameBusy
  <2>4. Sane(w)' BY <1>1, <2>2, <2>3 DEF SInv, Sane
  <2>5. \A t : Holds(w, t)' <=> Holds(w, t) BY <2>2 DEF Holds, Saved
  <2>6. \A t \in Tasks : UnderWay(w, t) /\ t \in pending' => UnderWay(w, t)'
    BY <1>1, <1>2, <2>2, <2>3, <2>5 DEF UnderWay
  <2> QED BY <2>3, <2>4, <2>6 DEF Keeps
<1> QED BY <1>4, <1>5, <1>6, <1>7 DEF Loop

(* A goroutine that goes on is there, and is busy only if it has just been refused. *)
LEMMA GoesKeeps ==
  ASSUME TInv, GInv, SInv, NEW w \in Workers, NEW t \in Tasks, NEW to \in PCs, NEW e \in Errors,
         pc[w][t] # "none", Moves(w, t, to), to # "none",
         SetErr(w, t, e) \/ (err' = err /\ e = err[w][t]),
         e = "busy" => to = "check" /\ TryLockBusy(w, t),
         UNCHANGED <<watch, queues, table, loop, taskLog>>
  PROVE  Keeps(w)
<1>1. \A s \in Tasks : pc'[w][s] = IF s = t THEN to ELSE pc[w][s]
  BY EntrySet DEF Moves, TInv, LInv, PcType
<1>2. \A s \in Tasks : err'[w][s] = IF s = t THEN e ELSE err[w][s]
  <2>1. CASE SetErr(w, t, e)
    <3>1. err \in [Workers -> [Tasks -> Errors]] BY DEF TInv, ExecTypes
    <3>2. err' = [err EXCEPT ![w][t] = e] BY <2>1 DEF SetErr
    <3> QED BY <3>1, <3>2, EntrySet
  <2>2. CASE err' = err /\ e = err[w][t] BY <2>2
  <2> QED BY <2>1, <2>2
<1>3. /\ phase' = phase /\ todo' = todo /\ taskPos' = taskPos /\ killPos' = killPos
      /\ events' = events /\ results' = results
  BY DEF watch, queues
<1>4. /\ \A s : Awaits(w, s)' <=> Awaits(w, s)
      /\ \A s : Holds(w, s)' <=> Holds(w, s)
      /\ \A s : About(results[w], s)' <=> About(results[w], s)
      /\ \A s : Telling(results[w], s)' <=> Telling(results[w], s)
  <2>1. \A s : Awaits(w, s)' <=> Awaits(w, s) BY <1>3 DEF Awaits, Saved
  <2>2. \A s : Holds(w, s)' <=> Holds(w, s) BY <1>3 DEF Holds, Saved
  <2>3. \A s : About(results[w], s)' <=> About(results[w], s) BY <1>3 DEF About
  <2>4. \A s : Telling(results[w], s)' <=> Telling(results[w], s) BY <1>3 DEF Telling
  <2> QED BY <2>1, <2>2, <2>3, <2>4
<1>5. phase[w] # "down" BY DEF SInv, Sane
<1>6. Sane(w)'
  <2>1. table[w] \subseteq Tasks BY DEF TInv, ExecTypes
  <2> QED BY <1>1, <1>2, <1>3, <1>4, <1>5, <2>1 DEF SInv, Sane
<1>7. ASSUME NEW s \in Tasks, Busy(w, s)' PROVE Busy(w, s) \/ TryLockBusy(w, s)
  <2>1. CASE s = t
    <3>1. ~About(results[w], t) BY DEF GInv, Guarded
    <3>2. e = "busy" BY <1>1, <1>2, <1>4, <1>7, <2>1, <3>1 DEF Busy
    <3> QED BY <2>1, <3>2
  <2>2. CASE s # t BY <1>1, <1>2, <1>4, <1>7, <2>2 DEF Busy
  <2> QED BY <2>1, <2>2
<1>8. ASSUME NEW s \in Tasks, UnderWay(w, s) PROVE UnderWay(w, s)'
  BY <1>1, <1>3, <1>4, <1>8 DEF UnderWay
<1> QED BY <1>6, <1>7, <1>8 DEF Keeps

LEMMA PushKeeps ==
  ASSUME TInv, GInv, SInv, NEW w \in Workers, NEW t \in Tasks, PushResult(w, t)
  PROVE  Keeps(w)
<1> DEFINE q == results[w]
<1>1. /\ pc[w][t] = "check" /\ Moves(w, t, "none") /\ SetErr(w, t, "none")
      /\ phase' = phase /\ todo' = todo /\ taskPos' = taskPos /\ killPos' = killPos
      /\ events' = events /\ table' = table /\ loop' = loop /\ taskLog' = taskLog
  BY DEF PushResult, Goto, Moves, watch, etcd
<1>2. /\ \A s \in Tasks : pc'[w][s] = IF s = t THEN "none" ELSE pc[w][s]
      /\ \A s \in Tasks : err'[w][s] = IF s = t THEN "none" ELSE err[w][s]
  <2>1. "none" \in PCs /\ "none" \in Errors BY DEF PCs, Errors
  <2>2. pc \in [Workers -> [Tasks -> PCs]] /\ err \in [Workers -> [Tasks -> Errors]]
    BY DEF TInv, LInv, PcType, ExecTypes
  <2>3. \A s \in Tasks : pc'[w][s] = IF s = t THEN "none" ELSE pc[w][s]
    BY <1>1, <2>1, <2>2, EntrySet DEF Moves
  <2>4. \A s \in Tasks : err'[w][s] = IF s = t THEN "none" ELSE err[w][s]
    BY <1>1, <2>1, <2>2, EntrySet DEF SetErr
  <2> QED BY <2>3, <2>4
<1>3. PICK r \in Outcomes : /\ r.task = t /\ (r.err = "busy" => err[w][t] = "busy")
                            /\ results' = [results EXCEPT ![w] = Append(q, r)]
  <2> DEFINE e == IF ctx[w][t] = "deadline" THEN "timeout" ELSE err[w][t]
  <2>1. e \in Errors BY DEF TInv, ExecTypes, Errors
  <2>2. [task |-> t, err |-> e] \in Outcomes BY <2>1 DEF Outcomes
  <2> QED BY <2>2 DEF PushResult
<1>4. q \in Seq(Outcomes) /\ Distinct(q) /\ ~About(q, t) /\ t \in table[w]
  BY <1>1 DEF TInv, QueueTypes, GInv, Guarded
<1>5. results'[w] = Append(q, r) BY <1>3 DEF TInv, QueueTypes
<1> HIDE DEF q
<1>6. /\ \A s : About(results[w], s)' <=> About(results[w], s) \/ s = t
      /\ \A s : Telling(results[w], s)'
                 <=> Telling(results[w], s) \/ (s = t /\ r.err # "busy")
  <2>1. /\ \A s : About(Append(q, r), s) <=> About(q, s) \/ s = t
        /\ \A s : Telling(Append(q, r), s) <=> Telling(q, s) \/ (s = t /\ r.err # "busy")
    BY <1>3, <1>4, PushOutcome
  <2>2. \A s : About(results[w], s)' <=> About(Append(q, r), s) BY <1>5 DEF About
  <2>3. \A s : Telling(results[w], s)' <=> Telling(Append(q, r), s) BY <1>5 DEF Telling
  <2> QED BY <2>1, <2>2, <2>3 DEF q
<1>7. /\ \A s : Awaits(w, s)' <=> Awaits(w, s)
      /\ \A s : Holds(w, s)' <=> Holds(w, s)
  BY <1>1 DEF Awaits, Holds, Saved
<1>8. phase[w] # "down" BY <1>1 DEF SInv, Sane
<1>9. Sane(w)'
  <2>1. table[w] \subseteq Tasks BY DEF TInv, ExecTypes
  <2> QED BY <1>1, <1>2, <1>6, <1>8, <2>1 DEF SInv, Sane
<1>10. ASSUME NEW s \in Tasks, Busy(w, s)' PROVE Busy(w, s)
  <2>1. CASE s = t
    <3>1. r.err = "busy" BY <1>2, <1>6, <1>10, <2>1 DEF Busy
    <3> QED BY <1>1, <1>3, <2>1, <3>1 DEF Busy
  <2>2. CASE s # t BY <1>2, <1>6, <1>10, <2>2 DEF Busy
  <2> QED BY <2>1, <2>2
<1>11. ASSUME NEW s \in Tasks, UnderWay(w, s), ~Busy(w, s) PROVE UnderWay(w, s)'
  <2>1. CASE s = t
    <3>1. r.err # "busy" BY <1>1, <1>3, <1>11, <2>1 DEF Busy
    <3> QED BY <1>6, <2>1, <3>1 DEF UnderWay
  <2>2. CASE s # t BY <1>1, <1>2, <1>6, <1>7, <1>11, <2>2 DEF UnderWay
  <2> QED BY <2>1, <2>2
<1> QED BY <1>9, <1>10, <1>11 DEF Keeps

LEMMA ExecutorKeeps ==
  ASSUME TInv, GInv, SInv, NEW w \in Workers, NEW t \in Tasks, Executor(w, t)
  PROVE  Keeps(w) /\ pending' = pending /\ taskDir' = taskDir /\ taskLog' = taskLog
<1>1. pending' = pending /\ taskDir' = taskDir /\ taskLog' = taskLog
  BY DEF Executor, TryLock, TryLockWin, TryLockBusy, TryLockError, StartCommand,
     FinishCommand, Revoke, PushResult, etcd, history
<1> SUFFICES Keeps(w)
  BY <1>1
<1> DEFINE Kept == UNCHANGED <<watch, queues, table, loop>>
<1>2. err[w][t] \in Errors /\ (err[w][t] = "busy" => pc[w][t] = "check")
  BY DEF TInv, ExecTypes, SInv, Sane
<1>3. CASE TryLockWin(w, t)
  <2>1. Kept /\ pc[w][t] = "lock" /\ Moves(w, t, "start") /\ err' = err
    BY <1>3 DEF TryLockWin, Goto, Moves
  <2>2. "start" \in PCs BY DEF PCs
  <2> QED BY <1>1, <1>2, <2>1, <2>2, GoesKeeps
<1>4. CASE TryLockBusy(w, t)
  <2>1. Kept /\ pc[w][t] = "lock" /\ Moves(w, t, "check") /\ SetErr(w, t, "busy")
    BY <1>4 DEF TryLockBusy, Goto, Moves
  <2>2. "check" \in PCs /\ "busy" \in Errors BY DEF PCs, Errors
  <2> QED BY <1>1, <1>4, <2>1, <2>2, GoesKeeps
<1>5. CASE TryLockError(w, t)
  <2>1. PICK to \in {"check", "revoke"} :
          Kept /\ pc[w][t] = "lock" /\ Moves(w, t, to) /\ SetErr(w, t, "txn_error")
    BY <1>5 DEF TryLockError, Goto, Moves
  <2>2. to \in PCs /\ "txn_error" \in Errors BY DEF PCs, Errors
  <2> QED BY <1>1, <2>1, <2>2, GoesKeeps
<1>6. CASE StartCommand(w, t)
  <2>1. Kept /\ pc[w][t] = "start"
        /\ \/ Moves(w, t, "run") /\ err' = err
           \/ Moves(w, t, "revoke") /\ SetErr(w, t, "error")
    BY <1>6 DEF StartCommand, Goto, Moves
  <2>2. "run" \in PCs /\ "revoke" \in PCs /\ "error" \in Errors BY DEF PCs, Errors
  <2>3. CASE Moves(w, t, "run") /\ err' = err BY <1>1, <1>2, <2>1, <2>2, <2>3, GoesKeeps
  <2>4. CASE Moves(w, t, "revoke") /\ SetErr(w, t, "error")
    BY <1>1, <2>1, <2>2, <2>4, GoesKeeps
  <2> QED BY <2>1, <2>3, <2>4
<1>7. CASE FinishCommand(w, t)
  <2>1. PICK e \in {"ok", "error"} :
          Kept /\ pc[w][t] = "run" /\ Moves(w, t, "revoke") /\ SetErr(w, t, e)
    BY <1>7 DEF FinishCommand, Goto, Moves
  <2>2. "revoke" \in PCs /\ e \in Errors BY DEF PCs, Errors
  <2> QED BY <1>1, <2>1, <2>2, GoesKeeps
<1>8. CASE Revoke(w, t)
  <2>1. Kept /\ pc[w][t] = "revoke" /\ Moves(w, t, "check") /\ err' = err
    BY <1>8 DEF Revoke, Goto, Moves
  <2>2. "check" \in PCs BY DEF PCs
  <2> QED BY <1>1, <1>2, <2>1, <2>2, GoesKeeps
<1> QED BY <1>3, <1>4, <1>5, <1>6, <1>7, <1>8, PushKeeps DEF Executor, TryLock

LEMMA CrashKeeps ==
  ASSUME TInv, NEW w \in Workers, Crash(w)
  PROVE  Keeps(w) /\ pending' = pending /\ taskDir' = taskDir /\ taskLog' = taskLog
<1>1. /\ phase'[w] = "down" /\ killPos'[w] = NotWatching /\ events'[w] = <<>>
      /\ results'[w] = <<>> /\ table'[w] = {}
      /\ pc'[w] = [t \in Tasks |-> "none"] /\ err'[w] = [t \in Tasks |-> "none"]
  BY DEF Crash, TInv, LInv, PcType, DirTypes, WatchTypes, QueueTypes, ExecTypes
<1>2. Sane(w)' BY <1>1 DEF Sane
<1>3. \A t \in Tasks : ~Busy(w, t)' BY <1>1 DEF Busy, About
<1>4. \A t \in Tasks : UnderWay(w, t)' BY <1>1 DEF UnderWay
<1> QED BY <1>2, <1>3, <1>4 DEF Keeps, Crash, etcd, history

LEMMA DeadlineKeeps ==
  ASSUME TInv, SInv, NEW w \in Workers, NEW t \in Tasks, Deadline(w, t)
  PROVE  Keeps(w) /\ pending' = pending /\ taskDir' = taskDir /\ taskLog' = taskLog
<1>1. /\ UNCHANGED <<phase, todo, taskPos, killPos, events, results, table, pc, err, loop>>
      /\ pending' = pending /\ taskDir' = taskDir /\ taskLog' = taskLog
  BY DEF Deadline, etcd, watch, queues, history
<1>2. /\ \A s : Busy(w, s)' <=> Busy(w, s)
      /\ \A s : Telling(results[w], s)' <=> Telling(results[w], s)
      /\ \A s : About(results[w], s)' <=> About(results[w], s)
  BY <1>1, SameBusy
<1>3. /\ \A s : Awaits(w, s)' <=> Awaits(w, s)
      /\ \A s : Holds(w, s)' <=> Holds(w, s)
  BY <1>1 DEF Awaits, Holds, Saved
<1>4. Sane(w)' BY <1>1, <1>2 DEF SInv, Sane
<1>5. \A s \in Tasks : UnderWay(w, s) => UnderWay(w, s)'
  BY <1>1, <1>2, <1>3 DEF UnderWay
<1> QED BY <1>1, <1>2, <1>4, <1>5 DEF Keeps

LEMMA ActsKeeps ==
  ASSUME TInv, GInv, SInv, Recoverable, Roomy, PendingUnderWay, NEW w \in Workers, Acts(w)
  PROVE  /\ Keeps(w) /\ taskDir' = taskDir /\ taskLog' = taskLog
         /\ pending' \subseteq pending
<1>1. CASE Watchers(w) BY <1>1, WatchersKeep
<1>2. CASE Loop(w) BY <1>2, LoopKeeps
<1>3. CASE Crash(w) BY <1>3, CrashKeeps
<1>4. ASSUME NEW t \in Tasks, Executor(w, t) \/ Deadline(w, t)
      PROVE  /\ Keeps(w) /\ taskDir' = taskDir /\ taskLog' = taskLog
             /\ pending' \subseteq pending
  BY <1>4, ExecutorKeeps, DeadlineKeeps
<1> QED BY <1>1, <1>2, <1>3, <1>4 DEF Acts

(* What a worker that does not step has under way stays so. *)
LEMMA OthersKeep ==
  ASSUME NEW v \in Workers, UNCHANGED <<taskLog>>,
         phase'[v] = phase[v], todo'[v] = todo[v], taskPos'[v] = taskPos[v],
         killPos'[v] = killPos[v], events'[v] = events[v], results'[v] = results[v],
         table'[v] = table[v], pc'[v] = pc[v], err'[v] = err[v], loop'[v] = loop[v]
  PROVE  /\ Sane(v) => Sane(v)'
         /\ \A t : Busy(v, t)' <=> Busy(v, t)
         /\ \A t : UnderWay(v, t)' <=> UnderWay(v, t)
<1>1. /\ \A t : Busy(v, t)' <=> Busy(v, t)
      /\ \A t : About(results[v], t)' <=> About(results[v], t)
      /\ \A t : Telling(results[v], t)' <=> Telling(results[v], t)
  BY SameBusy
<1>2. \A t : Awaits(v, t)' <=> Awaits(v, t) BY DEF Awaits, Saved
<1>3. \A t : Holds(v, t)' <=> Holds(v, t) BY DEF Holds, Saved
<1>4. Sane(v) => Sane(v)' BY <1>1 DEF Sane
<1>5. \A t : UnderWay(v, t)' <=> UnderWay(v, t) BY <1>1, <1>2, <1>3 DEF UnderWay
<1> QED BY <1>1, <1>4, <1>5

(* Who finds the lock taken relies on its owner, who is not itself refused. *)
LEMMA OwnerWorks ==
  ASSUME TInv, GInv, SInv, HolderKnown, NEW w \in Workers, NEW t \in Tasks, TryLockBusy(w, t)
  PROVE  \E v \in Workers : v # w /\ UnderWay(v, t) /\ ~Busy(v, t)
<1>1. PICK v \in Workers : v = lock[t]
  BY DEF TryLockBusy, TInv, LInv, LockType
<1>2. pc[w][t] = "lock" /\ phase[w] # "down"
  BY DEF TryLockBusy, Goto, SInv, Sane
<1>3. phase[v] = "down" \/ pc[v][t] \in {"start", "run", "revoke"}
  BY <1>1 DEF HolderKnown
<1>4. v # w BY <1>2, <1>3
<1>5. UnderWay(v, t) BY <1>3 DEF UnderWay
<1>6. ~Busy(v, t)
  <2>1. CASE phase[v] = "down" BY <2>1 DEF SInv, Sane, Busy, About
  <2>2. CASE pc[v][t] \in {"start", "run", "revoke"} BY <2>2 DEF GInv, Guarded, Busy
  <2> QED BY <1>3, <2>1, <2>2
<1> QED BY <1>4, <1>5, <1>6

(* A submission reaches every worker; nothing else the front end does matters. *)
LEMMA FrontEndAdds ==
  ASSUME TInv, SInv, NEW s \in Tasks, SaveTask(s) \/ RemoveTask(s) \/ KillTask(s)
  PROVE  /\ SInv'
         /\ \A v \in Workers, t \in Tasks : Busy(v, t)' <=> Busy(v, t)
         /\ \A v \in Workers, t \in Tasks : UnderWay(v, t) => UnderWay(v, t)'
         /\ SaveTask(s) => \A v \in Workers : UnderWay(v, s)'
<1>1. /\ phase' = phase /\ todo' = todo /\ taskPos' = taskPos /\ killPos' = killPos
      /\ events' = events /\ results' = results /\ table' = table /\ pc' = pc /\ err' = err
      /\ loop' = loop
  BY DEF SaveTask, RemoveTask, KillTask, watch, queues, exec
<1>2. \A v \in Workers : /\ \A t : Busy(v, t)' <=> Busy(v, t)
                         /\ \A t : About(results[v], t)' <=> About(results[v], t)
                         /\ \A t : Telling(results[v], t)' <=> Telling(results[v], t)
  BY <1>1, SameBusy
<1>3. SInv' BY <1>1, <1>2 DEF SInv, Sane
<1>4. \A v \in Workers, t \in Tasks : Holds(v, t)' <=> Holds(v, t)
  BY <1>1 DEF Holds, Saved
<1>5. taskLog \in Seq(Event) /\ Len(taskLog) \in Nat
      /\ \A v \in Workers : taskPos[v] \in 0..Len(taskLog)
  BY DEF TInv, DirTypes
<1>6. \/ taskLog' = taskLog /\ ~SaveTask(s)
      \/ \E e \in Event : taskLog' = Append(taskLog, e) /\ (SaveTask(s) => e = Saved(s))
  BY DEF SaveTask, RemoveTask, KillTask, Saved, Event
<1> DEFINE Longer ==
             /\ Len(taskLog') \in Nat /\ Len(taskLog') >= Len(taskLog)
             /\ \A i \in 1..Len(taskLog) : taskLog'[i] = taskLog[i]
             /\ SaveTask(s) => /\ Len(taskLog') = Len(taskLog) + 1
                             /\ taskLog'[Len(taskLog')] = Saved(s)
<1>7. Longer
  <2>1. CASE taskLog' = taskLog /\ ~SaveTask(s) BY <1>5, <2>1
  <2>2. ASSUME NEW e \in Event, taskLog' = Append(taskLog, e), SaveTask(s) => e = Saved(s)
        PROVE  Longer
    <3>1. /\ Len(Append(taskLog, e)) = Len(taskLog) + 1
          /\ \A i \in 1..Len(taskLog) : Append(taskLog, e)[i] = taskLog[i]
          /\ Append(taskLog, e)[Len(taskLog) + 1] = e
      BY <1>5, PutLast
    <3> QED BY <1>5, <2>2, <3>1
  <2> QED BY <1>6, <2>1, <2>2
<1>8. ASSUME NEW v \in Workers, NEW t \in Tasks, Awaits(v, t) PROVE Awaits(v, t)'
  <2>1. PICK i \in taskPos[v] + 1 .. Len(taskLog) : taskLog[i] = Saved(t)
    BY <1>8 DEF Awaits
  <2>2. i \in 1..Len(taskLog) /\ i \in taskPos[v] + 1 .. Len(taskLog')
    BY <1>5, <1>7, <2>1
  <2>3. taskLog'[i] = Saved(t) BY <1>7, <2>1, <2>2
  <2> QED BY <1>1, <2>2, <2>3 DEF Awaits, Saved
<1>9. ASSUME SaveTask(s), NEW v \in Workers PROVE Awaits(v, s)'
  <2>1. Len(taskLog') \in taskPos[v] + 1 .. Len(taskLog') BY <1>5, <1>7, <1>9
  <2>2. taskLog'[Len(taskLog')] = Saved(s) BY <1>7, <1>9
  <2> QED BY <1>1, <2>1, <2>2 DEF Awaits, Saved
<1>10. ASSUME NEW v \in Workers, NEW t \in Tasks, UnderWay(v, t) PROVE UnderWay(v, t)'
  BY <1>1, <1>2, <1>4, <1>8, <1>10 DEF UnderWay
<1> QED BY <1>2, <1>3, <1>9, <1>10 DEF UnderWay
(* What the owner of a lock does with it, when it cannot fail to give it back. *)
LEMMA HolderStays ==
  ASSUME Recoverable, TInv, GInv, SInv, HolderKnown, [Next]_vars
  PROVE  HolderKnown'
<1> DEFINE Known(w, t) == lock[t] = w => phase[w] = "down" \/ pc[w][t] \in {"start", "run", "revoke"}
<1> SUFFICES ASSUME NEW v \in Workers, NEW s \in Tasks PROVE Known(v, s)'
  BY DEF HolderKnown
<1>1. Known(v, s) BY DEF HolderKnown
<1>2. v # NoOwner BY NoOwnerAssumption
<1>3. ASSUME UNCHANGED <<lock, phase, pc>> PROVE Known(v, s)' BY <1>1, <1>3
<1>4. CASE FrontEnd
  BY <1>3, <1>4 DEF FrontEnd, SaveTask, RemoveTask, KillTask, watch, exec
<1>5. ASSUME NEW w \in Workers, Watchers(w) PROVE Known(v, s)'
  <2>1. CASE StartWatchTasks(w)
    BY <1>1, <2>1 DEF StartWatchTasks, exec, Recoverable, TInv, WatchTypes
  <2>2. CASE FullSync(w) BY <1>1, <2>2 DEF FullSync, exec, TInv, WatchTypes
  <2>3. CASE WatchTasks(w) \/ StartWatchKiller(w) \/ WatchKiller(w)
    BY <1>3, <2>3 DEF WatchTasks, StartWatchKiller, WatchKiller, exec
  <2> QED BY <1>5, <2>1, <2>2, <2>3 DEF Watchers
<1>6. ASSUME NEW w \in Workers, Loop(w) PROVE Known(v, s)'
  <2>1. CASE SolveSave(w)
    <3> DEFINE u == Head(events[w]).task
    <3>1. lock' = lock /\ phase' = phase BY <2>1 DEF SolveSave, watch
    <3>2. u \in Tasks BY <2>1, TakeTypes DEF SolveSave, TInv
    <3>3. CASE u \in table[w] BY <1>3, <2>1, <3>1, <3>3 DEF SolveSave, exec
    <3>4. CASE u \notin table[w]
      <4>1. pc[w][u] = "none" BY <3>2, <3>4 DEF GInv, Guarded
      <4>2. pc' = [pc EXCEPT ![w][u] = "lock"] BY <2>1, <3>4 DEF SolveSave
      <4>3. pc'[v][s] = pc[v][s] \/ pc[v][s] = "none"
        <5> HIDE DEF u
        <5> QED BY <3>2, <4>1, <4>2 DEF TInv, LInv, PcType
      <4> QED BY <1>1, <3>1, <4>3
    <3> QED BY <3>3, <3>4
  <2>2. CASE SolveDelete(w) \/ SolveKill(w) \/ SolveTaskExecResult(w) \/ NotifyTask(w)
    BY <1>3, <2>2 DEF SolveDelete, SolveKill, SolveTaskExecResult, NotifyTask, watch, exec
  <2> QED BY <1>6, <2>1, <2>2 DEF Loop
<1>7. ASSUME NEW w \in Workers, NEW t \in Tasks, NEW to \in PCs, Moves(w, t, to),
             phase' = phase, lock' = lock,
             to \in {"start", "run", "revoke"} \/ pc[w][t] \notin {"start", "run", "revoke"}
      PROVE  Known(v, s)'
  <2>1. pc'[v][s] = IF v = w /\ s = t THEN to ELSE pc[v][s]
    BY <1>7, EntrySet DEF Moves, TInv, LInv, PcType
  <2> QED BY <1>1, <1>7, <2>1
<1>8. ASSUME NEW w \in Workers, NEW t \in Tasks, NEW to \in {"start", "revoke"},
             Moves(w, t, to), phase' = phase, lock' = [lock EXCEPT ![t] = w]
      PROVE  Known(v, s)'
  <2>1. to \in PCs BY DEF PCs
  <2>2. pc'[v][s] = IF v = w /\ s = t THEN to ELSE pc[v][s]
    BY <1>8, <2>1, EntrySet DEF Moves, TInv, LInv, PcType
  <2>3. lock'[s] = IF s = t THEN w ELSE lock[s] BY <1>8 DEF TInv, LInv, LockType
  <2> QED BY <1>1, <1>8, <2>2, <2>3
<1>9. ASSUME NEW w \in Workers, NEW t \in Tasks, Executor(w, t) \/ Deadline(w, t)
      PROVE  Known(v, s)'
  <2> USE DEF Goto, Moves, PCs, watch
  <2>1. CASE TryLockWin(w, t) BY <1>8, <2>1 DEF TryLockWin
  <2>2. CASE TryLockBusy(w, t) BY <1>7, <2>2 DEF TryLockBusy
  <2>3. CASE TryLockError(w, t) BY <1>7, <1>8, <2>3 DEF TryLockError
  <2>4. CASE StartCommand(w, t) BY <1>7, <2>4 DEF StartCommand
  <2>5. CASE FinishCommand(w, t) BY <1>7, <2>5 DEF FinishCommand
  <2>6. CASE Revoke(w, t)
    <3>1. ~Fault("revoke") BY DEF Recoverable, Fault
    <3>2. lock' = IF lock[t] = w THEN [lock EXCEPT ![t] = NoOwner] ELSE lock
      BY <2>6, <3>1 DEF Revoke
    <3>3. phase' = phase BY <2>6 DEF Revoke
    <3>4. pc'[v][s] = IF v = w /\ s = t THEN "check" ELSE pc[v][s]
      BY <2>6, EntrySet DEF Revoke, TInv, LInv, PcType
    <3>5. lock'[s] = v => lock[s] = v /\ ~(v = w /\ s = t)
      BY <1>2, <3>2 DEF TInv, LInv, LockType
    <3> QED BY <1>1, <3>3, <3>4, <3>5
  <2>7. CASE PushResult(w, t) BY <1>7, <2>7 DEF PushResult
  <2>8. CASE Deadline(w, t) BY <1>3, <2>8 DEF Deadline
  <2> QED BY <1>9, <2>1, <2>2, <2>3, <2>4, <2>5, <2>6, <2>7, <2>8 DEF Executor, TryLock
<1>10. ASSUME NEW w \in Workers, Crash(w) PROVE Known(v, s)'
  <2>1. lock' = lock /\ phase'[w] = "down" /\ (v # w => phase'[v] = phase[v] /\ pc'[v] = pc[v])
    BY <1>10 DEF Crash, TInv, WatchTypes, LInv, PcType
  <2> QED BY <1>1, <2>1
<1>11. ASSUME NEW t \in Tasks, LeaseExpires(t) \/ LeaseLost(t) PROVE Known(v, s)'
  <2>1. lock' = [lock EXCEPT ![t] = NoOwner] /\ phase' = phase /\ pc' = pc
    BY <1>11 DEF LeaseExpires, LeaseLost, watch, exec
  <2>2. lock'[s] = v => lock[s] = v BY <1>2, <2>1 DEF TInv, LInv, LockType
  <2> QED BY <1>1, <2>1, <2>2
<1>12. CASE UNCHANGED vars BY <1>3, <1>12 DEF vars, watch, exec
<1> QED BY <1>4, <1>5, <1>6, <1>9, <1>10, <1>11, <1>12 DEF Next

(* One step: what is pending stays under way. *)
Progress == SInv /\ SomeoneFree /\ PendingUnderWay

LEMMA ActsProgress ==
  ASSUME TInv, GInv, HolderKnown, Progress, Recoverable, Roomy, NEW w \in Workers, Acts(w)
  PROVE  Progress'
<1>1. Keeps(w) /\ taskDir' = taskDir /\ taskLog' = taskLog /\ pending' \subseteq pending
  BY ActsKeeps DEF Progress
<1>2. ASSUME NEW v \in Workers, v # w
      PROVE  /\ Sane(v)'
             /\ \A t : Busy(v, t)' <=> Busy(v, t)
             /\ \A t : UnderWay(v, t)' <=> UnderWay(v, t)
  <2>1. Sane(v) BY DEF Progress, SInv
  <2> QED BY <1>1, <1>2, <2>1, Local, OthersKeep
<1>3. SInv' BY <1>1, <1>2 DEF Keeps, SInv
<1>4. ASSUME NEW t \in Tasks, TryLockBusy(w, t)
      PROVE  \E v \in Workers : UnderWay(v, t)' /\ ~Busy(v, t)'
  BY <1>2, <1>4, OwnerWorks DEF Progress
<1>5. ASSUME NEW t \in Tasks PROVE \E v \in Workers : ~Busy(v, t)'
  <2>1. PICK v \in Workers : ~Busy(v, t) BY DEF Progress, SomeoneFree
  <2>2. CASE v # w BY <1>2, <2>1, <2>2
  <2>3. CASE v = w BY <1>1, <1>4, <2>1, <2>3 DEF Keeps
  <2> QED BY <2>2, <2>3
<1>6. ASSUME NEW t \in pending'
      PROVE  t \in taskDir' /\ \E v \in Workers : UnderWay(v, t)' /\ ~Busy(v, t)'
  <2>1. t \in pending /\ t \in taskDir' /\ t \in Tasks
    BY <1>1, <1>6 DEF Progress, PendingUnderWay, TInv, CountTypes
  <2>2. PICK v \in Workers : UnderWay(v, t) /\ ~Busy(v, t)
    BY <2>1 DEF Progress, PendingUnderWay
  <2>3. CASE v # w BY <1>2, <2>1, <2>2, <2>3
  <2>4. CASE v = w BY <1>1, <1>4, <1>6, <2>1, <2>2, <2>4 DEF Keeps
  <2> QED BY <2>1, <2>3, <2>4
<1>7. SomeoneFree' BY <1>5 DEF SomeoneFree
<1>8. PendingUnderWay' BY <1>6 DEF PendingUnderWay
<1> QED BY <1>3, <1>7, <1>8 DEF Progress

LEMMA FrontEndProgress ==
  ASSUME TInv, Progress, FrontEnd
  PROVE  Progress'
<1>1. PICK s \in Tasks : SaveTask(s) \/ RemoveTask(s) \/ KillTask(s) BY DEF FrontEnd
<1>2. /\ SInv'
      /\ \A v \in Workers, t \in Tasks : Busy(v, t)' <=> Busy(v, t)
      /\ \A v \in Workers, t \in Tasks : UnderWay(v, t) => UnderWay(v, t)'
      /\ SaveTask(s) => \A v \in Workers : UnderWay(v, s)'
  BY <1>1, FrontEndAdds DEF Progress
<1>3. SomeoneFree' BY <1>2 DEF Progress, SomeoneFree
<1>4. ASSUME NEW t \in pending'
      PROVE  t \in taskDir' /\ \E v \in Workers : UnderWay(v, t)' /\ ~Busy(v, t)'
  <2>1. CASE SaveTask(s) /\ t = s
    <3>1. PICK v \in Workers : ~Busy(v, s) BY DEF Progress, SomeoneFree
    <3> QED BY <1>2, <2>1, <3>1 DEF SaveTask
  <2>2. CASE ~(SaveTask(s) /\ t = s)
    <3>1. t \in pending /\ (t \in taskDir => t \in taskDir') /\ t \in Tasks
      BY <1>1, <1>4, <2>2 DEF SaveTask, RemoveTask, KillTask, history, TInv, CountTypes
    <3>2. PICK v \in Workers : t \in taskDir /\ UnderWay(v, t) /\ ~Busy(v, t)
      BY <3>1 DEF Progress, PendingUnderWay
    <3> QED BY <1>2, <3>1, <3>2
  <2> QED BY <2>1, <2>2
<1>5. PendingUnderWay' BY <1>4 DEF PendingUnderWay
<1> QED BY <1>2, <1>3, <1>5 DEF Progress

LEMMA NextProgress ==
  ASSUME TInv, GInv, HolderKnown, Progress, Recoverable, Roomy, [Next]_vars
  PROVE  Progress'
<1>1. ASSUME UNCHANGED <<etcd, watch, queues, exec, loop, pending>> PROVE Progress'
  <2>1. /\ phase' = phase /\ todo' = todo /\ taskPos' = taskPos /\ killPos' = killPos
        /\ events' = events /\ results' = results /\ table' = table /\ pc' = pc
        /\ err' = err /\ loop' = loop /\ pending' = pending /\ taskDir' = taskDir
        /\ taskLog' = taskLog
    BY <1>1 DEF etcd, watch, queues, exec
  <2>2. \A v \in Workers : /\ Sane(v) => Sane(v)'
                           /\ \A t : Busy(v, t)' <=> Busy(v, t)
                           /\ \A t : UnderWay(v, t)' <=> UnderWay(v, t)
    BY <2>1, OthersKeep
  <2> QED BY <2>1, <2>2 DEF Progress, SInv, SomeoneFree, PendingUnderWay
<1>2. ASSUME NEW t \in Tasks, LeaseExpires(t) \/ LeaseLost(t) PROVE Progress'
  BY <1>1, <1>2 DEF LeaseExpires, LeaseLost, history
<1>3. CASE UNCHANGED vars BY <1>1, <1>3 DEF vars, history
<1>4. ASSUME NEW w \in Workers, Acts(w) PROVE Progress'
  BY <1>4, ActsProgress
<1> QED BY <1>2, <1>3, <1>4, FrontEndProgress DEF Next, Acts

LEMMA InitProgress == Recoverable /\ Init => HolderKnown /\ Progress
<1> SUFFICES ASSUME Recoverable, Init PROVE HolderKnown /\ Progress
  OBVIOUS
<1>1. HolderKnown BY NoOwnerAssumption DEF Init, HolderKnown
<1>2. \A w \in Workers, t \in Tasks : ~About(results[w], t) BY DEF Init, About
<1>3. SInv BY DEF Init, SInv, Sane
<1>4. SomeoneFree BY <1>2 DEF Recoverable, Init, SomeoneFree, Busy
<1>5. PendingUnderWay BY DEF Init, PendingUnderWay
<1> QED BY <1>1, <1>3, <1>4, <1>5 DEF Progress

(* No submission is forgotten, whatever crashes, fails in TryLock, loses its lease
   or its deadline: it is still in the directory, and some worker that does not rely
   on another one has it ahead of it, in its queue, in a goroutine, or as a result
   it will report.  This is what SubmissionAnswered needs of every state; it holds
   as long as no event channel is full, since PushTaskEvent drops what does not fit. *)
THEOREM NoneForgotten ==
  ASSUME Recoverable
  PROVE  Spec /\ []Roomy => []PendingUnderWay
<1>1. Init => HolderKnown /\ Progress BY InitProgress
<1>2. TInv /\ GInv /\ Roomy /\ HolderKnown /\ Progress /\ [Next]_vars
        => HolderKnown' /\ Progress'
  BY HolderStays, NextProgress DEF Progress
<1>3. Progress => PendingUnderWay BY DEF Progress
<1> QED BY <1>1, <1>2, <1>3, TypesInvariant, GuardsInvariant, PTL DEF Spec
=============================================================================
