# Verification of gys_crack

`gys_crack` runs identification tasks on a cluster.  A front-end API server
(`src/crack_front_api_server`) takes requests over HTTP and stores tasks in etcd;
back-end workers (`src/crack_back_worker_server`) watch etcd, compete for each
task with a distributed lock, run it as a Python command, and report the result
through etcd, MongoDB and Kafka.  There are no tests in the repository, and every
interesting promise (one execution per task, an answer for every request, no log
lost) depends on interleavings of processes that share nothing but etcd.

This directory holds TLA+ modules for those parts, TLC configurations that check
them on small instances, and TLAPS proofs about eight parts, for any number of
processes: the lock, the cluster of workers that use it, the task logger, the
request that waits for its task, the leader election with the leader's alerter, the
user accounts, the worker register and the transport of alarms.  Every invariant and
every action property of a passing run is a theorem; liveness is model-checked.

Below, BACK is `src/crack_back_worker_server/src`, FRONT is
`src/crack_front_api_server/src`.

## 1. Inventory

| Component | Source | State | Operations | Modelled in |
|---|---|---|---|---|
| Distributed task lock | BACK `worker/lock/lock.go` | lease, cancel function, `locked`; the key in `LockDir` | `TryLock`, `UnLock`, the goroutine that reads renewals | `TaskLock`, abstractly `LockService` |
| Scheduler | BACK `worker/scheduler/scheduler.go` | `EventChan`, `ExecResultChan`, `ExecStatus` | `loop`, `solveTaskEvent`, `solveTaskExecResult`, `ExecTask`, `PushTaskEvent`, `PushTaskExecResult` | `WorkerCluster` |
| Executor | BACK `worker/executor/executor.go` | one goroutine per attempt | `ExecTask` | `WorkerCluster` |
| Worker task manager | BACK `worker/taskManager/taskManager.go` | two etcd watches | `WatchTasks`, `WatchKiller` | `WorkerCluster` |
| Notifier | BACK `worker/notifier/notifier.go` | keys in `FinishDir`, `FailDir` | `NotifyTaskFinished`, `NotifyTaskFailed` | `WorkerCluster`, `IdentifyRequest` |
| Task logger | BACK `worker/taskLogger/logSink.go` | the current batch, its timer, two channels | `loop`, `logSink`, `PushTaskLog` | `TaskLogger` |
| Front-end task manager | FRONT `master/taskManager/taskManager.go` | `TaskDir`, `KillerDir` | `SaveTask`, `RemoveTask`, `KillTask`, `WatchDir`, `WatchTask` | `WorkerCluster`, `IdentifyRequest` |
| Request handlers | FRONT `master/controller/controller.go` | per request only | `CrackIdentify`, `Register`, `Login`, and handlers that forward or read | `IdentifyRequest`, `UserAccounts`, `WorkerCluster` (`RemoveTask`, `KillTask`), `WorkerRegister` (`GetWorkers`) |
| Worker alerter | BACK `worker/alerter/alerter.go` | Kafka topic, one-second keys in `WarnDir` | `Push`, `ConsumeClaim`, `moveToEtcd` | `WarnTransport`; what follows in `AlertPipeline` |
| Leader election | FRONT `master/elector/elector.go` | the leader key, `isLeader`, one term's context | `loop` | `Elector` |
| Leader's alerter | FRONT `master/alerter/alerter.go` | a watch on `WarnDir`, `warnMessageChan` | `Start`, `loop` | `AlertPipeline` |
| Worker register | BACK `worker/register/workerRegister.go`, FRONT `master/workerManager` | leased key in `WorkersDir` | `keepAlive`, `GetWorkers` | `WorkerRegister` |
| User accounts | FRONT `master/user`, `Register`, `Login` | a MySQL table | check, insert, read back; log in | `UserAccounts` |
| Start-up of a worker | BACK `main.go` | `normalQuit`, `err`, two goroutines | `main` | `WorkerRegister` (from the registration on) |
| Log query, routing, middleware, file loggers, configuration | the rest | none of their own | input and output | not modelled |

How they interact:

    user --CrackIdentify--> front end --put--> TaskDir --watch--> EventChan of every worker
    user --KillTask-------> front end --put--> KillerDir --watch--> EventChan of every worker
    scheduler loop --go--> executor goroutine --txn--> LockDir (lease)
    executor --ExecResultChan--> scheduler loop --chan--> task logger --> MongoDB
                                               --put--> FinishDir / FailDir --watch--> CrackIdentify
                                               --producer--> Kafka --consumer group of all workers--> WarnDir
    WarnDir --watch--> leader's alerter
    worker main --go--> keepAlive --put (lease)--> WorkersDir --get--> GetWorkers
    user --Register, Login--> front end --query--> MySQL
    master elector --txn--> leader key (lease); a new leader --go--> alerter Start

What is hard:

* Every worker is sent every task.  Exactly one must run it, and the losers
  forget it without a trace, so somebody must have won it.
* The lock is a lease.  It ends by itself, it may be lost under its holder, the
  transaction that takes it may be applied without an answer, and the call that
  gives it back may fail.
* Contexts carry deadlines and kills from the scheduler into a goroutine which is
  in the lock, in the command, or already unlocking.
* Channels have limits: `EventChan` drops, `notifyChan` and `taskLogChan` block.
* A worker that restarts knows nothing but what is in `TaskDir`, and nothing is
  ever removed from `TaskDir` when it is done.
* A request watches for its result after it has submitted its task.
* A master's goroutines of earlier terms read the variables of the present one, and
  may still hold alarms when the next term begins.
* The logger's timer closure reads the variable of the loop, not the batch it was
  made for.
* Registrations check a name and an address by queries of their own before they
  insert, and read their row back by name; each query may fail.
* The register gives leases up without revoking them, so that a later lease of the
  same worker, or of a process that was restarted, meets earlier ones.
* The goroutines of a worker's `main` share one variable `err`, and one of them may
  report before there is a channel to report on.
* Kafka's consumers change while messages are in flight; a session that lost its
  partition fetches it until it hears of that, no offset is committed, and a consumer
  whose session ended does not come back.

What makes each component correct:

* *Lock*: no two holders of a key while renewals work; at most one holder with a
  live lease whatever happens; nobody frees the key of another; a refusal means
  that there is a rival; every key is given back.
* *Scheduler and executor*: the execution table and the goroutines agree; every
  lock won leads to one log and one notification; a kill under way stops the
  command; every submission is answered, across a crash.
* *Task logger*: no log twice, none forgotten, none waiting for ever.
* *Request*: the reply is about something that happened after the request; a
  notice that meets a watch which goes on wakes the request.
* *Elector*: a leader with a live lease owns the leader key; a leader is told when
  its lease is gone.
* *Leader's alerter*: an alarm put under a watch is reported, and no alarm is
  reported twice.
* *User accounts*: no two users share a name or an address; a token belongs to the
  account it was released for; who is told of a success can log in.
* *Worker register*: a worker that renews is listed, the dead disappear, and a
  worker that hears of no task leaves.
* *Transport of alarms*: no message is put twice unless a session fetched it that had
  lost the partition, an assigned partition is worked off, and alarms do not block the
  scheduler.

The complete list of hazards, with the line where each one bites and the property
that covers it, is in `PROJECT.json`.

## 2. Plan

1. `LockService`, `TaskLock`, proofs.  (done)
2. `WorkerCluster`, the composition of watchers, scheduler, executor, lock and
   notifier, refining `LockService` again.  (done)
3. `TaskLogger`, proofs.  (done)
4. `IdentifyRequest`, the other end of the notifications.  (done)
5. `Elector`, and `AlertPipeline` which extends it with the watch of each term,
   `warnMessageChan` and the puts into `WarnDir`.  (done)
6. `UserAccounts`, `WorkerRegister`, `WarnTransport`, proofs.  (done)
7. Proofs about `WorkerCluster`: `MutualExclusion` and the refinement of
   `LockService`; `TypeOK`, `TableGuards`, `OverlapNeedsLostLease` and
   `EveryWinReported`, for any number of workers and tasks.  (done)
8. Proofs about `Elector` (`LeaderFenced`, `LeaderWillHear`), `AlertPipeline`
   (`NotNotifiedTwice`) and `IdentifyRequest` (`FreshReply`).  (done)
9. The safety halves of the liveness properties, as `NothingSkipped` is that of
   `LeaderKeepsUp`, and `NoneForgotten` that of `SubmissionAnswered`.  (done)

Parameters are constants with named or small assumptions, every operation is one
action, and no module has a RECURSIVE operator, so that all of them can be proved
about.

## 3. Modules

### LockService

The abstract lock: `holder` says who is registered at a key, `using` who acts as
if it held it.  A client is registered only at a free key (`Acquire`, or `Orphan`
if it never learns of it), clients stop using keys at any time (`Stop`), and the
service frees a key (`Free`), which it does not do to a client of `Reliable` that
still uses it.  Clients of `Reliable` exclude each other.

### TaskLock

`lock.go`, call by call.  An *attempt* is one executor goroutine with its own
`TaskLock` object.

| Model | Code |
|---|---|
| `pc` "grant", "keepalive", "txn" | the three etcd calls of `TryLock` (66-123) |
| `pc` "failing" / "held" | label `FAIL_GET_LOCK` (127) / `TryLock` returned nil; the command runs |
| `Cancel` | `cancelFunc()`, in both `TryLock` and `UnLock` |
| `Revoke`, `RevokeError` | `lease.Revoke`; its error is logged only |
| `lease`, `lockKey`, `EndLease`, `Expire` | etcd: keys die with their lease |
| `renewing` | the client library's renewal, until cancelled |
| `result` | the error of `TryLock`; "ok" stands for `This.locked` |
| `Crash` | the worker process |

A failing call may or may not have been applied by etcd (`GrantError`,
`TxnError`).  A lease that is renewed expires only on a worker that is not
`Steady`: the environment, not the code, decides whether renewals arrive in time.
The type invariant includes that every key hangs on a lease that lives: the put of
the transaction names the lease (`lock.go:106`), and without that no expiry would ever
free the key.
The goroutine at lines 81-96 only ends when its channel closes, so `Expire`
changes nothing of the holder's `pc`.  A lease left by a failed call is of no
further interest once no key is attached to it.

### WorkerCluster

Several workers with the two etcd directories they watch.

| Model | Code |
|---|---|
| `taskDir`, `taskLog` | the keys of `TaskDir` and their history, which the watches deliver in order |
| `killLog` | the puts in `KillerDir` (their expiry two seconds later is ignored by `WatchKiller`) |
| `phase`, `todo`, `taskPos` | `WatchTasks`: the Get, the loop over its result, the watch from the revision after it |
| `killPos` | `WatchKiller`, which starts a watch from now on in its own goroutine |
| `events`, `results` | `EventChan` (drops when full), `ExecResultChan` |
| `table`, `ctx` | `ExecStatus` and the context in each entry |
| `pc`, `err` | the executor's goroutine: "lock" `TryLock`, "start" just before the command, "run" `CombinedOutput`, "revoke" `UnLock` or the tail of `TryLock`, "check" the deadline check and the callback |
| `loop` | the scheduler loop inside `solveTaskExecResult`, between log and notification |
| `lock` | the owner of the lock key; the lease protocol itself is `TaskLock` |
| `wins`, `logs`, `answers`, `runs`, `pending` | history, for the properties |

`TryLock` is condensed to one step with three outcomes plus the revocation,
which is what `TaskLock` justifies.  `Deadline` can strike at any moment after
`ExecTask` created the context, also while the goroutine is still in `TryLock` or
already in `UnLock`.  `FinishCommand` covers a command that ends well, badly, or
because its context did.  A crash loses everything but etcd.

Faults (`Faults`, `MaxFaults`) are chosen per run: a worker crashes, a lock call
fails (with the put applied or not), a revocation fails, a notification fails, or
a lease is lost under its running command.

Abstractions: `ExecResultChan` (512 entries) never fills, since a worker has at
most one goroutine per task and the loop only waits for the task logger and the
notifier; the contents of logs and alarms are left out; the alarm that follows a
failure notification (`Alert.Push`) is left out, as it changes no state of this
module.  A value that is not a task, which the front end never writes, is not
modelled.

### TaskLogger

| Model | Code |
|---|---|
| `queued`, `received` | `taskLogChan`, and what `loop` took out of it |
| `current`, `content` | the variable `taskLogBatch` and the logs of each batch |
| `timer`, `saw` | `AutoSinkTimer`; the closure of `time.AfterFunc`, which reads `taskLogBatch` when it runs and sends that on `taskLogTimeOutChan` |
| `sinking` | goroutines `logSink` |
| `stored`, `failed` | the collection in MongoDB; `InsertMany`, whose error is ignored |

Channels are sets, because no property depends on the order of logs.  The time
between creating a timer and its firing is taken to be long enough for the loop
to assign the variable.  The read of `taskLogBatch` in the closure is a data race
with the loop; the model lets it read the value of any moment.

### IdentifyRequest

`CrackIdentify` from the point where its input is valid: `SaveTask`, `WatchTask`
with its two `WatchDir` goroutines, and the select.  The workers are the
environment: `Answer` puts a key into the finish or fail directory for a task
that has been saved, once or repeatedly (a task may run again after a restart).

| Model | Code |
|---|---|
| `notices`, `pos` | the history of both directories, and how much of it a watch has delivered |
| `watcher` | `WatchDir`: "get" before the Get whose revision starts the watch, "watching", "ended" after an error or when the watch was closed |
| `notify` | `notifyChan`, capacity one: `WatchDirEvent` blocks while it is full |
| `errs`, `err` | `errChan` and the handler's variable `err` |
| `outcome` | the branch of the select; "panic" if `err.Error()` meets a nil error |

`PrefixOf` models the watched prefix `dir/type/uid`, which has no trailing slash
and no task name: the digits of one user id may be the first digits of another's.
`Begins[v]` is the set of all numbers that v's digits begin with, however many there
are; `MCIdentifyRequest` compares it with division by powers of ten, for ids of up to
five digits.  `WatchDirClosed` is the end of `WatchDir`'s loop when its channel is
closed before the awaited event (the TODO at line 101): the goroutine returns without
a word to `notifyChan` or `errChan`, and the request may wait for ever.  This is why
`NoticeWakesRequest` has an exception.
`SaveTask` does not end the handler when it fails, as in the code (250-256).

### Elector

`loop` of the elector.  A *term* is a lease granted to a master, numbered in the
order of the grants.

| Model | Code |
|---|---|
| `pc` | the call or label `loop` is at: `Grant` (78), `KeepAlive` (87), the transaction (111-128), the select of a leader (136), `FAIL_GET_LOCK` (142), `Revoke` (145) |
| `term` | `leaseID` and `cancelFunc`, which keep their values when a later `Grant` fails |
| `respChan`, `notified` | the variables `leaseKeepAliveRespChan` and `leaseKeepAliveClose` |
| `reader` | the goroutine at 92-108: the channel its receive waits on, read from the variable anew after each response |
| `begun`, `owner` | which terms exist, and whose they are |
| `contexts` | the contexts that are not canceled |
| `leases`, `leaderKey` | etcd |
| `overstayed` | history: a lease ended while its master led |

`ReaderEnds` stands for the closing of the channel together with the rest of the
goroutine, which notifies whatever channel the variable holds by then: a late
goroutine makes the leader of a later term step down.  `FailPanics` is the call of
a nil `cancelFunc`.  `Restart` begins with fresh memory.

### AlertPipeline

| Model | Code |
|---|---|
| `puts` | the puts into `WarnDir`; nobody reads its content, so the expiry of the one-second keys does not matter |
| `start`, `received`, `sent` | `Start` of a term: before its Get, or watching; the alarms of the response it ranges over |
| `from` | history: the alarms put before a watch began, which nobody delivers any more |
| `queue`, `reported` | `warnMessageChan`, and what `loop` wrote to the log |

`Elect` runs a step of the elector together with what it does to the alerter: a
new leader starts `Start`, a process that ends loses its goroutines and its
channel.  A canceled context ends a watch at once; the response in hand is still
passed on (`PassOn` does not look at the context).

### UserAccounts

`Register` query by query and `Login`, over the rows of the user table.  A row is
named by the registration that inserted it.

| Model | Code (`controller.go`, `user.go`) |
|---|---|
| `step` | the query `Register` is at: `NameExisted` (67), `EmailExisted` (76), `InsertUser` (93), `SelectUserByName` (102), `ReleaseToken` (109) |
| `users`, `Insertable` | the table and its unique columns (`common/user.go`) |
| `realUser`, `reply`, `token` | the local variable, the first reply sent, whose id is in the token |
| `session` | one login: by name or by address, with which password, whether the database answered, and whose token it got |
| `DBFails` | queries may fail; an insertion may be applied all the same |

A failing query counts as a free name (`user.go:80`) and as an address in use
(`user.go:73`).  Names are compared as the collation of the table compares them;
bcrypt and the signature of the token are taken for what they promise.

### WorkerRegister

One worker process per host: `keepAlive`, the part of `main` that runs beside it,
and the keys in `WorkersDir` with their leases.

| Model | Code |
|---|---|
| `at` | `keepAlive`: `Grant` (69), `KeepAlive` (75), the put (80), the loop over renewals (85), the sleep (97) |
| `leaseID`, `renewed`, `live`, `workerKey` | the lease granted last; leases renewed by a client; etcd |
| `main` | "init" up to `InitNotifier`, "watch" up to `make(normalQuit)` (`main.go:116`), "select" (120) |
| `watcher`, `killer`, `err`, `quit` | the goroutines at 99 and 108, the variable they share, `normalQuit` |
| `MaxMishaps` | bound on failing calls, lost renewals and crashes |

`TRY_AGAIN` cancels the renewal and leaves the lease to its end.  A watch error is
lost if it is sent before `normalQuit` is made (`watcher` "blocked") or if
`WatchKiller`'s nil is assigned between the assignment and the test
("overwritten").

### WarnTransport

`alerter.go` of the workers between the scheduler that pushes an alarm and the put
into `WarnDir`.  The Kafka client and brokers are external: what the code relies on
is a producer with bounded buffers, partitions, and a group with generations.

| Model | Code |
|---|---|
| `pushing` | schedulers inside `Push`, which blocks while the producer takes nothing (69) |
| `input`, `givenUp`, `jammed` | the producer: what it holds, what it reported on its error channel, which nobody reads |
| `log` | the messages of a partition; `Produce` may append one twice |
| `member` | the one call of `Consume` (77): joining, in a session, returned |
| `claim`, `serves` | to whom a partition is assigned; what the session of a worker fetches, which may be a partition it has lost |
| `fetched`, `next` | what `claim.Messages()` holds, what the loop (46) has taken |
| `putCount` | how often a message was put into `WarnDir` |
| `strays` | history: the messages that a session fetched when its partition was another's |

`Rebalance` gives the partitions to those that have joined.  It ends no session: the
brokers do not fence fetches, so a worker that is taken for dead, or has not heard of
the rebalance, goes on fetching new messages of a partition that is its successor's,
until a heartbeat fails (`SessionEnds`); what it had been given it works off even after
that.  Nothing marks a message as consumed, so every claim begins at the end of its
partition (`FromNewest`).

### MCServices

These three components share no state, and each is small; one run checks them one
at a time: the initial state names the component that a behaviour exercises.

## 4. Runs

Passing runs; times are those of two TLC workers on a small machine.

| Run | Shows | Bounds, and why they are enough |
|---|---|---|
| `lock` (20 s) | `MutualExclusion`, `FencedMutex`, `BusyHasRival`, `KeyHandoff`, `Released`, `ImplementsLockService`, `TypeOK` | Three workers and one key: two rivals and one that acquires in between.  Two workers keep their leases, the third may lose its lease at any time.  Every etcd call may fail; every worker may crash. |
| `cluster_reports` (2 min) | `TableGuards`, `EveryWinReported`, `TypeOK` | Two submissions (a second run of the task, or a duplicate), one removal, one kill, queues of three entries against four events: they overflow. |
| `cluster_faults` (2 min) | `MutualExclusion`, `ImplementsLockService` | Two faults of four kinds: a lost answer together with a failed revocation, or a crash and a second fault; quick restarts. |
| `cluster_answers` (2.5 min) | `SubmissionAnswered` | Two submissions and one fault: a crash at any point with a restart after the lease timed out, or a failed transaction, applied or not; queues large enough not to overflow. |
| `cluster_kills` (1 min) | `KilledStops`, `OverlapNeedsLostLease` | A command that only a kill ends, two submissions, one kill, one lost lease.  After the loss the second worker runs the command while the first is still in it, and the first one's `UnLock` comes when the key is the second's. |
| `logger` (1 min) | `StoredOnce`, `NoLogForgotten`, `WaitingBatchCovered`, `EventuallySunk`, `TypeOK` | Four logs in batches of two: a timer of the first batch can announce the second and the third. |
| `identify` (2 min) | `FreshReply`, `NoticeWakesRequest`, `TypeOK` | Users 1 and 10, one request each, two notices: one that fills the channel and one that finds it full.  The calls of user 1 may fail and his watches may be closed (`Unlucky`); the requests share nothing but the notices, so that user 10 need not fail as well. |
| `alerts` (1.5 min) | `LeaderFenced`, `LeaderWillHear`, `NotNotifiedTwice`, `LeaderKeepsUp`, `ElectorTypeOK`, `AlertTypeOK` | Two masters and two terms: one each, or a second term of one master with goroutines of the first still at work, across a crash or not; `loop` begins no iteration once the terms are used up.  Two alarms and a channel for one, so that a response has two events and `Start` blocks. |
| `services` (1 min) | `UniqueUsers`, `TokenForOwnAccount`, `TheToldCanLogIn`; `RegisteredListed`, `ListSettles`, `DeafWorkersLeave`; `MessagePutOnce`, `ClaimsWorkedOff`, `SchedulerFlows`; `AccountsTypeOK`, `TransportTypeOK` | Accounts: four registrations of which two share a name, two an address and one is malformed, any query may fail, one login.  Register: one host (hosts with addresses of their own share nothing), three leases and four mishaps: a lease given up, one of an earlier process and the present one.  Transport: two workers, one partition, three starts, so that a session which lost the partition meets its successor, and a late consumer itself restarted; two messages, one fetched before the loss and one after it; producers that jam at the first report. |

Runs that end in a violation, each of a statement of the repository:

| Run | Statement | What happens |
|---|---|---|
| `cluster_rerun` | `taskManager.go:42`: the synchronisation is not a full one, so that a task is not executed twice | A restarted worker pushes every task of the directory, the finished and answered ones included, and runs it again. |
| `identify_foreign` | `taskManager.go:105` (front end): the channels tell the fate of the task | A task of user 10 finishes and user 1 is told that his did. |
| `identify_lost` | `controller.go:258`: wait until the task is done | The task is answered before the watches begin; the request waits for ever. |

Deadlock is not checked (`CHECK_DEADLOCK FALSE`): submissions, attempts, logs and
notices are bounded, and the system rests when they are used up.  Progress is
checked by the liveness properties instead.

More effects of the code were seen while modelling and have no run of their own:

* A worker that restarts within the five seconds of its own old lease is refused
  the lock by it and drops the task (hence `SlowRestart` in the liveness runs).
* A loser whose deadline has passed turns `ERROR_LOCK_REQUIRED` into
  `ERROR_TIMEOUT` (`executor.go:55`), logs it and puts a failure notice, although
  `scheduler.go:105` means to ignore attempts that lost the lock.
* A failed transaction that was applied, together with a failed revocation, makes
  the next submission meet a leftover lock and be dropped.
* A request whose task fails reaches `err.Error()` with a nil error
  (`controller.go:271`), the outcome "panic" of `IdentifyRequest`.
* A leader whose lease has expired goes on until its client notices, and both
  masters report an alarm put meanwhile: this is the exception in
  `NotNotifiedTwice`.
* `Register` goes on after it has reported a failed reading back, with a nil user
  (`controller.go:102`): `ReleaseToken` panics, after the reply.
* An address is refused as "registered" when its query failed (`user.go:73`); a
  name is not.
* A worker whose watch error was lost stays in the list and never takes a task:
  the exception in `DeafWorkersLeave`.
* A request whose watch on a directory is closed may wait for ever
  (`taskManager.go:90-101` of the front end, where the code has a TODO): the exception
  in `NoticeWakesRequest`.
* `config.ini:57` puts all workers into one group so that an alarm is not put several
  times; a session that has lost its partition and does not know may fetch and put a
  message that its successor puts as well: the exception in `MessagePutOnce`.
* After a rebalance that nobody joins, no worker consumes alarms any more, however
  many run: the exception in `ClaimsWorkedOff`.  A producer whose error channel is
  full blocks `Push` and the scheduler: the exception in `SchedulerFlows`.
* The log query opens the database whose name is the URI of the server
  (`logManager.go:86`), while workers write to the configured name
  (`logSink.go:105`): no stored log is ever shown.

## 5. Fairness

* `TaskLock`: weak fairness of each goroutine's next step (Go runs runnable
  goroutines, etcd calls return or fail, commands end) and of the expiry of a lease
  that nobody renews (etcd's clock).
* `WorkerCluster`: weak fairness of each watcher, of the executor's goroutine, of
  deadlines and expiry.  The loop's `select` chooses at random among ready
  channels, so each is served again and again; this is the separate weak
  fairness of event handling and of result handling.  Crashed workers are
  restarted by their operators.  Faults, submissions and kills are never fair.
* `TaskLogger`: timers fire, goroutines run, the loop serves its channels.
* `AlertPipeline`: some goroutine of the alerters runs.  The alarms of a behaviour
  are finitely many, so this serves all of them.  Nothing is assumed of the
  elector.
* `WorkerRegister`: the goroutines of a process run, and etcd ends leases that
  nobody renews.  Nobody has to start a process, and mishaps are never fair.
* `WarnTransport`: `Push` returns once the producer takes a message, the producer
  sends or gives up what it holds, and some consumer goes on.  Nothing is assumed of
  rebalances, of the end of sessions and of restarts.
* `IdentifyRequest`: goroutines run; the workers answer a saved task, which is what
  `SubmissionAnswered` of `WorkerCluster` states.  Watches need not be closed, nor stay
  open.

## 6. Proofs

`TaskLock_proofs` proves, for any number of attempts, workers and keys:

* `TypeCorrect`, `Fenced` (`FencedMutex`), `LosersHaveRival` (`BusyHasRival`) and
  `Handoff` (`KeyHandoff`) from the assumptions on the constants alone;
* `Exclusive`: `MutualExclusion`, the exclusion of the attempts on `Steady` workers;
* `RefinesLockService`: the protocol implements `LockService`.

The inductive invariant `IInv` adds to the types what the code never says in one
place.  `KeyBacked`: an attempt registered at a key is registered at its own, and
its lease is live.  `ResultOfOwner`: `TryLock` has returned nothing before the
transaction is answered, and whoever owns a key was told so or reports an error,
which is the rival `BusyHasRival` asks for.  `HolderRenews`: an attempt on a
steady worker renews from the transaction until `UnLock`, so a holder's lease is
live.  Exclusion follows: such a holder owns its key (`FencedMutex`), and
a key has one owner.

`TaskLogger_proofs` proves, for any set of logs and batches and every batch size:
`TypeCorrect`, `AtMostOnce` (`StoredOnce`), `NothingForgotten` (`NoLogForgotten`)
and `Covered` (`WaitingBatchCovered`).  Its invariant says that logs
are received once and belong to one batch (`Separate`), that a batch whose timer
is still off is empty and untouched (`NewIsUntouched`), and that a batch has at
most one writer, the current one none, and nothing that is current or being
written is in the database yet (`OneWriter`).  The comparison in `BatchTimeOut`
preserves the last part: a message about a batch that is gone finds another one,
or none, in the variable.

`AlertPipeline_proofs` proves, for any set of masters and any number of terms, that
`ElectorTypeOK`, `LeaderFenced` and `LeaderWillHear` hold of the elector under the
alerters, whose steps leave the elector as it is, and that two leaders with live leases are the same
master (`OneLiveLeader`).  The invariant adds that a master's term is its own and
that it leads only with one (`OwnTerm`), that goroutines belong to terms that have
begun (`ReadersBegun`), and that from `KeepAlive` to the end of the term the shared
variable holds the channel of the term (`ReadsOwnTerm`): this is why the goroutines
of earlier terms do no more harm than an early end of the term.

It then proves of the alerters, for any number of alarms and channels of any size,
`AlertTypeCorrect` (`AlertTypeOK`), `NoAlarmTwice` (`NotNotifiedTwice`) and
`NothingSkipped`.  "Reported at most once" is not inductive: an alarm passes from the
log of puts through a response and a channel to the report, and a new leader's watch
may begin while the old one still ranges over its response.  `AInv` therefore follows
it all the way.  A master *has* an alarm that is in its channel or reported, once
(`HasOnce`, `QueueOnce`) and only after the put (`HasPut`).  An alarm that a term has
in hand, or that a live watch is still to receive, is with nobody and in nobody else's
hands (`FlightReserved`, `FutureReserved`).  What makes this last is the elector: as
long as no lease ends under a leader, `Start` runs only under the context of the term
that has the leader key (`ContextOfTerm`, `StartLeads`), so that a watch begins after
everything another one will ever be sent.  The elector's part in a step is summed up
in one lemma, `ElectorSteps`: at most one term begins, contexts are only canceled, and
a live context keeps its lead and its key.  `NothingSkipped` is the other side: what a
watch that goes on has passed on is in its master's channel or reported.

`WorkerCluster_proofs` proves, for any number of workers and tasks, queues of any
capacity and any number of faults: `Exclusive` (`MutualExclusion`, unless leases are
lost under a running command) and `RefinesLockService` (the cluster implements
`LockService`).  Both rest on one lemma, `NextIsStep`: as far as locks and program
counters are concerned, every step of the cluster wins a lock, starts a command,
leaves it, orphans or frees a key, ends a lease, or stops a worker.  The invariant
`LInv` says that whoever uses a task owns its key (`UserOwns`).

Six more theorems are about the rest of the cluster's state:

* `ClusterTypeCorrect` (`TypeOK`), one lemma for each group of variables that change
  together.
* `TableIsGuard` (`TableGuards`), under all faults.  `Guarded` strengthens it to what
  the code takes for granted: a queue holds one result per task, and a task
  with a goroutine has none.  Without this the result of one goroutine could delete
  the entry of the next.
* `OwnsUnlessLost` (`OverlapNeedsLostLease`), for any number of workers and under all
  faults: in every step, a worker that is in the command afterwards owns the key, or
  was in it before and had lost the key already, or loses it in this step, which is a
  fault.  The lemma `MoveOwns` goes through the steps that free or pass on a key.
* `OverlapBounded`, its consequence for finitely many workers: n faults let at most
  n + 1 workers into one command.  Counted are the workers that run a command though
  the key is not theirs (`Overtaken`): only a lost lease adds one, and only to that
  set; at most one further worker has the key.
* `WinsReported` (`EveryWinReported`), for finitely many workers, if no worker crashes,
  no task has a deadline, and neither `TryLock` nor the put of an answer fails in etcd
  (`Undisturbed`); kills, lost leases, failed revocations and dropped events are
  allowed.  The hypotheses cannot be dropped: a crash or a failed put loses a report,
  and a deadline or a failed `TryLock` reports a task whose lock was not won.
  `ErrOfPc` says what a goroutine's `err` can be at each place; `Guarded` makes the
  sets of the property count every result once.
* `NoneForgotten`, the safety half of `SubmissionAnswered`: what is pending is still in
  the directory and under way (`UnderWay`) with a worker that was not just refused the
  lock, be it one that is down and will read the directory, an event its watch or its
  queue still holds, a goroutine, a result or a notification.  Crashes, failed
  `TryLock`s, lost leases, deadlines, kills, withdrawn and repeated submissions are
  allowed.  The hypotheses (`Recoverable`, `Roomy`) are the ways in which the code does
  forget: a process that restarts before its lease ended, or whose revocation failed,
  is refused by its own old key; a put of an answer that fails is only logged;
  `PushTaskEvent` drops what finds the channel full.  The invariant is `Progress`: a
  worker that is refused a lock relies on its owner, which is down or on its way to
  `Revoke` (`HolderKnown`), and of all workers one at least was not refused
  (`SomeoneFree`), so that a new submission finds somebody.  A step disturbs one
  worker only (`Local`); each kind of step has a lemma that says what it keeps (`Keeps`).

`IdentifyRequest_proofs` proves, for any requests, tasks and user ids, any failures of
etcd and any closing of watches: `TypeCorrect` (`TypeOK`), `FreshReplies`
(`FreshReply`) and `OwnReplies`.  The invariant follows a reply back to its notice: a watch is never behind the moment its
request saved its task (`WatchesFromSave`), what lies in `notifyChan` is the trace of
a notice put since then that the watched prefix covers (`ChannelsHeard`), and so is a
reply (`RepliesHeard`).  `OwnReplies` says how far the run `identify_foreign` reaches:
if no user's id is a prefix of another user's and no user has a second task, the
replies are about the request's own task (`OwnFreshReply`).  So the prefix and the
missing comparison of the name are the only reasons for that violation.

`UserAccounts_proofs` proves, for any registrations and any failures of queries:
`TypeCorrect`, `UsersUnique`, `TokenOwn`, `RefusalTrue` (a refused name has a holder)
and `ToldCanLogIn`, an action property.  The invariant `AInv` adds that a registration's row is in the table
exactly from its insertion on (`Inserted`), that what is past `Verify` is well formed
(`Verified`), and that the row read back is its own (`OwnRow`), which follows from
the unique name of a row that is never removed.

`WorkerRegister_proofs` proves `TypeCorrect` and `Listing` (`RegisteredListed`) for
any number of processes, addresses and leases.  The invariant `RInv` adds that a
process which is past the grant holds a lease (`HasLease`); with the type invariant,
that a key is attached to a lease that lives, this is why the end of a lease which
was given up takes no key away from a later one.

`WarnTransport_proofs` proves `TypeCorrect` and `PutOnce` (`MessagePutOnce`) for any
number of workers and partitions, whatever sessions go on fetching partitions they
have lost.  The invariant `TInv` says of every message that is no stray that it is
pending with one worker at most and was not put before (`OnePending`), and that, if it
was put or given to anybody, it lies before what the present owner of the partition was
given (`PutBehind`): a claim that begins at the end of the log therefore meets nothing
old, whoever still works on it.

The assumptions are those on the constants in each module (a mark such as `NoOwner`
is no worker and no task, a capacity or a bound is a number) and the hypotheses named
above.

Only model-checked: liveness (`Released`, `EventuallySunk`, `SubmissionAnswered`,
`KilledStops`, `NoticeWakesRequest`, `LeaderKeepsUp`, `ListSettles`,
`DeafWorkersLeave`, `ClaimsWorkedOff`, `SchedulerFlows`), which needs the fairness of
the specifications and is beyond the prover.

## 7. What is not modelled

* The log query.  It reads a database that no worker writes to (see 4), so that
  a model of its pages would describe another program.  Task lists: stateless reads.
* Routing, middleware, the file loggers: input and output without state that other
  parts depend on.
* The reading of the configuration, and `main` of the front end, which starts its
  parts one after the other and waits.
* The duration of a deadline: `scheduler.go:189` multiplies the seconds of the task
  in 64 bits; one that wraps is born expired, which is `Deadline` taken at once.
* etcd itself: linearizable, watches deliver every event in order from the
  revision they were asked for.  MongoDB: an insertion happens or fails.
* In `WorkerCluster`, a worker whose `WatchTasks` fails at start-up: to the other
  workers it is like one that is down; `WorkerRegister` says what becomes of it.
* Kafka's brokers beyond what `WarnTransport` states of them.  Which generation a
  session belongs to is left out, as no broker asks for it when it is fetched from.
