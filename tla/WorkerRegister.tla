--------------------------- MODULE WorkerRegister ---------------------------
(***************************************************************************)
(* The list of workers in WorkersDir.  Each worker process keeps the key   *)
(* of its address there, attached to a lease of its own (keepAlive of      *)
(* workerRegister.go); the front end lists the keys (workerManager.go).    *)
(* The process lives as long as main (main.go of the worker), which ends   *)
(* when a later initialisation fails, when a watcher of etcd reports that  *)
(* it failed, or by force.                                                 *)
(***************************************************************************)
EXTENDS Naturals

CONSTANTS
  Processes, IpOf,    \* the workers and the address getIP finds on each host
  Leases, NoLease,
  MaxMishaps          \* bound: failing calls, lost renewals, crashes

ASSUME NoLeaseAssumption == NoLease \notin Leases
ASSUME MaxMishapsAssumption == MaxMishaps \in Nat

VARIABLES
  main,        \* process -> where main is
  watcher,     \* process -> the goroutine that calls WatchTasks
  killer,      \* process -> the goroutine of WatchKiller has still to assign err
  err,         \* process -> main's err, which the goroutines share, is not nil
  quit,        \* process -> an error is in normalQuit
  at,          \* process -> where keepAlive is
  leaseID,     \* process -> the lease keepAlive was granted last
  live,        \* the leases alive in etcd
  renewed,     \* the leases that a client renews
  workerKey,   \* address -> the lease its key in WorkersDir is attached to
  mishaps

mainVars == <<main, watcher, killer, err, quit>>
keepAliveVars == <<at, leaseID, renewed>>
registerVars == <<mainVars, keepAliveVars, live, workerKey, mishaps>>

Addresses == {IpOf[p] : p \in Processes}

RegisterTypeOK ==
  /\ main \in [Processes -> {"down", "init", "watch", "select"}]
  /\ watcher \in [Processes -> {"none", "get", "watching", "test", "sent", "blocked",
                                "overwritten"}]
  /\ killer \in [Processes -> BOOLEAN]
  /\ err \in [Processes -> BOOLEAN] /\ quit \in [Processes -> BOOLEAN]
  /\ at \in [Processes -> {"off", "grant", "keepalive", "put", "renew", "sleep"}]
  /\ leaseID \in [Processes -> Leases \cup {NoLease}]
  /\ live \subseteq Leases /\ renewed \subseteq Leases
  /\ workerKey \in [Addresses -> live \cup {NoLease}]
  /\ mishaps \in 0..MaxMishaps

RegisterInit ==
  /\ main = [p \in Processes |-> "down"]
  /\ watcher = [p \in Processes |-> "none"]
  /\ killer = [p \in Processes |-> FALSE] /\ err = killer /\ quit = killer
  /\ at = [p \in Processes |-> "off"]
  /\ leaseID = [p \in Processes |-> NoLease]
  /\ live = {} /\ renewed = {}
  /\ workerKey = [i \in Addresses |-> NoLease]
  /\ mishaps = 0

Mishap == mishaps < MaxMishaps /\ mishaps' = mishaps + 1

-----------------------------------------------------------------------------
(* keepAlive *)

Move(p, from, to) == at[p] = from /\ at' = [at EXCEPT ![p] = to]

(* TRY_AGAIN: the context is canceled, so that nobody renews the lease any more,
   but the lease is not revoked. *)
TryAgain(p, from) ==
  /\ Move(p, from, "sleep")
  /\ renewed' = renewed \ {leaseID[p]}

Unused == Leases \ (live \cup {leaseID[q] : q \in Processes})

GrantLease(p) ==
  \/ /\ Move(p, "grant", "keepalive")
     /\ Unused # {}
     /\ LET l == CHOOSE l \in Unused : TRUE IN
          leaseID' = [leaseID EXCEPT ![p] = l] /\ live' = live \cup {l}
     /\ UNCHANGED <<mainVars, renewed, workerKey, mishaps>>
  \/ /\ Mishap /\ TryAgain(p, "grant")
     /\ UNCHANGED <<mainVars, leaseID, live, workerKey>>

KeepAlive(p) ==
  \/ /\ Move(p, "keepalive", "put")
     /\ renewed' = renewed \cup {leaseID[p]}
     /\ UNCHANGED <<mainVars, leaseID, live, workerKey, mishaps>>
  \/ /\ Mishap /\ TryAgain(p, "keepalive")
     /\ UNCHANGED <<mainVars, leaseID, live, workerKey>>

(* mutant: a key that is there already is left as it is *)
PutKeyOnce(p) ==
  /\ leaseID[p] \in live /\ Move(p, "put", "renew")
  /\ workerKey' = IF workerKey[IpOf[p]] = NoLease
                  THEN [workerKey EXCEPT ![IpOf[p]] = leaseID[p]] ELSE workerKey
  /\ UNCHANGED <<mainVars, leaseID, renewed, live, mishaps>>

(* The put attaches the key to this lease and detaches it from any other.  It
   fails if the lease is gone; a put that fails otherwise may be applied. *)
PutKey(p) ==
  LET Applied == /\ leaseID[p] \in live
                 /\ workerKey' = [workerKey EXCEPT ![IpOf[p]] = leaseID[p]]
  IN /\ \/ /\ Applied /\ Move(p, "put", "renew")
           /\ UNCHANGED <<renewed, mishaps>>
        \/ /\ leaseID[p] \notin live /\ TryAgain(p, "put")
           /\ UNCHANGED <<workerKey, mishaps>>
        \/ /\ Mishap /\ TryAgain(p, "put")
           /\ Applied \/ UNCHANGED workerKey
     /\ UNCHANGED <<mainVars, leaseID, live>>

(* mutant: a lease that ended in etcd goes unnoticed *)
RenewalEndsUnnoticed(p) ==
  /\ Mishap /\ TryAgain(p, "renew")
  /\ UNCHANGED <<mainVars, leaseID, live, workerKey>>

(* The channel of the renewals is closed: the lease is gone, or the client took
   it for gone. *)
RenewalEnds(p) ==
  /\ TryAgain(p, "renew")
  /\ \/ leaseID[p] \notin live /\ UNCHANGED mishaps
     \/ Mishap
  /\ UNCHANGED <<mainVars, leaseID, live, workerKey>>

Wake(p) ==
  /\ Move(p, "sleep", "grant")
  /\ UNCHANGED <<mainVars, leaseID, renewed, live, workerKey, mishaps>>

KeepAliveLoop(p) ==
  GrantLease(p) \/ KeepAlive(p) \/ PutKey(p) \/ RenewalEnds(p) \/ Wake(p)

-----------------------------------------------------------------------------
(* main *)

Step(p, from, to) == main[p] = from /\ main' = [main EXCEPT ![p] = to]

(* Everything up to InitWorkerRegister, which starts keepAlive. *)
Boot(p) ==
  /\ Step(p, "down", "init")
  /\ at' = [at EXCEPT ![p] = "grant"]
  /\ UNCHANGED <<watcher, killer, err, quit, leaseID, renewed, live, workerKey, mishaps>>

(* The process ends; what it put into etcd stays until its lease ends. *)
Exit(p) ==
  /\ main' = [main EXCEPT ![p] = "down"]
  /\ watcher' = [watcher EXCEPT ![p] = "none"]
  /\ killer' = [killer EXCEPT ![p] = FALSE]
  /\ err' = [err EXCEPT ![p] = FALSE]
  /\ quit' = [quit EXCEPT ![p] = FALSE]
  /\ at' = [at EXCEPT ![p] = "off"]
  /\ leaseID' = [leaseID EXCEPT ![p] = NoLease]
  /\ renewed' = renewed \ {leaseID[p]}
  /\ UNCHANGED <<live, workerKey>>

(* A crash, an interrupt (forceQuit), or an initialisation that fails. *)
Crash(p) == main[p] # "down" /\ Mishap /\ Exit(p)

(* The alerter and the notifier are initialised and both goroutines started. *)
StartWatchers(p) ==
  /\ Step(p, "init", "watch")
  /\ watcher' = [watcher EXCEPT ![p] = "get"]
  /\ killer' = [killer EXCEPT ![p] = TRUE]
  /\ UNCHANGED <<err, quit, keepAliveVars, live, workerKey, mishaps>>

(* Only now normalQuit is more than a nil channel. *)
MakeNormalQuit(p) ==
  /\ Step(p, "watch", "select")
  /\ UNCHANGED <<watcher, killer, err, quit, keepAliveVars, live, workerKey, mishaps>>

WatchTasksReturns(p) ==
  /\ watcher[p] = "get"
  /\ \/ /\ watcher' = [watcher EXCEPT ![p] = "watching"]
        /\ err' = [err EXCEPT ![p] = FALSE]
        /\ UNCHANGED mishaps
     \/ /\ Mishap
        /\ watcher' = [watcher EXCEPT ![p] = "test"]
        /\ err' = [err EXCEPT ![p] = TRUE]
  /\ UNCHANGED <<main, killer, quit, keepAliveVars, live, workerKey>>

(* WatchKiller always returns nil, which its goroutine assigns to err. *)
WatchKillerReturns(p) ==
  /\ killer[p]
  /\ killer' = [killer EXCEPT ![p] = FALSE]
  /\ err' = [err EXCEPT ![p] = FALSE]
  /\ UNCHANGED <<main, watcher, quit, keepAliveVars, live, workerKey, mishaps>>

(* The goroutine of WatchTasks looks at err, which may have been overwritten
   since, and sends it, for ever if normalQuit is still nil. *)
ReportWatchError(p) ==
  /\ watcher[p] = "test"
  /\ watcher' = [watcher EXCEPT ![p] =
                   IF ~err[p] THEN "overwritten"
                   ELSE IF main[p] = "select" THEN "sent" ELSE "blocked"]
  /\ quit' = [quit EXCEPT ![p] = err[p] /\ main[p] = "select"]
  /\ UNCHANGED <<main, killer, err, keepAliveVars, live, workerKey, mishaps>>

(* mutant: main waits for the signal only *)
QuitNever(p) == FALSE

NormalQuit(p) == main[p] = "select" /\ quit[p] /\ Exit(p) /\ UNCHANGED mishaps

Main(p) == StartWatchers(p) \/ MakeNormalQuit(p) \/ NormalQuit(p)
Watching(p) == WatchTasksReturns(p) \/ WatchKillerReturns(p) \/ ReportWatchError(p)

-----------------------------------------------------------------------------
(* etcd *)

EndOf(l) ==
  /\ live' = live \ {l}
  /\ workerKey' = [i \in Addresses |-> IF workerKey[i] = l THEN NoLease ELSE workerKey[i]]
  /\ UNCHANGED <<mainVars, keepAliveVars>>

(* A lease is kept by its renewals, and until they begin by its five seconds. *)
Kept == renewed \cup {leaseID[p] : p \in {q \in Processes : at[q] = "keepalive"}}

LeaseRunsOut(l) == l \in live \ Kept /\ EndOf(l) /\ UNCHANGED mishaps
LeaseLost(l) == l \in live \cap Kept /\ Mishap /\ EndOf(l)

RegisterNext ==
  \/ \E p \in Processes :
       KeepAliveLoop(p) \/ Boot(p) \/ Main(p) \/ Watching(p) \/ Crash(p)
  \/ \E l \in Leases : LeaseRunsOut(l) \/ LeaseLost(l)

RegisterSpec == RegisterInit /\ [][RegisterNext]_registerVars

(* Goroutines run and etcd's clock ends leases; nobody has to start a process. *)
RegisterFairness ==
  /\ \A p \in Processes :
       WF_registerVars(KeepAliveLoop(p)) /\ WF_registerVars(Main(p) \/ Watching(p))
  /\ WF_registerVars(\E l \in Leases : LeaseRunsOut(l))

RegisterFairSpec == RegisterSpec /\ RegisterFairness

-----------------------------------------------------------------------------
(* GetWorkers *)
Listed == {i \in Addresses : workerKey[i] # NoLease}

(* A worker whose renewals arrive is on the list, under its present lease: the
   leases it gave up without revoking them, and those of earlier processes on
   its host, take nothing away when they end.  (Hosts with an address of their
   own; of two that share one, the later put owns the key.) *)
Registered(p) == at[p] = "renew" /\ leaseID[p] \in live
RegisteredListed ==
  \A p \in Processes :
    Registered(p) /\ (\A q \in Processes \ {p} : IpOf[q] # IpOf[p])
      => workerKey[IpOf[p]] = leaseID[p]

(* Once mishaps have ceased the list is right for good: it shows the running
   workers, and the dead ones are gone. *)
ListSettles ==
  <>[](Listed = {IpOf[p] : p \in {q \in Processes : main[q] # "down"}})

(* A worker that cannot watch the tasks leaves, and the list with it, unless its
   error was lost: sent before normalQuit was made, or overwritten by the other
   goroutine.  Such a worker stays listed and never takes a task. *)
DeafWorkersLeave ==
  []<>(\A p \in Processes : watcher[p] \notin {"test", "sent"})
=============================================================================
