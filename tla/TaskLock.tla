------------------------------ MODULE TaskLock ------------------------------
(***************************************************************************)
(* The distributed lock of the workers (worker/lock/lock.go) over the etcd *)
(* primitives it uses.  An attempt is one goroutine of the executor with   *)
(* its own TaskLock: it calls TryLock once, runs the command if that       *)
(* succeeded, and calls UnLock.  Every etcd call is a step of its own, so  *)
(* attempts of all workers interleave between the calls.                   *)
(***************************************************************************)
CONSTANTS Attempts,           \* the executor goroutines that will run
          Workers,            \* the processes they run in
          Keys,               \* the lock keys LockDir/type/user/name
          KeyOf, WorkerOf,    \* what an attempt locks, where it runs
          NoOwner,
          Steady              \* the workers whose renewals reach etcd in time

ASSUME NoOwnerAssumption == NoOwner \notin Attempts
ASSUME KeyOfAssumption == KeyOf \in [Attempts -> Keys]
ASSUME WorkerOfAssumption == WorkerOf \in [Attempts -> Workers]
ASSUME SteadyAssumption == Steady \subseteq Workers

VARIABLES
  pc,        \* where the goroutine is in TryLock, its command, or UnLock
  result,    \* what TryLock returned: "ok" when This.locked was set
  lease,     \* the lease of the attempt in etcd
  renewing,  \* the client library renews it (until cancelFunc or the end)
  lockKey    \* key -> the attempt whose lease the key is attached to

vars == <<pc, result, lease, renewing, lockKey>>

PCs == {"grant", "keepalive", "txn", "failing", "held", "revoking",
        "returned", "crashed"}
Results == {"none", "ok", "grant_error", "keepalive_error", "txn_error",
            "lock_required"}

(* The types; etcd attaches every lock key to a lease that is alive, so no key
   can outlive what releases it. *)
TypeOK ==
  /\ pc \in [Attempts -> PCs]
  /\ result \in [Attempts -> Results]
  /\ lease \in [Attempts -> {"none", "live", "gone"}]
  /\ renewing \in [Attempts -> BOOLEAN]
  /\ lockKey \in [Keys -> {a \in Attempts : lease[a] = "live"} \cup {NoOwner}]

Init ==
  /\ pc = [a \in Attempts |-> "grant"]
  /\ result = [a \in Attempts |-> "none"]
  /\ lease = [a \in Attempts |-> "none"]
  /\ renewing = [a \in Attempts |-> FALSE]
  /\ lockKey = [k \in Keys |-> NoOwner]

Goto(a, from, to) == pc[a] = from /\ pc' = [pc EXCEPT ![a] = to]
Return(a, r) == result' = [result EXCEPT ![a] = r]

----------------------------------------------------------------------------
(* TryLock *)

Grant(a) ==
  /\ Goto(a, "grant", "keepalive")
  /\ lease' = [lease EXCEPT ![a] = "live"]
  /\ UNCHANGED <<result, renewing, lockKey>>

(* Grant fails, possibly after etcd created a lease nobody knows of.  UnLock
   then has nothing to do, This.locked is false. *)
GrantError(a) ==
  /\ Goto(a, "grant", "returned")
  /\ Return(a, "grant_error")
  /\ \E l \in {"none", "live"} : lease' = [lease EXCEPT ![a] = l]
  /\ UNCHANGED <<renewing, lockKey>>

StartKeepAlive(a) ==
  /\ Goto(a, "keepalive", "txn")
  /\ renewing' = [renewing EXCEPT ![a] = TRUE]
  /\ UNCHANGED <<result, lease, lockKey>>

KeepAliveError(a) ==
  /\ Goto(a, "keepalive", "failing")
  /\ Return(a, "keepalive_error")
  /\ UNCHANGED <<lease, renewing, lockKey>>

(* mutant: the transaction does not compare CreateRevision with 0 *)
TxnPutAlways(a) ==
  /\ Goto(a, "txn", "held")
  /\ lease[a] = "live"
  /\ lockKey' = [lockKey EXCEPT ![KeyOf[a]] = a]
  /\ Return(a, "ok")
  /\ UNCHANGED <<lease, renewing>>

(* mutant: the put of the transaction does not name the lease *)
TxnPutUnleased(a) ==
  /\ Goto(a, "txn", "held")
  /\ lockKey[KeyOf[a]] = NoOwner
  /\ lockKey' = [lockKey EXCEPT ![KeyOf[a]] = a]
  /\ Return(a, "ok")
  /\ UNCHANGED <<lease, renewing>>

(* The transaction finds CreateRevision = 0 and puts the key. *)
TxnAcquire(a) ==
  /\ Goto(a, "txn", "held")
  /\ lease[a] = "live"
  /\ lockKey[KeyOf[a]] = NoOwner
  /\ lockKey' = [lockKey EXCEPT ![KeyOf[a]] = a]
  /\ Return(a, "ok")
  /\ UNCHANGED <<lease, renewing>>

TxnBusy(a) ==
  /\ Goto(a, "txn", "failing")
  /\ lockKey[KeyOf[a]] # NoOwner
  /\ Return(a, "lock_required")
  /\ UNCHANGED <<lease, renewing, lockKey>>

(* mutant: a failed Commit is taken for a lost race *)
TxnErrorAsBusy(a) ==
  /\ Goto(a, "txn", "failing")
  /\ Return(a, "lock_required")
  /\ UNCHANGED <<lease, renewing, lockKey>>

(* Commit returns an error, e.g. because the lease is gone; or the transaction
   was applied and only its answer was lost. *)
TxnError(a) ==
  /\ Goto(a, "txn", "failing")
  /\ Return(a, "txn_error")
  /\ \/ UNCHANGED lockKey
     \/ /\ lease[a] = "live"
        /\ lockKey[KeyOf[a]] = NoOwner
        /\ lockKey' = [lockKey EXCEPT ![KeyOf[a]] = a]
  /\ UNCHANGED <<lease, renewing>>

----------------------------------------------------------------------------
(* The tail of TryLock after a failure, and UnLock after a success: both cancel
   the renewal and then revoke the lease. *)

(* mutant: cancelFunc is not called, the client goes on renewing *)
CancelForgotten(a, from) ==
  /\ Goto(a, from, "revoking")
  /\ UNCHANGED <<result, lease, renewing, lockKey>>

Cancel(a, from) ==
  /\ Goto(a, from, "revoking")
  /\ renewing' = [renewing EXCEPT ![a] = FALSE]
  /\ UNCHANGED <<result, lease, lockKey>>

FailGetLock(a) == Cancel(a, "failing")
UnLock(a) == Cancel(a, "held")

(* What etcd does when a lease ends: the keys attached to it are deleted. *)
EndLease(a) ==
  /\ lease' = [lease EXCEPT ![a] = "gone"]
  /\ lockKey' = [k \in Keys |-> IF lockKey[k] = a THEN NoOwner ELSE lockKey[k]]

(* mutant: the key is deleted by name, whoever owns it *)
DeleteByName(a) ==
  /\ Goto(a, "revoking", "returned")
  /\ lease' = [lease EXCEPT ![a] = "gone"]
  /\ lockKey' = [lockKey EXCEPT ![KeyOf[a]] = NoOwner]
  /\ UNCHANGED <<result, renewing>>

Revoke(a) ==
  /\ Goto(a, "revoking", "returned")
  /\ EndLease(a)
  /\ UNCHANGED <<result, renewing>>

(* The call fails; the lease stays and nobody will try again. *)
RevokeError(a) ==
  /\ Goto(a, "revoking", "returned")
  /\ UNCHANGED <<result, lease, renewing, lockKey>>

----------------------------------------------------------------------------
(* etcd and the outside *)

(* The lease runs out.  The response channel of the client is closed; the
   goroutine that reads it just ends, nobody tells the holder. *)
Expire(a) ==
  /\ lease[a] = "live"
  /\ renewing[a] => WorkerOf[a] \notin Steady
  /\ EndLease(a)
  /\ renewing' = [renewing EXCEPT ![a] = FALSE]
  /\ UNCHANGED <<pc, result>>

Crash(w) ==
  LET lost == {a \in Attempts : WorkerOf[a] = w /\ pc[a] # "returned"} IN
  /\ \E a \in lost : pc[a] # "crashed"
  /\ pc' = [a \in Attempts |-> IF a \in lost THEN "crashed" ELSE pc[a]]
  /\ renewing' = [a \in Attempts |-> IF a \in lost THEN FALSE ELSE renewing[a]]
  /\ UNCHANGED <<result, lease, lockKey>>

TryLock(a) ==
  \/ Grant(a) \/ GrantError(a)
  \/ StartKeepAlive(a) \/ KeepAliveError(a)
  \/ TxnAcquire(a) \/ TxnBusy(a) \/ TxnError(a)
  \/ FailGetLock(a)

Step(a) == TryLock(a) \/ UnLock(a) \/ Revoke(a) \/ RevokeError(a)

Next ==
  \/ \E a \in Attempts : Step(a) \/ Expire(a)
  \/ \E w \in Workers : Crash(w)

Spec == Init /\ [][Next]_vars

(* A goroutine that can go on does, its command ends, and etcd's clock expires
   a lease nobody renews. *)
FairSpec ==
  /\ Spec
  /\ \A a \in Attempts :
       WF_vars(Step(a)) /\ WF_vars(~renewing[a] /\ Expire(a))

----------------------------------------------------------------------------
(* Two goroutines whose workers keep their leases never run the same task's
   command at the same time, whatever happens to the others. *)
MutualExclusion ==
  \A a, b \in {c \in Attempts : pc[c] = "held" /\ WorkerOf[c] \in Steady} :
    KeyOf[a] = KeyOf[b] => a = b

(* However unreliable the renewal: of the goroutines that believe they hold a
   key, at most one still has its lease, and that one owns the key. *)
FencedMutex ==
  \A a \in Attempts :
    pc[a] = "held" /\ lease[a] = "live" => lockKey[KeyOf[a]] = a

(* An attempt told ERROR_LOCK_REQUIRED, which the scheduler forgets silently,
   lost against another attempt on the key that won it or that reports an error
   itself: no task is dropped by everyone. *)
BusyHasRival ==
  \A a \in Attempts : result[a] = "lock_required" =>
    \E b \in Attempts \ {a} :
      KeyOf[b] = KeyOf[a] /\ result[b] \in {"ok", "txn_error"}

(* A key changes hands only through the free state, and becomes free only
   because the lease of its owner ended: no loser's clean-up (FAIL_GET_LOCK)
   and no late UnLock removes the key of another attempt. *)
KeyHandoff ==
  [][\A k \in Keys : lockKey'[k] # lockKey[k] =>
       \/ lockKey[k] = NoOwner
       \/ lockKey'[k] = NoOwner /\ lease'[lockKey[k]] = "gone"]_vars

(* Every key that was taken is given back, whichever call failed and whoever
   crashed: at the latest when its lease times out. *)
Released ==
  \A a \in Attempts : lockKey[KeyOf[a]] = a ~> lockKey[KeyOf[a]] # a

(* The protocol implements the lock service the workers rely on. *)
Service ==
  INSTANCE LockService
    WITH Clients <- Attempts, Reliable <- {a \in Attempts : WorkerOf[a] \in Steady},
         holder <- lockKey,
         using <- [k \in Keys |->
                     {a \in Attempts : pc[a] = "held" /\ KeyOf[a] = k}]
ImplementsLockService == Service!Spec
=============================================================================
