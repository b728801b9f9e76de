--------------------------- MODULE TaskLock_proofs ---------------------------
(***************************************************************************)
(* Proofs about the lock of lock.go, for every number of attempts, workers *)
(* and keys.  The invariants a run checks follow from IInv, which is       *)
(* inductive; the last theorem shows that every step of the protocol is a  *)
(* step of the lock service or leaves it alone.                            *)
(***************************************************************************)
EXTENDS TaskLock, TLAPS

(* The types alone; that a key hangs on a live lease takes the whole IInv. *)
Types ==
  /\ pc \in [Attempts -> PCs]
  /\ result \in [Attempts -> Results]
  /\ lease \in [Attempts -> {"none", "live", "gone"}]
  /\ renewing \in [Attempts -> BOOLEAN]
  /\ lockKey \in [Keys -> Attempts \cup {NoOwner}]

(* A registered attempt is registered at its own key and its lease is alive. *)
KeyBacked ==
  \A k \in Keys : lockKey[k] # NoOwner =>
    KeyOf[lockKey[k]] = k /\ lease[lockKey[k]] = "live"

(* Before the answer of the transaction TryLock has returned nothing; whoever
   owns a key was told so or reports an error. *)
ResultOfOwner ==
  /\ \A a \in Attempts :
       pc[a] \in {"grant", "keepalive", "txn"} => result[a] = "none"
  /\ \A k \in Keys :
       lockKey[k] # NoOwner => result[lockKey[k]] \in {"ok", "txn_error"}

(* The attempts whose worker's renewals reach etcd in time; as long as they may
   still hold a key they renew, and a holder among them has its lease. *)
SteadyAttempts == {a \in Attempts : WorkerOf[a] \in Steady}

HolderRenews ==
  \A a \in SteadyAttempts :
    /\ pc[a] \in {"txn", "held"} => renewing[a]
    /\ pc[a] = "held" => lease[a] = "live"

IInv ==
  Types /\ KeyBacked /\ FencedMutex /\ ResultOfOwner /\ BusyHasRival /\ HolderRenews

USE NoOwnerAssumption, KeyOfAssumption, WorkerOfAssumption, SteadyAssumption

-----------------------------------------------------------------------------
(* The initial state satisfies the inductive invariant. *)
LEMMA InitIInv == Init => IInv
BY DEF Init, IInv, Types, KeyBacked, FencedMutex, ResultOfOwner, BusyHasRival,
       HolderRenews, SteadyAttempts, PCs, Results

(* Every action of the lock module keeps the variables in their types. *)
LEMMA NextTypes == Types /\ [Next]_vars => Types'
<1> SUFFICES ASSUME Types, [Next]_vars PROVE Types'
  OBVIOUS
<1> USE DEF Types, PCs, Results, Goto, Return
<1>1. ASSUME NEW a \in Attempts, TryLock(a) PROVE Types'
  <2>1. CASE Grant(a) BY <2>1 DEF Grant
  <2>2. CASE GrantError(a) BY <2>2 DEF GrantError
  <2>3. CASE StartKeepAlive(a) BY <2>3 DEF StartKeepAlive
  <2>4. CASE KeepAliveError(a) BY <2>4 DEF KeepAliveError
  <2>5. CASE TxnAcquire(a) BY <2>5 DEF TxnAcquire
  <2>6. CASE TxnBusy(a) BY <2>6 DEF TxnBusy
  <2>7. CASE TxnError(a) BY <2>7 DEF TxnError
  <2>8. CASE FailGetLock(a) BY <2>8 DEF FailGetLock, Cancel
  <2> QED BY <1>1, <2>1, <2>2, <2>3, <2>4, <2>5, <2>6, <2>7, <2>8 DEF TryLock
<1>2. ASSUME NEW a \in Attempts, UnLock(a) PROVE Types'
  BY <1>2 DEF UnLock, Cancel
<1>3. ASSUME NEW a \in Attempts, Revoke(a) PROVE Types'
  BY <1>3 DEF Revoke, EndLease
<1>4. ASSUME NEW a \in Attempts, RevokeError(a) PROVE Types'
  BY <1>4 DEF RevokeError
<1>5. ASSUME NEW a \in Attempts, Expire(a) PROVE Types'
  BY <1>5 DEF Expire, EndLease
<1>6. ASSUME NEW w \in Workers, Crash(w) PROVE Types'
  BY <1>6 DEF Crash
<1>7. CASE UNCHANGED vars BY <1>7 DEF vars
<1> QED BY <1>1, <1>2, <1>3, <1>4, <1>5, <1>6, <1>7 DEF Next, Step

(* Every action preserves the invariant.  Grant, a failing Grant, KeepAlive and
   its error touch no key; the transaction registers an attempt only at a free
   key; only the end of a lease frees keys, and only those of its attempt. *)
LEMMA NextIInv == IInv /\ [Next]_vars => IInv'
<1> SUFFICES ASSUME IInv, [Next]_vars PROVE IInv'
  OBVIOUS
<1>0. Types' BY NextTypes DEF IInv
<1> USE <1>0 DEF IInv, Types, KeyBacked, FencedMutex, ResultOfOwner,
                 BusyHasRival, HolderRenews, SteadyAttempts, Goto, Return
<1>1. ASSUME NEW a \in Attempts, Grant(a) PROVE IInv'
  BY <1>1 DEF Grant
<1>2. ASSUME NEW a \in Attempts, GrantError(a) PROVE IInv'
  BY <1>2 DEF GrantError
<1>3. ASSUME NEW a \in Attempts, StartKeepAlive(a) PROVE IInv'
  BY <1>3 DEF StartKeepAlive
<1>4. ASSUME NEW a \in Attempts, KeepAliveError(a) PROVE IInv'
  BY <1>4 DEF KeepAliveError
<1>5. ASSUME NEW a \in Attempts, TxnAcquire(a) PROVE IInv'
  BY <1>5 DEF TxnAcquire
<1>6. ASSUME NEW a \in Attempts, TxnBusy(a) PROVE IInv'
  BY <1>6 DEF TxnBusy
<1>7. ASSUME NEW a \in Attempts, TxnError(a) PROVE IInv'
  BY <1>7 DEF TxnError
<1>8. ASSUME NEW a \in Attempts, FailGetLock(a) \/ UnLock(a) PROVE IInv'
  BY <1>8 DEF FailGetLock, UnLock, Cancel
<1>9. ASSUME NEW a \in Attempts, Revoke(a) PROVE IInv'
  BY <1>9 DEF Revoke, EndLease
<1>10. ASSUME NEW a \in Attempts, RevokeError(a) PROVE IInv'
  BY <1>10 DEF RevokeError
<1>11. ASSUME NEW a \in Attempts, Expire(a) PROVE IInv'
  BY <1>11 DEF Expire, EndLease
<1>12. ASSUME NEW w \in Workers, Crash(w) PROVE IInv'
  BY <1>12 DEF Crash
<1>13. CASE UNCHANGED vars
  BY <1>13 DEF vars
<1> QED
  BY <1>1, <1>2, <1>3, <1>4, <1>5, <1>6, <1>7, <1>8, <1>9, <1>10, <1>11, <1>12,
     <1>13 DEF Next, Step, TryLock

(* The inductive invariant holds in every reachable state. *)
THEOREM Invariance == Spec => []IInv
BY InitIInv, NextIInv, PTL DEF Spec

(* The variables of the lock module always have their types, and every key that
   is taken is attached to a lease that is alive: nobody's clean-up, lost answer
   or crash leaves a key behind that no lease would ever delete. *)
THEOREM TypeCorrect == Spec => []TypeOK
<1>1. IInv => TypeOK BY DEF IInv, Types, TypeOK, KeyBacked
<1> QED BY <1>1, Invariance, PTL

(* Two holders whose leases live would both own the key. *)
LEMMA HoldersOwn ==
  ASSUME IInv PROVE MutualExclusion
BY DEF IInv, FencedMutex, HolderRenews, SteadyAttempts, MutualExclusion, Types

(* Between workers that keep their leases the lock of lock.go is a lock. *)
THEOREM Exclusive == Spec => []MutualExclusion
<1>1. IInv => MutualExclusion BY HoldersOwn
<1> QED BY <1>1, Invariance, PTL

(* On any worker, a holder whose lease is alive owns the key. *)
THEOREM Fenced == Spec => []FencedMutex
<1>1. IInv => FencedMutex BY DEF IInv
<1> QED BY <1>1, Invariance, PTL

(* ERROR_LOCK_REQUIRED always means that another attempt answers for the task. *)
THEOREM LosersHaveRival == Spec => []BusyHasRival
<1>1. IInv => BusyHasRival BY DEF IInv
<1> QED BY <1>1, Invariance, PTL

(* A key is only ever taken when free and freed when its owner's lease ends. *)
THEOREM Handoff == Spec => KeyHandoff
<1> DEFINE Handover ==
      \A k \in Keys : lockKey'[k] # lockKey[k] =>
        \/ lockKey[k] = NoOwner
        \/ lockKey'[k] = NoOwner /\ lease'[lockKey[k]] = "gone"
<1>1. IInv /\ [Next]_vars => [Handover]_vars
  BY DEF IInv, Types, Next, Step, TryLock, Grant, GrantError, StartKeepAlive,
         KeepAliveError, TxnAcquire, TxnBusy, TxnError, FailGetLock, UnLock,
         Cancel, Revoke, RevokeError, Expire, EndLease, Crash, vars
<1> QED BY <1>1, Invariance, PTL DEF Spec, KeyHandoff

-----------------------------------------------------------------------------
(* The refinement: registered attempts are the holders, attempts whose command
   runs are the users of the abstract lock service. *)

Users == [k \in Keys |-> {a \in Attempts : pc[a] = "held" /\ KeyOf[a] = k}]

LEMMA InitService == Init => Service!Init
BY DEF Init, Service!Init

(* The transaction that finds the key free is Acquire. *)
LEMMA AcquireStep ==
  ASSUME IInv, NEW a \in Attempts, TxnAcquire(a)
  PROVE  Service!Acquire(KeyOf[a], a)
<1>1. Users' = [Users EXCEPT ![KeyOf[a]] = @ \cup {a}]
  <2>1. \A b \in Attempts : pc'[b] = "held" <=> pc[b] = "held" \/ b = a
    BY DEF TxnAcquire, Goto, IInv, Types
  <2>2. ASSUME NEW k \in Keys
        PROVE  Users'[k] = IF k = KeyOf[a] THEN Users[k] \cup {a} ELSE Users[k]
    BY <2>1 DEF Users
  <2> QED BY <2>2 DEF Users
<1> QED BY <1>1 DEF Users, TxnAcquire, Service!Acquire

(* Steps that leave pc away from and out of "held" do not change the users. *)
LEMMA SameUsers ==
  ASSUME Types, NEW a \in Attempts, NEW p \in PCs \ {"held"},
         NEW q \in PCs \ {"held"}, Goto(a, p, q)
  PROVE  Users' = Users
BY DEF Users, Goto, Types

(* When a lease ends, its key becomes free; the attempt of a steady worker no
   longer runs its command then. *)
LEMMA EndLeaseStep ==
  ASSUME IInv, NEW a \in Attempts, EndLease(a), Users' = Users,
         a \in SteadyAttempts => pc[a] # "held"
  PROVE  Service!Free(KeyOf[a]) \/ UNCHANGED Service!lockVars
<1>1. CASE lockKey[KeyOf[a]] = a
  <2>1. lockKey' = [lockKey EXCEPT ![KeyOf[a]] = NoOwner]
    BY <1>1 DEF EndLease, IInv, Types, KeyBacked
  <2>2. a \in SteadyAttempts => a \notin Users[KeyOf[a]]
    BY DEF Users
  <2> QED BY <1>1, <2>1, <2>2 DEF Users, SteadyAttempts, Service!Free
<1>2. CASE lockKey[KeyOf[a]] # a
  <2>1. lockKey' = lockKey
    BY <1>2 DEF EndLease, IInv, Types, KeyBacked
  <2> QED BY <2>1 DEF Users, Service!lockVars
<1> QED BY <1>1, <1>2

(* UnLock and a crash stop clients from acting on their keys. *)
LEMMA StopStep ==
  ASSUME Types, NEW C \in SUBSET Attempts, UNCHANGED lockKey,
         \A b \in Attempts : pc'[b] = "held" <=> pc[b] = "held" /\ b \notin C
  PROVE  Service!Stop(C, Keys)
<1>1. Users' = [k \in Keys |-> IF k \in Keys THEN Users[k] \ C ELSE Users[k]]
  BY DEF Users
<1> QED BY <1>1 DEF Users, Service!Stop

(* Every step of the lock is a step of the service or changes nothing in it. *)
LEMMA StepService == IInv /\ [Next]_vars => [Service!Next]_(Service!lockVars)
<1> SUFFICES ASSUME IInv, [Next]_vars
             PROVE  Service!Next \/ UNCHANGED Service!lockVars
  OBVIOUS
<1> USE DEF IInv
<1>1. ASSUME NEW a \in Attempts, Grant(a) \/ GrantError(a) \/ StartKeepAlive(a)
             \/ KeepAliveError(a) \/ TxnBusy(a) \/ FailGetLock(a) \/ RevokeError(a)
      PROVE  UNCHANGED Service!lockVars
  <2>1. Users' = Users
    BY <1>1, SameUsers DEF Grant, GrantError, StartKeepAlive, KeepAliveError,
       TxnBusy, FailGetLock, RevokeError, Cancel, PCs
  <2> QED
    BY <1>1, <2>1 DEF Grant, GrantError, StartKeepAlive, KeepAliveError, TxnBusy,
       FailGetLock, RevokeError, Cancel, Users, Service!lockVars
<1>2. ASSUME NEW a \in Attempts, TxnAcquire(a) PROVE Service!Next
  BY <1>2, AcquireStep, KeyOfAssumption DEF Service!Next
<1>3. ASSUME NEW a \in Attempts, TxnError(a)
      PROVE  Service!Next \/ UNCHANGED Service!lockVars
  <2>1. Users' = Users BY <1>3, SameUsers DEF TxnError, PCs
  <2>2. CASE UNCHANGED lockKey
    BY <2>1, <2>2 DEF Users, Service!lockVars
  <2>3. CASE ~UNCHANGED lockKey
    BY <1>3, <2>1, <2>3 DEF TxnError, Users, Service!Orphan, Service!Next
  <2> QED BY <2>2, <2>3
<1>4. ASSUME NEW a \in Attempts, UnLock(a) PROVE Service!Next
  <2>1. Service!Stop({a}, Keys)
    BY <1>4, StopStep DEF UnLock, Cancel, Goto, Types
  <2> QED BY <2>1 DEF Service!Next
<1>5. ASSUME NEW a \in Attempts, Revoke(a)
      PROVE  Service!Next \/ UNCHANGED Service!lockVars
  <2>1. Users' = Users BY <1>5, SameUsers DEF Revoke, PCs
  <2>2. Service!Free(KeyOf[a]) \/ UNCHANGED Service!lockVars
    BY <1>5, <2>1, EndLeaseStep DEF Revoke, Goto
  <2> QED BY <2>2, KeyOfAssumption DEF Service!Next
<1>6. ASSUME NEW a \in Attempts, Expire(a)
      PROVE  Service!Next \/ UNCHANGED Service!lockVars
  <2>1. Users' = Users BY <1>6 DEF Expire, Users
  <2>2. a \in SteadyAttempts => pc[a] # "held"
    BY <1>6 DEF Expire, HolderRenews, SteadyAttempts
  <2>3. Service!Free(KeyOf[a]) \/ UNCHANGED Service!lockVars
    BY <1>6, <2>1, <2>2, EndLeaseStep DEF Expire
  <2> QED BY <2>3, KeyOfAssumption DEF Service!Next
<1>7. ASSUME NEW w \in Workers, Crash(w) PROVE Service!Next
  <2>1. PICK C \in SUBSET Attempts :
          \A b \in Attempts : pc'[b] = "held" <=> pc[b] = "held" /\ b \notin C
    <3> WITNESS {a \in Attempts : WorkerOf[a] = w /\ pc[a] # "returned"}
                \in SUBSET Attempts
    <3> QED BY <1>7 DEF Crash, Types
  <2>2. Service!Stop(C, Keys)
    BY <1>7, <2>1, StopStep, Zenon DEF Crash
  <2>3. Keys \in SUBSET Keys
    OBVIOUS
  <2> QED BY <2>1, <2>2, <2>3, Zenon DEF Service!Next
<1>8. CASE UNCHANGED vars
  BY <1>8 DEF vars, Service!lockVars
<1> QED
  BY <1>1, <1>2, <1>3, <1>4, <1>5, <1>6, <1>7, <1>8 DEF Next, Step, TryLock

(* The lease protocol of lock.go implements the abstract lock service. *)
THEOREM RefinesLockService == Spec => ImplementsLockService
BY InitService, StepService, Invariance, PTL
   DEF Spec, ImplementsLockService, Service!Spec
=============================================================================
