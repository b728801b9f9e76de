---------------------------- MODULE LockService ----------------------------
(***************************************************************************)
(* What the workers expect of the lock that guards a task: at most one     *)
(* client is registered at a key, a client is registered only when the key *)
(* is free, and from a client that renews its lease reliably the           *)
(* registration is not taken while it relies on it.  TaskLock (the lease   *)
(* protocol of lock.go) and WorkerCluster (the whole worker) implement it. *)
(***************************************************************************)
CONSTANTS Clients, Keys, NoOwner,
          Reliable      \* the clients whose registration is kept while they use it

VARIABLES holder,       \* key -> the client registered at it, or NoOwner
          using         \* key -> the clients that act as if they held it

lockVars == <<holder, using>>

LockTypeOK ==
  /\ holder \in [Keys -> Clients \cup {NoOwner}]
  /\ using \in [Keys -> SUBSET Clients]

Init ==
  /\ holder = [k \in Keys |-> NoOwner]
  /\ using = [k \in Keys |-> {}]

(* c becomes the owner of a free key and learns that it did. *)
Acquire(k, c) ==
  /\ holder[k] = NoOwner
  /\ holder' = [holder EXCEPT ![k] = c]
  /\ using' = [using EXCEPT ![k] = @ \cup {c}]

(* c is registered but never learns of it: the answer was lost. *)
Orphan(k, c) ==
  /\ holder[k] = NoOwner
  /\ holder' = [holder EXCEPT ![k] = c]
  /\ UNCHANGED using

(* Some clients stop acting on some keys: they are done, or they crashed. *)
Stop(C, K) ==
  /\ using' = [k \in Keys |-> IF k \in K THEN using[k] \ C ELSE using[k]]
  /\ UNCHANGED holder

(* The service drops a registration. *)
Free(k) ==
  /\ holder[k] # NoOwner
  /\ holder[k] \in Reliable => holder[k] \notin using[k]
  /\ holder' = [holder EXCEPT ![k] = NoOwner]
  /\ UNCHANGED using

Next ==
  \/ \E k \in Keys, c \in Clients : Acquire(k, c) \/ Orphan(k, c)
  \/ \E C \in SUBSET Clients, K \in SUBSET Keys : Stop(C, K)
  \/ \E k \in Keys : Free(k)

Spec == Init /\ [][Next]_lockVars
=============================================================================
