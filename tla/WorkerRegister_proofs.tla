------------------------ MODULE WorkerRegister_proofs ------------------------
(***************************************************************************)
(* Proofs about the list of workers, for any processes, on hosts with any  *)
(* addresses, and any number of leases and mishaps.                        *)
(***************************************************************************)
EXTENDS WorkerRegister, TLAPS

(* From the grant to the end of the renewals keepAlive has a lease. *)
HasLease ==
  \A p \in Processes : at[p] \in {"keepalive", "put", "renew"} => leaseID[p] \in Leases

RInv == RegisterTypeOK /\ HasLease /\ RegisteredListed

USE NoLeaseAssumption, MaxMishapsAssumption

-----------------------------------------------------------------------------
(* Nothing runs at first. *)
LEMMA InitRInv == RegisterInit => RInv
<1> SUFFICES ASSUME RegisterInit PROVE RInv
  OBVIOUS
<1> USE DEF RegisterInit
<1>1. /\ main \in [Processes -> {"down", "init", "watch", "select"}]
      /\ watcher \in [Processes -> {"none", "get", "watching", "test", "sent", "blocked",
                                    "overwritten"}]
      /\ at \in [Processes -> {"off", "grant", "keepalive", "put", "renew", "sleep"}]
  OBVIOUS
<1>2. /\ killer \in [Processes -> BOOLEAN]
      /\ err \in [Processes -> BOOLEAN] /\ quit \in [Processes -> BOOLEAN]
  OBVIOUS
<1>3. /\ leaseID \in [Processes -> Leases \cup {NoLease}]
      /\ live \subseteq Leases /\ renewed \subseteq Leases
      /\ workerKey \in [Addresses -> live \cup {NoLease}]
  OBVIOUS
<1>4. mishaps \in 0..MaxMishaps
  OBVIOUS
<1>5. HasLease /\ RegisteredListed
  BY DEF HasLease, RegisteredListed, Registered
<1> HIDE DEF RegisterInit
<1> QED BY <1>1, <1>2, <1>3, <1>4, <1>5 DEF RInv, RegisterTypeOK

(* The counter of mishaps stays below its bound. *)
LEMMA MishapType == mishaps \in 0..MaxMishaps /\ (Mishap \/ UNCHANGED mishaps)
                      => mishaps' \in 0..MaxMishaps
BY DEF Mishap

(* The steps of main and of the goroutines beside it concern no lease. *)
LEMMA MainRInv ==
  ASSUME NEW p \in Processes, RInv,
         StartWatchers(p) \/ MakeNormalQuit(p) \/ Watching(p)
  PROVE  RInv'
<1> USE DEF RInv
<1>1. UNCHANGED <<keepAliveVars, live, workerKey>> /\ (Mishap \/ UNCHANGED mishaps)
  BY DEF StartWatchers, MakeNormalQuit, Watching, WatchTasksReturns, WatchKillerReturns,
         ReportWatchError
<1>2. mishaps' \in 0..MaxMishaps
  BY <1>1, MishapType DEF RegisterTypeOK
<1>3. main' \in [Processes -> {"down", "init", "watch", "select"}]
  BY DEF RegisterTypeOK, StartWatchers, MakeNormalQuit, Watching, WatchTasksReturns,
         WatchKillerReturns, ReportWatchError, Step
<1>4. watcher' \in [Processes -> {"none", "get", "watching", "test", "sent", "blocked",
                                  "overwritten"}]
  BY DEF RegisterTypeOK, StartWatchers, MakeNormalQuit, Watching, WatchTasksReturns,
         WatchKillerReturns, ReportWatchError
<1>5. /\ killer' \in [Processes -> BOOLEAN]
      /\ err' \in [Processes -> BOOLEAN] /\ quit' \in [Processes -> BOOLEAN]
  <2>1. CASE StartWatchers(p) \/ MakeNormalQuit(p)
    BY <2>1 DEF RegisterTypeOK, StartWatchers, MakeNormalQuit
  <2>2. CASE WatchTasksReturns(p) \/ WatchKillerReturns(p)
    BY <2>2 DEF RegisterTypeOK, WatchTasksReturns, WatchKillerReturns
  <2>3. CASE ReportWatchError(p)
    <3> DEFINE sends == err[p] /\ main[p] = "select"
    <3>1. sends \in BOOLEAN BY DEF RegisterTypeOK
    <3>2. quit' = [quit EXCEPT ![p] = sends] /\ UNCHANGED <<killer, err>>
      BY <2>3 DEF ReportWatchError
    <3> HIDE DEF sends
    <3> QED BY <3>1, <3>2 DEF RegisterTypeOK
  <2> QED BY <2>1, <2>2, <2>3 DEF Watching
<1>6. RegisterTypeOK'
  BY <1>1, <1>2, <1>3, <1>4, <1>5 DEF RegisterTypeOK, keepAliveVars
<1>7. HasLease' /\ RegisteredListed'
  BY <1>1 DEF HasLease, RegisteredListed, Registered, keepAliveVars
<1> QED BY <1>6, <1>7

(* A process that begins or ends has no lease it renews; its key stays. *)
LEMMA ProcessRInv ==
  ASSUME NEW p \in Processes, RInv, Boot(p) \/ Crash(p) \/ NormalQuit(p)
  PROVE  RInv'
<1> USE DEF RInv
<1>1. /\ UNCHANGED <<live, workerKey>> /\ (Mishap \/ UNCHANGED mishaps)
      /\ \E b \in {"off", "grant"} : at' = [at EXCEPT ![p] = b]
      /\ leaseID' \in {leaseID, [leaseID EXCEPT ![p] = NoLease]}
      /\ renewed' \in {renewed, renewed \ {leaseID[p]}}
  BY DEF Boot, Crash, NormalQuit, Exit
<1>2. mishaps' \in 0..MaxMishaps
  BY <1>1, MishapType DEF RegisterTypeOK
<1>3. /\ main' \in [Processes -> {"down", "init", "watch", "select"}]
      /\ watcher' \in [Processes -> {"none", "get", "watching", "test", "sent", "blocked",
                                     "overwritten"}]
  BY DEF RegisterTypeOK, Boot, Crash, NormalQuit, Exit, Step
<1>4. /\ killer' \in [Processes -> BOOLEAN]
      /\ err' \in [Processes -> BOOLEAN] /\ quit' \in [Processes -> BOOLEAN]
  BY DEF RegisterTypeOK, Boot, Crash, NormalQuit, Exit
<1>5. /\ at' \in [Processes -> {"off", "grant", "keepalive", "put", "renew", "sleep"}]
      /\ leaseID' \in [Processes -> Leases \cup {NoLease}]
      /\ live' \subseteq Leases /\ renewed' \subseteq Leases
      /\ workerKey' \in [Addresses -> live' \cup {NoLease}]
  BY <1>1 DEF RegisterTypeOK
<1>6. RegisterTypeOK'
  BY <1>2, <1>3, <1>4, <1>5 DEF RegisterTypeOK
<1>7. HasLease' /\ RegisteredListed'
  BY <1>1 DEF HasLease, RegisteredListed, Registered, RegisterTypeOK
<1> QED BY <1>6, <1>7

(* What keepAlive does to the variables of main. *)
LEMMA KeepAliveType ==
  ASSUME NEW p \in Processes, RegisterTypeOK, HasLease, KeepAliveLoop(p)
  PROVE  RegisterTypeOK'
<1>1. UNCHANGED mainVars /\ (Mishap \/ UNCHANGED mishaps)
  BY DEF KeepAliveLoop, GrantLease, KeepAlive, PutKey, RenewalEnds, Wake
<1>2. mishaps' \in 0..MaxMishaps
  BY <1>1, MishapType DEF RegisterTypeOK
<1>3. at' \in [Processes -> {"off", "grant", "keepalive", "put", "renew", "sleep"}]
  BY DEF RegisterTypeOK, KeepAliveLoop, GrantLease, KeepAlive, PutKey, RenewalEnds, Wake,
         TryAgain, Move
<1>4. /\ leaseID' \in [Processes -> Leases \cup {NoLease}]
      /\ live' \subseteq Leases /\ live \subseteq live'
  <2>1. CASE GrantLease(p)
    <3>1. UNCHANGED <<leaseID, live>>
          \/ \E l \in Leases : leaseID' = [leaseID EXCEPT ![p] = l] /\ live' = live \cup {l}
      BY <2>1 DEF GrantLease, Unused
    <3> QED BY <3>1 DEF RegisterTypeOK
  <2>2. CASE ~GrantLease(p)
    BY <2>2 DEF RegisterTypeOK, KeepAliveLoop, KeepAlive, PutKey, RenewalEnds, Wake
  <2> QED BY <2>1, <2>2
<1>5. renewed' \subseteq Leases
  <2>1. CASE KeepAlive(p)
    <3>1. renewed' \subseteq renewed \cup {leaseID[p]}
      BY <2>1 DEF KeepAlive, TryAgain
    <3>2. leaseID[p] \in Leases
      BY <2>1 DEF KeepAlive, TryAgain, Move, HasLease
    <3> QED BY <3>1, <3>2 DEF RegisterTypeOK
  <2>2. CASE ~KeepAlive(p)
    BY <2>2 DEF RegisterTypeOK, KeepAliveLoop, GrantLease, PutKey, RenewalEnds, Wake, TryAgain
  <2> QED BY <2>1, <2>2
<1>6. workerKey' \in [Addresses -> live' \cup {NoLease}]
  BY <1>4 DEF RegisterTypeOK, KeepAliveLoop, GrantLease, KeepAlive, PutKey, RenewalEnds, Wake,
              Addresses
<1> QED BY <1>1, <1>2, <1>3, <1>4, <1>5, <1>6 DEF RegisterTypeOK, mainVars

(* keepAlive gets from one lease to the next through sleep only. *)
LEMMA KeepAliveHasLease ==
  ASSUME NEW p \in Processes, RegisterTypeOK, HasLease, KeepAliveLoop(p)
  PROVE  HasLease'
<1>1. CASE GrantLease(p)
  BY <1>1 DEF GrantLease, Unused, TryAgain, Move, HasLease, RegisterTypeOK
<1>2. CASE KeepAlive(p) \/ RenewalEnds(p) \/ Wake(p)
  BY <1>2 DEF KeepAlive, RenewalEnds, Wake, TryAgain, Move, HasLease, RegisterTypeOK
<1>3. CASE PutKey(p)
  BY <1>3 DEF PutKey, TryAgain, Move, HasLease, RegisterTypeOK
<1> QED BY <1>1, <1>2, <1>3 DEF KeepAliveLoop

(* The put attaches the key to the lease, and no other process has this address;
   a lease that is granted is nobody's yet. *)
LEMMA KeepAliveListed ==
  ASSUME NEW p \in Processes, RInv, KeepAliveLoop(p)
  PROVE  RegisteredListed'
<1> USE DEF RInv, RegisteredListed, Registered, RegisterTypeOK
<1>1. CASE GrantLease(p)
  <2>1. CASE UNCHANGED <<leaseID, live, workerKey>>
    BY <1>1, <2>1 DEF GrantLease, TryAgain, Move
  <2>2. CASE ~UNCHANGED <<leaseID, live, workerKey>>
    <3>1. PICK l \in Unused :
            /\ leaseID' = [leaseID EXCEPT ![p] = l] /\ live' = live \cup {l}
            /\ UNCHANGED workerKey /\ at' = [at EXCEPT ![p] = "keepalive"]
      BY <1>1, <2>2 DEF GrantLease, Move
    <3> QED BY <3>1 DEF Unused
  <2> QED BY <2>1, <2>2
<1>2. CASE KeepAlive(p) \/ RenewalEnds(p) \/ Wake(p)
  BY <1>2 DEF KeepAlive, RenewalEnds, Wake, TryAgain, Move
<1>3. CASE PutKey(p)
  <2>1. UNCHANGED <<leaseID, live>>
    BY <1>3 DEF PutKey
  <2>2. \/ UNCHANGED workerKey /\ at' = [at EXCEPT ![p] = "sleep"]
        \/ /\ workerKey' = [workerKey EXCEPT ![IpOf[p]] = leaseID[p]]
           /\ at' \in {[at EXCEPT ![p] = "renew"], [at EXCEPT ![p] = "sleep"]}
    BY <1>3 DEF PutKey, TryAgain, Move
  <2>3. IpOf[p] \in Addresses
    BY DEF Addresses
  <2> SUFFICES ASSUME NEW q \in Processes, at'[q] = "renew", leaseID[q] \in live,
                      \A r \in Processes \ {q} : IpOf[r] # IpOf[q]
               PROVE  workerKey'[IpOf[q]] = leaseID[q]
    BY <2>1
  <2>4. CASE q = p
    BY <2>2, <2>3, <2>4
  <2>5. CASE q # p
    <3>1. at[q] = "renew" BY <2>2, <2>5
    <3>2. IpOf[p] # IpOf[q] /\ IpOf[q] \in Addresses BY <2>5 DEF Addresses
    <3> QED BY <2>2, <3>1, <3>2
  <2> QED BY <2>4, <2>5
<1> QED BY <1>1, <1>2, <1>3 DEF KeepAliveLoop

(* The end of a lease takes away the key that is attached to it, and no other. *)
LEMMA EndOfRInv ==
  ASSUME NEW l \in Leases, RInv, LeaseRunsOut(l) \/ LeaseLost(l)
  PROVE  RInv'
<1>1. EndOf(l) /\ (Mishap \/ UNCHANGED mishaps)
  BY DEF LeaseRunsOut, LeaseLost
<1>2. mishaps' \in 0..MaxMishaps
  BY <1>1, MishapType DEF RInv, RegisterTypeOK
<1>3. RegisterTypeOK'
  BY <1>1, <1>2 DEF EndOf, RInv, RegisterTypeOK, mainVars, keepAliveVars
<1>4. HasLease'
  BY <1>1 DEF EndOf, RInv, HasLease, keepAliveVars
<1>5. RegisteredListed'
  <2>1. \A p \in Processes : IpOf[p] \in Addresses
    BY DEF Addresses
  <2> QED BY <1>1, <2>1 DEF EndOf, RInv, RegisteredListed, Registered, keepAliveVars
<1> QED BY <1>3, <1>4, <1>5 DEF RInv

(* Every step keeps the invariant. *)
LEMMA NextRInv == RInv /\ [RegisterNext]_registerVars => RInv'
<1> SUFFICES ASSUME RInv, [RegisterNext]_registerVars PROVE RInv'
  OBVIOUS
<1>1. ASSUME NEW p \in Processes, KeepAliveLoop(p) PROVE RInv'
  BY <1>1, KeepAliveType, KeepAliveHasLease, KeepAliveListed DEF RInv
<1>2. ASSUME NEW p \in Processes, Boot(p) \/ Main(p) \/ Watching(p) \/ Crash(p) PROVE RInv'
  BY <1>2, MainRInv, ProcessRInv DEF Main
<1>3. ASSUME NEW l \in Leases, LeaseRunsOut(l) \/ LeaseLost(l) PROVE RInv'
  BY <1>3, EndOfRInv
<1>4. CASE UNCHANGED registerVars
  BY <1>4 DEF RInv, RegisterTypeOK, HasLease, RegisteredListed, Registered, registerVars,
              mainVars, keepAliveVars
<1> QED BY <1>1, <1>2, <1>3, <1>4 DEF RegisterNext

-----------------------------------------------------------------------------
(* The invariant holds for ever. *)
THEOREM Invariance == RegisterSpec => []RInv
<1>1. RegisterInit => RInv BY InitRInv
<1>2. RInv /\ [RegisterNext]_registerVars => RInv' BY NextRInv
<1> QED BY <1>1, <1>2, PTL DEF RegisterSpec

(* The variables of workers, leases and keys keep their types; a key in the
   directory is attached to a lease that is alive. *)
THEOREM TypeCorrect == RegisterSpec => []RegisterTypeOK
<1>1. RInv => RegisterTypeOK BY DEF RInv
<1> QED BY <1>1, Invariance, PTL

(* A worker whose renewals arrive is on the list, under its present lease. *)
THEOREM Listing == RegisterSpec => []RegisteredListed
<1>1. RInv => RegisteredListed BY DEF RInv
<1> QED BY <1>1, Invariance, PTL
=============================================================================
