------------------------ MODULE AlertPipeline_proofs ------------------------
(***************************************************************************)
(* Proofs about the leader election of elector.go, alone and under the     *)
(* alerters, and about the alarms of the leader's alerter, for every set   *)
(* of masters, any number of terms and alarms and channels of any size.    *)
(***************************************************************************)
EXTENDS AlertPipeline, TLAPS

(* A master's term is one of its own.  It has one from Grant on, and leads only
   between the answer of the transaction and FAIL_GET_LOCK. *)
OwnTerm ==
  \A m \in Masters :
    /\ term[m] # None => term[m] \in 1..begun /\ owner[term[m]] = m
    /\ pc[m] \in {"keepalive", "txn", "lead"} => term[m] # None
    /\ isLeader[m] => pc[m] \in {"lead", "fail"} /\ term[m] # None

(* Goroutines exist for terms that have begun only. *)
ReadersBegun == \A t \in Terms : reader[t] # NoReader => t <= begun /\ owner[t] \in Masters

(* From KeepAlive to the end of the term the loop's variable holds the channel
   of the term; the goroutine of the term reads it, or has notified the loop. *)
ReadsOwnTerm ==
  \A m \in Masters : pc[m] \in {"txn", "lead"} =>
    /\ respChan[m] = term[m]
    /\ notified[m] \/ reader[term[m]] \in {Started, term[m]}

IInv == ElectorTypeOK /\ OwnTerm /\ ReadersBegun /\ LeaderFenced /\ ReadsOwnTerm

USE MaxTermsAssumption, NoMasterAssumption DEF None, Started, NoReader, Terms

-----------------------------------------------------------------------------
(* The elector starts in a state that satisfies the invariant. *)
LEMMA InitIInv == ElectorInit => IInv
<1> SUFFICES ASSUME ElectorInit PROVE IInv
  OBVIOUS
<1> USE DEF ElectorInit
<1>1. ElectorTypeOK
  <2>1. isLeader \in [Masters -> BOOLEAN] /\ notified \in [Masters -> BOOLEAN]
    OBVIOUS
  <2>2. term \in [Masters -> None..MaxTerms] /\ respChan \in [Masters -> None..MaxTerms]
    OBVIOUS
  <2>3. owner \in [Terms -> Masters \cup {NoMaster}]
    OBVIOUS
  <2>4. reader \in [Terms -> NoReader..MaxTerms]
    OBVIOUS
  <2>5. pc \in [Masters -> {"grant", "keepalive", "txn", "lead", "fail", "revoke", "down"}]
    OBVIOUS
  <2>6. contexts \subseteq 1..begun /\ leases \subseteq 1..begun /\ begun \in 0..MaxTerms
    OBVIOUS
  <2>7. leaderKey \in leases \cup {None} /\ overstayed \in BOOLEAN
    OBVIOUS
  <2> HIDE DEF ElectorInit
  <2> QED BY <2>1, <2>2, <2>3, <2>4, <2>5, <2>6, <2>7 DEF ElectorTypeOK
<1>2. OwnTerm BY DEF OwnTerm
<1>3. ReadersBegun /\ LeaderFenced /\ ReadsOwnTerm
  BY DEF ReadersBegun, LeaderFenced, ReadsOwnTerm
<1> QED BY <1>1, <1>2, <1>3 DEF IInv

(* Every step of the elector keeps its variables in their types. *)
LEMMA NextTypeOK ==
  ElectorTypeOK /\ OwnTerm /\ ReadersBegun /\ [ElectorNext]_electorVars => ElectorTypeOK'
<1> SUFFICES ASSUME ElectorTypeOK, OwnTerm, ReadersBegun, [ElectorNext]_electorVars
             PROVE  ElectorTypeOK'
  OBVIOUS
<1> USE DEF ElectorTypeOK, OwnTerm, Goto
<1>1. ASSUME NEW m \in Masters, Grant(m) PROVE ElectorTypeOK'
  BY <1>1 DEF Grant
<1>2. ASSUME NEW m \in Masters, GrantError(m) PROVE ElectorTypeOK'
  BY <1>2 DEF GrantError
<1>3. ASSUME NEW m \in Masters, StartKeepAlive(m) PROVE ElectorTypeOK'
  BY <1>3 DEF StartKeepAlive
<1>4. ASSUME NEW m \in Masters, KeepAliveError(m) PROVE ElectorTypeOK'
  BY <1>4 DEF KeepAliveError
<1>5. ASSUME NEW m \in Masters, TxnSucceeded(m) PROVE ElectorTypeOK'
  BY <1>5 DEF TxnSucceeded, TakeKey
<1>6. ASSUME NEW m \in Masters, TxnFailed(m) PROVE ElectorTypeOK'
  BY <1>6 DEF TxnFailed, TakeKey
<1>7. ASSUME NEW m \in Masters, StepDown(m) PROVE ElectorTypeOK'
  BY <1>7 DEF StepDown
<1>8. ASSUME NEW m \in Masters, Fail(m) PROVE ElectorTypeOK'
  BY <1>8 DEF Fail
<1>9. ASSUME NEW m \in Masters, Revoke(m) PROVE ElectorTypeOK'
  BY <1>9 DEF Revoke, EndLease
<1>10. ASSUME NEW m \in Masters, FailPanics(m) \/ Crash(m) PROVE ElectorTypeOK'
  <2>0. Exit(m) BY <1>10 DEF FailPanics, Crash
  <2>1. reader' \in [Terms -> NoReader..MaxTerms] BY <2>0 DEF Exit
  <2>2. contexts' \subseteq 1..begun' /\ leases' \subseteq 1..begun' BY <2>0 DEF Exit
  <2>3. pc' \in [Masters -> {"grant", "keepalive", "txn", "lead", "fail", "revoke", "down"}]
    BY <2>0 DEF Exit
  <2>4. term' \in [Masters -> None..MaxTerms] /\ respChan' \in [Masters -> None..MaxTerms]
    BY <2>0 DEF Exit
  <2>5. isLeader' \in [Masters -> BOOLEAN] /\ notified' \in [Masters -> BOOLEAN]
    BY <2>0 DEF Exit
  <2> QED BY <2>0, <2>1, <2>2, <2>3, <2>4, <2>5 DEF Exit
<1>11. ASSUME NEW m \in Masters, Restart(m) PROVE ElectorTypeOK'
  BY <1>11 DEF Restart
<1>12. ASSUME NEW t \in Terms, ReadRespChan(t) PROVE ElectorTypeOK'
  BY <1>12 DEF ReadRespChan, ReadersBegun
<1>13. ASSUME NEW t \in Terms, ReaderEnds(t) PROVE ElectorTypeOK'
  BY <1>13 DEF ReaderEnds, ReadersBegun
<1>14. ASSUME NEW t \in Terms, Expire(t) PROVE ElectorTypeOK'
  BY <1>14 DEF Expire, EndLease
<1>15. CASE UNCHANGED electorVars BY <1>15 DEF electorVars
<1> QED
  BY <1>1, <1>2, <1>3, <1>4, <1>5, <1>6, <1>7, <1>8, <1>9, <1>10, <1>11, <1>12, <1>13,
     <1>14, <1>15 DEF ElectorNext, Loop, Reader

(* Every step of the elector preserves the invariant.  A grant gives a master a
   fresh term; only the transaction gives away the key, and only if no live lease
   has it; only a goroutine of the term takes itself off the term's channel, and
   it notifies the loop, whose leaseKeepAliveClose is of the same term. *)
LEMMA NextIInv == IInv /\ [ElectorNext]_electorVars => IInv'
<1> SUFFICES ASSUME IInv, [ElectorNext]_electorVars PROVE IInv'
  OBVIOUS
<1>0. ElectorTypeOK' BY NextTypeOK DEF IInv
<1> USE <1>0 DEF IInv, ElectorTypeOK, OwnTerm, ReadersBegun, LeaderFenced, ReadsOwnTerm,
                 Goto
<1>1. ASSUME NEW m \in Masters, Grant(m) PROVE IInv'
  <2>1. OwnTerm' BY <1>1 DEF Grant
  <2>2. ReadersBegun' BY <1>1 DEF Grant
  <2>3. LeaderFenced' BY <1>1 DEF Grant
  <2>4. ReadsOwnTerm' BY <1>1 DEF Grant
  <2> QED BY <2>1, <2>2, <2>3, <2>4
<1>2. ASSUME NEW m \in Masters, GrantError(m) PROVE IInv'
  BY <1>2 DEF GrantError
<1>3. ASSUME NEW m \in Masters, StartKeepAlive(m) PROVE IInv'
  BY <1>3 DEF StartKeepAlive
<1>4. ASSUME NEW m \in Masters, KeepAliveError(m) PROVE IInv'
  BY <1>4 DEF KeepAliveError
<1>5. ASSUME NEW m \in Masters, TxnSucceeded(m) PROVE IInv'
  BY <1>5 DEF TxnSucceeded, TakeKey
<1>6. ASSUME NEW m \in Masters, TxnFailed(m) PROVE IInv'
  BY <1>6 DEF TxnFailed, TakeKey
<1>7. ASSUME NEW m \in Masters, StepDown(m) PROVE IInv'
  BY <1>7 DEF StepDown
<1>8. ASSUME NEW m \in Masters, Fail(m) PROVE IInv'
  BY <1>8 DEF Fail
<1>9. ASSUME NEW m \in Masters, Revoke(m) PROVE IInv'
  BY <1>9 DEF Revoke, EndLease
<1>10. ASSUME NEW m \in Masters, FailPanics(m) \/ Crash(m) PROVE IInv'
  <2>0. Exit(m) BY <1>10 DEF FailPanics, Crash
  <2>1. OwnTerm' BY <2>0 DEF Exit, TermsOf
  <2>2. ReadersBegun' BY <2>0 DEF Exit, TermsOf
  <2>3. LeaderFenced' BY <2>0 DEF Exit, TermsOf
  <2>4. ReadsOwnTerm' BY <2>0 DEF Exit, TermsOf
  <2> QED BY <2>1, <2>2, <2>3, <2>4
<1>11. ASSUME NEW m \in Masters, Restart(m) PROVE IInv'
  BY <1>11 DEF Restart
<1>12. ASSUME NEW t \in Terms, ReadRespChan(t) PROVE IInv'
  BY <1>12 DEF ReadRespChan
<1>13. ASSUME NEW t \in Terms, ReaderEnds(t) PROVE IInv'
  BY <1>13 DEF ReaderEnds
<1>14. ASSUME NEW t \in Terms, Expire(t) PROVE IInv'
  BY <1>14 DEF Expire, EndLease
<1>15. CASE UNCHANGED electorVars BY <1>15 DEF electorVars
<1> QED
  BY <1>1, <1>2, <1>3, <1>4, <1>5, <1>6, <1>7, <1>8, <1>9, <1>10, <1>11, <1>12, <1>13,
     <1>14, <1>15 DEF ElectorNext, Loop, Reader

(* The inductive invariant holds in every reachable state of the elector. *)
LEMMA ElectorInvariance == ElectorSpec => []IInv
BY InitIInv, NextIInv, PTL DEF ElectorSpec

(* The alerters do not interfere with the elector: what it does under them it
   can do alone. *)
LEMMA PipelineElects == Spec => ElectorSpec
<1>1. Init => ElectorInit BY DEF Init
<1>2. [Next]_vars => [ElectorNext]_electorVars
  BY DEF Next, Elect, vars, ConsumeClaim, ReportAlarm, Start, GetWarnDir, WatchResponse,
         PassOn, Retry
<1> QED BY <1>1, <1>2, PTL DEF Spec, ElectorSpec

(* The variables of the elector always have their types. *)
THEOREM ElectorTypeCorrect == Spec => []ElectorTypeOK
<1>1. IInv => ElectorTypeOK BY DEF IInv
<1> QED BY <1>1, ElectorInvariance, PipelineElects, PTL

(* A master that leads under a live lease owns the leader key. *)
THEOREM LeaderOwnsKey == Spec => []LeaderFenced
<1>1. IInv => LeaderFenced BY DEF IInv
<1> QED BY <1>1, ElectorInvariance, PipelineElects, PTL

(* Two masters lead together only if the lease of one of them has ended. *)
THEOREM OneLiveLeader ==
  Spec => [](\A m, n \in {l \in Masters : isLeader[l] /\ term[l] \in leases} : m = n)
<1>1. IInv => \A m, n \in {l \in Masters : isLeader[l] /\ term[l] \in leases} : m = n
  BY DEF IInv, OwnTerm, LeaderFenced
<1> QED BY <1>1, ElectorInvariance, PipelineElects, PTL

(* A leader is notified, or the goroutine of its term waits on the channel of
   its term, whatever the goroutines of its earlier terms do. *)
THEOREM LeaderIsTold == Spec => []LeaderWillHear
<1>1. IInv => LeaderWillHear BY DEF IInv, ReadsOwnTerm, LeaderWillHear
<1> QED BY <1>1, ElectorInvariance, PipelineElects, PTL

-----------------------------------------------------------------------------
(* The alerters.  Terms and their contexts first: the present context of a
   master is that of its term, and has been canceled before the next Grant. *)
ContextOfTerm ==
  /\ \A t \in 1..begun : owner[t] \in Masters
  /\ \A t \in contexts :
       term[owner[t]] = t /\ pc[owner[t]] \notin {"grant", "revoke", "down"}

(* Start runs under a context only while its master leads, and as long as no
   lease has ended under a leader, the leader key is of that term. *)
StartLeads ==
  \A t \in contexts :
    start[t] # "none" => isLeader[owner[t]] /\ (~overstayed => leaderKey = t)

(* Start runs for terms that have begun, and passes on what was received. *)
StartBegun ==
  \A t \in Terms :
    /\ t > begun => start[t] = "none" /\ received[t] = 0
    /\ sent[t] <= received[t]

(* An alarm was passed on to a master: it is in the channel or reported. *)
InQueue(m, a) == \E i \in 1..Len(queue[m]) : queue[m][i] = a
Has(m, a) == reported[m][a] > 0 \/ InQueue(m, a)

(* An alarm is among the events of the response that Start is passing on. *)
InFlight(t, a) == sent[t] < a /\ a <= received[t]

(* The masters that must not both have an alarm. *)
Alike(m, n) == m = n \/ ~overstayed

(* Nobody has an alarm that was not put. *)
HasPut == \A m \in Masters, a \in Alarms : Has(m, a) => a <= puts

(* Nobody has an alarm twice, and no two have the same. *)
HasOnce ==
  \A m \in Masters, a \in Alarms :
    /\ reported[m][a] <= 1 /\ (InQueue(m, a) => reported[m][a] = 0)
    /\ \A n \in Masters : m # n /\ Alike(m, n) => ~(Has(m, a) /\ Has(n, a))

QueueOnce ==
  \A m \in Masters : \A i, j \in 1..Len(queue[m]) : queue[m][i] = queue[m][j] => i = j

(* Nobody has an alarm that a term t is to receive or to pass on, not even in
   the hands of another term. *)
Reserved(t, a) ==
  /\ \A m \in Masters : Alike(owner[t], m) => ~Has(m, a)
  /\ \A u \in Terms \ {t} : Alike(owner[t], owner[u]) => ~InFlight(u, a)

FlightReserved == \A t \in Terms, a \in Alarms : InFlight(t, a) => Reserved(t, a)
FutureReserved ==
  \A t \in contexts, a \in Alarms :
    start[t] = "watch" /\ received[t] < a => Reserved(t, a)

AInv == /\ IInv /\ AlertTypeOK /\ ContextOfTerm /\ StartLeads /\ StartBegun
        /\ HasPut /\ HasOnce /\ QueueOnce /\ FlightReserved /\ FutureReserved

(* What a step of the elector can mean for terms: at most one begins, contexts
   are only canceled but for its own, and nothing takes the lead or the key away
   from a master whose context lives but a lease that ends under it. *)
TermsGoOn ==
  /\ begun' = begun \/ (begun' = begun + 1 /\ UNCHANGED isLeader)
  /\ \A t \in 1..begun : owner'[t] = owner[t]
  /\ contexts' \subseteq contexts \cup (begun + 1 .. begun')
  /\ overstayed => overstayed'
  /\ \A t \in contexts \cap contexts' :
       isLeader[owner[t]] =>
         isLeader'[owner[t]] /\ (leaderKey = t /\ ~overstayed' => leaderKey' = t)

LEMMA ElectorSteps ==
  ASSUME IInv, ContextOfTerm, [ElectorNext]_electorVars
  PROVE  ContextOfTerm' /\ TermsGoOn
<1>0. ElectorTypeOK' BY NextTypeOK DEF IInv
<1> USE <1>0 DEF IInv, ElectorTypeOK, OwnTerm, ContextOfTerm, TermsGoOn, Goto
<1>1. ASSUME NEW m \in Masters, Grant(m) PROVE ContextOfTerm' /\ TermsGoOn
  BY <1>1 DEF Grant
<1>2. ASSUME NEW m \in Masters, GrantError(m) PROVE ContextOfTerm' /\ TermsGoOn
  BY <1>2 DEF GrantError
<1>3. ASSUME NEW m \in Masters, StartKeepAlive(m) PROVE ContextOfTerm' /\ TermsGoOn
  BY <1>3 DEF StartKeepAlive
<1>4. ASSUME NEW m \in Masters, KeepAliveError(m) PROVE ContextOfTerm' /\ TermsGoOn
  BY <1>4 DEF KeepAliveError
<1>5. ASSUME NEW m \in Masters, TxnSucceeded(m) PROVE ContextOfTerm' /\ TermsGoOn
  BY <1>5 DEF TxnSucceeded, TakeKey
<1>6. ASSUME NEW m \in Masters, TxnFailed(m) PROVE ContextOfTerm' /\ TermsGoOn
  BY <1>6 DEF TxnFailed, TakeKey
<1>7. ASSUME NEW m \in Masters, StepDown(m) PROVE ContextOfTerm' /\ TermsGoOn
  BY <1>7 DEF StepDown
<1>8. ASSUME NEW m \in Masters, Fail(m) PROVE ContextOfTerm' /\ TermsGoOn
  BY <1>8 DEF Fail
<1>9. ASSUME NEW m \in Masters, Revoke(m) PROVE ContextOfTerm' /\ TermsGoOn
  BY <1>9 DEF Revoke, EndLease
<1>10. ASSUME NEW m \in Masters, FailPanics(m) \/ Crash(m)
       PROVE  ContextOfTerm' /\ TermsGoOn
  <2>1. Exit(m) BY <1>10 DEF FailPanics, Crash
  <2> QED BY <2>1 DEF Exit, TermsOf
<1>11. ASSUME NEW m \in Masters, Restart(m) PROVE ContextOfTerm' /\ TermsGoOn
  BY <1>11 DEF Restart
<1>12. ASSUME NEW t \in Terms, ReadRespChan(t) PROVE ContextOfTerm' /\ TermsGoOn
  BY <1>12 DEF ReadRespChan
<1>13. ASSUME NEW t \in Terms, ReaderEnds(t) PROVE ContextOfTerm' /\ TermsGoOn
  BY <1>13 DEF ReaderEnds
<1>14. ASSUME NEW t \in Terms, Expire(t) PROVE ContextOfTerm' /\ TermsGoOn
  BY <1>14 DEF Expire, EndLease
<1>15. CASE UNCHANGED electorVars BY <1>15 DEF electorVars
<1> QED
  BY <1>1, <1>2, <1>3, <1>4, <1>5, <1>6, <1>7, <1>8, <1>9, <1>10, <1>11, <1>12, <1>13,
     <1>14, <1>15 DEF ElectorNext, Loop, Reader

USE MaxPutsAssumption, WarnCapAssumption

(* The alerters begin without terms, alarms and messages. *)
LEMMA InitAInv == Init => AInv
<1> SUFFICES ASSUME Init PROVE AInv
  OBVIOUS
<1>1. IInv BY InitIInv DEF Init
<1>2. /\ puts = 0 /\ begun = 0 /\ contexts = {}
      /\ start = [t \in Terms |-> "none"]
      /\ from = [t \in Terms |-> 0] /\ received = from /\ sent = from
      /\ queue = [m \in Masters |-> <<>>]
      /\ reported = [m \in Masters |-> [a \in Alarms |-> 0]]
  BY DEF Init, ElectorInit
<1>3. AlertTypeOK BY <1>2 DEF AlertTypeOK
<1>4. ContextOfTerm /\ StartLeads /\ StartBegun
  BY <1>2 DEF ContextOfTerm, StartLeads, StartBegun
<1>5. \A m \in Masters, a \in Alarms : ~Has(m, a) /\ ~InQueue(m, a) /\ reported[m][a] = 0
  BY <1>2 DEF Has, InQueue
<1>6. HasPut /\ HasOnce BY <1>5 DEF HasPut, HasOnce
<1>7. QueueOnce BY <1>2 DEF QueueOnce
<1>8. FlightReserved /\ FutureReserved
  BY <1>2 DEF FlightReserved, FutureReserved, InFlight, Alarms
<1> QED BY <1>1, <1>3, <1>4, <1>6, <1>7, <1>8 DEF AInv

(* A step that gives nobody an alarm and receives none leaves reserved what is
   reserved for terms that have begun. *)
LEMMA ReservedStays ==
  ASSUME StartBegun, TermsGoOn, begun \in Nat, NEW t \in 1..begun, NEW a \in Alarms,
         received \in [Terms -> Nat], sent \in [Terms -> Nat],
         \A m \in Masters : Has(m, a)' => Has(m, a),
         \A u \in Terms \ {t} : InFlight(u, a)' => InFlight(u, a),
         Reserved(t, a)
  PROVE  Reserved(t, a)'
<1>1. owner'[t] = owner[t] BY DEF TermsGoOn
<1>2. ASSUME NEW m \in Masters, Alike(owner[t], m)' PROVE ~Has(m, a)'
  BY <1>1, <1>2 DEF Alike, TermsGoOn, Reserved
<1>3. ASSUME NEW u \in Terms \ {t}, Alike(owner[t], owner[u])' PROVE ~InFlight(u, a)'
  <2> SUFFICES ASSUME InFlight(u, a) PROVE FALSE
    OBVIOUS
  <2>1. u \in 1..begun BY DEF InFlight, StartBegun, Alarms
  <2>2. owner'[u] = owner[u] BY <2>1 DEF TermsGoOn
  <2>3. Alike(owner[t], owner[u]) BY <1>1, <1>3, <2>2 DEF Alike, TermsGoOn
  <2> QED BY <2>3 DEF Reserved
<1> QED BY <1>2, <1>3 DEF Reserved

(* Under a step of the elector the alerters at most lose what they had, and a new
   leader starts. *)
LEMMA ElectAInv ==
  ASSUME AInv, Elect(ElectorNext)
  PROVE  AInv'
<1> USE DEF AInv
<1>1. IInv' /\ ContextOfTerm' /\ TermsGoOn
  BY NextIInv, ElectorSteps DEF Elect
<1>2. begun \in 0..MaxTerms /\ begun' \in 0..MaxTerms /\ contexts \subseteq 1..begun
  BY <1>1 DEF IInv, ElectorTypeOK
<1>3. UNCHANGED <<puts, reported>> BY DEF Elect
<1>4. ASSUME NEW t \in Terms
      PROVE  /\ \/ received'[t] = 0 /\ sent'[t] = 0 /\ start'[t] = "none"
                \/ received'[t] = received[t] /\ sent'[t] = sent[t]
                   /\ start'[t] = IF Begins(t) THEN "get" ELSE start[t]
             /\ from'[t] \in {0, from[t]}
  BY DEF Elect
<1>5. ASSUME NEW m \in Masters PROVE queue'[m] = <<>> \/ queue'[m] = queue[m]
  BY DEF Elect
<1>6. AlertTypeOK'
  <2>1. start' \in [Terms -> {"none", "get", "watch"}]
    BY DEF Elect, AlertTypeOK
  <2>2. {from', received', sent'} \subseteq [Terms -> 0..puts]
    BY DEF Elect, AlertTypeOK
  <2>3. /\ queue' \in [Masters -> Seq(Alarms)]
        /\ \A m \in Masters : Len(queue'[m]) <= WarnCap
    <3>1. <<>> \in Seq(Alarms) /\ Len(<<>>) <= WarnCap OBVIOUS
    <3>2. \A m \in Masters : queue'[m] \in Seq(Alarms) /\ Len(queue'[m]) <= WarnCap
      BY <1>5, <3>1 DEF AlertTypeOK
    <3>3. queue' = [m \in Masters |-> queue'[m]] BY DEF Elect
    <3> QED BY <3>2, <3>3
  <2>4. puts' \in 0..MaxPuts /\ reported' \in [Masters -> [Alarms -> Nat]]
    BY <1>3 DEF AlertTypeOK
  <2> QED BY <1>3, <2>1, <2>2, <2>3, <2>4 DEF AlertTypeOK
<1>7. ASSUME NEW m \in Masters, NEW a \in Alarms
      PROVE  (InQueue(m, a)' => InQueue(m, a)) /\ (Has(m, a)' => Has(m, a))
  BY <1>3, <1>5 DEF Has, InQueue
<1>8. ASSUME NEW t \in Terms, NEW a \in Alarms, InFlight(t, a)'
      PROVE  InFlight(t, a)
  BY <1>4, <1>8 DEF InFlight, Alarms
<1>9. StartLeads'
  <2> SUFFICES ASSUME NEW t \in contexts', start'[t] # "none"
               PROVE  isLeader'[owner'[t]] /\ (~overstayed' => leaderKey' = t)
    BY DEF StartLeads
  <2>1. t \in Terms BY <1>1 DEF IInv, ElectorTypeOK
  <2>2. CASE Begins(t)
    <3>1. t \in 1..begun
      BY <1>1, <1>2, <2>1, <2>2 DEF Begins, IInv, ElectorTypeOK, TermsGoOn
    <3> QED BY <1>1, <2>2, <3>1 DEF Begins, TermsGoOn
  <2>3. CASE ~Begins(t)
    <3>1. start[t] # "none" BY <1>4, <2>1, <2>3
    <3>2. t \in 1..begun BY <1>2, <2>1, <3>1 DEF StartBegun
    <3>3. t \in contexts BY <1>1, <1>2, <3>2 DEF TermsGoOn
    <3> QED BY <1>1, <3>1, <3>2, <3>3 DEF StartLeads, TermsGoOn
  <2> QED BY <2>2, <2>3
<1>10. StartBegun'
  <2> SUFFICES ASSUME NEW t \in Terms
               PROVE  /\ t > begun' => start'[t] = "none" /\ received'[t] = 0
                      /\ sent'[t] <= received'[t]
    BY DEF StartBegun
  <2>1. ~(t > begun' /\ Begins(t))
    BY <1>1 DEF Begins, IInv, ElectorTypeOK
  <2> QED BY <1>1, <1>2, <1>4, <2>1 DEF StartBegun, TermsGoOn
<1>11. HasPut' BY <1>3, <1>7 DEF HasPut
<1>12. HasOnce'
  <2>1. ASSUME NEW m \in Masters, NEW n \in Masters, Alike(m, n)' PROVE Alike(m, n)
    BY <1>1, <2>1 DEF Alike, TermsGoOn
  <2> QED BY <1>3, <1>7, <2>1 DEF HasOnce
<1>13. QueueOnce' BY <1>5 DEF QueueOnce
<1>14. received \in [Terms -> Nat] /\ sent \in [Terms -> Nat]
  BY DEF AlertTypeOK
<1>15. ASSUME NEW t \in 1..begun, NEW a \in Alarms, Reserved(t, a) PROVE Reserved(t, a)'
  BY <1>1, <1>2, <1>7, <1>8, <1>14, <1>15, ReservedStays
<1>16. FlightReserved'
  <2> SUFFICES ASSUME NEW t \in Terms, NEW a \in Alarms, InFlight(t, a)'
               PROVE  Reserved(t, a)'
    BY DEF FlightReserved
  <2>1. InFlight(t, a) BY <1>8
  <2>2. t \in 1..begun BY <1>2, <1>14, <2>1 DEF StartBegun, InFlight, Alarms
  <2> QED BY <1>15, <2>1, <2>2 DEF FlightReserved
<1>17. FutureReserved'
  <2> SUFFICES ASSUME NEW t \in contexts', NEW a \in Alarms,
                      start'[t] = "watch", received'[t] < a
               PROVE  Reserved(t, a)'
    BY DEF FutureReserved
  <2>1. t \in Terms BY <1>1 DEF IInv, ElectorTypeOK
  <2>2. start[t] = "watch" /\ received'[t] = received[t] BY <1>4, <2>1
  <2>3. t \in 1..begun BY <1>2, <2>1, <2>2 DEF StartBegun
  <2>4. t \in contexts BY <1>1, <1>2, <2>3 DEF TermsGoOn
  <2> QED BY <1>15, <2>2, <2>3, <2>4 DEF FutureReserved
<1> QED BY <1>1, <1>6, <1>9, <1>10, <1>11, <1>12, <1>13, <1>16, <1>17

(* The steps of the alerters leave the elector as it is. *)
LEMMA ElectorStill ==
  ASSUME IInv, ContextOfTerm, UNCHANGED electorVars
  PROVE  /\ IInv' /\ ContextOfTerm' /\ TermsGoOn
         /\ UNCHANGED <<contexts, begun, owner, isLeader, leaderKey, overstayed>>
         /\ begun \in 0..MaxTerms /\ contexts \subseteq 1..begun
         /\ \A m, n : Alike(m, n)' <=> Alike(m, n)
<1>1. IInv' BY NextIInv
<1>2. ContextOfTerm' /\ TermsGoOn BY ElectorSteps
<1>3. UNCHANGED <<contexts, begun, owner, isLeader, leaderKey, overstayed>>
  BY DEF electorVars
<1> QED BY <1>1, <1>2, <1>3 DEF Alike, IInv, ElectorTypeOK

(* Two terms whose masters must not both have an alarm do not both watch. *)
LEMMA OneWatches ==
  ASSUME IInv, ContextOfTerm, StartLeads, NEW t \in contexts, NEW u \in contexts,
         start[t] # "none", start[u] # "none", Alike(owner[t], owner[u])
  PROVE  t = u
BY DEF ContextOfTerm, StartLeads, Alike

LEMMA ConsumeClaimAInv ==
  ASSUME AInv, ConsumeClaim
  PROVE  AInv'
<1> USE DEF AInv
<1>1. UNCHANGED electorVars /\ puts' = puts + 1 /\ puts < MaxPuts
      /\ UNCHANGED <<start, from, received, sent, queue, reported>>
  BY DEF ConsumeClaim
<1>2. IInv' /\ ContextOfTerm'
      /\ UNCHANGED <<contexts, begun, owner, isLeader, leaderKey, overstayed>>
  BY <1>1, ElectorStill
<1>3. AlertTypeOK' BY <1>1 DEF AlertTypeOK
<1>4. StartLeads' /\ StartBegun' BY <1>1, <1>2 DEF StartLeads, StartBegun
<1>5. HasPut' BY <1>1 DEF HasPut, Has, InQueue, Alarms, AlertTypeOK
<1>6. HasOnce' /\ QueueOnce'
  BY <1>1, <1>2 DEF HasOnce, QueueOnce, Has, InQueue, Alike
<1>7. FlightReserved' /\ FutureReserved'
  BY <1>1, <1>2 DEF FlightReserved, FutureReserved, Reserved, InFlight, Has, InQueue, Alike
<1> QED BY <1>2, <1>3, <1>4, <1>5, <1>6, <1>7

(* A step of Start for term t that passes nothing on. *)
StartStep(t) ==
  /\ UNCHANGED <<electorVars, puts, queue, reported>>
  /\ \A u \in Terms \ {t} :
       start'[u] = start[u] /\ received'[u] = received[u] /\ sent'[u] = sent[u]

(* Such a step keeps what it does not concern; what it gives term t has to be
   reserved for t. *)
LEMMA StartStepAInv ==
  ASSUME AInv, NEW t \in Terms, StartStep(t), AlertTypeOK', start[t] # "none",
         sent'[t] <= received'[t],
         \A a \in Alarms : InFlight(t, a)' => Reserved(t, a),
         \A a \in Alarms : InFlight(t, a)' =>
           InFlight(t, a) \/ (t \in contexts /\ start[t] = "watch" /\ received[t] < a),
         \A a \in Alarms : t \in contexts /\ start'[t] = "watch" /\ received'[t] < a
           => Reserved(t, a)
  PROVE  AInv'
<1> USE DEF AInv
<1>1. /\ IInv' /\ ContextOfTerm' /\ TermsGoOn
      /\ UNCHANGED <<contexts, begun, owner, isLeader, leaderKey, overstayed>>
      /\ begun \in 0..MaxTerms /\ contexts \subseteq 1..begun
      /\ \A m, n : Alike(m, n)' <=> Alike(m, n)
  BY ElectorStill DEF StartStep
<1>2. UNCHANGED <<puts, queue, reported>> BY DEF StartStep
<1>3. ASSUME NEW m \in Masters, NEW a \in Alarms
      PROVE  (InQueue(m, a)' <=> InQueue(m, a)) /\ (Has(m, a)' <=> Has(m, a))
  BY <1>2 DEF Has, InQueue
<1>4. ASSUME NEW u \in Terms \ {t}, NEW a \in Alarms
      PROVE  InFlight(u, a)' <=> InFlight(u, a)
  BY DEF StartStep, InFlight
<1>5. StartLeads'
  BY <1>1 DEF StartLeads, StartStep
<1>6. StartBegun'
  BY <1>1 DEF StartBegun, StartStep
<1>7. HasPut' /\ HasOnce' /\ QueueOnce'
  BY <1>1, <1>2, <1>3 DEF HasPut, HasOnce, QueueOnce
<1>8. ASSUME NEW a \in Alarms, Reserved(t, a) PROVE Reserved(t, a)'
  BY <1>1, <1>3, <1>4, <1>8 DEF Reserved
<1>9. ASSUME NEW u \in Terms \ {t}, NEW a \in Alarms, Reserved(u, a),
             Alike(owner[u], owner[t]) => ~InFlight(t, a)'
      PROVE  Reserved(u, a)'
  BY <1>1, <1>3, <1>4, <1>9 DEF Reserved
<1>10. FlightReserved'
  <2> SUFFICES ASSUME NEW u \in Terms, NEW a \in Alarms, InFlight(u, a)'
               PROVE  Reserved(u, a)'
    BY DEF FlightReserved
  <2>1. CASE u = t BY <1>8, <2>1
  <2>2. CASE u # t
    <3>1. InFlight(u, a) /\ Reserved(u, a) BY <1>4, <2>2 DEF FlightReserved
    <3>2. ASSUME Alike(owner[u], owner[t]), InFlight(t, a)' PROVE FALSE
      <4>1. Reserved(t, a) BY <3>2
      <4>2. Alike(owner[t], owner[u]) BY <3>2 DEF Alike
      <4> QED BY <2>2, <3>1, <4>1, <4>2 DEF Reserved
    <3> QED BY <1>9, <2>2, <3>1, <3>2
  <2> QED BY <2>1, <2>2
<1>11. FutureReserved'
  <2> SUFFICES ASSUME NEW u \in contexts, NEW a \in Alarms,
                      start'[u] = "watch", received'[u] < a
               PROVE  Reserved(u, a)'
    BY <1>1 DEF FutureReserved
  <2>1. u \in Terms BY <1>1
  <2>2. CASE u = t BY <1>8, <2>2
  <2>3. CASE u # t
    <3>1. start[u] = "watch" /\ received[u] < a BY <2>1, <2>3 DEF StartStep
    <3>2. Reserved(u, a) BY <3>1 DEF FutureReserved
    <3>3. ASSUME Alike(owner[u], owner[t]), InFlight(t, a)' PROVE FALSE
      <4>1. ~InFlight(t, a) BY <2>1, <2>3, <3>2, <3>3 DEF Reserved
      <4>2. t \in contexts /\ start[t] = "watch" BY <3>3, <4>1
      <4> QED BY <2>3, <3>1, <3>3, <4>2, OneWatches
    <3> QED BY <1>9, <2>1, <2>3, <3>2, <3>3
  <2> QED BY <2>2, <2>3
<1> QED BY <1>1, <1>5, <1>6, <1>7, <1>10, <1>11

(* A watch begins after all that was put, so that nobody has what it will hear. *)
LEMMA GetWarnDirAInv ==
  ASSUME AInv, NEW t \in Terms, GetWarnDir(t)
  PROVE  AInv'
<1>1. /\ start[t] = "get" /\ start' = [start EXCEPT ![t] = "watch"]
      /\ from' = [from EXCEPT ![t] = puts] /\ received' = [received EXCEPT ![t] = puts]
      /\ sent' = [sent EXCEPT ![t] = puts] /\ UNCHANGED <<electorVars, puts, queue, reported>>
  BY DEF GetWarnDir
<1>2. AlertTypeOK BY DEF AInv
<1>3. AlertTypeOK' BY <1>1, <1>2 DEF AlertTypeOK
<1>4. StartStep(t) BY <1>1, <1>2 DEF StartStep, AlertTypeOK
<1>5. received'[t] = puts /\ sent'[t] = puts /\ puts \in Nat BY <1>1, <1>2 DEF AlertTypeOK
<1>6. \A a \in Alarms : ~InFlight(t, a)'
  BY <1>5 DEF InFlight, Alarms
<1>7. ASSUME NEW a \in Alarms, received'[t] < a PROVE Reserved(t, a)
  <2>1. ASSUME NEW m \in Masters PROVE ~Has(m, a)
    BY <1>5, <1>7 DEF AInv, HasPut, Alarms
  <2>2. ASSUME NEW u \in Terms PROVE ~InFlight(u, a)
    BY <1>2, <1>5, <1>7 DEF AlertTypeOK, InFlight, Alarms
  <2> QED BY <2>1, <2>2 DEF Reserved
<1>8. sent'[t] <= received'[t] BY <1>5
<1> QED BY <1>1, <1>3, <1>4, <1>6, <1>7, <1>8, StartStepAInv

(* A response takes over what was reserved for the watch. *)
LEMMA WatchResponseAInv ==
  ASSUME AInv, NEW t \in Terms, WatchResponse(t)
  PROVE  AInv'
<1>1. PICK n \in received[t] + 1 .. puts : received' = [received EXCEPT ![t] = n]
  BY DEF WatchResponse
<1>2. /\ start[t] = "watch" /\ t \in contexts /\ sent[t] = received[t]
      /\ UNCHANGED <<electorVars, puts, start, from, sent, queue, reported>>
  BY DEF WatchResponse
<1>3. AlertTypeOK BY DEF AInv
<1>4. puts \in Nat /\ received[t] \in 0..puts /\ received'[t] = n /\ n \in 0..puts
  BY <1>1, <1>3 DEF AlertTypeOK
<1>5. AlertTypeOK' BY <1>1, <1>2, <1>3, <1>4 DEF AlertTypeOK
<1>6. StartStep(t) BY <1>1, <1>2, <1>3 DEF StartStep, AlertTypeOK
<1>7. ASSUME NEW a \in Alarms, InFlight(t, a)' PROVE received[t] < a
  BY <1>2, <1>7 DEF InFlight
<1>8. ASSUME NEW a \in Alarms, received[t] < a PROVE Reserved(t, a)
  BY <1>2, <1>8 DEF AInv, FutureReserved
<1>9. sent'[t] <= received'[t] BY <1>1, <1>2, <1>4
<1>10. ASSUME NEW a \in Alarms, received'[t] < a PROVE received[t] < a
  BY <1>1, <1>4, <1>10 DEF Alarms
<1> QED BY <1>2, <1>5, <1>6, <1>7, <1>8, <1>9, <1>10, StartStepAInv

LEMMA RetryAInv ==
  ASSUME AInv, NEW t \in Terms, Retry(t)
  PROVE  AInv'
<1>1. /\ start[t] # "none" /\ start' = [start EXCEPT ![t] = IF t \in contexts THEN "get" ELSE "none"]
      /\ from' = [from EXCEPT ![t] = 0] /\ received' = [received EXCEPT ![t] = 0]
      /\ sent' = [sent EXCEPT ![t] = 0] /\ UNCHANGED <<electorVars, puts, queue, reported>>
  BY DEF Retry
<1>2. AlertTypeOK BY DEF AInv
<1>3. AlertTypeOK' BY <1>1, <1>2 DEF AlertTypeOK
<1>4. StartStep(t) BY <1>1, <1>2 DEF StartStep, AlertTypeOK
<1>5. received'[t] = 0 /\ sent'[t] = 0 /\ start'[t] # "watch"
  BY <1>1, <1>2 DEF AlertTypeOK
<1>6. \A a \in Alarms : ~InFlight(t, a)'
  BY <1>5 DEF InFlight, Alarms
<1>7. sent'[t] <= received'[t] BY <1>5
<1> QED BY <1>1, <1>3, <1>4, <1>5, <1>6, <1>7, StartStepAInv

(* Start passes on an alarm that was reserved for its term: no like master has
   it, and no like term passes it on. *)
LEMMA PassOnAInv ==
  ASSUME AInv, NEW t \in Terms, PassOn(t)
  PROVE  AInv'
<1> USE DEF AInv
<1> DEFINE b == sent[t] + 1  k == owner[t]
<1>1. /\ sent[t] < received[t] /\ Len(queue[k]) < WarnCap
      /\ sent' = [sent EXCEPT ![t] = b] /\ queue' = [queue EXCEPT ![k] = Append(queue[k], b)]
      /\ UNCHANGED <<electorVars, puts, start, from, received, reported>>
  BY DEF PassOn
<1>2. /\ IInv' /\ ContextOfTerm'
      /\ UNCHANGED <<contexts, begun, owner, isLeader, leaderKey, overstayed>>
      /\ begun \in 0..MaxTerms /\ contexts \subseteq 1..begun
      /\ \A m, n : Alike(m, n)' <=> Alike(m, n)
  BY <1>1, ElectorStill
<1>3. sent \in [Terms -> 0..puts] /\ received \in [Terms -> 0..puts] /\ puts \in 0..MaxPuts
  BY DEF AlertTypeOK
<1>4. b \in Alarms /\ b <= puts /\ b <= received[t] /\ InFlight(t, b)
  BY <1>1, <1>3 DEF Alarms, InFlight
<1>5. t \in 1..begun /\ k \in Masters
  BY <1>1, <1>2, <1>3 DEF StartBegun, ContextOfTerm
<1>6. Reserved(t, b) BY <1>4 DEF FlightReserved
<1>7. /\ queue[k] \in Seq(Alarms) /\ queue'[k] = Append(queue[k], b)
      /\ \A m \in Masters : m # k => queue'[m] = queue[m]
  BY <1>1, <1>5 DEF AlertTypeOK
<1>8. /\ Len(queue'[k]) = Len(queue[k]) + 1 /\ Len(queue[k]) \in Nat
      /\ \A i \in 1..Len(queue[k]) : queue'[k][i] = queue[k][i]
      /\ queue'[k][Len(queue[k]) + 1] = b
  BY <1>4, <1>7
<1>9. sent'[t] = b /\ \A u \in Terms : u # t => sent'[u] = sent[u]
  BY <1>1, <1>3
<1> HIDE DEF b, k
<1>10. ASSUME NEW m \in Masters, NEW a \in Alarms, m # k \/ a # b
       PROVE  (InQueue(m, a)' <=> InQueue(m, a)) /\ (Has(m, a)' <=> Has(m, a))
  <2>1. InQueue(m, a)' <=> InQueue(m, a)
    <3>1. CASE m # k BY <1>7, <3>1 DEF InQueue
    <3>2. CASE m = k
      <4>1. a # b BY <1>10, <3>2
      <4>2. ASSUME InQueue(m, a)' PROVE InQueue(m, a)
        <5>1. PICK i \in 1..Len(queue'[k]) : queue'[k][i] = a BY <3>2, <4>2 DEF InQueue
        <5>2. i \in 1..Len(queue[k]) BY <1>8, <4>1, <5>1
        <5> QED BY <1>8, <3>2, <5>1, <5>2 DEF InQueue
      <4>3. ASSUME InQueue(m, a) PROVE InQueue(m, a)'
        <5>1. PICK i \in 1..Len(queue[k]) : queue[k][i] = a BY <3>2, <4>3 DEF InQueue
        <5>2. i \in 1..Len(queue'[k]) /\ queue'[k][i] = a BY <1>8, <5>1
        <5> QED BY <3>2, <5>2 DEF InQueue
      <4> QED BY <4>2, <4>3
    <3> QED BY <3>1, <3>2
  <2> QED BY <1>1, <2>1 DEF Has
<1>11. ASSUME NEW u \in Terms, NEW a \in Alarms, InFlight(u, a)'
       PROVE  InFlight(u, a) /\ (u = t => a # b)
  BY <1>1, <1>3, <1>9, <1>11 DEF InFlight, Alarms, b
<1>12. \A m \in Masters : Alike(k, m) => ~Has(m, b)
  BY <1>6 DEF Reserved, k
<1>13. ~InQueue(k, b) /\ reported[k][b] = 0
  BY <1>4, <1>5, <1>12 DEF Has, Alike, HasOnce, AlertTypeOK
<1>14. AlertTypeOK'
  <2>1. queue' \in [Masters -> Seq(Alarms)] BY <1>1, <1>4, <1>5, <1>7 DEF AlertTypeOK
  <2>2. \A m \in Masters : Len(queue'[m]) <= WarnCap
    BY <1>1, <1>7, <1>8 DEF AlertTypeOK
  <2>3. sent' \in [Terms -> 0..puts] BY <1>1, <1>3, <1>4 DEF Alarms
  <2> QED BY <1>1, <2>1, <2>2, <2>3 DEF AlertTypeOK
<1>15. StartLeads' /\ StartBegun'
  BY <1>1, <1>2, <1>4, <1>9 DEF StartLeads, StartBegun
<1>16. HasPut'
  <2> SUFFICES ASSUME NEW m \in Masters, NEW a \in Alarms, Has(m, a)' PROVE a <= puts'
    BY DEF HasPut
  <2> QED BY <1>1, <1>4, <1>10 DEF HasPut
<1>17. HasOnce'
  <2>1. ASSUME NEW m \in Masters, NEW a \in Alarms, InQueue(m, a)' PROVE reported'[m][a] = 0
    BY <1>1, <1>10, <1>13, <2>1 DEF HasOnce
  <2>2. ASSUME NEW m \in Masters, NEW n \in Masters, NEW a \in Alarms,
               m # n, Alike(m, n)', Has(m, a)', Has(n, a)'
        PROVE  FALSE
    <3>1. CASE a # b BY <1>2, <1>10, <2>2, <3>1 DEF HasOnce
    <3>2. CASE a = b /\ m = k
      <4>1. Has(n, b) BY <1>10, <2>2, <3>2
      <4> QED BY <1>2, <1>12, <2>2, <3>2, <4>1
    <3>3. CASE a = b /\ n = k
      <4>1. Has(m, b) BY <1>10, <2>2, <3>3
      <4>2. Alike(k, m) BY <1>2, <2>2, <3>3 DEF Alike
      <4> QED BY <1>12, <4>1, <4>2
    <3>4. CASE a = b /\ m # k /\ n # k BY <1>2, <1>10, <2>2, <3>4 DEF HasOnce
    <3> QED BY <3>1, <3>2, <3>3, <3>4
  <2> QED BY <1>1, <2>1, <2>2 DEF HasOnce
<1>18. QueueOnce'
  <2> SUFFICES ASSUME NEW m \in Masters, NEW i \in 1..Len(queue'[m]),
                      NEW j \in 1..Len(queue'[m]), queue'[m][i] = queue'[m][j]
               PROVE  i = j
    BY DEF QueueOnce
  <2>1. CASE m # k BY <1>7, <2>1 DEF QueueOnce
  <2>2. CASE m = k
    <3>1. \A l \in 1..Len(queue[k]) : queue[k][l] # b BY <1>13 DEF InQueue
    <3> DEFINE len == Len(queue[k])
    <3>2. i \in 1..len + 1 /\ j \in 1..len + 1 /\ len \in Nat BY <1>8, <2>2
    <3>3. CASE i = len + 1 /\ j = len + 1 BY <3>3
    <3>4. CASE i = len + 1 /\ j # len + 1
      <4>1. j \in 1..len BY <3>2, <3>4
      <4> QED BY <1>8, <2>2, <3>1, <3>4, <4>1
    <3>5. CASE i # len + 1 /\ j = len + 1
      <4>1. i \in 1..len BY <3>2, <3>5
      <4> QED BY <1>8, <2>2, <3>1, <3>5, <4>1
    <3>6. CASE i # len + 1 /\ j # len + 1
      <4>1. i \in 1..len /\ j \in 1..len BY <3>2, <3>6
      <4> QED BY <1>5, <1>8, <2>2, <4>1 DEF QueueOnce
    <3> QED BY <3>3, <3>4, <3>5, <3>6
  <2> QED BY <2>1, <2>2
<1>19. ASSUME NEW u \in Terms, NEW a \in Alarms, Reserved(u, a), u = t => a # b,
              ~(Alike(owner[u], k) /\ a = b)
       PROVE  Reserved(u, a)'
  BY <1>2, <1>10, <1>11, <1>19 DEF Reserved
<1>20. ASSUME NEW u \in Terms, u # t, Reserved(u, b) PROVE ~Alike(owner[u], k)
  <2>1. ~Alike(owner[u], owner[t]) BY <1>4, <1>20 DEF Reserved
  <2> QED BY <2>1 DEF k
<1>21. FlightReserved'
  <2> SUFFICES ASSUME NEW u \in Terms, NEW a \in Alarms, InFlight(u, a)'
               PROVE  Reserved(u, a)'
    BY DEF FlightReserved
  <2>1. Reserved(u, a) /\ (u = t => a # b) BY <1>11 DEF FlightReserved
  <2> QED BY <1>19, <1>20, <2>1
<1>22. FutureReserved'
  <2> SUFFICES ASSUME NEW u \in contexts, NEW a \in Alarms,
                      start[u] = "watch", received[u] < a
               PROVE  Reserved(u, a)'
    BY <1>1, <1>2 DEF FutureReserved
  <2>1. u \in Terms BY <1>2
  <2>2. Reserved(u, a) BY DEF FutureReserved
  <2>3. u = t => a # b BY <1>3, <1>4, <2>1 DEF Alarms
  <2> QED BY <1>19, <1>20, <2>1, <2>2, <2>3
<1> QED BY <1>2, <1>14, <1>15, <1>16, <1>17, <1>18, <1>21, <1>22

(* The head and the rest of a channel that is not empty. *)
LEMMA TakeFirst ==
  ASSUME NEW S, NEW q \in Seq(S), q # <<>>
  PROVE  /\ Len(q) \in Nat \ {0} /\ Tail(q) \in Seq(S) /\ Len(Tail(q)) = Len(q) - 1
         /\ \A i \in 1..Len(q) - 1 : Tail(q)[i] = q[i + 1]
         /\ Head(q) = q[1] /\ Head(q) \in S
<1>1. Len(q) \in Nat \ {0} OBVIOUS
<1>2. Tail(q) \in Seq(S) /\ Len(Tail(q)) = Len(q) - 1 OBVIOUS
<1>3. \A i \in 1..Len(q) - 1 : Tail(q)[i] = q[i + 1] BY <1>1
<1>4. Head(q) = q[1] /\ Head(q) \in S OBVIOUS
<1> QED BY <1>1, <1>2, <1>3, <1>4

(* Reporting an alarm takes it out of the channel, where it was once. *)
LEMMA ReportAlarmAInv ==
  ASSUME AInv, NEW k \in Masters, ReportAlarm(k)
  PROVE  AInv'
<1> USE DEF AInv
<1>1. /\ queue \in [Masters -> Seq(Alarms)] /\ reported \in [Masters -> [Alarms -> Nat]]
      /\ queue[k] \in Seq(Alarms) /\ queue[k] # <<>>
  BY DEF AlertTypeOK, ReportAlarm
<1>2. PICK b \in Alarms : b = Head(queue[k]) /\ b = queue[k][1]
  BY <1>1, TakeFirst
<1>3. /\ queue' = [queue EXCEPT ![k] = Tail(queue[k])]
      /\ reported' = [reported EXCEPT ![k][b] = reported[k][b] + 1]
      /\ UNCHANGED <<electorVars, puts, start, from, received, sent>>
  BY <1>2 DEF ReportAlarm
<1>4. /\ IInv' /\ ContextOfTerm'
      /\ UNCHANGED <<contexts, begun, owner, isLeader, leaderKey, overstayed>>
      /\ \A m, n : Alike(m, n)' <=> Alike(m, n)
  BY <1>3, ElectorStill
<1>5. /\ queue'[k] = Tail(queue[k]) /\ Tail(queue[k]) \in Seq(Alarms)
      /\ \A m \in Masters : m # k => queue'[m] = queue[m]
      /\ Len(queue[k]) \in Nat \ {0} /\ Len(queue'[k]) = Len(queue[k]) - 1
      /\ \A i \in 1..Len(queue'[k]) : queue'[k][i] = queue[k][i + 1]
  <2>1. queue'[k] = Tail(queue[k]) /\ \A m \in Masters : m # k => queue'[m] = queue[m]
    BY <1>1, <1>3
  <2> QED BY <1>1, <2>1, TakeFirst
<1>6. InQueue(k, b) BY <1>2, <1>5 DEF InQueue
<1>7. reported[k][b] = 0 BY <1>5, <1>6 DEF HasOnce
<1>8. reported' \in [Masters -> [Alarms -> Nat]] /\ reported'[k][b] = 1
      /\ \A m \in Masters, a \in Alarms : m # k \/ a # b => reported'[m][a] = reported[m][a]
  BY <1>1, <1>3, <1>7
<1>9. ~InQueue(k, b)'
  <2> SUFFICES ASSUME NEW i \in 1..Len(queue'[k]), queue'[k][i] = b PROVE FALSE
    BY DEF InQueue
  <2>1. i + 1 \in 1..Len(queue[k]) /\ 1 \in 1..Len(queue[k]) /\ i + 1 # 1
    BY <1>5
  <2>2. queue[k][i + 1] = queue[k][1]
    BY <1>2, <1>5
  <2> QED BY <2>1, <2>2 DEF QueueOnce
<1>10. ASSUME NEW m \in Masters, NEW a \in Alarms, m # k \/ a # b
       PROVE  InQueue(m, a)' <=> InQueue(m, a)
  <2>1. CASE m # k BY <1>5, <2>1 DEF InQueue
  <2>2. CASE m = k
    <3>1. a # b BY <1>10, <2>2
    <3>2. ASSUME NEW i \in 1..Len(queue'[k]), queue'[k][i] = a PROVE InQueue(k, a)
      <4>1. i + 1 \in 1..Len(queue[k]) /\ queue[k][i + 1] = a BY <1>5, <3>2
      <4> QED BY <4>1 DEF InQueue
    <3>3. ASSUME NEW i \in 1..Len(queue[k]), queue[k][i] = a PROVE InQueue(k, a)'
      <4>1. i # 1 BY <1>2, <1>5, <3>1, <3>3
      <4>2. i - 1 \in 1..Len(queue'[k]) /\ queue'[k][i - 1] = a
        BY <1>5, <3>3, <4>1
      <4> QED BY <4>2 DEF InQueue
    <3> QED BY <2>2, <3>2, <3>3 DEF InQueue
  <2> QED BY <2>1, <2>2
<1>11. ASSUME NEW m \in Masters, NEW a \in Alarms PROVE Has(m, a)' <=> Has(m, a)
  <2>1. CASE m = k /\ a = b BY <1>6, <1>8, <2>1 DEF Has
  <2>2. CASE m # k \/ a # b BY <1>8, <1>10, <2>2 DEF Has
  <2> QED BY <2>1, <2>2
<1>12. AlertTypeOK'
  <2>1. queue' \in [Masters -> Seq(Alarms)] BY <1>1, <1>3, <1>5
  <2>2. ASSUME NEW m \in Masters PROVE Len(queue'[m]) <= WarnCap
    <3>1. Len(queue[m]) \in Nat /\ Len(queue[m]) <= WarnCap BY <1>1 DEF AlertTypeOK
    <3>2. CASE m = k
      <4>1. Len(queue'[k]) = Len(queue[k]) - 1 BY <1>5
      <4> QED BY <3>1, <3>2, <4>1, WarnCapAssumption
    <3>3. CASE m # k BY <1>5, <3>1, <3>3
    <3> QED BY <3>2, <3>3
  <2> QED BY <1>3, <1>8, <2>1, <2>2 DEF AlertTypeOK
<1>13. StartLeads' /\ StartBegun'
  BY <1>3, <1>4 DEF StartLeads, StartBegun
<1>14. HasPut' BY <1>3, <1>11 DEF HasPut
<1>15. HasOnce'
  <2>1. ASSUME NEW m \in Masters, NEW a \in Alarms
        PROVE  reported'[m][a] <= 1 /\ (InQueue(m, a)' => reported'[m][a] = 0)
    <3>1. CASE m = k /\ a = b
      <4>1. reported'[k][b] <= 1 /\ ~InQueue(k, b)' BY <1>8, <1>9
      <4> QED BY <3>1, <4>1
    <3>2. CASE m # k \/ a # b BY <1>8, <1>10, <3>2 DEF HasOnce
    <3> QED BY <3>1, <3>2
  <2> QED BY <1>4, <1>11, <2>1 DEF HasOnce
<1>16. QueueOnce'
  <2> SUFFICES ASSUME NEW m \in Masters, NEW i \in 1..Len(queue'[m]),
                      NEW j \in 1..Len(queue'[m]), queue'[m][i] = queue'[m][j]
               PROVE  i = j
    BY DEF QueueOnce
  <2>1. CASE m # k BY <1>5, <2>1 DEF QueueOnce
  <2>2. CASE m = k
    <3>1. i + 1 \in 1..Len(queue[k]) /\ j + 1 \in 1..Len(queue[k])
          /\ queue[k][i + 1] = queue[k][j + 1]
      <4>1. i \in 1..Len(queue'[k]) /\ j \in 1..Len(queue'[k]) /\ queue'[k][i] = queue'[k][j]
        BY <2>2
      <4>2. i + 1 \in 1..Len(queue[k]) /\ j + 1 \in 1..Len(queue[k])
        BY <1>5, <4>1
      <4> QED BY <1>5, <4>1, <4>2
    <3>2. i + 1 = j + 1 BY <3>1 DEF QueueOnce
    <3> QED BY <3>2
  <2> QED BY <2>1, <2>2
<1>17. FlightReserved' /\ FutureReserved'
  <2>1. ASSUME NEW u \in Terms, NEW a \in Alarms
        PROVE  (Reserved(u, a)' <=> Reserved(u, a)) /\ (InFlight(u, a)' <=> InFlight(u, a))
    BY <1>3, <1>4, <1>11 DEF Reserved, InFlight
  <2>2. contexts \subseteq Terms BY DEF IInv, ElectorTypeOK
  <2> QED BY <1>3, <1>4, <2>1, <2>2 DEF FlightReserved, FutureReserved
<1> QED BY <1>4, <1>12, <1>13, <1>14, <1>15, <1>16, <1>17

LEMMA NextAInv == AInv /\ [Next]_vars => AInv'
<1> SUFFICES ASSUME AInv, [Next]_vars PROVE AInv'
  OBVIOUS
<1>1. CASE UNCHANGED vars
  <2>1. IInv' /\ ContextOfTerm' /\ UNCHANGED <<contexts, begun, owner, isLeader, leaderKey, overstayed>>
    BY <1>1, ElectorStill DEF AInv, vars
  <2>2. UNCHANGED <<puts, start, from, received, sent, queue, reported>>
    BY <1>1 DEF vars, alertVars
  <2>3. AlertTypeOK' BY <2>2 DEF AInv, AlertTypeOK
  <2>4. StartLeads' /\ StartBegun' BY <2>1, <2>2 DEF AInv, StartLeads, StartBegun
  <2>5. HasPut' /\ HasOnce' /\ QueueOnce'
    BY <2>1, <2>2 DEF AInv, HasPut, HasOnce, QueueOnce, Has, InQueue, Alike
  <2>6. FlightReserved' /\ FutureReserved'
    BY <2>1, <2>2 DEF AInv, FlightReserved, FutureReserved, Reserved, InFlight, Has, InQueue,
                      Alike
  <2> QED BY <2>1, <2>3, <2>4, <2>5, <2>6 DEF AInv
<1> QED BY <1>1, ElectAInv, ConsumeClaimAInv, ReportAlarmAInv, GetWarnDirAInv,
           WatchResponseAInv, PassOnAInv, RetryAInv DEF Next, Start

(* The invariant of the alerters holds in every reachable state. *)
LEMMA AlertInvariance == Spec => []AInv
BY InitAInv, NextAInv, PTL DEF Spec

(* The variables of the alerters always have their types, and no channel holds
   more than its capacity. *)
THEOREM AlertTypeCorrect == Spec => []AlertTypeOK
<1>1. AInv => AlertTypeOK BY DEF AInv
<1> QED BY <1>1, AlertInvariance, PTL

(* No alarm is reported twice by a master, and by two masters only if a lease has
   ended under a leader. *)
THEOREM NoAlarmTwice == Spec => []NotNotifiedTwice
<1>1. AInv => NotNotifiedTwice
  BY DEF AInv, HasOnce, Has, Alike, NotNotifiedTwice, AlertTypeOK
<1> QED BY <1>1, AlertInvariance, PTL

-----------------------------------------------------------------------------
(* No alarm is skipped either: what a watch that goes on has passed on since it
   began is with the master of its term.  This is the safety half of
   LeaderKeepsUp. *)
NoneSkipped ==
  \A t \in Terms : start[t] = "watch" =>
    \A a \in Alarms : from[t] < a /\ a <= sent[t] => Has(owner[t], a)

(* A master keeps the alarms it has while its process runs. *)
LEMMA KeepsAlarms ==
  ASSUME AInv, [Next]_vars, NEW m \in Masters, NEW a \in Alarms, Has(m, a),
         ~(Elect(ElectorNext) /\ pc'[m] = "down")
  PROVE  Has(m, a)'
<1> USE DEF AInv
<1>1. CASE UNCHANGED <<queue, reported>>
  BY <1>1 DEF Has, InQueue
<1>2. CASE Elect(ElectorNext)
  <2>1. UNCHANGED reported /\ queue'[m] = queue[m] BY <1>2 DEF Elect
  <2> QED BY <2>1 DEF Has, InQueue
<1>3. ASSUME NEW t \in Terms, PassOn(t) PROVE Has(m, a)'
  <2>1. UNCHANGED reported /\ queue' = [queue EXCEPT ![owner[t]] = Append(@, sent[t] + 1)]
    BY <1>3 DEF PassOn
  <2>2. queue[m] \in Seq(Alarms) BY DEF AlertTypeOK
  <2>3. queue'[m] = queue[m] \/ queue'[m] = Append(queue[m], sent[t] + 1)
    BY <2>1 DEF AlertTypeOK
  <2>4. \A i \in 1..Len(queue[m]) : i \in 1..Len(queue'[m]) /\ queue'[m][i] = queue[m][i]
    BY <2>2, <2>3
  <2> QED BY <2>1, <2>4 DEF Has, InQueue
<1>4. ASSUME NEW k \in Masters, ReportAlarm(k) PROVE Has(m, a)'
  <2>1. /\ reported \in [Masters -> [Alarms -> Nat]] /\ queue \in [Masters -> Seq(Alarms)]
        /\ queue[k] \in Seq(Alarms) /\ queue[k] # <<>>
    BY <1>4 DEF AlertTypeOK, ReportAlarm
  <2>2. PICK b \in Alarms : b = Head(queue[k]) /\ b = queue[k][1]
    BY <2>1, TakeFirst
  <2>3. /\ queue' = [queue EXCEPT ![k] = Tail(queue[k])]
        /\ reported' = [reported EXCEPT ![k][b] = reported[k][b] + 1]
    BY <1>4, <2>2 DEF ReportAlarm
  <2>4. reported'[m][a] \in Nat /\ reported'[m][a] >= reported[m][a] /\ reported'[k][b] > 0
    BY <2>1, <2>3
  <2>5. CASE reported[m][a] > 0
    <3>1. reported[m][a] \in Nat BY <2>1
    <3> QED BY <2>4, <2>5, <3>1 DEF Has
  <2>6. CASE InQueue(m, a) /\ m # k
    <3>1. queue'[m] = queue[m] BY <2>1, <2>3, <2>6
    <3> QED BY <2>6, <3>1 DEF Has, InQueue
  <2>7. CASE InQueue(m, a) /\ m = k
    <3>1. PICK i \in 1..Len(queue[k]) : queue[k][i] = a BY <2>7 DEF InQueue
    <3>2. CASE i = 1 BY <2>2, <2>4, <2>7, <3>1, <3>2 DEF Has
    <3>3. CASE i # 1
      <4>1. queue'[k] = Tail(queue[k]) BY <2>1, <2>3
      <4>2. i - 1 \in 1..Len(queue[k]) - 1 /\ i - 1 \in 1..Len(queue'[k])
        BY <2>1, <3>1, <3>3, <4>1, TakeFirst
      <4>3. queue'[k][i - 1] = queue[k][i - 1 + 1]
        BY <2>1, <4>1, <4>2, TakeFirst
      <4>4. queue'[k][i - 1] = a BY <3>1, <4>3
      <4> QED BY <2>7, <4>2, <4>4 DEF Has, InQueue
    <3> QED BY <3>2, <3>3
  <2> QED BY <2>5, <2>6, <2>7 DEF Has
<1>5. CASE ConsumeClaim BY <1>1, <1>5 DEF ConsumeClaim
<1>6. ASSUME NEW t \in Terms, GetWarnDir(t) \/ WatchResponse(t) \/ Retry(t) PROVE Has(m, a)'
  BY <1>1, <1>6 DEF GetWarnDir, WatchResponse, Retry
<1>7. CASE UNCHANGED vars BY <1>1, <1>7 DEF vars, alertVars
<1> QED BY <1>2, <1>3, <1>4, <1>5, <1>6, <1>7 DEF Next, Start

(* A term that goes on watching does so for the same master, which runs, and what
   it has passed on was passed on before or is the alarm of this step. *)
LEMMA NextNoneSkipped == AInv /\ NoneSkipped /\ [Next]_vars => NoneSkipped'
<1> SUFFICES ASSUME AInv, NoneSkipped, [Next]_vars,
                    NEW t \in Terms, start'[t] = "watch",
                    NEW a \in Alarms, from'[t] < a, a <= sent'[t]
             PROVE  Has(owner[t], a)'
  BY DEF NoneSkipped
<1> USE DEF AInv
<1>1. /\ begun \in 0..MaxTerms /\ puts \in Nat
      /\ start \in [Terms -> {"none", "get", "watch"}]
      /\ from \in [Terms -> 0..puts] /\ sent \in [Terms -> 0..puts]
      /\ received \in [Terms -> 0..puts]
  <2>1. begun \in 0..MaxTerms BY DEF IInv, ElectorTypeOK
  <2>2. puts \in 0..MaxPuts /\ start \in [Terms -> {"none", "get", "watch"}]
        /\ {from, received, sent} \subseteq [Terms -> 0..puts]
    BY DEF AlertTypeOK
  <2>3. puts \in Nat BY <2>2
  <2> QED BY <2>1, <2>2, <2>3
<1>2. ASSUME start[t] # "none" PROVE t \in 1..begun /\ owner[t] \in Masters
  BY <1>1, <1>2 DEF StartBegun, ContextOfTerm
<1>3. ASSUME start[t] = "watch", from[t] < a, a <= sent[t], owner'[t] = owner[t],
             ~(Elect(ElectorNext) /\ pc'[owner[t]] = "down")
      PROVE  Has(owner[t], a)'
  <2>1. Has(owner[t], a) BY <1>3 DEF NoneSkipped
  <2>2. owner[t] \in Masters BY <1>2, <1>3
  <2> DEFINE m == owner[t]
  <2>3. PICK k \in Masters : k = m BY <2>2
  <2>4. Has(k, a) /\ ~(Elect(ElectorNext) /\ pc'[k] = "down") BY <1>3, <2>1, <2>3
  <2>5. Has(k, a)' BY <2>4, KeepsAlarms
  <2> QED BY <1>3, <2>3, <2>5 DEF Has, InQueue
<1>4. CASE Elect(ElectorNext)
  <2>1. TermsGoOn BY <1>4, ElectorSteps DEF Elect
  <2>2. ~Lost(t) /\ start[t] = "watch" BY <1>4 DEF Elect
  <2>3. from'[t] = from[t] /\ sent'[t] = sent[t] BY <1>4, <2>2 DEF Elect
  <2>4. t \in 1..begun BY <1>2, <2>2
  <2>5. pc'[owner[t]] # "down" BY <2>2, <2>4 DEF Lost
  <2>6. owner'[t] = owner[t] BY <2>1, <2>4 DEF TermsGoOn
  <2> QED BY <1>3, <2>2, <2>3, <2>5, <2>6
<1>5. ASSUME ~Elect(ElectorNext), UNCHANGED <<owner, start, from, sent>>
      PROVE  Has(owner[t], a)'
  BY <1>3, <1>5
<1>6. ASSUME NEW u \in Terms, GetWarnDir(u) \/ Retry(u), ~Elect(ElectorNext)
      PROVE  Has(owner[t], a)'
  <2>1. u # t
    <3>1. CASE GetWarnDir(t)
      <4>1. from'[t] = puts /\ sent'[t] = puts BY <1>1, <3>1 DEF GetWarnDir
      <4> QED BY <1>1, <4>1 DEF Alarms
    <3>2. CASE Retry(t)
      <4>1. start'[t] # "watch" BY <1>1, <3>2 DEF Retry
      <4> QED BY <4>1
    <3> QED BY <1>6, <3>1, <3>2
  <2>2. start'[t] = start[t] /\ from'[t] = from[t] /\ sent'[t] = sent[t] /\ owner' = owner
    BY <1>1, <1>6, <2>1 DEF GetWarnDir, Retry, electorVars
  <2> QED BY <1>3, <1>6, <2>2
<1>7. ASSUME NEW u \in Terms, PassOn(u), ~Elect(ElectorNext)
      PROVE  Has(owner[t], a)'
  <2>1. /\ sent' = [sent EXCEPT ![u] = sent[u] + 1] /\ start' = start /\ from' = from
        /\ queue' = [queue EXCEPT ![owner[u]] = Append(@, sent[u] + 1)]
        /\ UNCHANGED electorVars
    BY <1>7 DEF PassOn
  <2>2. owner' = owner BY <2>1 DEF electorVars
  <2>3. CASE u = t /\ a = sent[t] + 1
    <3>1. t \in 1..begun /\ owner[t] \in Masters BY <1>2, <2>1
    <3>2. queue[owner[t]] \in Seq(Alarms)
          /\ queue'[owner[t]] = Append(queue[owner[t]], a)
      BY <2>1, <2>3, <3>1 DEF AlertTypeOK
    <3>3. \E i \in 1..Len(queue'[owner[t]]) : queue'[owner[t]][i] = a
      <4>1. Len(queue[owner[t]]) + 1 \in 1..Len(queue'[owner[t]])
            /\ queue'[owner[t]][Len(queue[owner[t]]) + 1] = a
        BY <3>2
      <4> QED BY <4>1
    <3> QED BY <2>2, <3>3 DEF Has, InQueue
  <2>4. CASE ~(u = t /\ a = sent[t] + 1)
    <3>1. a <= sent[t] BY <1>1, <2>1, <2>4 DEF Alarms
    <3>2. start[t] = "watch" /\ from[t] < a BY <2>1
    <3> QED BY <1>3, <1>7, <2>2, <3>1, <3>2
  <2> QED BY <2>3, <2>4
<1>8. ASSUME NEW u \in Terms, WatchResponse(u), ~Elect(ElectorNext)
      PROVE  Has(owner[t], a)'
  BY <1>5, <1>8 DEF WatchResponse, electorVars
<1>9. ASSUME ConsumeClaim \/ (\E m \in Masters : ReportAlarm(m)) \/ UNCHANGED vars,
             ~Elect(ElectorNext)
      PROVE  Has(owner[t], a)'
  BY <1>5, <1>9 DEF ConsumeClaim, ReportAlarm, vars, alertVars, electorVars
<1> QED BY <1>4, <1>6, <1>7, <1>8, <1>9 DEF Next, Start

(* Of the alarms put since a watch began, what Start has passed on so far is in the
   master's channel or reported while the watch goes on: none is left out between
   two responses and none is lost between the goroutines. *)
THEOREM NothingSkipped == Spec => []NoneSkipped
<1>1. Init => NoneSkipped
  BY DEF Init, NoneSkipped
<1> QED BY <1>1, NextNoneSkipped, AlertInvariance, PTL DEF Spec
=============================================================================
