------------------------------ MODULE Elector ------------------------------
(***************************************************************************)
(* Leader election among the front-end masters (master/elector).  loop     *)
(* tries again and again to put the leader key under a lease of its own.   *)
(* A lease granted to it begins a term; terms are numbered in the order of *)
(* the grants, and a channel or a context is named by the term it was made *)
(* in.  The goroutine that reads the renewals of a term reads the loop's   *)
(* variables leaseKeepAliveRespChan and leaseKeepAliveClose when it runs,  *)
(* so a late one reads those of a later term.                              *)
(***************************************************************************)
EXTENDS Integers

CONSTANTS
  Masters, NoMaster,
  MaxTerms    \* bound: the leases granted in a behaviour

ASSUME MaxTermsAssumption == MaxTerms \in Nat
ASSUME NoMasterAssumption == NoMaster \notin Masters

VARIABLES
  pc,          \* master -> where loop is
  isLeader,
  begun,       \* how many terms have begun
  owner,       \* term -> its master
  term,        \* master -> the term that leaseID and cancelFunc are from
  respChan,    \* master -> the term that leaseKeepAliveRespChan is from
  notified,    \* master -> leaseKeepAliveClose, of capacity 1, is full
  reader,      \* term -> where the goroutine that reads the renewals is
  contexts,    \* the terms whose context is not canceled
  leases,      \* the terms whose lease is alive in etcd
  leaderKey,   \* the term whose lease the key is attached to
  overstayed   \* history: a lease ended while its master still led

electorVars == <<pc, isLeader, begun, owner, term, respChan, notified, reader, contexts,
                 leases, leaderKey, overstayed>>

Terms == 1..MaxTerms
None == 0     \* no term; a nil channel

(* A reader waits on the channel of a term (on a nil one for ever), was just
   started, or does not exist. *)
Started == -1
NoReader == -2

ElectorTypeOK ==
  /\ pc \in [Masters -> {"grant", "keepalive", "txn", "lead", "fail", "revoke", "down"}]
  /\ isLeader \in [Masters -> BOOLEAN] /\ notified \in [Masters -> BOOLEAN]
  /\ begun \in 0..MaxTerms
  /\ owner \in [Terms -> Masters \cup {NoMaster}]
  /\ term \in [Masters -> None..MaxTerms] /\ respChan \in [Masters -> None..MaxTerms]
  /\ reader \in [Terms -> NoReader..MaxTerms]
  /\ contexts \subseteq 1..begun /\ leases \subseteq 1..begun
  /\ leaderKey \in leases \cup {None}
  /\ overstayed \in BOOLEAN

ElectorInit ==
  /\ pc = [m \in Masters |-> "grant"]
  /\ isLeader = [m \in Masters |-> FALSE] /\ notified = isLeader
  /\ begun = 0 /\ owner = [t \in Terms |-> NoMaster]
  /\ term = [m \in Masters |-> None] /\ respChan = term
  /\ reader = [t \in Terms |-> NoReader]
  /\ contexts = {} /\ leases = {}
  /\ leaderKey = None /\ overstayed = FALSE

TermsOf(m) == {t \in Terms : owner[t] = m}

Goto(m, from, to) == pc[m] = from /\ pc' = [pc EXCEPT ![m] = to]

-----------------------------------------------------------------------------
(* loop *)

(* An iteration makes a new leaseKeepAliveClose and asks for a lease. *)
Grant(m) ==
  /\ Goto(m, "grant", "keepalive") /\ begun < MaxTerms
  /\ notified' = [notified EXCEPT ![m] = FALSE]
  /\ begun' = begun + 1
  /\ owner' = [owner EXCEPT ![begun'] = m]
  /\ term' = [term EXCEPT ![m] = begun']
  /\ leases' = leases \cup {begun'}
  /\ contexts' = contexts \cup {begun'}
  /\ UNCHANGED <<isLeader, respChan, reader, leaderKey, overstayed>>

GrantError(m) ==
  /\ Goto(m, "grant", "fail") /\ begun < MaxTerms
  /\ notified' = [notified EXCEPT ![m] = FALSE]
  /\ UNCHANGED <<isLeader, begun, owner, term, respChan, reader, contexts, leases,
                 leaderKey, overstayed>>

StartKeepAlive(m) ==
  /\ Goto(m, "keepalive", "txn")
  /\ respChan' = [respChan EXCEPT ![m] = term[m]]
  /\ reader' = [reader EXCEPT ![term[m]] = Started]
  /\ UNCHANGED <<isLeader, begun, owner, term, notified, contexts, leases, leaderKey,
                 overstayed>>

KeepAliveError(m) ==
  /\ Goto(m, "keepalive", "fail")
  /\ respChan' = [respChan EXCEPT ![m] = None]
  /\ UNCHANGED <<isLeader, begun, owner, term, notified, reader, contexts, leases,
                 leaderKey, overstayed>>

(* mutant: the transaction puts the key without comparing its revision *)
TakeKeyAlways(m) == term[m] \in leases /\ leaderKey' = term[m]

(* mutant: the put carries no lease *)
TakeKeyUnleased(m) == leaderKey = None /\ leaderKey' = term[m]

TakeKey(m) == term[m] \in leases /\ leaderKey = None /\ leaderKey' = term[m]

TxnSucceeded(m) ==
  /\ Goto(m, "txn", "lead")
  /\ TakeKey(m)
  /\ isLeader' = [isLeader EXCEPT ![m] = TRUE]
  /\ UNCHANGED <<begun, owner, term, respChan, notified, reader, contexts, leases,
                 overstayed>>

(* Somebody else has the key, or Commit fails, with the put applied or not. *)
TxnFailed(m) ==
  /\ Goto(m, "txn", "fail")
  /\ TakeKey(m) \/ UNCHANGED leaderKey
  /\ UNCHANGED <<isLeader, begun, owner, term, respChan, notified, reader, contexts,
                 leases, overstayed>>

StepDown(m) ==
  /\ Goto(m, "lead", "fail") /\ notified[m]
  /\ notified' = [notified EXCEPT ![m] = FALSE]
  /\ UNCHANGED <<isLeader, begun, owner, term, respChan, reader, contexts, leases,
                 leaderKey, overstayed>>

(* mutant: the context of the term is not canceled *)
FailKeepsContext(m) ==
  /\ Goto(m, "fail", "revoke") /\ term[m] # None
  /\ isLeader' = [isLeader EXCEPT ![m] = FALSE]
  /\ UNCHANGED <<begun, owner, term, respChan, notified, reader, contexts, leases,
                 leaderKey, overstayed>>

(* FAIL_GET_LOCK *)
Fail(m) ==
  /\ Goto(m, "fail", "revoke") /\ term[m] # None
  /\ isLeader' = [isLeader EXCEPT ![m] = FALSE]
  /\ contexts' = contexts \ {term[m]}
  /\ UNCHANGED <<begun, owner, term, respChan, notified, reader, leases, leaderKey,
                 overstayed>>

(* etcd deletes the key with the lease it is attached to. *)
EndLease(t) ==
  /\ leases' = leases \ {t}
  /\ leaderKey' = IF leaderKey = t THEN None ELSE leaderKey

(* The error of Revoke is ignored.  Then loop sleeps and tries again. *)
Revoke(m) ==
  /\ Goto(m, "revoke", "grant")
  /\ EndLease(term[m]) \/ UNCHANGED <<leases, leaderKey>>
  /\ UNCHANGED <<isLeader, begun, owner, term, respChan, notified, reader, contexts,
                 overstayed>>

(* The process ends and its memory is lost. *)
Exit(m) ==
  /\ pc' = [pc EXCEPT ![m] = "down"]
  /\ isLeader' = [isLeader EXCEPT ![m] = FALSE]
  /\ term' = [term EXCEPT ![m] = None]
  /\ respChan' = [respChan EXCEPT ![m] = None]
  /\ notified' = [notified EXCEPT ![m] = FALSE]
  /\ reader' = [t \in Terms |-> IF t \in TermsOf(m) THEN NoReader ELSE reader[t]]
  /\ contexts' = contexts \ TermsOf(m)
  /\ UNCHANGED <<begun, owner, leases, leaderKey, overstayed>>

(* cancelFunc is nil if no Grant has succeeded yet; the call panics. *)
FailPanics(m) == pc[m] = "fail" /\ term[m] = None /\ Exit(m)

-----------------------------------------------------------------------------
(* The goroutine that reads the renewals, started in term t. *)

(* It evaluates leaseKeepAliveRespChan when it starts and after each response. *)
ReadRespChan(t) ==
  /\ reader[t] \in Terms \cup {Started}
  /\ reader' = [reader EXCEPT ![t] = respChan[owner[t]]]
  /\ UNCHANGED <<pc, isLeader, begun, owner, term, respChan, notified, contexts, leases,
                 leaderKey, overstayed>>

(* mutant: the goroutine ends without telling the loop *)
ReaderEndsSilently(t) ==
  /\ reader[t] \in Terms
  /\ reader' = [reader EXCEPT ![t] = NoReader]
  /\ UNCHANGED <<pc, isLeader, begun, owner, term, respChan, notified, contexts, leases,
                 leaderKey, overstayed>>

(* The library closes the channel when the context is canceled, when the lease
   is gone, or when it gives up for lack of answers.  The goroutine notifies
   whatever leaseKeepAliveClose is now.  If that is full it blocks for ever or
   ends, and nobody can tell the difference. *)
ReaderEnds(t) ==
  /\ reader[t] \in Terms
  /\ reader' = [reader EXCEPT ![t] = NoReader]
  /\ notified' = [notified EXCEPT ![owner[t]] = TRUE]
  /\ UNCHANGED <<pc, isLeader, begun, owner, term, respChan, contexts, leases,
                 leaderKey, overstayed>>

-----------------------------------------------------------------------------
(* etcd and the outside *)

Expire(t) ==
  /\ t \in leases
  /\ EndLease(t)
  /\ overstayed' = (overstayed \/ (leaderKey = t /\ isLeader[owner[t]]))
  /\ UNCHANGED <<pc, isLeader, begun, owner, term, respChan, notified, reader, contexts>>

Crash(m) == pc[m] # "down" /\ Exit(m)

Restart(m) ==
  /\ Goto(m, "down", "grant") /\ begun < MaxTerms
  /\ UNCHANGED <<isLeader, begun, owner, term, respChan, notified, reader, contexts, leases,
                 leaderKey, overstayed>>

Loop(m) ==
  \/ Grant(m) \/ GrantError(m) \/ StartKeepAlive(m) \/ KeepAliveError(m)
  \/ TxnSucceeded(m) \/ TxnFailed(m) \/ StepDown(m) \/ Fail(m) \/ FailPanics(m)
  \/ Revoke(m)

Reader(t) == ReadRespChan(t) \/ ReaderEnds(t)

ElectorNext ==
  \/ \E m \in Masters : Loop(m) \/ Crash(m) \/ Restart(m)
  \/ \E t \in Terms : Reader(t) \/ Expire(t)

ElectorSpec == ElectorInit /\ [][ElectorNext]_electorVars

-----------------------------------------------------------------------------
(* A leader whose lease is alive owns the leader key: isLeader can be wrong only
   in the time between the end of the lease and the goroutine's notice.  Hence
   two masters lead at the same time only if one has lost its lease. *)
LeaderFenced ==
  \A m \in Masters : isLeader[m] /\ term[m] \in leases => leaderKey = term[m]

(* A leader will be told when its lease is gone, although the goroutines of all
   its terms share the variables through which it is told: it is notified
   already, or the goroutine of its term waits on the channel of its term. *)
LeaderWillHear ==
  \A m \in Masters : pc[m] = "lead" =>
    \/ notified[m]
    \/ reader[term[m]] = term[m]
    \/ reader[term[m]] = Started /\ respChan[m] = term[m]
=============================================================================
