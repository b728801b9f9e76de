--------------------------- MODULE AlertPipeline ---------------------------
(***************************************************************************)
(* Alarms: a consumer of the worker's alerter takes them from Kafka and    *)
(* puts them into WarnDir under a lease of one second; the leading master  *)
(* watches the directory (master/alerter) and reports them.  Start runs in *)
(* a goroutine with the context of the term; loop reports what the         *)
(* goroutines of all terms put into warnMessageChan.  Only puts are        *)
(* watched, never the content of the directory, so the n-th put is the     *)
(* alarm n here.                                                           *)
(***************************************************************************)
EXTENDS Elector, Sequences

CONSTANTS MaxPuts, WarnCap   \* bounds: alarms, capacity of warnMessageChan (512)

ASSUME MaxPutsAssumption == MaxPuts \in Nat
ASSUME WarnCapAssumption == WarnCap \in Nat \ {0}

VARIABLES
  puts,       \* how many alarms were put into WarnDir
  start,      \* term -> where Start is
  from,       \* history: term -> the last alarm put before its watch began
  received,   \* term -> the last alarm its watch has delivered
  sent,       \* term -> the last alarm it has passed on
  queue,      \* master -> warnMessageChan
  reported    \* master -> alarm -> how often it was logged

alertVars == <<puts, start, from, received, sent, queue, reported>>
vars == <<electorVars, alertVars>>

Alarms == 1..MaxPuts

AlertTypeOK ==
  /\ puts \in 0..MaxPuts
  /\ start \in [Terms -> {"none", "get", "watch"}]
  /\ {from, received, sent} \subseteq [Terms -> 0..puts]
  /\ queue \in [Masters -> Seq(Alarms)] /\ \A m \in Masters : Len(queue[m]) <= WarnCap
  /\ reported \in [Masters -> [Alarms -> Nat]]

Init ==
  /\ ElectorInit
  /\ puts = 0
  /\ start = [t \in Terms |-> "none"]
  /\ from = [t \in Terms |-> 0] /\ received = from /\ sent = from
  /\ queue = [m \in Masters |-> <<>>]
  /\ reported = [m \in Masters |-> [a \in Alarms |-> 0]]

(* A message of the topic reaches WarnDir; one whose Grant or put fails is
   skipped and leaves no trace. *)
ConsumeClaim ==
  /\ puts < MaxPuts /\ puts' = puts + 1
  /\ UNCHANGED <<electorVars, start, from, received, sent, queue, reported>>

-----------------------------------------------------------------------------
(* Start of the term t *)

(* The watch begins after the revision of the Get. *)
GetWarnDir(t) ==
  /\ start[t] = "get" /\ t \in contexts
  /\ start' = [start EXCEPT ![t] = "watch"]
  /\ from' = [from EXCEPT ![t] = puts]
  /\ received' = [received EXCEPT ![t] = puts]
  /\ sent' = [sent EXCEPT ![t] = puts]
  /\ UNCHANGED <<electorVars, puts, queue, reported>>

(* mutant: a response in the middle of the sending of another replaces it *)
WatchSkips(t) ==
  /\ start[t] = "watch" /\ t \in contexts
  /\ \E n \in received[t] + 1 .. puts :
       received' = [received EXCEPT ![t] = n] /\ sent' = [sent EXCEPT ![t] = n - 1]
  /\ UNCHANGED <<electorVars, puts, start, from, queue, reported>>

(* The watch delivers a response with one or more events. *)
WatchResponse(t) ==
  /\ start[t] = "watch" /\ t \in contexts
  /\ sent[t] = received[t]
  /\ \E n \in received[t] + 1 .. puts : received' = [received EXCEPT ![t] = n]
  /\ UNCHANGED <<electorVars, puts, start, from, sent, queue, reported>>

(* mutant: the channel is taken for unbounded *)
PassOnUnbounded(t) ==
  /\ sent[t] < received[t] /\ Len(queue[owner[t]]) <= WarnCap
  /\ sent' = [sent EXCEPT ![t] = @ + 1]
  /\ queue' = [queue EXCEPT ![owner[t]] = Append(@, sent[t] + 1)]
  /\ UNCHANGED <<electorVars, puts, start, from, received, reported>>

(* The events of a response are passed on one by one, also when the context has
   been canceled meanwhile; Start blocks while warnMessageChan is full. *)
PassOn(t) ==
  /\ sent[t] < received[t] /\ Len(queue[owner[t]]) < WarnCap
  /\ sent' = [sent EXCEPT ![t] = @ + 1]
  /\ queue' = [queue EXCEPT ![owner[t]] = Append(@, sent[t] + 1)]
  /\ UNCHANGED <<electorVars, puts, start, from, received, reported>>

(* The Get fails or the watch is closed.  Start returns if its context is
   canceled and begins again with a Get if not. *)
Retry(t) ==
  /\ start[t] # "none" /\ sent[t] = received[t]
  /\ start' = [start EXCEPT ![t] = IF t \in contexts THEN "get" ELSE "none"]
  /\ from' = [from EXCEPT ![t] = 0]
  /\ received' = [received EXCEPT ![t] = 0] /\ sent' = [sent EXCEPT ![t] = 0]
  /\ UNCHANGED <<electorVars, puts, queue, reported>>

Start(t) == GetWarnDir(t) \/ WatchResponse(t) \/ PassOn(t) \/ Retry(t)

(* loop *)
ReportAlarm(m) ==
  /\ queue[m] # <<>>
  /\ queue' = [queue EXCEPT ![m] = Tail(@)]
  /\ reported' = [reported EXCEPT ![m][Head(queue[m])] = @ + 1]
  /\ UNCHANGED <<electorVars, puts, start, from, received, sent>>

-----------------------------------------------------------------------------
(* A step of the elector: a new leader starts Start; the goroutines and the
   channel of a process that ends are lost. *)
Begins(t) == t = leaderKey' /\ isLeader'[owner[t]] /\ ~isLeader[owner[t]]
Lost(t) == t <= begun /\ pc'[owner[t]] = "down"

Elect(A) ==
  /\ A
  /\ start' = [t \in Terms |-> IF Lost(t) THEN "none"
                               ELSE IF Begins(t) THEN "get" ELSE start[t]]
  /\ from' = [t \in Terms |-> IF Lost(t) THEN 0 ELSE from[t]]
  /\ received' = [t \in Terms |-> IF Lost(t) THEN 0 ELSE received[t]]
  /\ sent' = [t \in Terms |-> IF Lost(t) THEN 0 ELSE sent[t]]
  /\ queue' = [m \in Masters |-> IF pc'[m] = "down" THEN <<>> ELSE queue[m]]
  /\ UNCHANGED <<puts, reported>>

Next ==
  \/ Elect(ElectorNext) \/ ConsumeClaim
  \/ \E m \in Masters : ReportAlarm(m)
  \/ \E t \in Terms : Start(t)

Spec == Init /\ [][Next]_vars

(* The goroutines of the alerters run.  Alarms are finitely many here, so it is
   enough that some of them takes a step again and again. *)
FairSpec ==
  /\ Spec
  /\ WF_alertVars(\/ \E m \in Masters : ReportAlarm(m)
                  \/ \E t \in Terms : WatchResponse(t) \/ PassOn(t))

-----------------------------------------------------------------------------
(* No alarm is reported twice: by one master never, although goroutines of old
   terms are still at work when a new one begins, and by two masters only if one
   has led on after its lease had ended. *)
NotNotifiedTwice ==
  \A a \in Alarms, m \in Masters :
    /\ reported[m][a] <= 1
    /\ \A n \in Masters \ {m} : reported[m][a] > 0 /\ reported[n][a] > 0 => overstayed

(* A leader keeps up: again and again every alarm put since its watch began has
   been reported, so that none was skipped and no goroutine is stuck. *)
LeaderKeepsUp ==
  []<>(\A t \in contexts : start[t] = "watch" =>
         \A a \in from[t] + 1 .. puts : reported[owner[t]][a] > 0)
=============================================================================
