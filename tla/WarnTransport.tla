---------------------------- MODULE WarnTransport ----------------------------
(***************************************************************************)
(* The way of an alarm from a scheduler to etcd (alerter.go of the worker) *)
(* through Kafka: Push hands it to an asynchronous producer; the consumer  *)
(* group of all workers reads the topic, and the worker that a partition   *)
(* is assigned to puts the alarm into WarnDir.  Consume is called once, at *)
(* the start of a worker.  It returns when its session ends, and the       *)
(* worker consumes nothing any more.  Kafka does not fence fetches: a      *)
(* worker whose partitions were given to others goes on fetching them      *)
(* until a heartbeat tells it.  No offset is ever committed, so that an    *)
(* assignment begins with the newest message.                              *)
(***************************************************************************)
EXTENDS Naturals

CONSTANTS
  Workers, NoWorker, Partitions,
  InputCap,      \* what the producer holds before Input blocks
  ErrorCap,      \* what its error channel holds, which nobody reads
  MaxAlarms, MaxEntries, MaxStarts   \* bounds

ASSUME NoWorkerAssumption == NoWorker \notin Workers
ASSUME CapAssumption == InputCap \in Nat \ {0} /\ ErrorCap \in Nat
ASSUME BoundAssumption ==
  MaxAlarms \in Nat /\ MaxEntries \in Nat /\ MaxStarts \in Nat

VARIABLES
  pushing,    \* the workers whose scheduler loop is in Push
  input,      \* worker -> messages its producer holds
  givenUp,     \* worker -> messages its producer has given up
  jammed,     \* the workers whose producer waits for its error channel
  log,        \* partition -> how many messages it holds
  member,     \* worker -> where its call of Consume is; "down": no process
  claim,      \* partition -> the worker the group has assigned it to
  serves,     \* worker -> the partitions its session fetches
  fetched,    \* worker -> partition -> the last message ConsumeClaim is given
  next,       \* worker -> partition -> the last message it took
  putCount,   \* partition -> message -> how often it was put into WarnDir
  strays,     \* history: partition -> what sessions fetched that had lost it
  alarms, starts   \* counters for the bounds

producerVars == <<pushing, input, givenUp, jammed>>
consumerVars == <<member, claim, serves, fetched, next, putCount, strays>>
transportVars == <<producerVars, log, consumerVars, alarms, starts>>

Messages == 1..MaxEntries
NoOffsets == [p \in Partitions |-> 0]

TransportTypeOK ==
  /\ pushing \subseteq Workers /\ jammed \subseteq Workers
  /\ input \in [Workers -> 0..InputCap]
  /\ givenUp \in [Workers -> Nat]
  /\ log \in [Partitions -> 0..MaxEntries]
  /\ member \in [Workers -> {"down", "joining", "session", "returned"}]
  /\ serves \in [Workers -> SUBSET Partitions]
  /\ \A w \in Workers : serves[w] # {} => member[w] = "session"
  /\ claim \in [Partitions -> Workers \cup {NoWorker}]
  /\ \A p \in Partitions : claim[p] # NoWorker => p \in serves[claim[p]]
  /\ fetched \in [Workers -> [Partitions -> Nat]]
  /\ next \in [Workers -> [Partitions -> Nat]]
  /\ \A w \in Workers, p \in Partitions :
       next[w][p] <= fetched[w][p] /\ fetched[w][p] <= log[p]
  /\ putCount \in [Partitions -> [Messages -> Nat]]
  /\ strays \in [Partitions -> SUBSET Messages]
  /\ alarms \in 0..MaxAlarms /\ starts \in 0..MaxStarts

TransportInit ==
  /\ pushing = {} /\ jammed = {}
  /\ input = [w \in Workers |-> 0] /\ givenUp = input
  /\ log = NoOffsets
  /\ member = [w \in Workers |-> "down"]
  /\ claim = [p \in Partitions |-> NoWorker]
  /\ serves = [w \in Workers |-> {}]
  /\ fetched = [w \in Workers |-> NoOffsets] /\ next = fetched
  /\ putCount = [p \in Partitions |-> [m \in Messages |-> 0]]
  /\ strays = [p \in Partitions |-> {}]
  /\ alarms = 0 /\ starts = 0

-----------------------------------------------------------------------------
(* The producer *)

(* solveTaskExecResult of the scheduler calls Push for a task that failed. *)
Push(w) ==
  /\ member[w] # "down" /\ w \notin pushing
  /\ alarms < MaxAlarms /\ alarms' = alarms + 1
  /\ pushing' = pushing \cup {w}
  /\ UNCHANGED <<input, givenUp, jammed, log, consumerVars, starts>>

(* mutant: the producer takes any number of messages at once *)
PushReturnsAlways(w) ==
  /\ w \in pushing
  /\ pushing' = pushing \ {w}
  /\ input' = [input EXCEPT ![w] = @ + 1]
  /\ UNCHANGED <<givenUp, jammed, log, consumerVars, alarms, starts>>

PushReturns(w) ==
  /\ w \in pushing /\ input[w] < InputCap
  /\ pushing' = pushing \ {w}
  /\ input' = [input EXCEPT ![w] = @ + 1]
  /\ UNCHANGED <<givenUp, jammed, log, consumerVars, alarms, starts>>

(* mutant: the producer also returns its successes, which nobody reads *)
ProduceReportsAll(w) ==
  /\ input[w] > 0 /\ w \notin jammed
  /\ \E p \in Partitions :
       log[p] < MaxEntries /\ log' = [log EXCEPT ![p] = @ + 1]
  /\ input' = [input EXCEPT ![w] = @ - 1]
  /\ jammed' = jammed \cup {w}
  /\ UNCHANGED <<pushing, givenUp, consumerVars, alarms, starts>>

(* A message is appended to a partition chosen at random.  If the answer is
   lost the producer sends it again, and the topic has it twice. *)
Produce(w) ==
  /\ input[w] > 0 /\ w \notin jammed
  /\ \E p \in Partitions :
       log[p] < MaxEntries /\ log' = [log EXCEPT ![p] = @ + 1]
  /\ input' = [input EXCEPT ![w] = @ - 1] \/ UNCHANGED input
  /\ UNCHANGED <<pushing, givenUp, jammed, consumerVars, alarms, starts>>

(* After its retries the producer gives the message up and reports it. *)
ProduceFails(w) ==
  /\ input[w] > 0 /\ w \notin jammed
  /\ input' = [input EXCEPT ![w] = @ - 1]
  /\ givenUp' = [givenUp EXCEPT ![w] = @ + 1]
  /\ jammed' = IF givenUp[w] = ErrorCap THEN jammed \cup {w} ELSE jammed
  /\ UNCHANGED <<pushing, log, consumerVars, alarms, starts>>

-----------------------------------------------------------------------------
(* The consumer group *)

(* InitAlerter starts moveToEtcd, which calls Consume. *)
StartWorker(w) ==
  /\ member[w] = "down" /\ starts < MaxStarts /\ starts' = starts + 1
  /\ member' = [member EXCEPT ![w] = "joining"]
  /\ UNCHANGED <<producerVars, log, claim, serves, fetched, next, putCount, strays, alarms>>

(* Consume fails, and moveToEtcd ends with a line in the log. *)
ConsumeFails(w) ==
  /\ member[w] = "joining"
  /\ member' = [member EXCEPT ![w] = "returned"]
  /\ UNCHANGED <<producerVars, log, claim, serves, fetched, next, putCount, strays,
                 alarms, starts>>

(* mutant: a claim begins with the oldest message *)
FromOldest(joined) ==
  /\ fetched' = [w \in Workers |-> IF w \in joined THEN NoOffsets ELSE fetched[w]]
  /\ next' = [w \in Workers |-> IF w \in joined THEN NoOffsets ELSE next[w]]

(* A claim begins with the newest message, for want of a committed offset. *)
FromNewest(joined) ==
  /\ fetched' = [w \in Workers |-> IF w \in joined THEN log ELSE fetched[w]]
  /\ next' = [w \in Workers |-> IF w \in joined THEN log ELSE next[w]]

(* A generation of the group: those who have joined share the partitions.  The
   sessions of earlier generations, if they have not ended, do not know. *)
Rebalance ==
  \E joined \in (SUBSET {w \in Workers : member[w] = "joining"}) \ {{}} :
    /\ member' = [w \in Workers |-> IF w \in joined THEN "session" ELSE member[w]]
    /\ claim' \in [Partitions -> joined]
    /\ serves' = [w \in Workers |-> IF w \in joined
                                    THEN {p \in Partitions : claim'[p] = w}
                                    ELSE serves[w]]
    /\ FromNewest(joined)
    /\ UNCHANGED <<producerVars, log, putCount, strays, alarms, starts>>

(* A heartbeat fails, or tells the worker of a rebalance: its fetching ends and
   Consume returns, with nil, never to be called again. *)
SessionEnds(w) ==
  /\ member[w] = "session"
  /\ member' = [member EXCEPT ![w] = "returned"]
  /\ serves' = [serves EXCEPT ![w] = {}]
  /\ claim' = [p \in Partitions |-> IF claim[p] = w THEN NoWorker ELSE claim[p]]
  /\ UNCHANGED <<producerVars, log, fetched, next, putCount, strays, alarms, starts>>

(* The session fetches what is new, whether or not the partition is still its
   own: the broker does not ask. *)
Fetch(w, p) ==
  /\ p \in serves[w] /\ fetched[w][p] < log[p]
  /\ fetched' = [fetched EXCEPT ![w][p] = log[p]]
  /\ strays' = IF claim[p] = w THEN strays
               ELSE [strays EXCEPT ![p] = @ \cup (fetched[w][p] + 1 .. log[p])]
  /\ UNCHANGED <<producerVars, log, member, claim, serves, next, putCount, alarms, starts>>

(* mutant: a Grant that fails ends the loop over the messages *)
ConsumeClaimStops(w, p) ==
  /\ next[w][p] < fetched[w][p]
  /\ putCount[p][next[w][p] + 1] = 0 /\ next[w][p] = 0
  /\ next' = [next EXCEPT ![w][p] = @ + 1]
  /\ putCount' = [putCount EXCEPT ![p][next[w][p] + 1] = @ + 1]
  /\ UNCHANGED <<producerVars, log, member, claim, serves, fetched, strays, alarms,
                 starts>>

(* ConsumeClaim takes the next message and puts it under a lease of a second.
   If the Grant or the put fails the message is skipped.  A session that ended
   goes on with the messages it was given before. *)
ConsumeClaim(w, p) ==
  /\ next[w][p] < fetched[w][p]
  /\ next' = [next EXCEPT ![w][p] = @ + 1]
  /\ \/ putCount' = [putCount EXCEPT ![p][next[w][p] + 1] = @ + 1]
     \/ UNCHANGED putCount
  /\ UNCHANGED <<producerVars, log, member, claim, serves, fetched, strays, alarms,
                 starts>>

(* What the producer holds and what was fetched is lost. *)
StopWorker(w) ==
  /\ member[w] # "down"
  /\ member' = [member EXCEPT ![w] = "down"]
  /\ claim' = [p \in Partitions |-> IF claim[p] = w THEN NoWorker ELSE claim[p]]
  /\ serves' = [serves EXCEPT ![w] = {}]
  /\ fetched' = [fetched EXCEPT ![w] = NoOffsets]
  /\ next' = [next EXCEPT ![w] = NoOffsets]
  /\ pushing' = pushing \ {w} /\ jammed' = jammed \ {w}
  /\ input' = [input EXCEPT ![w] = 0] /\ givenUp' = [givenUp EXCEPT ![w] = 0]
  /\ UNCHANGED <<log, putCount, strays, alarms, starts>>

Producer(w) == PushReturns(w) \/ Produce(w) \/ ProduceFails(w)
Consumer(w, p) == Fetch(w, p) \/ ConsumeClaim(w, p)

TransportNext ==
  \/ \E w \in Workers :
       \/ Push(w) \/ Producer(w) \/ StartWorker(w) \/ ConsumeFails(w) \/ SessionEnds(w)
       \/ StopWorker(w)
       \/ \E p \in Partitions : Consumer(w, p)
  \/ Rebalance

TransportSpec == TransportInit /\ [][TransportNext]_transportVars

(* The goroutines of producers and consumers run. *)
TransportFairness ==
  /\ \A w \in Workers : WF_transportVars(PushReturns(w))
                        /\ WF_transportVars(Produce(w) \/ ProduceFails(w))
  /\ WF_transportVars(\E w \in Workers, p \in Partitions : Consumer(w, p))

TransportFairSpec == TransportSpec /\ TransportFairness

-----------------------------------------------------------------------------
(* All workers are in one group "otherwise ... one alarm is put into etcd several
   times" (config.ini:57).  A message is indeed put once, also if a worker still
   works off what it was given while its successor has begun, or comes back, with
   one exception: what a session fetched that had lost the partition without
   knowing may be put by it and by the successor.  A message that Kafka holds
   twice counts as two. *)
MessagePutOnce ==
  \A p \in Partitions, m \in Messages : putCount[p][m] > 1 => m \in strays[p]

(* A partition that is assigned is worked off, whatever etcd refuses.  One that
   is assigned to nobody is not: a session that ends leaves it so until somebody
   joins, however many workers run. *)
ClaimsWorkedOff ==
  []<>(\A p \in Partitions : claim[p] # NoWorker => next[claim[p]][p] = log[p])

(* Push, and with it the scheduler of a worker, is stuck only after the producer
   has given up more messages than its unread error channel holds. *)
SchedulerFlows ==
  []<>(\A w \in pushing : givenUp[w] > ErrorCap)
=============================================================================
