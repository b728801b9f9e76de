----------------------------- MODULE TaskLogger -----------------------------
(***************************************************************************)
(* The task logger of a worker (worker/taskLogger/logSink.go): a loop      *)
(* collects logs into batches and hands a batch to a goroutine that writes *)
(* it to MongoDB when it is full or its timer fires.  The timer's closure  *)
(* runs in a goroutine of its own and reads the loop's variable            *)
(* taskLogBatch when it runs, not the batch the timer was made for, so it  *)
(* may announce a younger batch or none.  Channels are sets here: no       *)
(* property depends on the order of what they hold.  The timer's interval  *)
(* is taken to be long enough for the loop to have assigned the variable.  *)
(***************************************************************************)
EXTENDS Naturals, FiniteSets

CONSTANTS Logs,       \* the logs the scheduler will push
          Batches,    \* identities for the batches the loop allocates
          BatchSize,  \* logs in a full batch
          LogCap,     \* capacity of taskLogChan (1024 in the code)
          Nil         \* no batch

ASSUME FiniteAssumption == IsFiniteSet(Logs)
ASSUME BatchSizeAssumption == BatchSize \in Nat \ {0}
ASSUME LogCapAssumption == LogCap \in Nat \ {0}
ASSUME NilAssumption == Nil \notin Batches

VARIABLES
  queued,     \* the logs in taskLogChan
  received,   \* the logs the loop has taken out of it
  current,    \* the loop's variable taskLogBatch
  content,    \* batch -> its Logs
  timer,      \* batch -> its AutoSinkTimer and the goroutine of its closure
  saw,        \* batch -> what the closure of its timer read and sends
  sinking,    \* batch -> goroutines that are writing it
  stored,     \* log -> how often it was inserted into the collection
  failed      \* the logs whose insertion failed, which is ignored

vars == <<queued, received, current, content, timer, saw, sinking, stored, failed>>

TimerStates == {"off", "armed", "stopped", "fired", "sent", "done"}

TypeOK ==
  /\ queued \subseteq Logs /\ received \subseteq Logs /\ failed \subseteq Logs
  /\ current \in Batches \cup {Nil}
  /\ content \in [Batches -> SUBSET Logs]
  /\ timer \in [Batches -> TimerStates]
  /\ saw \in [Batches -> Batches \cup {Nil}]
  /\ sinking \in [Batches -> Nat]
  /\ stored \in [Logs -> Nat]

(* mutant: the variable starts as an empty batch instead of nil *)
InitEmptyBatch ==
  /\ queued = {} /\ received = {} /\ failed = {} /\ current = {}
  /\ content = [b \in Batches |-> {}]
  /\ timer = [b \in Batches |-> "off"]
  /\ saw = [b \in Batches |-> Nil]
  /\ sinking = [b \in Batches |-> 0]
  /\ stored = [l \in Logs |-> 0]

Init ==
  /\ queued = {} /\ received = {} /\ failed = {} /\ current = Nil
  /\ content = [b \in Batches |-> {}]
  /\ timer = [b \in Batches |-> "off"]
  /\ saw = [b \in Batches |-> Nil]
  /\ sinking = [b \in Batches |-> 0]
  /\ stored = [l \in Logs |-> 0]

(* The scheduler blocks while the channel is full. *)
PushTaskLog(l) ==
  /\ l \notin queued \cup received
  /\ Cardinality(queued) < LogCap
  /\ queued' = queued \cup {l}
  /\ UNCHANGED <<received, current, content, timer, saw, sinking, stored, failed>>

Sink(b) == sinking' = [sinking EXCEPT ![b] = @ + 1]

(* mutant: the size is compared with > instead of >= *)
TakesOneMore(b, l) == Cardinality(content[b] \cup {l}) > BatchSize

IsFull(b, l) == Cardinality(content[b] \cup {l}) >= BatchSize

(* The loop appends a log to batch b, which is the current one or, if there is
   none, a new one with its timer.  A full batch is sunk and reset; Stop has no
   effect on a timer whose closure already runs. *)
Append(l, b) ==
  /\ l \in queued
  /\ queued' = queued \ {l} /\ received' = received \cup {l}
  /\ current = Nil => timer[b] = "off"
  /\ current # Nil => b = current
  /\ content' = [content EXCEPT ![b] = @ \cup {l}]
  /\ IF IsFull(b, l)
     THEN /\ timer' = [timer EXCEPT
                         ![b] = IF @ \in {"off", "armed"} THEN "stopped" ELSE @]
          /\ Sink(b)
          /\ current' = Nil
     ELSE /\ timer' = [timer EXCEPT ![b] = IF @ = "off" THEN "armed" ELSE @]
          /\ current' = b
          /\ UNCHANGED sinking
  /\ UNCHANGED <<saw, stored, failed>>

TimerFires(b) ==
  /\ timer[b] = "armed"
  /\ timer' = [timer EXCEPT ![b] = "fired"]
  /\ UNCHANGED <<queued, received, current, content, saw, sinking, stored, failed>>

(* mutant: the closure captured the variable's value before the assignment *)
SendsOldValue(b) ==
  /\ timer[b] = "fired"
  /\ timer' = [timer EXCEPT ![b] = "sent"]
  /\ saw' = [saw EXCEPT ![b] = Nil]
  /\ UNCHANGED <<queued, received, current, content, sinking, stored, failed>>

(* The closure evaluates taskLogBatch and sends what it holds now. *)
TimerSends(b) ==
  /\ timer[b] = "fired"
  /\ timer' = [timer EXCEPT ![b] = "sent"]
  /\ saw' = [saw EXCEPT ![b] = current]
  /\ UNCHANGED <<queued, received, current, content, sinking, stored, failed>>

(* mutant: a batch that arrives is sunk without comparing it *)
TimeOutUnchecked(b) ==
  /\ timer[b] = "sent"
  /\ timer' = [timer EXCEPT ![b] = "done"]
  /\ IF saw[b] # Nil THEN Sink(saw[b]) ELSE UNCHANGED sinking
  /\ current' = Nil
  /\ UNCHANGED <<queued, received, content, saw, stored, failed>>

(* mutant: the current batch is reset whatever batch arrived *)
TimeOutResets(b) ==
  /\ timer[b] = "sent"
  /\ timer' = [timer EXCEPT ![b] = "done"]
  /\ IF saw[b] = current /\ current # Nil THEN Sink(current) ELSE UNCHANGED sinking
  /\ current' = Nil
  /\ UNCHANGED <<queued, received, content, saw, stored, failed>>

(* The loop takes the closure's message: only the batch that is still current
   is sunk.  Sinking Nil does nothing. *)
BatchTimeOut(b) ==
  /\ timer[b] = "sent"
  /\ timer' = [timer EXCEPT ![b] = "done"]
  /\ IF saw[b] = current /\ current # Nil
     THEN Sink(current) /\ current' = Nil
     ELSE UNCHANGED <<sinking, current>>
  /\ UNCHANGED <<queued, received, content, saw, stored, failed>>

(* InsertMany; an error loses the batch. *)
LogSink(b) ==
  /\ sinking[b] > 0
  /\ sinking' = [sinking EXCEPT ![b] = @ - 1]
  /\ \/ /\ stored' = [l \in Logs |-> IF l \in content[b] THEN stored[l] + 1
                                     ELSE stored[l]]
        /\ UNCHANGED failed
     \/ /\ failed' = failed \cup content[b]
        /\ UNCHANGED stored
  /\ UNCHANGED <<queued, received, current, content, timer, saw>>

Next ==
  \/ \E l \in Logs : PushTaskLog(l) \/ \E b \in Batches : Append(l, b)
  \/ \E b \in Batches :
       TimerFires(b) \/ TimerSends(b) \/ BatchTimeOut(b) \/ LogSink(b)

Spec == Init /\ [][Next]_vars

(* Timers fire, goroutines run, and the loop's select serves both channels. *)
FairSpec ==
  /\ Spec
  /\ WF_vars(\E l \in Logs, b \in Batches : Append(l, b))
  /\ \A b \in Batches :
       /\ WF_vars(TimerFires(b)) /\ WF_vars(TimerSends(b))
       /\ WF_vars(BatchTimeOut(b)) /\ WF_vars(LogSink(b))

-----------------------------------------------------------------------------
(* No log is inserted twice, although timer and size race for the batch: the
   hazard the comment in loop names. *)
StoredOnce == \A l \in Logs : stored[l] <= 1

(* Nothing the loop received is forgotten: it is in the current batch, in a
   batch that is being written, in the database, or its insertion failed. *)
NoLogForgotten ==
  \A l \in received :
    \/ current # Nil /\ l \in content[current]
    \/ \E b \in Batches : sinking[b] > 0 /\ l \in content[b]
    \/ stored[l] > 0 \/ l \in failed

(* A batch that waits is always smaller than BatchSize, and somebody will still
   announce it: its own timer, or a message on the way. *)
WaitingBatchCovered ==
  current # Nil =>
    /\ Cardinality(content[current]) < BatchSize
    /\ \/ timer[current] \in {"armed", "fired"}
       \/ \E b \in Batches : timer[b] = "sent" /\ saw[b] = current

(* Every log the loop received reaches the database or fails to. *)
EventuallySunk ==
  \A l \in Logs : l \in received ~> stored[l] > 0 \/ l \in failed
=============================================================================
