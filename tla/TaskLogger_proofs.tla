-------------------------- MODULE TaskLogger_proofs --------------------------
(***************************************************************************)
(* Proofs about the task logger for every finite set of logs and every     *)
(* batch size.  The argument: a batch is in one phase after another (new,  *)
(* current, being written, written), batches share no log, and only the    *)
(* current batch is ever handed to a writer.                               *)
(***************************************************************************)
EXTENDS TaskLogger, FiniteSetTheorems, TLAPS

(* A log is in the channel, or received and in at most one batch. *)
Separate ==
  /\ queued \cap received = {}
  /\ \A b \in Batches : content[b] \subseteq received
  /\ \A b, c \in Batches : b # c => content[b] \cap content[c] = {}
  /\ \A l \in Logs : stored[l] > 0 => l \in received

(* A new batch is empty, has no writer and is not current. *)
NewIsUntouched ==
  \A b \in Batches : timer[b] = "off" =>
    content[b] = {} /\ sinking[b] = 0 /\ b # current

(* A batch has at most one writer, the current batch none, and what is current
   or being written is not in the database. *)
OneWriter ==
  /\ \A b \in Batches : sinking[b] \in {0, 1}
  /\ current # Nil => sinking[current] = 0
  /\ \A b \in Batches : b = current \/ sinking[b] = 1 =>
       \A l \in content[b] : stored[l] = 0

IInv ==
  /\ TypeOK /\ Separate /\ NewIsUntouched /\ OneWriter
  /\ StoredOnce /\ NoLogForgotten /\ WaitingBatchCovered

USE FiniteAssumption, BatchSizeAssumption, LogCapAssumption, NilAssumption

-----------------------------------------------------------------------------
(* The size of a batch is a natural number, so a batch that is not full is
   smaller than BatchSize. *)
LEMMA NotFullIsSmall ==
  ASSUME TypeOK, NEW b \in Batches, NEW l \in Logs, ~IsFull(b, l)
  PROVE  Cardinality(content[b] \cup {l}) < BatchSize
<1>1. IsFiniteSet(content[b] \cup {l})
  <2>1. content[b] \cup {l} \subseteq Logs BY DEF TypeOK
  <2> QED BY <2>1, FS_Subset
<1>2. Cardinality(content[b] \cup {l}) \in Nat
  BY <1>1, FS_CardinalityType
<1> QED BY <1>2 DEF IsFull

(* The initial state satisfies the inductive invariant. *)
LEMMA InitIInv == Init => IInv
BY DEF Init, IInv, TypeOK, Separate, NewIsUntouched, OneWriter, StoredOnce,
       NoLogForgotten, WaitingBatchCovered, TimerStates

(* The variables of the logger keep their types. *)
LEMMA NextTypeOK == TypeOK /\ [Next]_vars => TypeOK'
<1> SUFFICES ASSUME TypeOK, [Next]_vars PROVE TypeOK'
  OBVIOUS
<1> USE DEF TypeOK, TimerStates
<1>1. ASSUME NEW l \in Logs, PushTaskLog(l) PROVE TypeOK'
  BY <1>1 DEF PushTaskLog
<1>2. ASSUME NEW l \in Logs, NEW b \in Batches, Append(l, b) PROVE TypeOK'
  BY <1>2 DEF Append, Sink
<1>3. ASSUME NEW b \in Batches, TimerFires(b) PROVE TypeOK'
  BY <1>3 DEF TimerFires
<1>4. ASSUME NEW b \in Batches, TimerSends(b) PROVE TypeOK'
  BY <1>4 DEF TimerSends
<1>5. ASSUME NEW b \in Batches, BatchTimeOut(b) PROVE TypeOK'
  BY <1>5 DEF BatchTimeOut, Sink
<1>6. ASSUME NEW b \in Batches, LogSink(b) PROVE TypeOK'
  BY <1>6 DEF LogSink
<1>7. CASE UNCHANGED vars
  BY <1>7 DEF vars
<1> QED BY <1>1, <1>2, <1>3, <1>4, <1>5, <1>6, <1>7 DEF Next

(* Taking a log into a batch preserves the invariant. *)
LEMMA AppendIInv ==
  ASSUME IInv, NEW l \in Logs, NEW b \in Batches, Append(l, b), TypeOK'
  PROVE  IInv'
<1> USE DEF IInv, TypeOK, TimerStates, Append, Sink
<1>1. Separate' BY DEF Separate
<1>2. NewIsUntouched' BY DEF NewIsUntouched
<1>3. OneWriter'
  <2>1. sinking[b] = 0 BY DEF OneWriter, NewIsUntouched
  <2>2. \A k \in content[b] \cup {l} : stored[k] = 0
    BY DEF OneWriter, NewIsUntouched, Separate
  <2> QED BY <2>1, <2>2 DEF OneWriter
<1>4. StoredOnce' BY DEF StoredOnce
<1>5. NoLogForgotten'
  <2>1. b = current \/ (current = Nil /\ content[b] = {})
    BY DEF NewIsUntouched
  <2>2. CASE IsFull(b, l)
    BY <2>1, <2>2 DEF NoLogForgotten
  <2>3. CASE ~IsFull(b, l)
    BY <2>1, <2>3 DEF NoLogForgotten
  <2> QED BY <2>2, <2>3
<1>6. WaitingBatchCovered'
  <2>1. CASE IsFull(b, l) BY <2>1 DEF WaitingBatchCovered
  <2>2. CASE ~IsFull(b, l)
    <3>1. Cardinality(content'[b]) < BatchSize
      BY <2>2, NotFullIsSmall
    <3>2. current' = b BY <2>2
    <3>3. \/ timer'[b] \in {"armed", "fired"}
          \/ \E c \in Batches : timer'[c] = "sent" /\ saw'[c] = b
      BY <2>2 DEF WaitingBatchCovered
    <3> QED BY <3>1, <3>2, <3>3 DEF WaitingBatchCovered
  <2> QED BY <2>1, <2>2
<1> QED BY <1>1, <1>2, <1>3, <1>4, <1>5, <1>6

(* A message of a timer preserves the invariant: if it does not name the current
   batch it is not the one the current batch relies on. *)
LEMMA BatchTimeOutIInv ==
  ASSUME IInv, NEW b \in Batches, BatchTimeOut(b), TypeOK'
  PROVE  IInv'
<1> USE DEF IInv, TypeOK, TimerStates, BatchTimeOut, Sink
<1>1. Separate' BY DEF Separate
<1>2. NewIsUntouched' BY DEF NewIsUntouched
<1>3. OneWriter' BY DEF OneWriter
<1>4. StoredOnce' BY DEF StoredOnce
<1>5. NoLogForgotten' BY DEF NoLogForgotten
<1>6. WaitingBatchCovered' BY DEF WaitingBatchCovered
<1> QED BY <1>1, <1>2, <1>3, <1>4, <1>5, <1>6

(* A writer preserves the invariant: its logs are in no other batch. *)
LEMMA LogSinkIInv ==
  ASSUME IInv, NEW b \in Batches, LogSink(b), TypeOK'
  PROVE  IInv'
<1> USE DEF IInv, TypeOK, TimerStates, LogSink
<1>1. sinking[b] = 1 /\ b # current
  BY DEF OneWriter
<1>2. Separate' BY DEF Separate
<1>3. NewIsUntouched' BY DEF NewIsUntouched
<1>4. OneWriter' BY <1>1 DEF OneWriter, Separate
<1>5. StoredOnce' BY <1>1 DEF StoredOnce, OneWriter
<1>6. NoLogForgotten' BY <1>1 DEF NoLogForgotten
<1>7. WaitingBatchCovered' BY DEF WaitingBatchCovered
<1> QED BY <1>2, <1>3, <1>4, <1>5, <1>6, <1>7

(* Every step preserves the inductive invariant. *)
LEMMA NextIInv == IInv /\ [Next]_vars => IInv'
<1> SUFFICES ASSUME IInv, [Next]_vars PROVE IInv'
  OBVIOUS
<1>0. TypeOK' BY NextTypeOK DEF IInv
<1>1. ASSUME NEW l \in Logs, PushTaskLog(l) PROVE IInv'
  BY <1>0, <1>1 DEF PushTaskLog, IInv, TypeOK, Separate, NewIsUntouched, OneWriter,
     StoredOnce, NoLogForgotten, WaitingBatchCovered
<1>2. ASSUME NEW l \in Logs, NEW b \in Batches, Append(l, b) PROVE IInv'
  BY <1>0, <1>2, AppendIInv
<1>3. ASSUME NEW b \in Batches, TimerFires(b) PROVE IInv'
  BY <1>0, <1>3 DEF TimerFires, IInv, TypeOK, Separate, NewIsUntouched, OneWriter,
     StoredOnce, NoLogForgotten, WaitingBatchCovered
<1>4. ASSUME NEW b \in Batches, TimerSends(b) PROVE IInv'
  BY <1>0, <1>4 DEF TimerSends, IInv, TypeOK, Separate, NewIsUntouched, OneWriter,
     StoredOnce, NoLogForgotten, WaitingBatchCovered
<1>5. ASSUME NEW b \in Batches, BatchTimeOut(b) PROVE IInv'
  BY <1>0, <1>5, BatchTimeOutIInv
<1>6. ASSUME NEW b \in Batches, LogSink(b) PROVE IInv'
  BY <1>0, <1>6, LogSinkIInv
<1>7. CASE UNCHANGED vars
  BY <1>0, <1>7 DEF vars, IInv, TypeOK, Separate, NewIsUntouched, OneWriter,
     StoredOnce, NoLogForgotten, WaitingBatchCovered
<1> QED BY <1>1, <1>2, <1>3, <1>4, <1>5, <1>6, <1>7 DEF Next

(* The inductive invariant holds in every reachable state. *)
LEMMA Invariance == Spec => []IInv
BY InitIInv, NextIInv, PTL DEF Spec

(* The variables of the logger always have their types. *)
THEOREM TypeCorrect == Spec => []TypeOK
<1>1. IInv => TypeOK BY DEF IInv
<1> QED BY <1>1, Invariance, PTL

(* Size and timer may race for a batch in any way: no log is stored twice. *)
THEOREM AtMostOnce == Spec => []StoredOnce
<1>1. IInv => StoredOnce BY DEF IInv
<1> QED BY <1>1, Invariance, PTL

(* Nothing the loop received is dropped on the way to InsertMany. *)
THEOREM NothingForgotten == Spec => []NoLogForgotten
<1>1. IInv => NoLogForgotten BY DEF IInv
<1> QED BY <1>1, Invariance, PTL

(* A waiting batch is never full and never without a timer or a message. *)
THEOREM Covered == Spec => []WaitingBatchCovered
<1>1. IInv => WaitingBatchCovered BY DEF IInv
<1> QED BY <1>1, Invariance, PTL
=============================================================================
