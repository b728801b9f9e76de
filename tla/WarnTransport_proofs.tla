------------------------ MODULE WarnTransport_proofs ------------------------
(***************************************************************************)
(* Proofs about the consumers of alarms, for any number of workers and     *)
(* partitions, whatever sessions go on fetching partitions they have lost. *)
(***************************************************************************)
EXTENDS WarnTransport, TLAPS

(* What a worker was given and has not taken yet. *)
Pending(w, p, m) == next[w][p] < m /\ m <= fetched[w][p]

(* The part of the types that the argument needs. *)
Offsets ==
  /\ log \in [Partitions -> 0..MaxEntries]
  /\ claim \in [Partitions -> Workers \cup {NoWorker}]
  /\ serves \in [Workers -> SUBSET Partitions]
  /\ strays \in [Partitions -> SUBSET Messages]
  /\ fetched \in [Workers -> [Partitions -> Nat]]
  /\ next \in [Workers -> [Partitions -> Nat]]
  /\ putCount \in [Partitions -> [Messages -> Nat]]

(* Nobody is ahead of the log. *)
Behind ==
  \A w \in Workers, p \in Partitions : next[w][p] <= fetched[w][p] /\ fetched[w][p] <= log[p]

(* A message that no session fetched after it had lost the partition is pending
   with one worker at most, and not put yet. *)
OnePending ==
  \A p \in Partitions, m \in Messages, w \in Workers :
    Pending(w, p, m) /\ m \notin strays[p] =>
      putCount[p][m] = 0 /\ \A v \in Workers \ {w} : ~Pending(v, p, m)

(* Only what is in the log was put; if a partition is assigned, its worker has been
   given everything, strays aside, that was put or given to anybody. *)
PutInLog ==
  \A p \in Partitions, m \in Messages : putCount[p][m] > 0 => m <= log[p]
PutBehind ==
  \A p \in Partitions, m \in Messages :
    claim[p] # NoWorker /\ m \notin strays[p] =>
      /\ putCount[p][m] > 0 => m <= fetched[claim[p]][p]
      /\ \A v \in Workers : m <= fetched[v][p] => m <= fetched[claim[p]][p]

TInv == Offsets /\ Behind /\ OnePending /\ PutInLog /\ PutBehind /\ MessagePutOnce

offsetVars == <<log, claim, serves, fetched, next, putCount, strays>>

USE NoWorkerAssumption, CapAssumption, BoundAssumption DEF Messages, NoOffsets

-----------------------------------------------------------------------------
(* Nothing was sent or given to anybody. *)
LEMMA InitTInv == TransportInit => TInv
<1> SUFFICES ASSUME TransportInit PROVE TInv
  OBVIOUS
<1> USE DEF TransportInit
<1>1. Offsets BY DEF Offsets
<1>2. Behind BY DEF Behind
<1>3. OnePending BY DEF OnePending, Pending
<1>4. PutInLog /\ PutBehind /\ MessagePutOnce BY DEF PutInLog, PutBehind, MessagePutOnce
<1> QED BY <1>1, <1>2, <1>3, <1>4 DEF TInv

(* Steps of producers, and those of Consume that change no offset. *)
LEMMA SameOffsets == TInv /\ UNCHANGED offsetVars => TInv'
BY DEF offsetVars, TInv, Offsets, Behind, OnePending, PutInLog, PutBehind, MessagePutOnce, Pending

(* A message is appended: it is beyond what anybody was given. *)
LEMMA ProduceTInv == \A w \in Workers : TInv /\ Produce(w) => TInv'
<1> SUFFICES ASSUME NEW w \in Workers, TInv, Produce(w) PROVE TInv'
  OBVIOUS
<1>1. UNCHANGED consumerVars
  BY DEF Produce
<1>2. PICK p \in Partitions : log[p] < MaxEntries /\ log' = [log EXCEPT ![p] = @ + 1]
  BY DEF Produce
<1>3. log' \in [Partitions -> 0..MaxEntries] /\ \A q \in Partitions : log[q] <= log'[q]
  BY <1>2 DEF TInv, Offsets
<1>4. Offsets' BY <1>1, <1>3 DEF TInv, Offsets, consumerVars
<1>5. Behind' BY <1>1, <1>3 DEF TInv, Offsets, Behind, consumerVars
<1>6. OnePending' /\ MessagePutOnce'
  BY <1>1 DEF TInv, OnePending, MessagePutOnce, Pending, consumerVars
<1>7. PutInLog' BY <1>1, <1>3 DEF TInv, Offsets, PutInLog, consumerVars
<1>8. PutBehind' BY <1>1 DEF TInv, PutBehind, consumerVars
<1> QED BY <1>4, <1>5, <1>6, <1>7, <1>8 DEF TInv

(* A new generation: whoever joined begins at the end of the log, where nothing is
   pending and nothing was put. *)
LEMMA RebalanceTInv == TInv /\ Rebalance => TInv'
<1> SUFFICES ASSUME TInv, Rebalance PROVE TInv'
  OBVIOUS
<1>1. PICK joined \in (SUBSET {w \in Workers : member[w] = "joining"}) \ {{}} :
        /\ claim' \in [Partitions -> joined]
        /\ serves' = [w \in Workers |-> IF w \in joined
                                        THEN {p \in Partitions : claim'[p] = w}
                                        ELSE serves[w]]
        /\ fetched' = [w \in Workers |-> IF w \in joined THEN log ELSE fetched[w]]
        /\ next' = [w \in Workers |-> IF w \in joined THEN log ELSE next[w]]
        /\ UNCHANGED <<log, putCount, strays>>
  BY DEF Rebalance, FromNewest
<1>2. joined \subseteq Workers
  BY <1>1
<1>3. log \in [Partitions -> Nat]
  BY DEF TInv, Offsets
<1>4. Offsets'
  <2>1. claim' \in [Partitions -> Workers \cup {NoWorker}] BY <1>1, <1>2
  <2>2. serves' \in [Workers -> SUBSET Partitions] BY <1>1 DEF TInv, Offsets
  <2>3. fetched' \in [Workers -> [Partitions -> Nat]] /\ next' \in [Workers -> [Partitions -> Nat]]
    BY <1>1, <1>3 DEF TInv, Offsets
  <2> QED BY <1>1, <2>1, <2>2, <2>3 DEF TInv, Offsets
<1>5. Behind'
  BY <1>1, <1>3 DEF TInv, Offsets, Behind
<1>6. \A w \in Workers, p \in Partitions, m \in Messages :
        Pending(w, p, m)' => Pending(w, p, m)
  BY <1>1, <1>3 DEF Pending
<1>7. OnePending'
  BY <1>1, <1>6 DEF TInv, OnePending
<1>8. PutInLog' /\ MessagePutOnce'
  BY <1>1 DEF TInv, PutInLog, MessagePutOnce
<1>9. PutBehind'
  <2> SUFFICES ASSUME NEW p \in Partitions, NEW m \in Messages
               PROVE  /\ putCount[p][m] > 0 => m <= fetched'[claim'[p]][p]
                      /\ \A v \in Workers : m <= fetched'[v][p] => m <= fetched'[claim'[p]][p]
    BY <1>1 DEF PutBehind
  <2>1. claim'[p] \in joined /\ fetched'[claim'[p]][p] = log[p]
    BY <1>1, <1>2
  <2>2. \A v \in Workers : fetched'[v][p] <= log[p]
    BY <1>1, <1>5 DEF Behind
  <2>3. log[p] \in Nat /\ \A v \in Workers : fetched'[v][p] \in Nat
    BY <1>3, <1>4 DEF Offsets
  <2> QED BY <2>1, <2>2, <2>3 DEF TInv, PutInLog
<1> QED BY <1>4, <1>5, <1>7, <1>8, <1>9 DEF TInv

(* A session that ends leaves its partitions to nobody. *)
LEMMA SessionEndsTInv == \A w \in Workers : TInv /\ SessionEnds(w) => TInv'
<1> SUFFICES ASSUME NEW w \in Workers, TInv, SessionEnds(w) PROVE TInv'
  OBVIOUS
<1>1. /\ claim' = [p \in Partitions |-> IF claim[p] = w THEN NoWorker ELSE claim[p]]
      /\ serves' = [serves EXCEPT ![w] = {}]
      /\ UNCHANGED <<log, fetched, next, putCount, strays>>
  BY DEF SessionEnds
<1>2. Offsets' /\ Behind' BY <1>1 DEF TInv, Offsets, Behind
<1>3. OnePending' /\ PutInLog' /\ MessagePutOnce'
  BY <1>1 DEF TInv, OnePending, PutInLog, MessagePutOnce, Pending
<1>4. PutBehind' BY <1>1 DEF TInv, PutBehind
<1> QED BY <1>2, <1>3, <1>4 DEF TInv

(* What the owner of a partition fetches is beyond what any other was given, and
   beyond what was put, strays aside; what another fetches are strays. *)
LEMMA FetchTInv == \A w \in Workers, p \in Partitions : TInv /\ Fetch(w, p) => TInv'
<1> SUFFICES ASSUME NEW w \in Workers, NEW p \in Partitions, TInv, Fetch(w, p) PROVE TInv'
  OBVIOUS
<1>1. /\ fetched[w][p] < log[p]
      /\ fetched' = [fetched EXCEPT ![w][p] = log[p]]
      /\ UNCHANGED <<log, claim, serves, next, putCount>>
  BY DEF Fetch
<1>2. log[p] \in Nat /\ fetched[w][p] \in Nat
      /\ fetched' \in [Workers -> [Partitions -> Nat]]
  BY <1>1 DEF TInv, Offsets
<1>3. /\ fetched'[w][p] = log[p]
      /\ \A v \in Workers, q \in Partitions :
           <<v, q>> # <<w, p>> => fetched'[v][q] = fetched[v][q]
  BY <1>1 DEF TInv, Offsets
<1>4. /\ strays' \in [Partitions -> SUBSET Messages]
      /\ \A q \in Partitions : strays[q] \subseteq strays'[q]
      /\ claim[p] # w => \A m \in Messages :
           fetched[w][p] < m /\ m <= log[p] => m \in strays'[p]
  <2>1. CASE claim[p] = w
    BY <2>1 DEF Fetch, TInv, Offsets
  <2>2. CASE claim[p] # w
    <3>1. strays' = [strays EXCEPT ![p] = strays[p] \cup (fetched[w][p] + 1 .. log[p])]
      BY <2>2 DEF Fetch
    <3>2. fetched[w][p] + 1 .. log[p] \subseteq Messages
      BY <1>2 DEF TInv, Offsets
    <3>3. strays \in [Partitions -> SUBSET Messages] BY DEF TInv, Offsets
    <3>4. \A m \in Messages : fetched[w][p] < m /\ m <= log[p]
            => m \in fetched[w][p] + 1 .. log[p]
      BY <1>2
    <3> QED BY <3>1, <3>2, <3>3, <3>4
  <2> QED BY <2>1, <2>2
<1>5. Offsets' BY <1>1, <1>2, <1>4 DEF TInv, Offsets
<1>6. Behind' BY <1>1, <1>2, <1>3 DEF TInv, Offsets, Behind
<1>7. \A m \in Messages : m > fetched[w][p] /\ m <= log[p] /\ m \notin strays'[p] =>
        putCount[p][m] = 0 /\ \A v \in Workers \ {w} : ~Pending(v, p, m)
  <2> SUFFICES ASSUME NEW m \in Messages, m > fetched[w][p], m <= log[p], m \notin strays'[p]
               PROVE  putCount[p][m] = 0 /\ \A v \in Workers \ {w} : ~Pending(v, p, m)
    OBVIOUS
  <2>1. claim[p] = w /\ m \notin strays[p]
    BY <1>2, <1>4
  <2>2. /\ putCount[p][m] > 0 => m <= fetched[w][p]
        /\ \A v \in Workers : m <= fetched[v][p] => m <= fetched[w][p]
    BY <2>1 DEF TInv, PutBehind
  <2>3. putCount[p][m] \in Nat /\ m \in Nat
    BY DEF TInv, Offsets
  <2> QED BY <1>2, <2>2, <2>3 DEF Pending
<1>8. ASSUME NEW v \in Workers, NEW q \in Partitions, NEW m \in Messages, Pending(v, q, m)'
      PROVE  \/ Pending(v, q, m)
             \/ v = w /\ q = p /\ m > fetched[w][p] /\ m <= log[p]
  BY <1>1, <1>2, <1>3, <1>8 DEF Pending, TInv, Offsets
<1>9. OnePending'
  <2> SUFFICES ASSUME NEW q \in Partitions, NEW m \in Messages, NEW v \in Workers,
                      Pending(v, q, m)', m \notin strays'[q]
               PROVE  putCount[q][m] = 0 /\ \A u \in Workers \ {v} : ~Pending(u, q, m)'
    BY <1>1 DEF OnePending
  <2>0. m \notin strays[q] BY <1>4
  <2>1. CASE Pending(v, q, m)
    <3>1. putCount[q][m] = 0 /\ \A u \in Workers \ {v} : ~Pending(u, q, m)
      BY <2>0, <2>1 DEF TInv, OnePending
    <3>2. ASSUME NEW u \in Workers \ {v}, Pending(u, q, m)' PROVE FALSE
      <4>1. u = w /\ q = p /\ m > fetched[w][p] /\ m <= log[p] BY <1>8, <3>1, <3>2
      <4> QED BY <1>7, <2>1, <4>1
    <3> QED BY <3>1, <3>2
  <2>2. CASE v = w /\ q = p /\ m > fetched[w][p] /\ m <= log[p]
    <3>1. putCount[p][m] = 0 /\ \A u \in Workers \ {w} : ~Pending(u, p, m)
      BY <1>7, <2>2
    <3> QED BY <1>8, <2>2, <3>1
  <2> QED BY <1>8, <2>1, <2>2
<1>10. PutInLog' BY <1>1 DEF TInv, PutInLog
<1>11. PutBehind'
  <2> SUFFICES ASSUME NEW q \in Partitions, NEW m \in Messages,
                      claim[q] # NoWorker, m \notin strays'[q]
               PROVE  /\ putCount[q][m] > 0 => m <= fetched'[claim[q]][q]
                      /\ \A v \in Workers : m <= fetched'[v][q] => m <= fetched'[claim[q]][q]
    BY <1>1 DEF PutBehind
  <2>1. /\ putCount[q][m] > 0 => m <= fetched[claim[q]][q]
        /\ \A v \in Workers : m <= fetched[v][q] => m <= fetched[claim[q]][q]
    BY <1>4 DEF TInv, PutBehind
  <2>2. claim[q] \in Workers BY DEF TInv, Offsets
  <2>3. \A v \in Workers : fetched'[v][q] \in Nat /\ fetched[v][q] \in Nat
    BY <1>2 DEF TInv, Offsets
  <2>4. \A v \in Workers : fetched[v][q] <= fetched'[v][q]
    BY <1>2, <1>3, <1>1, <2>3
  <2>5. m <= fetched[claim[q]][q] => m <= fetched'[claim[q]][q]
    BY <2>2, <2>3, <2>4
  <2>6. ASSUME NEW v \in Workers, m <= fetched'[v][q] PROVE m <= fetched'[claim[q]][q]
    <3>1. CASE <<v, q>> # <<w, p>> BY <1>3, <2>1, <2>5, <2>6, <3>1
    <3>2. CASE v = w /\ q = p /\ claim[p] = w BY <2>6, <3>2
    <3>3. CASE v = w /\ q = p /\ claim[p] # w
      <4>1. m <= fetched[w][p] BY <1>2, <1>3, <1>4, <2>6, <3>3
      <4> QED BY <2>1, <2>5, <3>3, <4>1
    <3> QED BY <3>1, <3>2, <3>3
  <2> QED BY <2>1, <2>5, <2>6
<1>12. MessagePutOnce'
  BY <1>1, <1>4 DEF TInv, MessagePutOnce
<1> QED BY <1>5, <1>6, <1>9, <1>10, <1>11, <1>12 DEF TInv

(* The message that is taken, if no stray, was pending here only, and was not put
   before. *)
LEMMA ConsumeTInv == \A w \in Workers, p \in Partitions : TInv /\ ConsumeClaim(w, p) => TInv'
<1> SUFFICES ASSUME NEW w \in Workers, NEW p \in Partitions, TInv, ConsumeClaim(w, p)
             PROVE  TInv'
  OBVIOUS
<1> DEFINE k == next[w][p] + 1
<1>1. /\ next[w][p] < fetched[w][p]
      /\ next' = [next EXCEPT ![w][p] = k]
      /\ putCount' = [putCount EXCEPT ![p][k] = @ + 1] \/ UNCHANGED putCount
      /\ UNCHANGED <<log, claim, serves, fetched, strays>>
  BY DEF ConsumeClaim
<1>2. /\ next[w][p] \in Nat /\ k \in Nat /\ fetched[w][p] \in Nat
      /\ fetched[w][p] <= log[p] /\ log[p] \in 0..MaxEntries
  BY DEF TInv, Offsets, Behind
<1>3. k \in Messages /\ Pending(w, p, k) /\ k <= fetched[w][p]
  BY <1>1, <1>2 DEF Pending
<1>4. k \notin strays[p] =>
        putCount[p][k] = 0 /\ \A v \in Workers \ {w} : ~Pending(v, p, k)
  BY <1>3 DEF TInv, OnePending
<1> HIDE DEF k
<1>5. /\ next' \in [Workers -> [Partitions -> Nat]]
      /\ next'[w][p] = k
      /\ \A v \in Workers, q \in Partitions : <<v, q>> # <<w, p>> => next'[v][q] = next[v][q]
  BY <1>1, <1>2 DEF TInv, Offsets
<1>6. /\ putCount' \in [Partitions -> [Messages -> Nat]]
      /\ putCount'[p][k] \in {putCount[p][k], putCount[p][k] + 1}
      /\ \A q \in Partitions, m \in Messages : <<q, m>> # <<p, k>> =>
           putCount'[q][m] = putCount[q][m]
  <2>1. putCount \in [Partitions -> [Messages -> Nat]]
    BY DEF TInv, Offsets
  <2>2. CASE UNCHANGED putCount
    BY <1>3, <2>1, <2>2
  <2>3. CASE putCount' = [putCount EXCEPT ![p][k] = @ + 1]
    <3>1. putCount[p] \in [Messages -> Nat] /\ putCount[p][k] + 1 \in Nat BY <1>3, <2>1
    <3>2. [putCount[p] EXCEPT ![k] = putCount[p][k] + 1] \in [Messages -> Nat] BY <3>1
    <3>3. putCount' = [putCount EXCEPT ![p] = [putCount[p] EXCEPT ![k] = putCount[p][k] + 1]]
      BY <2>3
    <3> QED BY <1>3, <2>1, <3>1, <3>2, <3>3
  <2> QED BY <1>1, <2>2, <2>3
<1>7. Offsets'
  BY <1>1, <1>5, <1>6 DEF TInv, Offsets
<1>8. Behind'
  BY <1>1, <1>3, <1>5 DEF TInv, Behind
<1>9. ASSUME NEW v \in Workers, NEW q \in Partitions, NEW m \in Messages,
             Pending(v, q, m)', m \notin strays[q]
      PROVE  Pending(v, q, m) /\ <<q, m>> # <<p, k>>
  <2>1. CASE v = w /\ q = p
    <3>1. k < m BY <1>5, <1>9, <2>1 DEF Pending
    <3>2. next[w][p] < m /\ m # k BY <1>2, <3>1 DEF k
    <3> QED BY <1>1, <1>9, <2>1, <3>2 DEF Pending
  <2>2. CASE ~(v = w /\ q = p)
    <3>1. Pending(v, q, m) BY <1>1, <1>5, <1>9, <2>2 DEF Pending
    <3> QED BY <1>4, <1>9, <2>2, <3>1
  <2> QED BY <2>1, <2>2
<1>10. OnePending'
  <2> SUFFICES ASSUME NEW q \in Partitions, NEW m \in Messages, NEW v \in Workers,
                      Pending(v, q, m)', m \notin strays[q]
               PROVE  putCount'[q][m] = 0 /\ \A u \in Workers \ {v} : ~Pending(u, q, m)'
    BY <1>1 DEF OnePending
  <2>1. Pending(v, q, m) /\ <<q, m>> # <<p, k>>
    BY <1>9
  <2>2. putCount'[q][m] = 0
    BY <1>6, <2>1 DEF TInv, OnePending
  <2>3. \A u \in Workers \ {v} : ~Pending(u, q, m)'
    BY <1>9, <2>1 DEF TInv, OnePending
  <2> QED BY <2>2, <2>3
<1>11. PutInLog'
  <2>1. k <= log[p]
    BY <1>2, <1>3
  <2> QED BY <1>1, <1>6, <2>1 DEF TInv, PutInLog
<1>12. PutBehind'
  <2> SUFFICES ASSUME NEW q \in Partitions, NEW m \in Messages,
                      claim[q] # NoWorker, m \notin strays[q]
               PROVE  /\ putCount'[q][m] > 0 => m <= fetched[claim[q]][q]
                      /\ \A v \in Workers : m <= fetched[v][q] => m <= fetched[claim[q]][q]
    BY <1>1 DEF PutBehind
  <2>1. /\ putCount[q][m] > 0 => m <= fetched[claim[q]][q]
        /\ \A v \in Workers : m <= fetched[v][q] => m <= fetched[claim[q]][q]
    BY DEF TInv, PutBehind
  <2> QED BY <1>3, <1>6, <2>1
<1>13. MessagePutOnce'
  <2> SUFFICES ASSUME NEW q \in Partitions, NEW m \in Messages, m \notin strays[q]
               PROVE  ~(putCount'[q][m] > 1)
    BY <1>1 DEF MessagePutOnce
  <2>1. CASE <<q, m>> = <<p, k>> BY <1>4, <1>6, <2>1
  <2>2. CASE <<q, m>> # <<p, k>> BY <1>6, <2>2 DEF TInv, MessagePutOnce
  <2> QED BY <2>1, <2>2
<1> QED BY <1>7, <1>8, <1>10, <1>11, <1>12, <1>13 DEF TInv

(* A process that ends forgets what was pending; what it was given last lies behind
   whoever has the partition. *)
LEMMA StopTInv == \A w \in Workers : TInv /\ StopWorker(w) => TInv'
<1> SUFFICES ASSUME NEW w \in Workers, TInv, StopWorker(w) PROVE TInv'
  OBVIOUS
<1>1. /\ claim' = [p \in Partitions |-> IF claim[p] = w THEN NoWorker ELSE claim[p]]
      /\ serves' = [serves EXCEPT ![w] = {}]
      /\ fetched' = [fetched EXCEPT ![w] = NoOffsets]
      /\ next' = [next EXCEPT ![w] = NoOffsets]
      /\ UNCHANGED <<log, putCount, strays>>
  BY DEF StopWorker
<1>2. Offsets'
  BY <1>1 DEF TInv, Offsets
<1>3. Behind'
  BY <1>1 DEF TInv, Offsets, Behind
<1>4. \A v \in Workers, p \in Partitions, m \in Messages : Pending(v, p, m)' => Pending(v, p, m)
  BY <1>1 DEF TInv, Offsets, Pending
<1>5. OnePending'
  BY <1>1, <1>4 DEF TInv, OnePending
<1>6. PutBehind'
  BY <1>1 DEF TInv, Offsets, PutBehind
<1>7. PutInLog' /\ MessagePutOnce'
  BY <1>1 DEF TInv, PutInLog, MessagePutOnce
<1> QED BY <1>2, <1>3, <1>5, <1>6, <1>7 DEF TInv

(* Every step keeps the invariant. *)
LEMMA NextTInv == TInv /\ [TransportNext]_transportVars => TInv'
<1> SUFFICES ASSUME TInv, [TransportNext]_transportVars PROVE TInv'
  OBVIOUS
<1>1. ASSUME NEW w \in Workers,
             Push(w) \/ PushReturns(w) \/ ProduceFails(w) \/ StartWorker(w) \/ ConsumeFails(w)
      PROVE  TInv'
  BY <1>1, SameOffsets DEF offsetVars, consumerVars, Push, PushReturns, ProduceFails,
     StartWorker, ConsumeFails
<1>2. CASE UNCHANGED transportVars
  BY <1>2, SameOffsets DEF offsetVars, transportVars, consumerVars
<1> QED
  BY <1>1, <1>2, ProduceTInv, RebalanceTInv, SessionEndsTInv, FetchTInv, ConsumeTInv, StopTInv
     DEF TransportNext, Producer, Consumer

-----------------------------------------------------------------------------
(* The types TInv does not speak of. *)
RestOK ==
  /\ pushing \subseteq Workers /\ jammed \subseteq Workers
  /\ input \in [Workers -> 0..InputCap]
  /\ givenUp \in [Workers -> Nat]
  /\ member \in [Workers -> {"down", "joining", "session", "returned"}]
  /\ \A w \in Workers : serves[w] # {} => member[w] = "session"
  /\ \A p \in Partitions : claim[p] # NoWorker => p \in serves[claim[p]]
  /\ alarms \in 0..MaxAlarms /\ starts \in 0..MaxStarts

(* The producers keep their capacity. *)
LEMMA ProducersRestOK ==
  ASSUME NEW w \in Workers, RestOK, Push(w) \/ Producer(w)
  PROVE  RestOK'
<1>1. UNCHANGED <<member, claim, serves, starts>>
  BY DEF Push, Producer, PushReturns, Produce, ProduceFails, consumerVars
<1>2. alarms' \in 0..MaxAlarms
  BY DEF RestOK, Push, Producer, PushReturns, Produce, ProduceFails
<1>3. input' \in [Workers -> 0..InputCap]
  BY DEF RestOK, Push, Producer, PushReturns, Produce, ProduceFails
<1>4. /\ givenUp' \in [Workers -> Nat]
      /\ pushing' \subseteq Workers /\ jammed' \subseteq Workers
  BY DEF RestOK, Push, Producer, PushReturns, Produce, ProduceFails
<1> QED BY <1>1, <1>2, <1>3, <1>4 DEF RestOK

(* Partitions are assigned to sessions that fetch them, and a session that ends
   gives them up. *)
LEMMA ConsumersRestOK ==
  ASSUME RestOK, Offsets,
         \/ Rebalance
         \/ \E w \in Workers :
              StartWorker(w) \/ ConsumeFails(w) \/ SessionEnds(w) \/ StopWorker(w)
         \/ \E w \in Workers, p \in Partitions : Consumer(w, p)
  PROVE  RestOK'
<1> USE DEF Offsets
<1>1. CASE Rebalance
  <2>1. UNCHANGED <<producerVars, alarms, starts>>
    BY <1>1 DEF Rebalance
  <2>2. PICK joined \in (SUBSET {w \in Workers : member[w] = "joining"}) \ {{}} :
          /\ member' = [w \in Workers |-> IF w \in joined THEN "session" ELSE member[w]]
          /\ claim' \in [Partitions -> joined]
          /\ serves' = [w \in Workers |-> IF w \in joined
                                          THEN {p \in Partitions : claim'[p] = w}
                                          ELSE serves[w]]
    BY <1>1 DEF Rebalance
  <2>3. member' \in [Workers -> {"down", "joining", "session", "returned"}]
    BY <2>2 DEF RestOK
  <2>4. \A w \in Workers : serves'[w] # {} => member'[w] = "session"
    BY <2>2 DEF RestOK
  <2>5. \A p \in Partitions : claim'[p] # NoWorker => p \in serves'[claim'[p]]
    BY <2>2
  <2> QED BY <2>1, <2>3, <2>4, <2>5 DEF RestOK, producerVars
<1>2. CASE \E w \in Workers : SessionEnds(w)
  <2>1. PICK w \in Workers : SessionEnds(w) BY <1>2
  <2>2. /\ UNCHANGED <<producerVars, alarms, starts>>
        /\ member' = [member EXCEPT ![w] = "returned"]
        /\ serves' = [serves EXCEPT ![w] = {}]
        /\ claim' = [p \in Partitions |-> IF claim[p] = w THEN NoWorker ELSE claim[p]]
    BY <2>1 DEF SessionEnds
  <2>3. /\ member' \in [Workers -> {"down", "joining", "session", "returned"}]
        /\ \A v \in Workers : serves'[v] # {} => member'[v] = "session"
    BY <2>2 DEF RestOK
  <2>4. \A p \in Partitions : claim'[p] # NoWorker => p \in serves'[claim'[p]]
    BY <2>2 DEF RestOK
  <2> QED BY <2>2, <2>3, <2>4 DEF RestOK, producerVars
<1>3. CASE \E w \in Workers : StartWorker(w) \/ ConsumeFails(w)
  <2>1. UNCHANGED <<producerVars, claim, serves, alarms>> /\ starts' \in 0..MaxStarts
    BY <1>3 DEF StartWorker, ConsumeFails, RestOK
  <2>2. /\ member' \in [Workers -> {"down", "joining", "session", "returned"}]
        /\ \A w \in Workers : member[w] = "session" => member'[w] = "session"
    BY <1>3 DEF StartWorker, ConsumeFails, RestOK
  <2> QED BY <2>1, <2>2 DEF RestOK, producerVars
<1>4. CASE \E w \in Workers : StopWorker(w)
  <2>1. PICK w \in Workers : StopWorker(w) BY <1>4
  <2>2. /\ pushing' \subseteq Workers /\ jammed' \subseteq Workers
        /\ input' \in [Workers -> 0..InputCap] /\ givenUp' \in [Workers -> Nat]
        /\ UNCHANGED <<alarms, starts>>
    BY <2>1 DEF StopWorker, RestOK
  <2>3. /\ member' \in [Workers -> {"down", "joining", "session", "returned"}]
        /\ \A v \in Workers : serves'[v] # {} => member'[v] = "session"
    BY <2>1 DEF StopWorker, RestOK
  <2>4. \A p \in Partitions : claim'[p] # NoWorker => p \in serves'[claim'[p]]
    BY <2>1 DEF StopWorker, RestOK
  <2> QED BY <2>2, <2>3, <2>4 DEF RestOK
<1>5. CASE \E w \in Workers, p \in Partitions : Consumer(w, p)
  <2>1. UNCHANGED <<producerVars, member, claim, serves, alarms, starts>>
    BY <1>5 DEF Consumer, Fetch, ConsumeClaim
  <2> QED BY <2>1 DEF RestOK, producerVars
<1> QED BY <1>1, <1>2, <1>3, <1>4, <1>5

(* The invariant holds for ever. *)
THEOREM Invariance == TransportSpec => []TInv
<1>1. TransportInit => TInv BY InitTInv
<1>2. TInv /\ [TransportNext]_transportVars => TInv' BY NextTInv
<1> QED BY <1>1, <1>2, PTL DEF TransportSpec

(* No message is put into WarnDir more than once, unless a session fetched it whose
   partition had been given to another worker: the missing fence, and nothing else
   of the group's rebalances, restarts and late consumers, doubles an alarm. *)
THEOREM PutOnce == TransportSpec => []MessagePutOnce
<1>1. TInv => MessagePutOnce BY DEF TInv
<1> QED BY <1>1, Invariance, PTL

(* The variables of producers and consumers keep their types. *)
THEOREM TypeCorrect == TransportSpec => []TransportTypeOK
<1>1. TransportInit => RestOK
  <2> SUFFICES ASSUME TransportInit PROVE RestOK
    OBVIOUS
  <2>1. /\ input \in [Workers -> 0..InputCap] /\ givenUp \in [Workers -> Nat]
        /\ pushing \subseteq Workers /\ jammed \subseteq Workers
    BY DEF TransportInit
  <2>2. member \in [Workers -> {"down", "joining", "session", "returned"}]
    BY DEF TransportInit
  <2>3. (\A p \in Partitions : claim[p] = NoWorker) /\ \A w \in Workers : serves[w] = {}
    BY DEF TransportInit
  <2>4. alarms \in 0..MaxAlarms /\ starts \in 0..MaxStarts
    BY DEF TransportInit
  <2> QED BY <2>1, <2>2, <2>3, <2>4 DEF RestOK
<1>2. TInv /\ RestOK /\ [TransportNext]_transportVars => RestOK'
  <2> SUFFICES ASSUME TInv, RestOK, [TransportNext]_transportVars PROVE RestOK'
    OBVIOUS
  <2>1. CASE UNCHANGED transportVars
    BY <2>1 DEF RestOK, transportVars, producerVars, consumerVars
  <2> QED BY <2>1, ProducersRestOK, ConsumersRestOK DEF TransportNext, TInv
<1>3. TInv /\ RestOK => TransportTypeOK
  BY DEF TransportTypeOK, TInv, Offsets, Behind, RestOK
<1> QED BY <1>1, <1>2, <1>3, Invariance, PTL DEF TransportSpec
=============================================================================
