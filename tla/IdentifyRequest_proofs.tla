----------------------- MODULE IdentifyRequest_proofs -----------------------
(***************************************************************************)
(* Proofs about CrackIdentify, for any set of requests, any users and      *)
(* tasks, and any number of notices: what a reply is about.                *)
(***************************************************************************)
EXTENDS IdentifyRequest, TLAPS

(* The goroutines and the channels of a request exist from WatchTask on, and
   it has replied only when it is done. *)
NotYet ==
  \A r \in Requests :
    /\ pc[r] \in {"save", "watch"} =>
         \A d \in Dirs : watcher[r][d] = "none" /\ ~notify[r][d]
    /\ pc[r] # "done" => outcome[r] = "none"

(* Each goroutine sends at most one error, with which it ends. *)
ErrorsOfEnded ==
  \A r \in Requests :
    errs[r] <= (IF watcher[r]["finish"] = "ended" THEN 1 ELSE 0)
               + (IF watcher[r]["fail"] = "ended" THEN 1 ELSE 0)

(* A watch is never behind the moment its request saved its task. *)
WatchesFromSave ==
  \A r \in Requests, d \in Dirs :
    /\ watcher[r][d] = "watching" => since[r] <= pos[r][d]
    /\ since[r] <= Len(notices)

(* Something that the watch of the request covers was put since the save. *)
Heard(r, d) ==
  \E i \in since[r] + 1 .. Len(notices) : Matches(r, d, notices[i])

(* What lies in a channel, or was replied, was heard. *)
ChannelsHeard == \A r \in Requests, d \in Dirs : notify[r][d] => Heard(r, d)
RepliesHeard == \A r \in Requests : outcome[r] = "finished" => Heard(r, "finish")

(* Every notice is about the task of some request. *)
SomebodysNotice ==
  \A i \in 1..Len(notices) : \E q \in Requests : Answers(notices[i], q)

IInv == /\ TypeOK /\ NotYet /\ ErrorsOfEnded /\ WatchesFromSave
        /\ ChannelsHeard /\ RepliesHeard /\ SomebodysNotice

USE MaxNoticesAssumption, UnluckyAssumption
-----------------------------------------------------------------------------
(* An update of one entry of a table whose rows are functions. *)
LEMMA RowUpdate ==
  ASSUME NEW R, NEW D, NEW S, NEW f \in [R -> [D -> S]],
         NEW r \in R, NEW d \in D, NEW v \in S
  PROVE  /\ [f EXCEPT ![r][d] = v] \in [R -> [D -> S]]
         /\ [f EXCEPT ![r][d] = v][r][d] = v
         /\ \A q \in R, e \in D :
              q # r \/ e # d => [f EXCEPT ![r][d] = v][q][e] = f[q][e]
<1>1. f[r] \in [D -> S] /\ [f[r] EXCEPT ![d] = v] \in [D -> S]
  OBVIOUS
<1>2. [f EXCEPT ![r][d] = v] = [f EXCEPT ![r] = [f[r] EXCEPT ![d] = v]]
  OBVIOUS
<1> QED BY <1>1, <1>2

(* A goroutine that goes on or ends. *)
LEMMA WatcherUpdate ==
  ASSUME TypeOK, NEW r \in Requests, NEW d \in Dirs,
         NEW v \in {"none", "get", "watching", "ended"}
  PROVE  [watcher EXCEPT ![r][d] = v]
           \in [Requests -> [Dirs -> {"none", "get", "watching", "ended"}]]
<1> DEFINE S == {"none", "get", "watching", "ended"}
<1>1. watcher \in [Requests -> [Dirs -> S]] /\ v \in S BY DEF TypeOK
<1> HIDE DEF S
<1>2. [watcher EXCEPT ![r][d] = v] \in [Requests -> [Dirs -> S]] BY <1>1, RowUpdate
<1> QED BY <1>2 DEF S

(* The entries of such a table after an update. *)
LEMMA RowEntries ==
  ASSUME NEW R, NEW D, NEW S, NEW f \in [R -> [D -> S]], NEW r \in R, NEW d \in D,
         NEW v \in S, NEW g, g = [f EXCEPT ![r][d] = v], NEW q \in R, NEW e \in D
  PROVE  g[q][e] = IF q = r /\ e = d THEN v ELSE f[q][e]
<1>1. CASE q = r /\ e = d
  BY <1>1, RowUpdate
<1>2. CASE q # r
  BY <1>2
<1>3. CASE q = r /\ e # d
  BY <1>3
<1> QED BY <1>1, <1>2, <1>3

(* No request has begun. *)
LEMMA InitIInv == Init => IInv
<1> SUFFICES ASSUME Init PROVE IInv
  OBVIOUS
<1> USE DEF Init, Dirs
<1>1. TypeOK BY DEF TypeOK
<1>2. NotYet /\ ErrorsOfEnded BY DEF NotYet, ErrorsOfEnded
<1>3. WatchesFromSave /\ ChannelsHeard /\ RepliesHeard /\ SomebodysNotice
  BY DEF WatchesFromSave, ChannelsHeard, RepliesHeard, SomebodysNotice
<1> QED BY <1>1, <1>2, <1>3 DEF IInv

(* Every step keeps the variables in their types. *)
LEMMA NextTypeOK == TypeOK /\ NotYet /\ ErrorsOfEnded /\ [Next]_vars => TypeOK'
<1> SUFFICES ASSUME TypeOK, NotYet, ErrorsOfEnded, [Next]_vars PROVE TypeOK'
  OBVIOUS
<1> USE DEF TypeOK, Dirs, watches
<1>1. ASSUME NEW r \in Requests, NEW d \in Dirs, Answer(r, d) PROVE TypeOK'
  <2> DEFINE n == [dir |-> d, user |-> UserOf[r], task |-> TaskOf[r]]
  <2>1. n \in Notice BY DEF Notice
  <2>2. notices' = Append(notices, n) /\ Len(notices) < MaxNotices BY <1>1 DEF Answer
  <2> HIDE DEF n
  <2>3. notices' \in Seq(Notice) /\ Len(notices') <= MaxNotices BY <2>1, <2>2
  <2> QED BY <1>1, <2>3 DEF Answer
<1>2. ASSUME NEW r \in Requests, SaveTask(r) PROVE TypeOK'
  <2>1. Len(notices) \in 0..MaxNotices OBVIOUS
  <2>2. since' \in [Requests -> 0..MaxNotices] BY <1>2, <2>1 DEF SaveTask
  <2>3. owed' \subseteq saved' /\ saved' \subseteq Requests BY <1>2 DEF SaveTask
  <2>4. err' \in [Requests -> BOOLEAN] BY <1>2 DEF SaveTask
  <2> QED BY <1>2, <2>2, <2>3, <2>4 DEF SaveTask
<1>3. ASSUME NEW r \in Requests, WatchTask(r) PROVE TypeOK'
  BY <1>3 DEF WatchTask
<1>4. ASSUME NEW r \in Requests, ReplyError(r) PROVE TypeOK'
  BY <1>4 DEF ReplyError, Reply
<1>5. ASSUME NEW r \in Requests, ReplyFailed(r) PROVE TypeOK'
  BY <1>5 DEF ReplyFailed, Reply
<1>6. ASSUME NEW r \in Requests, ReplyFinished(r) PROVE TypeOK'
  BY <1>6 DEF ReplyFinished, Reply
<1>7. ASSUME NEW r \in Requests, NEW d \in Dirs, WatchDirGet(r, d) PROVE TypeOK'
  <2>1. \/ watcher' = [watcher EXCEPT ![r][d] = "watching"]
        \/ watcher' = [watcher EXCEPT ![r][d] = "ended"]
    BY <1>7 DEF WatchDirGet
  <2>2. watcher' \in [Requests -> [Dirs -> {"none", "get", "watching", "ended"}]]
    <3> HIDE DEF TypeOK, Dirs
    <3>1. CASE watcher' = [watcher EXCEPT ![r][d] = "watching"] BY <3>1, WatcherUpdate
    <3>2. CASE watcher' = [watcher EXCEPT ![r][d] = "ended"] BY <3>2, WatcherUpdate
    <3> QED BY <2>1, <3>1, <3>2
  <2>3. Len(notices) \in 0..MaxNotices OBVIOUS
  <2>4. pos' = pos \/ pos' = [pos EXCEPT ![r][d] = Len(notices)]
    BY <1>7 DEF WatchDirGet
  <2>5. pos' \in [Requests -> [Dirs -> 0..MaxNotices]]
    <3> HIDE DEF Dirs
    <3>1. [pos EXCEPT ![r][d] = Len(notices)] \in [Requests -> [Dirs -> 0..MaxNotices]]
      BY <2>3, RowUpdate
    <3> QED BY <2>4, <3>1
  <2>6. errs[r] + 1 \in 0..2
    <3>1. watcher[r][d] = "get" /\ errs[r] \in 0..2 BY <1>7 DEF WatchDirGet
    <3>2. d = "finish" \/ d = "fail" OBVIOUS
    <3> HIDE DEF TypeOK
    <3>3. errs[r] <= 1 BY <3>1, <3>2 DEF ErrorsOfEnded
    <3> QED BY <3>1, <3>3
  <2>7. errs' = errs \/ errs' = [errs EXCEPT ![r] = errs[r] + 1]
    BY <1>7 DEF WatchDirGet
  <2>8. errs' \in [Requests -> 0..2] BY <2>6, <2>7
  <2> QED BY <1>7, <2>2, <2>5, <2>8 DEF WatchDirGet
<1>8. ASSUME NEW r \in Requests, NEW d \in Dirs, WatchDirEvent(r, d) PROVE TypeOK'
  <2>1. pos[r][d] + 1 \in 0..MaxNotices BY <1>8 DEF WatchDirEvent
  <2>2. pos' = [pos EXCEPT ![r][d] = pos[r][d] + 1] BY <1>8 DEF WatchDirEvent
  <2>3. pos' \in [Requests -> [Dirs -> 0..MaxNotices]]
    <3> HIDE DEF Dirs
    <3> QED BY <2>1, <2>2, RowUpdate
  <2>4. notify' = notify \/ notify' = [notify EXCEPT ![r][d] = TRUE]
    BY <1>8 DEF WatchDirEvent
  <2>5. TRUE \in BOOLEAN /\ notify \in [Requests -> [Dirs -> BOOLEAN]] OBVIOUS
  <2>6. notify' \in [Requests -> [Dirs -> BOOLEAN]]
    <3>1. [notify EXCEPT ![r][d] = TRUE] \in [Requests -> [Dirs -> BOOLEAN]]
      BY <2>5, RowUpdate, Zenon
    <3> QED BY <2>4, <2>5, <3>1
  <2> QED BY <1>8, <2>3, <2>6 DEF WatchDirEvent
<1>9. ASSUME NEW r \in Requests, NEW d \in Dirs, WatchDirClosed(r, d) PROVE TypeOK'
  <2>1. watcher' = [watcher EXCEPT ![r][d] = "ended"] BY <1>9 DEF WatchDirClosed
  <2>2. watcher' \in [Requests -> [Dirs -> {"none", "get", "watching", "ended"}]]
    <3> HIDE DEF TypeOK, Dirs
    <3> QED BY <2>1, WatcherUpdate
  <2> QED BY <1>9, <2>2 DEF WatchDirClosed
<1>10. CASE UNCHANGED vars
  BY <1>10 DEF vars
<1> QED BY <1>1, <1>2, <1>3, <1>4, <1>5, <1>6, <1>7, <1>8, <1>9, <1>10
        DEF Next, Identify, Watch

(* What was heard stays heard: notices are only added, and a request saves its
   task once. *)
LEMMA HeardStays ==
  ASSUME TypeOK, NEW r \in Requests, NEW d \in Dirs, Heard(r, d),
         since'[r] = since[r],
         notices' = notices \/ \E n \in Notice : notices' = Append(notices, n)
  PROVE  Heard(r, d)'
<1>1. PICK i \in since[r] + 1 .. Len(notices) : Matches(r, d, notices[i])
  BY DEF Heard
<1>2. notices \in Seq(Notice) /\ since[r] \in Nat
  BY DEF TypeOK
<1>3. i \in since[r] + 1 .. Len(notices') /\ notices'[i] = notices[i]
  BY <1>1, <1>2
<1>4. Matches(r, d, notices'[i]) BY <1>1, <1>3
<1> QED BY <1>3, <1>4 DEF Heard, Matches

(* A step preserves what is said of the past if it keeps notices, saves,
   channels and replies as they were, or a notice arrives. *)
LEMMA QuietHeard ==
  ASSUME TypeOK, ChannelsHeard, RepliesHeard, UNCHANGED since,
         \A r \in Requests, d \in Dirs : notify'[r][d] => notify[r][d],
         \A r \in Requests : outcome'[r] = "finished" => outcome[r] = "finished",
         notices' = notices \/ \E n \in Notice : notices' = Append(notices, n)
  PROVE  ChannelsHeard' /\ RepliesHeard'
<1>1. ASSUME NEW r \in Requests, NEW d \in Dirs, notify'[r][d] PROVE Heard(r, d)'
  BY <1>1, HeardStays DEF ChannelsHeard
<1>2. ASSUME NEW r \in Requests, outcome'[r] = "finished" PROVE Heard(r, "finish")'
  BY <1>2, HeardStays DEF RepliesHeard, Dirs
<1> QED BY <1>1, <1>2 DEF ChannelsHeard, RepliesHeard

(* The workers' notices. *)
LEMMA AnswerIInv ==
  ASSUME IInv, TypeOK', NEW r \in Requests, NEW d \in Dirs, Answer(r, d)
  PROVE  IInv'
<1> DEFINE n == [dir |-> d, user |-> UserOf[r], task |-> TaskOf[r]]
<1>1. n \in Notice /\ Answers(n, r) BY DEF Notice, Answers
<1>2. notices' = Append(notices, n) BY DEF Answer
<1> HIDE DEF n
<1>3. notices \in Seq(Notice) BY DEF IInv, TypeOK
<1>4. UNCHANGED <<since, pc, watcher, pos, notify, errs, outcome>>
  BY DEF Answer, watches
<1>5. NotYet' /\ ErrorsOfEnded' BY <1>4 DEF IInv, NotYet, ErrorsOfEnded
<1>6. WatchesFromSave'
  BY <1>2, <1>3, <1>4 DEF IInv, WatchesFromSave, TypeOK
<1>7. ChannelsHeard' /\ RepliesHeard'
  BY <1>1, <1>2, <1>4, QuietHeard DEF IInv
<1>8. SomebodysNotice'
  <2> SUFFICES ASSUME NEW i \in 1..Len(notices')
               PROVE  \E q \in Requests : Answers(notices'[i], q)
    BY DEF SomebodysNotice, Answers
  <2>1. CASE i = Len(notices) + 1
    BY <1>1, <1>2, <1>3, <2>1
  <2>2. CASE i # Len(notices) + 1
    <3>1. i \in 1..Len(notices) /\ notices'[i] = notices[i]
      BY <1>2, <1>3, <2>2
    <3> QED BY <3>1 DEF IInv, SomebodysNotice
  <2> QED BY <2>1, <2>2
<1> QED BY <1>5, <1>6, <1>7, <1>8 DEF IInv

(* CrackIdentify up to the select. *)
LEMMA SaveIInv ==
  ASSUME IInv, TypeOK', NEW r \in Requests, SaveTask(r)
  PROVE  IInv'
<1> USE DEF IInv
<1>1. UNCHANGED <<notices, watcher, pos, notify, errs, outcome>> /\ pc[r] = "save"
      /\ pc' = [pc EXCEPT ![r] = "watch"] /\ since' = [since EXCEPT ![r] = Len(notices)]
  BY DEF SaveTask, watches
<1>2. pc'[r] = "watch" /\ since'[r] = Len(notices)
      /\ \A q \in Requests : q # r => pc'[q] = pc[q] /\ since'[q] = since[q]
  BY <1>1 DEF TypeOK
<1>3. NotYet' /\ ErrorsOfEnded' BY <1>1, <1>2 DEF NotYet, ErrorsOfEnded
<1>4. WatchesFromSave'
  <2>1. ASSUME NEW q \in Requests, NEW d \in Dirs, watcher'[q][d] = "watching"
        PROVE  since'[q] <= pos'[q][d]
    BY <1>1, <1>2, <2>1 DEF NotYet, WatchesFromSave
  <2>2. ASSUME NEW q \in Requests PROVE since'[q] <= Len(notices')
    BY <1>1, <1>2 DEF WatchesFromSave, TypeOK, Dirs
  <2> QED BY <2>1, <2>2 DEF WatchesFromSave
<1>5. ASSUME NEW q \in Requests, NEW d \in Dirs, notify'[q][d] PROVE Heard(q, d)'
  BY <1>1, <1>2, <1>5, HeardStays DEF NotYet, ChannelsHeard
<1>6. ASSUME NEW q \in Requests, outcome'[q] = "finished" PROVE Heard(q, "finish")'
  BY <1>1, <1>2, <1>6, HeardStays DEF NotYet, RepliesHeard, Dirs
<1>7. SomebodysNotice' BY <1>1 DEF SomebodysNotice, Answers
<1> QED BY <1>3, <1>4, <1>5, <1>6, <1>7 DEF ChannelsHeard, RepliesHeard

LEMMA WatchTaskIInv ==
  ASSUME IInv, TypeOK', NEW r \in Requests, WatchTask(r)
  PROVE  IInv'
<1> USE DEF IInv
<1>1. UNCHANGED <<notices, since, pos, notify, errs, outcome>> /\ pc[r] = "watch"
      /\ pc' = [pc EXCEPT ![r] = "select"]
      /\ watcher' = [watcher EXCEPT ![r] = [d \in Dirs |-> "get"]]
  BY DEF WatchTask
<1>2. /\ pc'[r] = "select" /\ \A d \in Dirs : watcher'[r][d] = "get"
      /\ \A q \in Requests : q # r => pc'[q] = pc[q] /\ watcher'[q] = watcher[q]
  BY <1>1 DEF TypeOK
<1>3. NotYet' BY <1>1, <1>2 DEF NotYet
<1>4. ErrorsOfEnded' BY <1>1, <1>2 DEF ErrorsOfEnded, NotYet, Dirs
<1>5. WatchesFromSave' BY <1>1, <1>2 DEF WatchesFromSave
<1>6. ChannelsHeard' /\ RepliesHeard' BY <1>1, QuietHeard
<1>7. SomebodysNotice' BY <1>1 DEF SomebodysNotice, Answers
<1> QED BY <1>3, <1>4, <1>5, <1>6, <1>7

(* The branches of the select: a "finished" comes out of the finish channel. *)
LEMMA ReplyIInv ==
  ASSUME IInv, TypeOK', NEW r \in Requests,
         ReplyError(r) \/ ReplyFailed(r) \/ ReplyFinished(r)
  PROVE  IInv'
<1> USE DEF IInv
<1>1. /\ UNCHANGED <<notices, since, pos, watcher>>
      /\ pc[r] = "select" /\ pc' = [pc EXCEPT ![r] = "done"]
      /\ \/ UNCHANGED errs
         \/ errs[r] > 0 /\ errs' = [errs EXCEPT ![r] = errs[r] - 1]
  BY DEF ReplyError, ReplyFailed, ReplyFinished, Reply
<1>2. pc'[r] = "done" /\ \A q \in Requests : q # r => pc'[q] = pc[q]
  BY <1>1 DEF TypeOK
<1>3. \A q \in Requests : errs'[q] <= errs[q]
  <2>1. errs \in [Requests -> 0..2] BY DEF TypeOK
  <2>2. errs[r] - 1 <= errs[r] BY <2>1
  <2> QED BY <1>1, <2>1, <2>2
<1>4. \A q \in Requests, d \in Dirs : notify'[q][d] => notify[q][d]
  <2>1. UNCHANGED notify \/ \E d \in Dirs : notify' = [notify EXCEPT ![r][d] = FALSE]
    BY DEF ReplyError, ReplyFailed, ReplyFinished, Dirs
  <2>2. notify \in [Requests -> [Dirs -> BOOLEAN]] /\ FALSE \in BOOLEAN
    BY DEF TypeOK
  <2>3. ASSUME NEW d \in Dirs, notify' = [notify EXCEPT ![r][d] = FALSE]
        PROVE  \A q \in Requests, e \in Dirs : notify'[q][e] => notify[q][e]
    <3>1. ASSUME NEW q \in Requests, NEW e \in Dirs
          PROVE  notify'[q][e] = IF q = r /\ e = d THEN FALSE ELSE notify[q][e]
      BY <2>2, <2>3, RowEntries, Zenon
    <3> QED BY <3>1, Zenon
  <2> QED BY <2>1, <2>3
<1>5. \A q \in Requests : q # r => outcome'[q] = outcome[q]
  BY DEF ReplyError, ReplyFailed, ReplyFinished, Reply, TypeOK
<1>6. outcome'[r] = "finished" => notify[r]["finish"]
  BY DEF ReplyError, ReplyFailed, ReplyFinished, Reply, TypeOK
<1>7. NotYet' BY <1>1, <1>2, <1>4, <1>5 DEF NotYet
<1>8. ErrorsOfEnded'
  <2> SUFFICES ASSUME NEW q \in Requests
               PROVE  errs'[q] <= (IF watcher[q]["finish"] = "ended" THEN 1 ELSE 0)
                                  + (IF watcher[q]["fail"] = "ended" THEN 1 ELSE 0)
    BY <1>1 DEF ErrorsOfEnded
  <2>1. errs[q] \in 0..2 /\ errs'[q] \in 0..2 BY DEF TypeOK
  <2>2. errs[q] <= (IF watcher[q]["finish"] = "ended" THEN 1 ELSE 0)
                   + (IF watcher[q]["fail"] = "ended" THEN 1 ELSE 0)
    BY DEF ErrorsOfEnded
  <2> HIDE DEF IInv
  <2> QED BY <1>3, <2>1, <2>2
<1>9. WatchesFromSave' BY <1>1 DEF WatchesFromSave
<1>10. ASSUME NEW q \in Requests, NEW d \in Dirs, notify'[q][d] PROVE Heard(q, d)'
  BY <1>1, <1>4, <1>10, HeardStays DEF ChannelsHeard
<1>11. ASSUME NEW q \in Requests, outcome'[q] = "finished" PROVE Heard(q, "finish")'
  <2>1. Heard(q, "finish")
    BY <1>5, <1>6, <1>11 DEF RepliesHeard, ChannelsHeard, Dirs
  <2> QED BY <1>1, <2>1, HeardStays DEF Dirs
<1>12. SomebodysNotice' BY <1>1 DEF SomebodysNotice, Answers
<1> QED BY <1>7, <1>8, <1>9, <1>10, <1>11, <1>12 DEF ChannelsHeard, RepliesHeard

(* WatchDir: the watch begins at the present, which is after the save, and what
   it sends on it has received at a place behind the save. *)
LEMMA GetIInv ==
  ASSUME IInv, TypeOK', NEW r \in Requests, NEW d \in Dirs, WatchDirGet(r, d)
  PROVE  IInv'
<1> USE DEF IInv
<1>1. UNCHANGED <<notices, since, pc, notify, outcome>> /\ watcher[r][d] = "get"
  BY DEF WatchDirGet
<1>2. CASE watcher' = [watcher EXCEPT ![r][d] = "watching"]
           /\ pos' = [pos EXCEPT ![r][d] = Len(notices)] /\ UNCHANGED errs
  <2>1. watcher'[r][d] = "watching" /\ pos'[r][d] = Len(notices)
        /\ \A q \in Requests, e \in Dirs :
             q # r \/ e # d => watcher'[q][e] = watcher[q][e] /\ pos'[q][e] = pos[q][e]
    BY <1>2 DEF TypeOK
  <2>2. NotYet' BY <1>1, <2>1 DEF NotYet
  <2>3. ErrorsOfEnded'
    BY <1>1, <1>2, <2>1 DEF ErrorsOfEnded, Dirs
  <2>4. WatchesFromSave' BY <1>1, <2>1 DEF WatchesFromSave
  <2> QED BY <1>1, <2>2, <2>3, <2>4, QuietHeard DEF SomebodysNotice, Answers
<1>3. CASE watcher' = [watcher EXCEPT ![r][d] = "ended"] /\ UNCHANGED pos
           /\ errs' = [errs EXCEPT ![r] = errs[r] + 1]
  <2>1. watcher'[r][d] = "ended"
        /\ \A q \in Requests, e \in Dirs : q # r \/ e # d => watcher'[q][e] = watcher[q][e]
    BY <1>3 DEF TypeOK
  <2>2. NotYet' BY <1>1, <2>1 DEF NotYet
  <2>3. errs'[r] = errs[r] + 1 /\ \A q \in Requests : q # r => errs'[q] = errs[q]
    BY <1>3 DEF TypeOK
  <2>4. ASSUME NEW q \in Requests
        PROVE  errs'[q] <= (IF watcher'[q]["finish"] = "ended" THEN 1 ELSE 0)
                           + (IF watcher'[q]["fail"] = "ended" THEN 1 ELSE 0)
    <3>1. errs[q] \in 0..2 BY DEF TypeOK
    <3>2. "finish" \in Dirs /\ "fail" \in Dirs /\ (d = "finish" \/ d = "fail") BY DEF Dirs
    <3>3. errs[q] <= (IF watcher[q]["finish"] = "ended" THEN 1 ELSE 0)
                     + (IF watcher[q]["fail"] = "ended" THEN 1 ELSE 0)
      BY DEF ErrorsOfEnded
    <3> QED BY <1>1, <2>1, <2>3, <3>1, <3>2, <3>3
  <2>5. ErrorsOfEnded' BY <2>4 DEF ErrorsOfEnded
  <2>6. WatchesFromSave' BY <1>1, <1>3, <2>1 DEF WatchesFromSave
  <2> QED BY <1>1, <2>2, <2>5, <2>6, QuietHeard DEF SomebodysNotice, Answers
<1> QED BY <1>2, <1>3 DEF WatchDirGet

LEMMA EventIInv ==
  ASSUME IInv, TypeOK', NEW r \in Requests, NEW d \in Dirs, WatchDirEvent(r, d)
  PROVE  IInv'
<1> USE DEF IInv
<1>1. UNCHANGED <<notices, since, pc, watcher, errs, outcome>>
      /\ watcher[r][d] = "watching" /\ pos[r][d] < Len(notices)
      /\ pos' = [pos EXCEPT ![r][d] = pos[r][d] + 1]
  BY DEF WatchDirEvent
<1>2. pos'[r][d] = pos[r][d] + 1
      /\ \A q \in Requests, e \in Dirs : q # r \/ e # d => pos'[q][e] = pos[q][e]
  BY <1>1 DEF TypeOK
<1>3. since[r] \in Nat /\ pos[r][d] \in Nat /\ since[r] <= pos[r][d]
  BY <1>1 DEF TypeOK, WatchesFromSave
<1>4. ASSUME NEW q \in Requests, NEW e \in Dirs, notify'[q][e]
      PROVE  notify[q][e] \/ (q = r /\ e = d /\ Heard(r, d))
  <2>1. CASE Matches(r, d, notices[pos[r][d] + 1])
    <3>1. pos[r][d] + 1 \in since[r] + 1 .. Len(notices)
      BY <1>1, <1>3 DEF TypeOK
    <3>2. Heard(r, d) BY <2>1, <3>1 DEF Heard
    <3>3. notify' = [notify EXCEPT ![r][d] = TRUE] BY <2>1 DEF WatchDirEvent
    <3>4. notify \in [Requests -> [Dirs -> BOOLEAN]] /\ TRUE \in BOOLEAN BY DEF TypeOK
    <3>5. notify'[q][e] = IF q = r /\ e = d THEN TRUE ELSE notify[q][e]
      BY <3>3, <3>4, RowEntries, Zenon
    <3> QED BY <1>4, <3>2, <3>5, Zenon
  <2>2. CASE ~Matches(r, d, notices[pos[r][d] + 1])
    BY <1>4, <2>2 DEF WatchDirEvent
  <2> QED BY <2>1, <2>2
<1>5. NotYet'
  <2>1. pc[r] \notin {"save", "watch"} BY <1>1 DEF NotYet
  <2> QED BY <1>1, <1>4, <2>1 DEF NotYet
<1>6. ErrorsOfEnded' BY <1>1 DEF ErrorsOfEnded
<1>7. WatchesFromSave'
  <2>1. ASSUME NEW q \in Requests, NEW e \in Dirs, watcher'[q][e] = "watching"
        PROVE  since'[q] <= pos'[q][e]
    BY <1>1, <1>2, <1>3, <2>1 DEF WatchesFromSave
  <2> QED BY <1>1, <2>1 DEF WatchesFromSave
<1>8. ASSUME NEW q \in Requests, NEW e \in Dirs, notify'[q][e] PROVE Heard(q, e)'
  <2>1. Heard(q, e) BY <1>4, <1>8 DEF ChannelsHeard
  <2> QED BY <1>1, <2>1, HeardStays
<1>9. ASSUME NEW q \in Requests, outcome'[q] = "finished" PROVE Heard(q, "finish")'
  BY <1>1, <1>9, HeardStays DEF RepliesHeard, Dirs
<1>10. SomebodysNotice' BY <1>1 DEF SomebodysNotice, Answers
<1> QED BY <1>5, <1>6, <1>7, <1>8, <1>9, <1>10 DEF ChannelsHeard, RepliesHeard

(* A closed watch sends nothing. *)
LEMMA ClosedIInv ==
  ASSUME IInv, TypeOK', NEW r \in Requests, NEW d \in Dirs, WatchDirClosed(r, d)
  PROVE  IInv'
<1> USE DEF IInv
<1>1. UNCHANGED <<notices, since, pc, pos, notify, errs, outcome>>
      /\ watcher[r][d] = "watching" /\ watcher' = [watcher EXCEPT ![r][d] = "ended"]
  BY DEF WatchDirClosed
<1>2. watcher'[r][d] = "ended"
      /\ \A q \in Requests, e \in Dirs : q # r \/ e # d => watcher'[q][e] = watcher[q][e]
  BY <1>1 DEF TypeOK
<1>3. NotYet' BY <1>1, <1>2 DEF NotYet
<1>4. ErrorsOfEnded'
  <2> SUFFICES ASSUME NEW q \in Requests
               PROVE  errs[q] <= (IF watcher'[q]["finish"] = "ended" THEN 1 ELSE 0)
                                 + (IF watcher'[q]["fail"] = "ended" THEN 1 ELSE 0)
    BY <1>1 DEF ErrorsOfEnded
  <2>1. errs[q] \in 0..2 BY DEF TypeOK
  <2>2. \A e \in Dirs : watcher[q][e] = "ended" => watcher'[q][e] = "ended"
    BY <1>1, <1>2
  <2>3. errs[q] <= (IF watcher[q]["finish"] = "ended" THEN 1 ELSE 0)
                   + (IF watcher[q]["fail"] = "ended" THEN 1 ELSE 0)
    BY DEF ErrorsOfEnded
  <2> HIDE DEF IInv
  <2> QED BY <2>1, <2>2, <2>3 DEF Dirs
<1>5. WatchesFromSave' BY <1>1, <1>2 DEF WatchesFromSave
<1> QED BY <1>1, <1>3, <1>4, <1>5, QuietHeard DEF SomebodysNotice, Answers

LEMMA NextIInv == IInv /\ [Next]_vars => IInv'
<1> SUFFICES ASSUME IInv, [Next]_vars PROVE IInv'
  OBVIOUS
<1>1. TypeOK' BY NextTypeOK DEF IInv
<1>2. CASE UNCHANGED vars
  <2>1. UNCHANGED <<notices, since, pc, watcher, pos, notify, errs, outcome>>
    BY <1>2 DEF vars
  <2>2. NotYet' /\ ErrorsOfEnded' /\ WatchesFromSave'
    BY <2>1 DEF IInv, NotYet, ErrorsOfEnded, WatchesFromSave
  <2> QED BY <1>1, <2>1, <2>2, QuietHeard DEF IInv, SomebodysNotice, Answers
<1> QED BY <1>1, <1>2, AnswerIInv, SaveIInv, WatchTaskIInv, ReplyIInv, GetIInv, EventIInv,
        ClosedIInv
        DEF Next, Identify, Watch

(* The inductive invariant holds in every reachable state. *)
LEMMA Invariance == Spec => []IInv
BY InitIInv, NextIInv, PTL DEF Spec

-----------------------------------------------------------------------------
(* The variables of the request always have their types; at most two errors wait
   in errChan, one of each goroutine. *)
THEOREM TypeCorrect == Spec => []TypeOK
<1>1. IInv => TypeOK BY DEF IInv
<1> QED BY <1>1, Invariance, PTL

(* CrackIdentify never replies "finished" for something that happened before the
   request was saved, whoever else is served and whatever fails. *)
THEOREM FreshReplies == Spec => []FreshReply
<1>1. IInv => FreshReply
  BY DEF IInv, RepliesHeard, Heard, Matches, FreshReply
<1> QED BY <1>1, Invariance, PTL

(* The watched prefix and the task name that WatchTask does not compare are all
   that is between FreshReply and what WatchTask promises: if nobody's user id
   extends the id of another user, and nobody has a second task, every reply
   "finished" is about the task of the request. *)
THEOREM OwnReplies ==
  ASSUME \A q, r \in Requests :
           PrefixOf(UserOf[r], UserOf[q]) => UserOf[q] = UserOf[r] /\ TaskOf[q] = TaskOf[r]
  PROVE  Spec => []OwnFreshReply
<1>1. ASSUME IInv, NEW r \in Requests, outcome[r] = "finished"
      PROVE  \E i \in since[r] + 1 .. Len(notices) :
               notices[i].dir = "finish" /\ Answers(notices[i], r)
  <2>1. PICK i \in since[r] + 1 .. Len(notices) : Matches(r, "finish", notices[i])
    BY <1>1 DEF IInv, RepliesHeard, Heard
  <2>2. i \in 1..Len(notices) BY <1>1, <2>1 DEF IInv, TypeOK
  <2>3. PICK q \in Requests : Answers(notices[i], q)
    BY <1>1, <2>2 DEF IInv, SomebodysNotice
  <2> QED BY <2>1, <2>3 DEF Matches, Answers
<1>2. IInv => OwnFreshReply BY <1>1 DEF OwnFreshReply
<1> QED BY <1>2, Invariance, PTL
=============================================================================
