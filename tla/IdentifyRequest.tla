--------------------------- MODULE IdentifyRequest ---------------------------
(***************************************************************************)
(* A user's identification request in the front end: CrackIdentify saves   *)
(* the task, starts two goroutines that watch the finish and the fail      *)
(* directory of the user (WatchTask, WatchDir), and answers with whatever  *)
(* arrives first.  The workers are the environment: they put a key into    *)
(* one of the directories for a saved task, once or more.                  *)
(***************************************************************************)
EXTENDS Naturals, Sequences

CONSTANTS Requests,     \* the calls of CrackIdentify
          UserOf,       \* the user id of a request, a number
          TaskOf,       \* the task name of a request
          MaxNotices,   \* bound on the puts of the workers
          Unlucky       \* the requests whose calls to etcd may fail

ASSUME UserOfAssumption == UserOf \in [Requests -> Nat \ {0}]
ASSUME MaxNoticesAssumption == MaxNotices \in Nat
ASSUME UnluckyAssumption == Unlucky \subseteq Requests

VARIABLES
  notices,   \* history of the puts in FinishDir and FailDir
  owed,      \* the requests whose saved task no worker has answered since
  saved,     \* the requests whose task was put into TaskDir
  since,     \* request -> the length of notices when it saved its task
  pc,        \* request -> where CrackIdentify is
  watcher,   \* request -> directory -> the state of its WatchDir goroutine
  pos,       \* request -> directory -> how much of notices it was sent
  notify,    \* request -> directory -> its notifyChan, of capacity 1, is full
  errs,      \* request -> errors in errChan
  err,       \* request -> the variable err is not nil
  outcome    \* request -> the branch of the select it took

vars == <<notices, owed, saved, since, pc, watcher, pos, notify, errs, err, outcome>>
watches == <<watcher, pos, notify, errs>>

Dirs == {"finish", "fail"}
Notice == [dir : Dirs, user : {UserOf[r] : r \in Requests},
           task : {TaskOf[r] : r \in Requests}]

(* The types; errChan has room for the errors of both goroutines (WatchTask makes
   it with capacity 2), so that neither is ever blocked on it. *)
TypeOK ==
  /\ notices \in Seq(Notice) /\ Len(notices) <= MaxNotices
  /\ owed \subseteq saved /\ saved \subseteq Requests
  /\ since \in [Requests -> 0..MaxNotices]
  /\ pc \in [Requests -> {"save", "watch", "select", "done"}]
  /\ watcher \in [Requests -> [Dirs -> {"none", "get", "watching", "ended"}]]
  /\ pos \in [Requests -> [Dirs -> 0..MaxNotices]]
  /\ notify \in [Requests -> [Dirs -> BOOLEAN]]
  /\ errs \in [Requests -> 0..2]
  /\ err \in [Requests -> BOOLEAN]
  /\ outcome \in [Requests -> {"none", "error", "failed", "finished", "panic"}]

Init ==
  /\ notices = <<>> /\ owed = {} /\ saved = {}
  /\ since = [r \in Requests |-> 0]
  /\ pc = [r \in Requests |-> "save"]
  /\ watcher = [r \in Requests |-> [d \in Dirs |-> "none"]]
  /\ pos = [r \in Requests |-> [d \in Dirs |-> 0]]
  /\ notify = [r \in Requests |-> [d \in Dirs |-> FALSE]]
  /\ errs = [r \in Requests |-> 0]
  /\ err = [r \in Requests |-> FALSE]
  /\ outcome = [r \in Requests |-> "none"]

-----------------------------------------------------------------------------
(* The workers. *)

Answers(n, r) == n.user = UserOf[r] /\ n.task = TaskOf[r]

Answer(r, d) ==
  /\ r \in saved /\ Len(notices) < MaxNotices
  /\ LET n == [dir |-> d, user |-> UserOf[r], task |-> TaskOf[r]] IN
       /\ notices' = Append(notices, n)
       /\ owed' = {q \in owed : ~Answers(n, q)}
  /\ UNCHANGED <<saved, since, pc, watches, err, outcome>>

-----------------------------------------------------------------------------
(* CrackIdentify *)

(* A failing put, applied or not, is answered at once, but the handler does not
   return: it goes on to wait. *)
SaveTask(r) ==
  /\ pc[r] = "save"
  /\ pc' = [pc EXCEPT ![r] = "watch"]
  /\ since' = [since EXCEPT ![r] = Len(notices)]
  /\ \E failed \in IF r \in Unlucky THEN BOOLEAN ELSE {FALSE} :
       /\ err' = [err EXCEPT ![r] = failed]
       /\ \/ owed' = owed \cup {r} /\ saved' = saved \cup {r}
          \/ failed /\ UNCHANGED <<owed, saved>>
  /\ UNCHANGED <<notices, watches, outcome>>

WatchTask(r) ==
  /\ pc[r] = "watch"
  /\ pc' = [pc EXCEPT ![r] = "select"]
  /\ watcher' = [watcher EXCEPT ![r] = [d \in Dirs |-> "get"]]
  /\ UNCHANGED <<notices, owed, saved, since, pos, notify, errs, err, outcome>>

(* The select takes any branch that is ready.  The fail branch answers with
   err.Error(); err is what SaveTask left, and if that is nil the call panics,
   which the router's recovery turns into a bare 500. *)
Reply(r, o) ==
  /\ pc[r] = "select"
  /\ pc' = [pc EXCEPT ![r] = "done"]
  /\ outcome' = [outcome EXCEPT ![r] = o]
  /\ UNCHANGED <<notices, owed, saved, since, watcher, pos>>

ReplyError(r) ==
  /\ errs[r] > 0 /\ Reply(r, "error")
  /\ errs' = [errs EXCEPT ![r] = @ - 1]
  /\ err' = [err EXCEPT ![r] = TRUE]
  /\ UNCHANGED notify

ReplyFailed(r) ==
  /\ notify[r]["fail"] /\ Reply(r, IF err[r] THEN "failed" ELSE "panic")
  /\ notify' = [notify EXCEPT ![r]["fail"] = FALSE]
  /\ UNCHANGED <<errs, err>>

ReplyFinished(r) ==
  /\ notify[r]["finish"] /\ Reply(r, "finished")
  /\ notify' = [notify EXCEPT ![r]["finish"] = FALSE]
  /\ UNCHANGED <<errs, err>>

-----------------------------------------------------------------------------
(* WatchDir, one goroutine per directory; it outlives the request. *)

(* mutant: the watch starts at the beginning instead of after the Get *)
WatchFromStart(r, d) ==
  /\ watcher[r][d] = "get"
  /\ watcher' = [watcher EXCEPT ![r][d] = "watching"]
  /\ UNCHANGED <<notices, owed, saved, since, pc, pos, notify, errs, err, outcome>>

(* mutant: a failing Get is reported, and tried again *)
WatchDirGetRetries(r, d) ==
  /\ watcher[r][d] = "get"
  /\ \/ /\ watcher' = [watcher EXCEPT ![r][d] = "watching"]
        /\ pos' = [pos EXCEPT ![r][d] = Len(notices)]
        /\ UNCHANGED errs
     \/ /\ r \in Unlucky
        /\ errs' = [errs EXCEPT ![r] = @ + 1]
        /\ UNCHANGED <<watcher, pos>>
  /\ UNCHANGED <<notices, owed, saved, since, pc, notify, err, outcome>>

(* The Get yields the revision the watch starts after. *)
WatchDirGet(r, d) ==
  /\ watcher[r][d] = "get"
  /\ \/ /\ watcher' = [watcher EXCEPT ![r][d] = "watching"]
        /\ pos' = [pos EXCEPT ![r][d] = Len(notices)]
        /\ UNCHANGED errs
     \/ /\ r \in Unlucky
        /\ watcher' = [watcher EXCEPT ![r][d] = "ended"]
        /\ errs' = [errs EXCEPT ![r] = @ + 1]
        /\ UNCHANGED pos
  /\ UNCHANGED <<notices, owed, saved, since, pc, notify, err, outcome>>

(* The watched prefix is dir/type/u without a slash behind the user id u, so
   the keys of user v match when u's digits are the first digits of v. *)
Begins[v \in Nat] == IF v < 10 THEN {v} ELSE {v} \cup Begins[v \div 10]
PrefixOf(u, v) == u \in Begins[v]

Matches(r, d, n) == n.dir = d /\ PrefixOf(UserOf[r], n.user)

(* mutant: no event is the wanted one *)
WatchDirDeaf(r, d) ==
  /\ watcher[r][d] = "watching" /\ pos[r][d] < Len(notices)
  /\ pos' = [pos EXCEPT ![r][d] = @ + 1]
  /\ UNCHANGED <<notices, owed, saved, since, pc, watcher, notify, errs, err, outcome>>

(* The next event is sent on; the goroutine blocks while notifyChan is full. *)
WatchDirEvent(r, d) ==
  /\ watcher[r][d] = "watching" /\ pos[r][d] < Len(notices)
  /\ pos' = [pos EXCEPT ![r][d] = @ + 1]
  /\ IF Matches(r, d, notices[pos[r][d] + 1])
     THEN ~notify[r][d] /\ notify' = [notify EXCEPT ![r][d] = TRUE]
     ELSE UNCHANGED notify
  /\ UNCHANGED <<notices, owed, saved, since, pc, watcher, errs, err, outcome>>

(* The watch is closed (canceled by etcd or by the client) before the awaited
   event: the loop ends and WatchDir returns without a word to notifyChan or
   errChan. *)
WatchDirClosed(r, d) ==
  /\ r \in Unlucky /\ watcher[r][d] = "watching"
  /\ watcher' = [watcher EXCEPT ![r][d] = "ended"]
  /\ UNCHANGED <<notices, owed, saved, since, pc, pos, notify, errs, err, outcome>>

Identify(r) ==
  \/ SaveTask(r) \/ WatchTask(r)
  \/ ReplyError(r) \/ ReplyFailed(r) \/ ReplyFinished(r)

Watch(r, d) == WatchDirGet(r, d) \/ WatchDirEvent(r, d)

Next ==
  \E r \in Requests :
    \/ Identify(r)
    \/ \E d \in Dirs : Watch(r, d) \/ WatchDirClosed(r, d) \/ Answer(r, d)

Spec == Init /\ [][Next]_vars

(* Goroutines run, and the workers answer every saved task. *)
FairSpec ==
  /\ Spec
  /\ \A r \in Requests :
       /\ WF_vars(Identify(r))
       /\ WF_vars(r \in owed /\ \E d \in Dirs : Answer(r, d))
       /\ \A d \in Dirs : WF_vars(Watch(r, d))

-----------------------------------------------------------------------------
(* A request that is told "finished" had its own task finished, after it had
   saved it: not somebody else's, and not by an earlier run.  WatchTask is
   documented to tell the fate of the task it is given. *)
OwnFreshReply ==
  \A r \in Requests : outcome[r] = "finished" =>
    \E i \in since[r] + 1 .. Len(notices) :
      notices[i].dir = "finish" /\ Answers(notices[i], r)

(* CrackIdentify never replies "finished" for something that happened before
   the request: some task that its watch covers finished after it had saved its
   own.  For a user whose id is no prefix of another id, and who has no second
   task, that is the task of the request. *)
FreshReply ==
  \A r \in Requests : outcome[r] = "finished" =>
    \E i \in since[r] + 1 .. Len(notices) :
      notices[i].dir = "finish" /\ PrefixOf(UserOf[r], notices[i].user)

(* A notice that WatchDir has still to receive for the request's own task wakes
   the request, whatever else arrives for the user and although the channel to
   CrackIdentify holds one element only.  The exception is WatchDir's own TODO
   ("the awaited event has not happened, and watchChan has been closed"): if the
   watch of that directory is closed first, the request may wait for ever. *)
Noticed(r, d) ==
  /\ watcher[r][d] = "watching"
  /\ \E i \in pos[r][d] + 1 .. Len(notices) :
       notices[i].dir = d /\ Answers(notices[i], r)
NoticeWakesRequest ==
  \A r \in Requests, d \in Dirs :
    pc[r] = "select" /\ Noticed(r, d)
      ~> pc[r] = "done" \/ watcher[r][d] = "ended"

(* CrackIdentify waits until the task it saved is done: once a worker has
   answered the task, the select ends. *)
RequestAnswered ==
  \A r \in Requests : pc[r] = "select" /\ r \in saved ~> pc[r] = "done"
=============================================================================
