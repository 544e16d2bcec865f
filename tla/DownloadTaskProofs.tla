------------------------- MODULE DownloadTaskProofs -------------------------
(***************************************************************************)
(* Proofs about DownloadTask, for every number of tasks, slots, attempts,  *)
(* crashes and dropped connections, any retention and any clock bound.     *)
(***************************************************************************)
EXTENDS DownloadTask, TLAPS

(* Helpers *)

LEMMA RetryRange ==
    /\ 0 \in Retry
    /\ \A n \in Retry : n \in Nat
    /\ \A exc, n : n \in Retry /\ Retried(exc, n) => n + 1 \in Retry
  BY TaskAssumption DEF Retry, Retried

LEMMA UrlTypes ==
    /\ NoUrl \in Url
    /\ _EMPTY_SENTINEL \in Url
    /\ \A i \in Int : Link(i) \in Url
    /\ \A u \in Url : u.sas \in Int /\ u.exp \in Nat
    /\ \A u \in Url, n \in Nat : [u EXCEPT !.exp = n] \in Url
  BY DEF Url, NoUrl, _EMPTY_SENTINEL, Link

LEMMA ExecutionFields ==
    \A e \in Executions :
        /\ e.task \in Tasks
        /\ e.retries \in Retry
        /\ e.held \in BOOLEAN
        /\ e.exc \in {"none", "error", "cancel"}
        /\ e.url \in Url
        /\ e.ttl \in Int
        /\ e.route \in {"dm", "channel"}
  BY DEF Executions

LEMMA ExecutionUpdates ==
    \A e \in Executions :
        /\ \A x \in {"none", "error", "cancel"} :
               [e EXCEPT !.exc = x] \in Executions
        /\ \A u \in Url : [e EXCEPT !.url = u] \in Executions
        /\ \A i \in Int, r \in {"dm", "channel"} :
               [e EXCEPT !.ttl = i, !.route = r] \in Executions
        /\ \A r \in {"dm", "channel"} : [e EXCEPT !.route = r] \in Executions
        /\ [e EXCEPT !.held = FALSE] \in Executions
  BY DEF Executions

LEMMA TakeType == \A t \in Tasks, n \in Retry : Take(t, n) \in Executions
  BY UrlTypes DEF Take, Executions

LEMMA NoRunType == NoRun \in Executions
  BY TakeType, RetryRange, TaskAssumption DEF NoRun

LEMMA PublishType ==
    ASSUME queue \in [Tasks -> [Retry -> Nat]], NEW t \in Tasks,
           NEW n \in Retry, Publish(t, n)
    PROVE  queue' \in [Tasks -> [Retry -> Nat]]
<1>1. [queue[t] EXCEPT ![n] = @ + 1] \in [Retry -> Nat]
  OBVIOUS
<1>2. queue' = [queue EXCEPT ![t] = [queue[t] EXCEPT ![n] = @ + 1]]
  BY DEF Publish
<1> QED BY <1>1, <1>2

LEMMA GotoType ==
    ASSUME at \in [Slots -> Steps], NEW w \in Slots, NEW step \in Steps,
           Goto(w, step)
    PROVE  at' \in [Slots -> Steps]
  BY DEF Goto

LEMMA RaiseType ==
    ASSUME at \in [Slots -> Steps], run \in [Slots -> Executions],
           errs \in [Tasks -> Nat], NEW w \in Slots,
           NEW exc \in {"error", "cancel"}, Raise(w, exc)
    PROVE  /\ at' \in [Slots -> Steps]
           /\ run' \in [Slots -> Executions]
           /\ errs' \in [Tasks -> Nat]
<1>1. AfterRaise(at[w], exc) \in Steps
  BY DEF AfterRaise, Steps, Body
<1>2. at' \in [Slots -> Steps]
  BY <1>1, GotoType DEF Raise
<1>3. [run[w] EXCEPT !.exc = exc] \in Executions
  BY ExecutionUpdates
<1>4. run' = [run EXCEPT ![w] = [run[w] EXCEPT !.exc = exc]]
  BY DEF Raise
<1>5. run' \in [Slots -> Executions]
  BY <1>3, <1>4
<1>6. errs' \in [Tasks -> Nat]
  BY ExecutionFields DEF Raise, Task
<1> QED BY <1>2, <1>5, <1>6

\* What a raised exception leaves in the slots.
Raised(w, exc) ==
    /\ \A v \in Slots \ {w} : run'[v] = run[v] /\ at'[v] = at[v]
    /\ at'[w] = IF at[w] \in Guarded THEN "cleanup" ELSE "on_error"
    /\ run'[w].exc = exc
    /\ run'[w].task = run[w].task
    /\ run'[w].retries = run[w].retries
    /\ run'[w].held = run[w].held
    /\ run'[w].url = run[w].url
    /\ errs' \in [Tasks -> Nat]
    /\ \A t \in Tasks : errs'[t] >= errs[t]
    /\ exc = "error" => errs'[run[w].task] >= errs[run[w].task] + 1

LEMMA RaiseEffect ==
    ASSUME TypeOK, NEW w \in Slots, NEW exc \in {"error", "cancel"},
           Raise(w, exc)
    PROVE  Raised(w, exc)
<1>1. run[w] \in Executions
  BY DEF TypeOK
<1>2. run'[w] = [run[w] EXCEPT !.exc = exc]
  BY DEF TypeOK, Raise
<1>3. \A v \in Slots \ {w} : run'[v] = run[v] /\ at'[v] = at[v]
  BY DEF TypeOK, Raise, Goto
<1>4. at'[w] = IF at[w] \in Guarded THEN "cleanup" ELSE "on_error"
  BY DEF TypeOK, Raise, Goto, AfterRaise
<1>5. run[w].task \in Tasks
  BY <1>1, ExecutionFields
<1>6. /\ errs' \in [Tasks -> Nat]
      /\ \A t \in Tasks : errs'[t] >= errs[t]
      /\ exc = "error" => errs'[run[w].task] >= errs[run[w].task] + 1
  BY <1>5 DEF TypeOK, Raise, Task
<1>7. /\ run'[w].exc = exc
      /\ run'[w].task = run[w].task
      /\ run'[w].retries = run[w].retries
      /\ run'[w].held = run[w].held
      /\ run'[w].url = run[w].url
  BY <1>1, <1>2 DEF Executions
<1> QED BY <1>3, <1>4, <1>6, <1>7 DEF Raised

LEMMA RequeueType ==
    ASSUME queue \in [Tasks -> [Retry -> Nat]], run \in [Slots -> Executions],
           NEW w \in Slots, Requeue(w)
    PROVE  queue' \in [Tasks -> [Retry -> Nat]]
<1>1. CASE run[w].held
  <2>1. Publish(Task(w), run[w].retries)
    BY <1>1 DEF Requeue, Publish
  <2> QED BY <2>1, PublishType, ExecutionFields DEF Task
<1>2. CASE ~run[w].held
  BY <1>2 DEF Requeue
<1> QED BY <1>1, <1>2

LEMMA NotifyType ==
    ASSUME TypeOK, NEW w \in Slots, Notify(w)
    PROVE  /\ at' \in [Slots -> Steps]
           /\ notices' \in [Tasks -> Nat]
           /\ linkUntil' \in [Tasks -> Int]
<1>1. at' \in [Slots -> Steps]
  BY GotoType DEF TypeOK, Notify, Steps, Body
<1>2. run[w].url.sas \in Int /\ Task(w) \in Tasks
  BY ExecutionFields, UrlTypes DEF TypeOK, Task
<1>3. notices' \in [Tasks -> Nat]
  BY <1>2 DEF TypeOK, Notify
<1>4. linkUntil' \in [Tasks -> Int]
  BY <1>2 DEF TypeOK, Notify
<1> QED BY <1>1, <1>3, <1>4
-----------------------------------------------------------------------------
(* Type correctness *)

\* TypeOK needs one fact more to be inductive: only a job that was enqueued
\* has an index entry, so that /cancel can only resolve such a job.
TypeInv ==
    /\ TypeOK
    /\ \A t \in Tasks : index[t] # 0 => t \in enqueued

LEMMA TypeInit == Init => TypeInv
  BY NoRunType, UrlTypes, TaskAssumption
     DEF Init, TypeInv, TypeOK, Steps, Phase

LEMMA TypeStep == TypeInv /\ [Next]_vars => TypeInv'
<1> SUFFICES ASSUME TypeInv, [Next]_vars PROVE TypeInv'
  OBVIOUS
<1> USE DEF TypeInv, TypeOK, slotVars, cogVars, faultVars, taskiqVars,
            keyVars, sendVars, histVars
<1>f. \A w \in Slots : /\ run[w] \in Executions
                       /\ Task(w) \in Tasks
                       /\ run[w].retries \in Retry
                       /\ run[w].url \in Url
                       /\ run[w].ttl \in Int
                       /\ now \in Nat
  BY ExecutionFields, TaskAssumption DEF Task
<1>Enqueue. ASSUME NEW t \in Tasks, Enqueue(t) PROVE TypeInv'
  BY <1>Enqueue, PublishType, RetryRange DEF Enqueue
<1>RecordJob. ASSUME NEW t \in Tasks, RecordJob(t) PROVE TypeInv'
  BY <1>RecordJob, <1>f, TaskAssumption DEF RecordJob, Hours
<1>RecordJobFails. ASSUME NEW t \in Tasks, RecordJobFails(t) PROVE TypeInv'
  BY <1>RecordJobFails DEF RecordJobFails
<1>ResolveJob. ASSUME NEW t \in Tasks, ResolveJob(t) PROVE TypeInv'
  BY <1>ResolveJob DEF ResolveJob
<1>Cancel. ASSUME NEW t \in Tasks, Cancel(t) PROVE TypeInv'
  BY <1>Cancel DEF Cancel
<1>Pickup. ASSUME NEW w \in Slots, Pickup(w) PROVE TypeInv'
  <2>1. PICK t \in Tasks, n \in Retry :
            /\ queue[t][n] > 0
            /\ queue' = [queue EXCEPT ![t][n] = @ - 1]
            /\ run' = [run EXCEPT ![w] = Take(t, n)]
    BY <1>Pickup DEF Pickup
  <2>2. [queue[t] EXCEPT ![n] = @ - 1] \in [Retry -> Nat]
    BY <2>1
  <2>3. queue' \in [Tasks -> [Retry -> Nat]]
    BY <2>1, <2>2
  <2>4. run' \in [Slots -> Executions]
    BY <2>1, TakeType
  <2>5. at' \in [Slots -> Steps]
    BY <1>Pickup, GotoType DEF Pickup, Steps
  <2> QED BY <1>Pickup, <2>3, <2>4, <2>5 DEF Pickup
<1>CheckCancelled. ASSUME NEW w \in Slots, CheckCancelled(w) PROVE TypeInv'
  BY <1>CheckCancelled, RaiseType, GotoType DEF CheckCancelled, Steps, Body
<1>ReportPickedUp. ASSUME NEW w \in Slots, ReportPickedUp(w) PROVE TypeInv'
  BY <1>ReportPickedUp, <1>f, GotoType DEF ReportPickedUp, Steps, Body, Phase
<1>ReadSettings. ASSUME NEW w \in Slots, ReadSettings(w) PROVE TypeInv'
  <2>1. PICK ttl \in (IF Task(w) \in Private
                     THEN {DefaultRetention} ELSE Hours),
             route \in (IF Task(w) \in Private
                       THEN {"dm"} ELSE {"dm", "channel"}) :
            run' = [run EXCEPT ![w].ttl = ttl, ![w].route = route]
    BY <1>ReadSettings DEF ReadSettings
  <2>2. ttl \in Int /\ route \in {"dm", "channel"}
    BY TaskAssumption DEF Hours
  <2>3. run' = [run EXCEPT ![w] = [run[w] EXCEPT !.ttl = ttl, !.route = route]]
    BY <2>1
  <2>4. run' \in [Slots -> Executions]
    BY <1>f, <2>2, <2>3, ExecutionUpdates
  <2> QED BY <1>ReadSettings, <2>4, GotoType DEF ReadSettings, Steps, Body
<1>LookupArchiveUrl. ASSUME NEW w \in Slots, LookupArchiveUrl(w) PROVE TypeInv'
  <2>1. [run[w] EXCEPT !.url = archiveUrl[Task(w)]] \in Executions
    BY <1>f, ExecutionUpdates
  <2>2. run' \in [Slots -> Executions]
    BY <1>LookupArchiveUrl, <2>1 DEF LookupArchiveUrl
  <2> QED BY <1>LookupArchiveUrl, <2>2, GotoType DEF LookupArchiveUrl,
     Steps, Body
<1>FetchChannel. ASSUME NEW w \in Slots, FetchChannel(w) PROVE TypeInv'
  BY <1>FetchChannel, <1>f, GotoType DEF FetchChannel, Steps, Body, Phase
<1>OnProgress. ASSUME NEW w \in Slots, OnProgress(w) PROVE TypeInv'
  BY <1>OnProgress, <1>f, GotoType DEF OnProgress, Steps, Body, Phase
<1>Upload. ASSUME NEW w \in Slots, Upload(w) PROVE TypeInv'
  BY <1>Upload, <1>f, GotoType DEF Upload, Steps, Body
<1>NothingToArchive. ASSUME NEW w \in Slots, NothingToArchive(w) PROVE TypeInv'
  <2>1. [run[w] EXCEPT !.url = _EMPTY_SENTINEL] \in Executions
    BY <1>f, ExecutionUpdates, UrlTypes
  <2>2. run' \in [Slots -> Executions]
    BY <1>NothingToArchive, <2>1 DEF NothingToArchive
  <2> QED BY <1>NothingToArchive, <2>2, GotoType DEF NothingToArchive,
     Steps, Body
<1>Sign. ASSUME NEW w \in Slots, Sign(w) PROVE TypeInv'
  <2>1. now + run[w].ttl \in Int
    BY <1>f
  <2>2. [run[w] EXCEPT !.url = Link(now + run[w].ttl)] \in Executions
    BY <1>f, <2>1, ExecutionUpdates, UrlTypes
  <2>3. run' \in [Slots -> Executions]
    BY <1>Sign, <2>2 DEF Sign
  <2> QED BY <1>Sign, <1>f, <2>3, GotoType DEF Sign, Steps, Body
<1>DeleteBlob. ASSUME NEW w \in Slots, DeleteBlob(w) PROVE TypeInv'
  BY <1>DeleteBlob, <1>f, GotoType DEF DeleteBlob, Steps, Body, AfterCleanup
<1>DeleteBlobFails. ASSUME NEW w \in Slots, DeleteBlobFails(w) PROVE TypeInv'
  BY <1>DeleteBlobFails, <1>f, GotoType DEF DeleteBlobFails, Steps, Body,
     AfterCleanup
<1>CacheArchiveUrl. ASSUME NEW w \in Slots, CacheArchiveUrl(w) PROVE TypeInv'
  <2>1. CASE run[w].ttl > 0
    <3>1. now + run[w].ttl \in Nat
      BY <1>f, <2>1
    <3>2. [run[w].url EXCEPT !.exp = now + run[w].ttl] \in Url
      BY <1>f, <3>1, UrlTypes
    <3>3. archiveUrl' \in [Tasks -> Url]
      BY <1>CacheArchiveUrl, <2>1, <3>2 DEF CacheArchiveUrl
    <3> QED BY <1>CacheArchiveUrl, <2>1, <3>3, GotoType
            DEF CacheArchiveUrl, Steps, Body
  <2>2. CASE ~(run[w].ttl > 0)
    BY <1>CacheArchiveUrl, <2>2, RaiseType DEF CacheArchiveUrl
  <2> QED BY <2>1, <2>2
<1>CheckDelivered. ASSUME NEW w \in Slots, CheckDelivered(w) PROVE TypeInv'
  BY <1>CheckDelivered, <1>f, GotoType DEF CheckDelivered, Steps, Body, Phase
<1>PostToChannel. ASSUME NEW w \in Slots, PostToChannel(w) PROVE TypeInv'
  BY <1>PostToChannel, NotifyType DEF PostToChannel, Notify
<1>ResultsChannelUnusable. ASSUME NEW w \in Slots, ResultsChannelUnusable(w)
                           PROVE TypeInv'
  <2>1. [run[w] EXCEPT !.route = "dm"] \in Executions
    BY <1>f, ExecutionUpdates
  <2>2. run' \in [Slots -> Executions]
    BY <1>ResultsChannelUnusable, <2>1 DEF ResultsChannelUnusable
  <2> QED BY <1>ResultsChannelUnusable, <2>2, GotoType DEF
     ResultsChannelUnusable, Steps, Body
<1>DmUser. ASSUME NEW w \in Slots, DmUser(w) PROVE TypeInv'
  BY <1>DmUser, NotifyType DEF DmUser, Notify
<1>MarkDelivered. ASSUME NEW w \in Slots, MarkDelivered(w) PROVE TypeInv'
  <2>1. CASE run[w].ttl > 0
    <3>1. now + run[w].ttl \in Nat
      BY <1>f, <2>1
    <3>2. delivered' \in [Tasks -> Nat]
      BY <1>MarkDelivered, <1>f, <2>1, <3>1 DEF MarkDelivered
    <3> QED BY <1>MarkDelivered, <2>1, <3>2, GotoType
            DEF MarkDelivered, Steps, Body
  <2>2. CASE ~(run[w].ttl > 0)
    BY <1>MarkDelivered, <2>2, RaiseType DEF MarkDelivered
  <2> QED BY <2>1, <2>2
<1>ReportDone. ASSUME NEW w \in Slots, ReportDone(w) PROVE TypeInv'
  BY <1>ReportDone, <1>f, GotoType DEF ReportDone, Steps, Body, Phase
<1>ForgetJob. ASSUME NEW w \in Slots, ForgetJob(w) PROVE TypeInv'
  BY <1>ForgetJob, <1>f, GotoType DEF ForgetJob, Steps, Body
<1>ForgetJobFails. ASSUME NEW w \in Slots, ForgetJobFails(w) PROVE TypeInv'
  BY <1>ForgetJobFails, <1>f, GotoType DEF ForgetJobFails, Steps, Body
<1>OnError. ASSUME NEW w \in Slots, OnError(w) PROVE TypeInv'
  <2>1. CASE Retried(run[w].exc, run[w].retries)
    BY <1>OnError, <1>f, <2>1, PublishType, RetryRange, GotoType
       DEF OnError, Steps
  <2>2. CASE ~Retried(run[w].exc, run[w].retries)
    BY <1>OnError, <2>2, GotoType DEF OnError, Steps
  <2> QED BY <2>1, <2>2
<1>SaveResult. ASSUME NEW w \in Slots, SaveResult(w) PROVE TypeInv'
  BY <1>SaveResult, <1>f, GotoType DEF SaveResult, Steps, Body
<1>SaveResultFails. ASSUME NEW w \in Slots, SaveResultFails(w) PROVE TypeInv'
  BY <1>SaveResultFails, <1>f, GotoType DEF SaveResultFails, Steps, Body
<1>Ack. ASSUME NEW w \in Slots, Ack(w) PROVE TypeInv'
  BY <1>Ack, GotoType, NoRunType DEF Ack, Release, Steps
<1>Fail. ASSUME NEW w \in Slots, Fail(w) PROVE TypeInv'
  BY <1>Fail, <1>f, RaiseType DEF Fail
<1>Interrupt. ASSUME NEW w \in Slots, Interrupt(w) PROVE TypeInv'
  BY <1>Interrupt, <1>f, RaiseType DEF Interrupt
<1>Crash. ASSUME NEW w \in Slots, Crash(w) PROVE TypeInv'
  <2>1. queue' \in [Tasks -> [Retry -> Nat]]
    BY <1>Crash, RequeueType DEF Crash
  <2>2. at' \in [Slots -> Steps] /\ run' \in [Slots -> Executions]
    BY <1>Crash, GotoType, NoRunType DEF Crash, Release, Steps
  <2>3. crashes' \in 0 .. MaxCrashes
    BY <1>Crash, TaskAssumption DEF Crash
  <2> QED BY <1>Crash, <1>f, <2>1, <2>2, <2>3 DEF Crash
<1>DropConnection. ASSUME NEW w \in Slots, DropConnection(w) PROVE TypeInv'
  <2>1. queue' \in [Tasks -> [Retry -> Nat]]
    BY <1>DropConnection, RequeueType DEF DropConnection
  <2>2. run' = [run EXCEPT ![w] = [run[w] EXCEPT !.held = FALSE]]
    BY <1>DropConnection DEF DropConnection
  <2>3. run' \in [Slots -> Executions]
    BY <1>f, <2>2, ExecutionUpdates
  <2>4. drops' \in 0 .. MaxDrops
    BY <1>DropConnection, TaskAssumption DEF DropConnection
  <2> QED BY <1>DropConnection, <1>f, <2>1, <2>3, <2>4 DEF DropConnection
<1>Tick. CASE Tick
  BY <1>Tick, UrlTypes, TaskAssumption DEF Tick
<1>Stutter. CASE UNCHANGED vars
  BY <1>Stutter DEF vars
<1> QED
  BY <1>Enqueue, <1>RecordJob, <1>RecordJobFails, <1>ResolveJob,
     <1>Cancel, <1>Pickup, <1>CheckCancelled, <1>ReportPickedUp,
     <1>ReadSettings, <1>LookupArchiveUrl, <1>FetchChannel, <1>OnProgress,
     <1>Upload, <1>NothingToArchive, <1>Sign, <1>DeleteBlob,
     <1>DeleteBlobFails, <1>CacheArchiveUrl, <1>CheckDelivered,
     <1>PostToChannel, <1>ResultsChannelUnusable, <1>DmUser,
     <1>MarkDelivered, <1>ReportDone, <1>ForgetJob, <1>ForgetJobFails,
     <1>OnError, <1>SaveResult, <1>SaveResultFails, <1>Ack, <1>Fail,
     <1>Interrupt, <1>Crash, <1>DropConnection, <1>Tick, <1>Stutter
     DEF Next, Bot, Proceed, Disturb

\* Every variable keeps its type, whatever the bounds: no retry is published
\* past the last attempt, no expiry is negative, only enqueued jobs are ever
\* resolved by /cancel.
THEOREM TypeCorrect == Spec => []TypeOK
<1>1. TypeInv => TypeOK
  BY DEF TypeInv
<1> QED BY <1>1, TypeInit, TypeStep, PTL DEF Spec
-----------------------------------------------------------------------------
(* No claim without a notice *)

\* Past the send, an execution has notified, itself or through the marker an
\* earlier one left; an exception is never mistaken for success.
NoticeInv ==
    /\ NoticeBeforeClaim
    /\ \A w \in Slots :
           /\ at[w] \in {"mark", "success", "forget"} => notices[Task(w)] > 0
           /\ at[w] = "save" /\ run[w].exc = "none" => notices[Task(w)] > 0
           /\ at[w] = "on_error" => run[w].exc # "none"

LEMMA NoticeInit == Init => NoticeInv
  BY DEF Init, NoticeInv, NoticeBeforeClaim

LEMMA NoticeStep ==
    TypeInv /\ NoticeInv /\ [Next]_vars => NoticeInv'
<1> SUFFICES ASSUME TypeInv, NoticeInv, [Next]_vars
         PROVE  NoticeInv'
  OBVIOUS
<1> USE DEF NoticeInv, NoticeBeforeClaim, Task, Goto, slotVars, cogVars,
            faultVars, taskiqVars, keyVars, sendVars, histVars
<1>f. /\ TypeOK
      /\ at \in [Slots -> Steps]
      /\ run \in [Slots -> Executions]
      /\ progress \in [Tasks -> Phase]
      /\ result \in [Tasks -> {"none", "ok", "error"}]
      /\ delivered \in [Tasks -> Nat]
      /\ notices \in [Tasks -> Nat]
      /\ \A w \in Slots : run[w].task \in Tasks
  BY ExecutionFields DEF TypeInv, TypeOK
<1>Enqueue. ASSUME NEW t \in Tasks, Enqueue(t) PROVE NoticeInv'
  BY <1>Enqueue, <1>f DEF Enqueue, Publish
<1>RecordJob. ASSUME NEW t \in Tasks, RecordJob(t) PROVE NoticeInv'
  BY <1>RecordJob, <1>f DEF RecordJob
<1>RecordJobFails. ASSUME NEW t \in Tasks, RecordJobFails(t) PROVE NoticeInv'
  BY <1>RecordJobFails, <1>f DEF RecordJobFails
<1>ResolveJob. ASSUME NEW t \in Tasks, ResolveJob(t) PROVE NoticeInv'
  BY <1>ResolveJob, <1>f DEF ResolveJob
<1>Cancel. ASSUME NEW t \in Tasks, Cancel(t) PROVE NoticeInv'
  BY <1>Cancel, <1>f DEF Cancel
<1>Pickup. ASSUME NEW w \in Slots, Pickup(w) PROVE NoticeInv'
  BY <1>Pickup, <1>f DEF Pickup
<1>CheckCancelled. ASSUME NEW w \in Slots, CheckCancelled(w) PROVE NoticeInv'
  <2>1. CASE Task(w) \in cancelled
    <3>1. Raise(w, "cancel")
      BY <1>CheckCancelled, <2>1 DEF CheckCancelled
    <3>2. Raised(w, "cancel")
      BY <3>1, <1>f, RaiseEffect
    <3> QED
      BY <1>CheckCancelled, <2>1, <3>2, <1>f DEF CheckCancelled, Raised
  <2>2. CASE ~(Task(w) \in cancelled)
    BY <1>CheckCancelled, <2>2, <1>f DEF CheckCancelled
  <2> QED BY <2>1, <2>2
<1>ReportPickedUp. ASSUME NEW w \in Slots, ReportPickedUp(w) PROVE NoticeInv'
  BY <1>ReportPickedUp, <1>f DEF ReportPickedUp
<1>ReadSettings. ASSUME NEW w \in Slots, ReadSettings(w) PROVE NoticeInv'
  BY <1>ReadSettings, <1>f DEF ReadSettings
<1>LookupArchiveUrl. ASSUME NEW w \in Slots, LookupArchiveUrl(w)
                     PROVE NoticeInv'
  BY <1>LookupArchiveUrl, <1>f DEF LookupArchiveUrl
<1>FetchChannel. ASSUME NEW w \in Slots, FetchChannel(w) PROVE NoticeInv'
  BY <1>FetchChannel, <1>f DEF FetchChannel
<1>Upload. ASSUME NEW w \in Slots, Upload(w) PROVE NoticeInv'
  BY <1>Upload, <1>f DEF Upload
<1>NothingToArchive. ASSUME NEW w \in Slots, NothingToArchive(w)
                     PROVE NoticeInv'
  BY <1>NothingToArchive, <1>f DEF NothingToArchive
<1>Sign. ASSUME NEW w \in Slots, Sign(w) PROVE NoticeInv'
  BY <1>Sign, <1>f DEF Sign
<1>DeleteBlob. ASSUME NEW w \in Slots, DeleteBlob(w) PROVE NoticeInv'
  BY <1>DeleteBlob, <1>f DEF DeleteBlob, AfterCleanup
<1>CacheArchiveUrl. ASSUME NEW w \in Slots, CacheArchiveUrl(w) PROVE NoticeInv'
  <2>1. CASE ~(run[w].ttl > 0)
    <3>1. Raise(w, "error")
      BY <1>CacheArchiveUrl, <2>1 DEF CacheArchiveUrl
    <3>2. Raised(w, "error")
      BY <3>1, <1>f, RaiseEffect
    <3> QED
      BY <1>CacheArchiveUrl, <2>1, <3>2, <1>f DEF CacheArchiveUrl, Raised
  <2>2. CASE run[w].ttl > 0
    BY <1>CacheArchiveUrl, <2>2, <1>f DEF CacheArchiveUrl
  <2> QED BY <2>1, <2>2
<1>CheckDelivered. ASSUME NEW w \in Slots, CheckDelivered(w) PROVE NoticeInv'
  BY <1>CheckDelivered, <1>f DEF CheckDelivered, AlreadyDelivered
<1>PostToChannel. ASSUME NEW w \in Slots, PostToChannel(w) PROVE NoticeInv'
  BY <1>PostToChannel, <1>f DEF PostToChannel, Notify
<1>ResultsChannelUnusable. ASSUME NEW w \in Slots, ResultsChannelUnusable(w)
                           PROVE NoticeInv'
  BY <1>ResultsChannelUnusable, <1>f DEF ResultsChannelUnusable
<1>DmUser. ASSUME NEW w \in Slots, DmUser(w) PROVE NoticeInv'
  BY <1>DmUser, <1>f DEF DmUser, Notify
<1>MarkDelivered. ASSUME NEW w \in Slots, MarkDelivered(w) PROVE NoticeInv'
  <2>1. CASE ~(run[w].ttl > 0)
    <3>1. Raise(w, "error")
      BY <1>MarkDelivered, <2>1 DEF MarkDelivered
    <3>2. Raised(w, "error")
      BY <3>1, <1>f, RaiseEffect
    <3> QED
      BY <1>MarkDelivered, <2>1, <3>2, <1>f DEF MarkDelivered, Raised
  <2>2. CASE run[w].ttl > 0
    BY <1>MarkDelivered, <2>2, <1>f DEF MarkDelivered
  <2> QED BY <2>1, <2>2
<1>ReportDone. ASSUME NEW w \in Slots, ReportDone(w) PROVE NoticeInv'
  BY <1>ReportDone, <1>f DEF ReportDone
<1>ForgetJob. ASSUME NEW w \in Slots, ForgetJob(w) PROVE NoticeInv'
  BY <1>ForgetJob, <1>f DEF ForgetJob
<1>OnError. ASSUME NEW w \in Slots, OnError(w) PROVE NoticeInv'
  BY <1>OnError, <1>f DEF OnError, Publish
<1>SaveResult. ASSUME NEW w \in Slots, SaveResult(w) PROVE NoticeInv'
  BY <1>SaveResult, <1>f DEF SaveResult
<1>Ack. ASSUME NEW w \in Slots, Ack(w) PROVE NoticeInv'
  BY <1>Ack, <1>f DEF Ack, Release
<1>OnProgress. ASSUME NEW w \in Slots, OnProgress(w) PROVE NoticeInv'
  BY <1>OnProgress, <1>f DEF OnProgress
<1>DeleteBlobFails. ASSUME NEW w \in Slots, DeleteBlobFails(w) PROVE NoticeInv'
  BY <1>DeleteBlobFails, <1>f DEF DeleteBlobFails, AfterCleanup
<1>ForgetJobFails. ASSUME NEW w \in Slots, ForgetJobFails(w) PROVE NoticeInv'
  BY <1>ForgetJobFails, <1>f DEF ForgetJobFails
<1>SaveResultFails. ASSUME NEW w \in Slots, SaveResultFails(w) PROVE NoticeInv'
  BY <1>SaveResultFails, <1>f DEF SaveResultFails
<1>Fail. ASSUME NEW w \in Slots, Fail(w) PROVE NoticeInv'
  BY <1>Fail, <1>f DEF Fail, Raise, AfterRaise, Fallible
<1>Interrupt. ASSUME NEW w \in Slots, Interrupt(w) PROVE NoticeInv'
  BY <1>Interrupt, <1>f DEF Interrupt, Raise, AfterRaise
<1>Crash. ASSUME NEW w \in Slots, Crash(w) PROVE NoticeInv'
  BY <1>Crash, <1>f DEF Crash, Release, Requeue
<1>DropConnection. ASSUME NEW w \in Slots, DropConnection(w) PROVE NoticeInv'
  BY <1>DropConnection, <1>f DEF DropConnection, Requeue
<1>Tick. CASE Tick
  BY <1>Tick, <1>f DEF Tick
<1>Stutter. CASE UNCHANGED vars
  BY <1>Stutter, <1>f DEF vars
<1> QED
  BY <1>Enqueue, <1>RecordJob, <1>RecordJobFails, <1>ResolveJob,
     <1>Cancel, <1>Pickup, <1>CheckCancelled, <1>ReportPickedUp,
     <1>ReadSettings, <1>LookupArchiveUrl, <1>FetchChannel, <1>Upload,
     <1>NothingToArchive, <1>Sign, <1>DeleteBlob, <1>CacheArchiveUrl,
     <1>CheckDelivered, <1>PostToChannel, <1>ResultsChannelUnusable,
     <1>DmUser, <1>MarkDelivered, <1>ReportDone, <1>ForgetJob, <1>OnError,
     <1>SaveResult, <1>Ack, <1>OnProgress, <1>DeleteBlobFails,
     <1>ForgetJobFails, <1>SaveResultFails, <1>Fail, <1>Interrupt,
     <1>Crash, <1>DropConnection, <1>Tick, <1>Stutter
     DEF Next, Bot, Proceed, Disturb

\* No delivered marker, no phase "done" and no stored success without a notice
\* that went out, through any number of attempts, crashes and redeliveries.
THEOREM ClaimsAreHonest == Spec => []NoticeBeforeClaim
<1>1. NoticeInv => NoticeBeforeClaim
  BY DEF NoticeInv
<1> QED
  BY <1>1, TypeInit, TypeStep, NoticeInit, NoticeStep, PTL DEF Spec
-----------------------------------------------------------------------------
(* Partial archives are cleaned up *)

LEMMA BlobInit == Init => PartialBlobCleaned
  BY DEF Init, PartialBlobCleaned

LEMMA BlobStep ==
    TypeInv /\ PartialBlobCleaned /\ [Next]_vars => PartialBlobCleaned'
<1> SUFFICES ASSUME TypeInv, PartialBlobCleaned, [Next]_vars
         PROVE  PartialBlobCleaned'
  OBVIOUS
<1> USE DEF PartialBlobCleaned, Active, Task, Goto, slotVars, cogVars,
            faultVars, taskiqVars, keyVars, sendVars, histVars
<1>f. /\ TypeOK
      /\ at \in [Slots -> Steps]
      /\ run \in [Slots -> Executions]
      /\ \A w \in Slots : run[w].task \in Tasks
  BY ExecutionFields DEF TypeInv, TypeOK
<1>Enqueue. ASSUME NEW t \in Tasks, Enqueue(t) PROVE PartialBlobCleaned'
  BY <1>Enqueue, <1>f DEF Enqueue, Publish
<1>RecordJob. ASSUME NEW t \in Tasks, RecordJob(t) PROVE PartialBlobCleaned'
  BY <1>RecordJob, <1>f DEF RecordJob
<1>RecordJobFails. ASSUME NEW t \in Tasks, RecordJobFails(t)
                   PROVE PartialBlobCleaned'
  BY <1>RecordJobFails, <1>f DEF RecordJobFails
<1>ResolveJob. ASSUME NEW t \in Tasks, ResolveJob(t) PROVE PartialBlobCleaned'
  BY <1>ResolveJob, <1>f DEF ResolveJob
<1>Cancel. ASSUME NEW t \in Tasks, Cancel(t) PROVE PartialBlobCleaned'
  BY <1>Cancel, <1>f DEF Cancel
<1>Pickup. ASSUME NEW w \in Slots, Pickup(w) PROVE PartialBlobCleaned'
  BY <1>Pickup, <1>f DEF Pickup, Guarded
<1>CheckCancelled. ASSUME NEW w \in Slots, CheckCancelled(w)
                   PROVE PartialBlobCleaned'
  <2>1. CASE Task(w) \in cancelled
    <3>1. Raise(w, "cancel")
      BY <1>CheckCancelled, <2>1 DEF CheckCancelled
    <3>2. Raised(w, "cancel")
      BY <3>1, <1>f, RaiseEffect
    <3> QED
      BY <1>CheckCancelled, <2>1, <3>2, <1>f DEF CheckCancelled, Raised,
      Guarded
  <2>2. CASE ~(Task(w) \in cancelled)
    BY <1>CheckCancelled, <2>2, <1>f DEF CheckCancelled, Guarded
  <2> QED BY <2>1, <2>2
<1>ReportPickedUp. ASSUME NEW w \in Slots, ReportPickedUp(w)
                   PROVE PartialBlobCleaned'
  BY <1>ReportPickedUp, <1>f DEF ReportPickedUp, Guarded
<1>ReadSettings. ASSUME NEW w \in Slots, ReadSettings(w)
                 PROVE PartialBlobCleaned'
  BY <1>ReadSettings, <1>f DEF ReadSettings, Guarded
<1>LookupArchiveUrl. ASSUME NEW w \in Slots, LookupArchiveUrl(w)
                     PROVE PartialBlobCleaned'
  BY <1>LookupArchiveUrl, <1>f DEF LookupArchiveUrl, Guarded
<1>FetchChannel. ASSUME NEW w \in Slots, FetchChannel(w)
                 PROVE PartialBlobCleaned'
  BY <1>FetchChannel, <1>f DEF FetchChannel, Guarded
<1>Upload. ASSUME NEW w \in Slots, Upload(w) PROVE PartialBlobCleaned'
  BY <1>Upload, <1>f DEF Upload, Guarded
<1>NothingToArchive. ASSUME NEW w \in Slots, NothingToArchive(w)
                     PROVE PartialBlobCleaned'
  BY <1>NothingToArchive, <1>f DEF NothingToArchive, Guarded
<1>Sign. ASSUME NEW w \in Slots, Sign(w) PROVE PartialBlobCleaned'
  BY <1>Sign, <1>f DEF Sign, Guarded
<1>DeleteBlob. ASSUME NEW w \in Slots, DeleteBlob(w) PROVE PartialBlobCleaned'
  BY <1>DeleteBlob, <1>f DEF DeleteBlob, AfterCleanup, Guarded
<1>CacheArchiveUrl. ASSUME NEW w \in Slots, CacheArchiveUrl(w)
                    PROVE PartialBlobCleaned'
  <2>1. CASE ~(run[w].ttl > 0)
    <3>1. Raise(w, "error")
      BY <1>CacheArchiveUrl, <2>1 DEF CacheArchiveUrl
    <3>2. Raised(w, "error")
      BY <3>1, <1>f, RaiseEffect
    <3> QED
      BY <1>CacheArchiveUrl, <2>1, <3>2, <1>f DEF CacheArchiveUrl, Raised,
      Guarded
  <2>2. CASE run[w].ttl > 0
    BY <1>CacheArchiveUrl, <2>2, <1>f DEF CacheArchiveUrl, Guarded
  <2> QED BY <2>1, <2>2
<1>CheckDelivered. ASSUME NEW w \in Slots, CheckDelivered(w)
                   PROVE PartialBlobCleaned'
  BY <1>CheckDelivered, <1>f DEF CheckDelivered, Guarded
<1>PostToChannel. ASSUME NEW w \in Slots, PostToChannel(w)
                  PROVE PartialBlobCleaned'
  BY <1>PostToChannel, <1>f DEF PostToChannel, Notify, Guarded
<1>ResultsChannelUnusable. ASSUME NEW w \in Slots, ResultsChannelUnusable(w)
                           PROVE PartialBlobCleaned'
  BY <1>ResultsChannelUnusable, <1>f DEF ResultsChannelUnusable, Guarded
<1>DmUser. ASSUME NEW w \in Slots, DmUser(w) PROVE PartialBlobCleaned'
  BY <1>DmUser, <1>f DEF DmUser, Notify, Guarded
<1>MarkDelivered. ASSUME NEW w \in Slots, MarkDelivered(w)
                  PROVE PartialBlobCleaned'
  <2>1. CASE ~(run[w].ttl > 0)
    <3>1. Raise(w, "error")
      BY <1>MarkDelivered, <2>1 DEF MarkDelivered
    <3>2. Raised(w, "error")
      BY <3>1, <1>f, RaiseEffect
    <3> QED
      BY <1>MarkDelivered, <2>1, <3>2, <1>f DEF MarkDelivered, Raised, Guarded
  <2>2. CASE run[w].ttl > 0
    BY <1>MarkDelivered, <2>2, <1>f DEF MarkDelivered, Guarded
  <2> QED BY <2>1, <2>2
<1>ReportDone. ASSUME NEW w \in Slots, ReportDone(w) PROVE PartialBlobCleaned'
  BY <1>ReportDone, <1>f DEF ReportDone, Guarded
<1>ForgetJob. ASSUME NEW w \in Slots, ForgetJob(w) PROVE PartialBlobCleaned'
  BY <1>ForgetJob, <1>f DEF ForgetJob, Guarded
<1>OnError. ASSUME NEW w \in Slots, OnError(w) PROVE PartialBlobCleaned'
  BY <1>OnError, <1>f DEF OnError, Publish, Guarded
<1>SaveResult. ASSUME NEW w \in Slots, SaveResult(w) PROVE PartialBlobCleaned'
  BY <1>SaveResult, <1>f DEF SaveResult, Guarded
<1>Ack. ASSUME NEW w \in Slots, Ack(w) PROVE PartialBlobCleaned'
  BY <1>Ack, <1>f DEF Ack, Release, Guarded
<1>OnProgress. ASSUME NEW w \in Slots, OnProgress(w) PROVE PartialBlobCleaned'
  BY <1>OnProgress, <1>f DEF OnProgress, Guarded
<1>DeleteBlobFails. ASSUME NEW w \in Slots, DeleteBlobFails(w)
                    PROVE PartialBlobCleaned'
  BY <1>DeleteBlobFails, <1>f DEF DeleteBlobFails, AfterCleanup, Guarded
<1>ForgetJobFails. ASSUME NEW w \in Slots, ForgetJobFails(w)
                   PROVE PartialBlobCleaned'
  BY <1>ForgetJobFails, <1>f DEF ForgetJobFails, Guarded
<1>SaveResultFails. ASSUME NEW w \in Slots, SaveResultFails(w)
                    PROVE PartialBlobCleaned'
  BY <1>SaveResultFails, <1>f DEF SaveResultFails, Guarded
<1>Fail. ASSUME NEW w \in Slots, Fail(w) PROVE PartialBlobCleaned'
  BY <1>Fail, <1>f DEF Fail, Raise, AfterRaise, Fallible, Guarded
<1>Interrupt. ASSUME NEW w \in Slots, Interrupt(w) PROVE PartialBlobCleaned'
  BY <1>Interrupt, <1>f DEF Interrupt, Raise, AfterRaise, Guarded
<1>Crash. ASSUME NEW w \in Slots, Crash(w) PROVE PartialBlobCleaned'
  BY <1>Crash, <1>f DEF Crash, Release, Requeue, Guarded
<1>DropConnection. ASSUME NEW w \in Slots, DropConnection(w)
                   PROVE PartialBlobCleaned'
  BY <1>DropConnection, <1>f DEF DropConnection, Requeue, Guarded
<1>Tick. CASE Tick
  BY <1>Tick, <1>f DEF Tick
<1>Stutter. CASE UNCHANGED vars
  BY <1>Stutter, <1>f DEF vars
<1> QED
  BY <1>Enqueue, <1>RecordJob, <1>RecordJobFails, <1>ResolveJob,
     <1>Cancel, <1>Pickup, <1>CheckCancelled, <1>ReportPickedUp,
     <1>ReadSettings, <1>LookupArchiveUrl, <1>FetchChannel, <1>Upload,
     <1>NothingToArchive, <1>Sign, <1>DeleteBlob, <1>CacheArchiveUrl,
     <1>CheckDelivered, <1>PostToChannel, <1>ResultsChannelUnusable,
     <1>DmUser, <1>MarkDelivered, <1>ReportDone, <1>ForgetJob, <1>OnError,
     <1>SaveResult, <1>Ack, <1>OnProgress, <1>DeleteBlobFails,
     <1>ForgetJobFails, <1>SaveResultFails, <1>Fail, <1>Interrupt,
     <1>Crash, <1>DropConnection, <1>Tick, <1>Stutter
     DEF Next, Bot, Proceed, Disturb

\* An archive that was committed but never signed is being cleaned up, has
\* been, or its cleanup is known to have failed.
THEOREM BlobsCorrect == Spec => []PartialBlobCleaned
  BY TypeInit, TypeStep, BlobInit, BlobStep, PTL DEF Spec
-----------------------------------------------------------------------------
(* Retries are accounted for *)

\* An execution that raised has already added its own error to the account.
RetryInv ==
    /\ RetriesAccounted
    /\ \A w \in Slots :
           at[w] # "idle" /\ run[w].exc = "error"
               => errs[Task(w)] >= run[w].retries + 1

LEMMA RetryInit == Init => RetryInv
  BY DEF Init, RetryInv, RetriesAccounted

LEMMA RetryRaised ==
    ASSUME TypeOK, RetryInv, NEW w \in Slots, at[w] # "idle",
           NEW exc \in {"error", "cancel"}, Raised(w, exc), queue' = queue
    PROVE  RetryInv'
<1>1. /\ \A v \in Slots : run[v].task \in Tasks /\ run[v].retries \in Nat
      /\ errs \in [Tasks -> Nat]
  BY ExecutionFields, RetryRange DEF TypeOK
<1>2. /\ errs' \in [Tasks -> Nat]
      /\ \A t \in Tasks : errs'[t] >= errs[t]
  BY DEF Raised
<1>3. \A t \in Tasks, n \in Retry : queue'[t][n] > 0 => errs'[t] >= n
  BY <1>1, <1>2, RetryRange DEF RetryInv, RetriesAccounted
<1>4. ASSUME NEW v \in Slots \ {w}, at'[v] # "idle"
      PROVE  /\ errs'[run'[v].task] >= run'[v].retries
             /\ run'[v].exc = "error"
                    => errs'[run'[v].task] >= run'[v].retries + 1
  <2>1. run'[v] = run[v] /\ at[v] # "idle"
    BY <1>4 DEF Raised
  <2>2. errs'[run[v].task] >= errs[run[v].task]
    BY <1>1, <1>2
  <2> QED BY <1>1, <1>2, <2>1, <2>2 DEF RetryInv, RetriesAccounted, Task
<1>5. /\ errs'[run'[w].task] >= run'[w].retries
      /\ run'[w].exc = "error" => errs'[run'[w].task] >= run'[w].retries + 1
  <2>1. /\ run'[w].task = run[w].task
        /\ run'[w].retries = run[w].retries
        /\ run'[w].exc = exc
        /\ exc = "error" => errs'[run[w].task] >= errs[run[w].task] + 1
    BY DEF Raised
  <2>2. errs[run[w].task] >= run[w].retries
    BY DEF RetryInv, RetriesAccounted, Task
  <2> QED BY <1>1, <1>2, <2>1, <2>2
<1> QED BY <1>3, <1>4, <1>5 DEF RetryInv, RetriesAccounted, Task

LEMMA RetryStep ==
    TypeInv /\ RetryInv /\ [Next]_vars => RetryInv'
<1> SUFFICES ASSUME TypeInv, RetryInv, [Next]_vars
         PROVE  RetryInv'
  OBVIOUS
<1> USE DEF RetryInv, RetriesAccounted, Task, Goto, slotVars, cogVars,
            faultVars, taskiqVars, keyVars, sendVars, histVars
<1>f. /\ TypeOK
      /\ at \in [Slots -> Steps]
      /\ run \in [Slots -> Executions]
      /\ queue \in [Tasks -> [Retry -> Nat]]
      /\ errs \in [Tasks -> Nat]
      /\ \A w \in Slots : run[w].task \in Tasks /\ run[w].retries \in Retry
      /\ Retry \subseteq Nat
  BY ExecutionFields, RetryRange DEF TypeInv, TypeOK
<1>Enqueue. ASSUME NEW t \in Tasks, Enqueue(t) PROVE RetryInv'
  BY <1>Enqueue, <1>f DEF Enqueue, Publish
<1>RecordJob. ASSUME NEW t \in Tasks, RecordJob(t) PROVE RetryInv'
  BY <1>RecordJob, <1>f DEF RecordJob
<1>RecordJobFails. ASSUME NEW t \in Tasks, RecordJobFails(t) PROVE RetryInv'
  BY <1>RecordJobFails, <1>f DEF RecordJobFails
<1>ResolveJob. ASSUME NEW t \in Tasks, ResolveJob(t) PROVE RetryInv'
  BY <1>ResolveJob, <1>f DEF ResolveJob
<1>Cancel. ASSUME NEW t \in Tasks, Cancel(t) PROVE RetryInv'
  BY <1>Cancel, <1>f DEF Cancel
<1>Pickup. ASSUME NEW w \in Slots, Pickup(w) PROVE RetryInv'
  <2>1. PICK t \in Tasks, n \in Retry :
            /\ queue[t][n] > 0
            /\ queue' = [queue EXCEPT ![t][n] = @ - 1]
            /\ run' = [run EXCEPT ![w] = Take(t, n)]
    BY <1>Pickup DEF Pickup
  <2>2. run'[w].task = t /\ run'[w].retries = n /\ run'[w].exc = "none"
    BY <2>1, <1>f DEF Take
  <2>3. \A v \in Slots \ {w} : run'[v] = run[v] /\ at'[v] = at[v]
    BY <1>Pickup, <2>1, <1>f DEF Pickup
  <2>4. \A u \in Tasks, m \in Retry : queue'[u][m] > 0 => queue[u][m] > 0
    BY <2>1, <1>f
  <2> QED BY <1>Pickup, <2>1, <2>2, <2>3, <2>4, <1>f DEF Pickup
<1>CheckCancelled. ASSUME NEW w \in Slots, CheckCancelled(w) PROVE RetryInv'
  <2>1. CASE Task(w) \in cancelled
    <3>1. Raised(w, "cancel") /\ at[w] # "idle"
      BY <1>CheckCancelled, <2>1, <1>f, RaiseEffect DEF CheckCancelled
    <3> QED BY <1>CheckCancelled, <3>1, <1>f, RetryRaised DEF CheckCancelled
  <2>2. CASE ~(Task(w) \in cancelled)
    BY <1>CheckCancelled, <2>2, <1>f DEF CheckCancelled
  <2> QED BY <2>1, <2>2
<1>ReportPickedUp. ASSUME NEW w \in Slots, ReportPickedUp(w) PROVE RetryInv'
  BY <1>ReportPickedUp, <1>f DEF ReportPickedUp
<1>ReadSettings. ASSUME NEW w \in Slots, ReadSettings(w) PROVE RetryInv'
  BY <1>ReadSettings, <1>f DEF ReadSettings
<1>LookupArchiveUrl. ASSUME NEW w \in Slots, LookupArchiveUrl(w)
                     PROVE RetryInv'
  BY <1>LookupArchiveUrl, <1>f DEF LookupArchiveUrl
<1>FetchChannel. ASSUME NEW w \in Slots, FetchChannel(w) PROVE RetryInv'
  BY <1>FetchChannel, <1>f DEF FetchChannel
<1>Upload. ASSUME NEW w \in Slots, Upload(w) PROVE RetryInv'
  BY <1>Upload, <1>f DEF Upload
<1>NothingToArchive. ASSUME NEW w \in Slots, NothingToArchive(w)
                     PROVE RetryInv'
  BY <1>NothingToArchive, <1>f DEF NothingToArchive
<1>Sign. ASSUME NEW w \in Slots, Sign(w) PROVE RetryInv'
  BY <1>Sign, <1>f DEF Sign
<1>DeleteBlob. ASSUME NEW w \in Slots, DeleteBlob(w) PROVE RetryInv'
  BY <1>DeleteBlob, <1>f DEF DeleteBlob, AfterCleanup
<1>CacheArchiveUrl. ASSUME NEW w \in Slots, CacheArchiveUrl(w) PROVE RetryInv'
  <2>1. CASE ~(run[w].ttl > 0)
    <3>1. Raised(w, "error") /\ at[w] # "idle"
      BY <1>CacheArchiveUrl, <2>1, <1>f, RaiseEffect DEF CacheArchiveUrl
    <3> QED BY <1>CacheArchiveUrl, <3>1, <1>f, RetryRaised DEF CacheArchiveUrl
  <2>2. CASE run[w].ttl > 0
    BY <1>CacheArchiveUrl, <2>2, <1>f DEF CacheArchiveUrl
  <2> QED BY <2>1, <2>2
<1>CheckDelivered. ASSUME NEW w \in Slots, CheckDelivered(w) PROVE RetryInv'
  BY <1>CheckDelivered, <1>f DEF CheckDelivered
<1>PostToChannel. ASSUME NEW w \in Slots, PostToChannel(w) PROVE RetryInv'
  BY <1>PostToChannel, <1>f DEF PostToChannel, Notify
<1>ResultsChannelUnusable. ASSUME NEW w \in Slots, ResultsChannelUnusable(w)
                           PROVE RetryInv'
  BY <1>ResultsChannelUnusable, <1>f DEF ResultsChannelUnusable
<1>DmUser. ASSUME NEW w \in Slots, DmUser(w) PROVE RetryInv'
  BY <1>DmUser, <1>f DEF DmUser, Notify
<1>MarkDelivered. ASSUME NEW w \in Slots, MarkDelivered(w) PROVE RetryInv'
  <2>1. CASE ~(run[w].ttl > 0)
    <3>1. Raised(w, "error") /\ at[w] # "idle"
      BY <1>MarkDelivered, <2>1, <1>f, RaiseEffect DEF MarkDelivered
    <3> QED BY <1>MarkDelivered, <3>1, <1>f, RetryRaised DEF MarkDelivered
  <2>2. CASE run[w].ttl > 0
    BY <1>MarkDelivered, <2>2, <1>f DEF MarkDelivered
  <2> QED BY <2>1, <2>2
<1>ReportDone. ASSUME NEW w \in Slots, ReportDone(w) PROVE RetryInv'
  BY <1>ReportDone, <1>f DEF ReportDone
<1>ForgetJob. ASSUME NEW w \in Slots, ForgetJob(w) PROVE RetryInv'
  BY <1>ForgetJob, <1>f DEF ForgetJob
<1>OnError. ASSUME NEW w \in Slots, OnError(w) PROVE RetryInv'
  <2>1. CASE Retried(run[w].exc, run[w].retries)
    <3>1. errs[run[w].task] >= run[w].retries + 1
      BY <1>OnError, <2>1, <1>f DEF OnError, Retried
    <3>2. \A u \in Tasks, m \in Retry :
              queue'[u][m] > 0 => \/ queue[u][m] > 0
                                  \/ u = run[w].task /\ m = run[w].retries + 1
      BY <1>OnError, <2>1, <1>f DEF OnError, Publish
    <3> QED BY <1>OnError, <2>1, <3>1, <3>2, <1>f DEF OnError
  <2>2. CASE ~Retried(run[w].exc, run[w].retries)
    BY <1>OnError, <2>2, <1>f DEF OnError
  <2> QED BY <2>1, <2>2
<1>SaveResult. ASSUME NEW w \in Slots, SaveResult(w) PROVE RetryInv'
  BY <1>SaveResult, <1>f DEF SaveResult
<1>Ack. ASSUME NEW w \in Slots, Ack(w) PROVE RetryInv'
  BY <1>Ack, <1>f DEF Ack, Release
<1>OnProgress. ASSUME NEW w \in Slots, OnProgress(w) PROVE RetryInv'
  BY <1>OnProgress, <1>f DEF OnProgress
<1>DeleteBlobFails. ASSUME NEW w \in Slots, DeleteBlobFails(w) PROVE RetryInv'
  BY <1>DeleteBlobFails, <1>f DEF DeleteBlobFails, AfterCleanup
<1>ForgetJobFails. ASSUME NEW w \in Slots, ForgetJobFails(w) PROVE RetryInv'
  BY <1>ForgetJobFails, <1>f DEF ForgetJobFails
<1>SaveResultFails. ASSUME NEW w \in Slots, SaveResultFails(w) PROVE RetryInv'
  BY <1>SaveResultFails, <1>f DEF SaveResultFails
<1>Fail. ASSUME NEW w \in Slots, Fail(w) PROVE RetryInv'
  <2>1. Raised(w, "error") /\ at[w] # "idle"
    BY <1>Fail, <1>f, RaiseEffect DEF Fail, Body, Fallible
  <2> QED BY <1>Fail, <2>1, <1>f, RetryRaised DEF Fail
<1>Interrupt. ASSUME NEW w \in Slots, Interrupt(w) PROVE RetryInv'
  <2>1. Raised(w, "cancel") /\ at[w] # "idle"
    BY <1>Interrupt, <1>f, RaiseEffect DEF Interrupt, Body, Fallible
  <2> QED BY <1>Interrupt, <2>1, <1>f, RetryRaised DEF Interrupt
<1>Crash. ASSUME NEW w \in Slots, Crash(w) PROVE RetryInv'
  BY <1>Crash, <1>f DEF Crash, Release, Requeue
<1>DropConnection. ASSUME NEW w \in Slots, DropConnection(w) PROVE RetryInv'
  BY <1>DropConnection, <1>f DEF DropConnection, Requeue
<1>Tick. CASE Tick
  BY <1>Tick, <1>f DEF Tick
<1>Stutter. CASE UNCHANGED vars
  BY <1>Stutter, <1>f DEF vars
<1> QED
  BY <1>Enqueue, <1>RecordJob, <1>RecordJobFails, <1>ResolveJob,
     <1>Cancel, <1>Pickup, <1>CheckCancelled, <1>ReportPickedUp,
     <1>ReadSettings, <1>LookupArchiveUrl, <1>FetchChannel, <1>Upload,
     <1>NothingToArchive, <1>Sign, <1>DeleteBlob, <1>CacheArchiveUrl,
     <1>CheckDelivered, <1>PostToChannel, <1>ResultsChannelUnusable,
     <1>DmUser, <1>MarkDelivered, <1>ReportDone, <1>ForgetJob, <1>OnError,
     <1>SaveResult, <1>Ack, <1>OnProgress, <1>DeleteBlobFails,
     <1>ForgetJobFails, <1>SaveResultFails, <1>Fail, <1>Interrupt,
     <1>Crash, <1>DropConnection, <1>Tick, <1>Stutter
     DEF Next, Bot, Proceed, Disturb

\* An attempt number is reached only through that many errors: cancellations,
\* crashes and redeliveries never consume an attempt.
THEOREM RetriesCorrect == Spec => []RetriesAccounted
<1>1. RetryInv => RetriesAccounted
  BY DEF RetryInv
<1> QED BY <1>1, TypeInit, TypeStep, RetryInit, RetryStep, PTL DEF Spec
=============================================================================
