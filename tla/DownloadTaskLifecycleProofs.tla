-------------------- MODULE DownloadTaskLifecycleProofs --------------------
(***************************************************************************)
(* Proofs that DownloadTask loses no job, and that it implements           *)
(* JobLifecycle, for every value of the constants.  They rest on one       *)
(* remark: seen from outside, the steps of the task body are all alike.    *)
(***************************************************************************)
EXTENDS DownloadTaskProofs

(* The steps nobody outside can tell apart *)

\* What an execution does between its pickup and its end, a notice and the
\* handling of its error apart.
BodyStep(w) ==
    \/ CheckCancelled(w) \/ ReportPickedUp(w) \/ ReadSettings(w)
    \/ LookupArchiveUrl(w) \/ FetchChannel(w) \/ OnProgress(w) \/ Upload(w)
    \/ NothingToArchive(w) \/ Sign(w) \/ DeleteBlob(w) \/ DeleteBlobFails(w)
    \/ CacheArchiveUrl(w) \/ CheckDelivered(w) \/ ResultsChannelUnusable(w)
    \/ MarkDelivered(w) \/ ReportDone(w) \/ ForgetJob(w) \/ ForgetJobFails(w)
    \/ Fail(w) \/ Interrupt(w)

\* The steps of the bot on a job that is queued already, and the clock's.
Aside ==
    \/ \E t \in Tasks : \/ RecordJob(t) \/ RecordJobFails(t) \/ ResolveJob(t)
                        \/ Cancel(t)
    \/ Tick

\* The execution in w goes on with its task, on the same delivery.
Moves(w) ==
    /\ \A v \in Slots \ {w} : at'[v] = at[v] /\ run'[v] = run[v]
    /\ at[w] \notin {"idle", "ack"}
    /\ at'[w] # "idle"
    /\ run'[w].task = run[w].task
    /\ run'[w].held = run[w].held

jobVars == <<queue, enqueued, result, unsaved, notices, forked>>

LEMMA FieldsKept ==
    \A e \in Executions :
        /\ \A x : [e EXCEPT !.url = x].task = e.task
        /\ \A x : [e EXCEPT !.url = x].held = e.held
        /\ \A x, y : [e EXCEPT !.ttl = x, !.route = y].task = e.task
        /\ \A x, y : [e EXCEPT !.ttl = x, !.route = y].held = e.held
        /\ \A x : [e EXCEPT !.route = x].task = e.task
        /\ \A x : [e EXCEPT !.route = x].held = e.held
        /\ [e EXCEPT !.held = FALSE].task = e.task
        /\ [e EXCEPT !.held = FALSE].held = FALSE
  BY DEF Executions

LEMMA BodyMoves ==
    ASSUME TypeOK, NEW w \in Slots, BodyStep(w)
    PROVE  Moves(w) /\ at'[w] # "ack" /\ UNCHANGED jobVars
<1> DEFINE Goal == Moves(w) /\ at'[w] # "ack" /\ UNCHANGED jobVars
<1> USE DEF Moves, jobVars, Goto, Task, cogVars, taskiqVars, sendVars, histVars
<1>f. /\ at \in [Slots -> Steps]
      /\ run \in [Slots -> Executions]
      /\ run[w] \in Executions
  BY DEF TypeOK
<1>r. ASSUME NEW exc \in {"error", "cancel"}, Raise(w, exc),
             at[w] \notin {"idle", "ack"}
      PROVE  Moves(w) /\ at'[w] # "ack"
  BY <1>r, RaiseEffect DEF Raised
<1>CheckCancelled. ASSUME CheckCancelled(w) PROVE Goal
  BY <1>CheckCancelled, <1>f, <1>r DEF CheckCancelled
<1>ReportPickedUp. ASSUME ReportPickedUp(w) PROVE Goal
  BY <1>ReportPickedUp, <1>f DEF ReportPickedUp
<1>ReadSettings. ASSUME ReadSettings(w) PROVE Goal
  BY <1>ReadSettings, <1>f, FieldsKept DEF ReadSettings
<1>LookupArchiveUrl. ASSUME LookupArchiveUrl(w) PROVE Goal
  BY <1>LookupArchiveUrl, <1>f, FieldsKept DEF LookupArchiveUrl
<1>FetchChannel. ASSUME FetchChannel(w) PROVE Goal
  BY <1>FetchChannel, <1>f DEF FetchChannel
<1>OnProgress. ASSUME OnProgress(w) PROVE Goal
  BY <1>OnProgress, <1>f DEF OnProgress, slotVars
<1>Upload. ASSUME Upload(w) PROVE Goal
  BY <1>Upload, <1>f DEF Upload
<1>NothingToArchive. ASSUME NothingToArchive(w) PROVE Goal
  BY <1>NothingToArchive, <1>f, FieldsKept DEF NothingToArchive
<1>Sign. ASSUME Sign(w) PROVE Goal
  BY <1>Sign, <1>f, FieldsKept DEF Sign
<1>DeleteBlob. ASSUME DeleteBlob(w) PROVE Goal
  BY <1>DeleteBlob, <1>f DEF DeleteBlob, AfterCleanup
<1>DeleteBlobFails. ASSUME DeleteBlobFails(w) PROVE Goal
  BY <1>DeleteBlobFails, <1>f DEF DeleteBlobFails, AfterCleanup
<1>CacheArchiveUrl. ASSUME CacheArchiveUrl(w) PROVE Goal
  BY <1>CacheArchiveUrl, <1>f, <1>r DEF CacheArchiveUrl
<1>CheckDelivered. ASSUME CheckDelivered(w) PROVE Goal
  BY <1>CheckDelivered, <1>f DEF CheckDelivered
<1>ResultsChannelUnusable. ASSUME ResultsChannelUnusable(w) PROVE Goal
  BY <1>ResultsChannelUnusable, <1>f, FieldsKept DEF ResultsChannelUnusable
<1>MarkDelivered. ASSUME MarkDelivered(w) PROVE Goal
  BY <1>MarkDelivered, <1>f, <1>r DEF MarkDelivered
<1>ReportDone. ASSUME ReportDone(w) PROVE Goal
  BY <1>ReportDone, <1>f DEF ReportDone
<1>ForgetJob. ASSUME ForgetJob(w) PROVE Goal
  BY <1>ForgetJob, <1>f DEF ForgetJob
<1>ForgetJobFails. ASSUME ForgetJobFails(w) PROVE Goal
  BY <1>ForgetJobFails, <1>f DEF ForgetJobFails
<1>Fail. ASSUME Fail(w) PROVE Goal
  BY <1>Fail, <1>f, <1>r DEF Fail, Fallible, Body
<1>Interrupt. ASSUME Interrupt(w) PROVE Goal
  BY <1>Interrupt, <1>f, <1>r DEF Interrupt, Body
<1> QED
  BY <1>CheckCancelled, <1>ReportPickedUp, <1>ReadSettings,
     <1>LookupArchiveUrl, <1>FetchChannel, <1>OnProgress, <1>Upload,
     <1>NothingToArchive, <1>Sign, <1>DeleteBlob, <1>DeleteBlobFails,
     <1>CacheArchiveUrl, <1>CheckDelivered, <1>ResultsChannelUnusable,
     <1>MarkDelivered, <1>ReportDone, <1>ForgetJob, <1>ForgetJobFails,
     <1>Fail, <1>Interrupt DEF BodyStep

LEMMA AsideUnchanged ==
    ASSUME Aside
    PROVE  UNCHANGED <<jobVars, slotVars>>
  BY DEF Aside, RecordJob, RecordJobFails, ResolveJob, Cancel, Tick, jobVars,
         slotVars, cogVars, taskiqVars, sendVars, histVars

\* The steps of the specification, sorted by what they do to a job.
LEMMA StepKinds ==
    ASSUME [Next]_vars
    PROVE  \/ Aside
           \/ \E t \in Tasks : Enqueue(t)
           \/ \E w \in Slots : BodyStep(w)
           \/ \E w \in Slots : Pickup(w)
           \/ \E w \in Slots : PostToChannel(w) \/ DmUser(w)
           \/ \E w \in Slots : OnError(w)
           \/ \E w \in Slots : SaveResult(w) \/ SaveResultFails(w)
           \/ \E w \in Slots : Ack(w) \/ Crash(w)
           \/ \E w \in Slots : DropConnection(w)
           \/ UNCHANGED vars
  BY DEF Next, Bot, Proceed, Disturb, BodyStep, Aside
-----------------------------------------------------------------------------
(* No job is lost *)

\* An execution that will put its message back if it dies.
Working(w, t) ==
    at[w] \notin {"idle", "ack"} /\ run[w].held /\ run[w].task = t

\* NeverLost counts any execution; to survive a crash it takes one that still
\* holds its delivery, and one that merely acknowledges does not count.
Recoverable(t) ==
    \/ Queued(t)
    \/ \E w \in Slots : Working(w, t)
    \/ result[t] # "none"
    \/ t \in unsaved

LiveInv ==
    /\ \A t \in Tasks : Queued(t) => t \in enqueued
    /\ \A w \in Slots : at[w] # "idle" => run[w].task \in enqueued
    /\ \A t \in enqueued : Recoverable(t)

LEMMA LiveInit == Init => LiveInv
  BY DEF Init, LiveInv, Queued

\* An execution that goes on, or hands its task over to the queue or to the
\* result backend, leaves the job recoverable.
LEMMA LiveMoves ==
    ASSUME LiveInv, TypeOK, NEW w \in Slots, Moves(w), enqueued' = enqueued,
           \A t \in Tasks : Queued(t) => Queued(t)',
           \A t \in Tasks : Queued(t)' => Queued(t) \/ t = run[w].task,
           \A t \in Tasks : result[t] # "none" => result'[t] # "none",
           unsaved \subseteq unsaved',
           \A t \in Tasks :
               at'[w] = "ack" /\ t = run[w].task
                   => \/ Queued(t)'
                      \/ result'[t] # "none"
                      \/ t \in unsaved'
    PROVE  LiveInv'
<1>1. enqueued \subseteq Tasks
  BY DEF TypeOK
<1>2. \A v \in Slots : at'[v] # "idle" => run'[v].task \in enqueued
  BY DEF LiveInv, Moves
<1>3. \A t \in Tasks : Queued(t)' => t \in enqueued
  BY DEF LiveInv, Moves
<1>4. ASSUME NEW t \in enqueued PROVE Recoverable(t)'
  <2>1. ASSUME NEW v \in Slots, Working(v, t) PROVE Recoverable(t)'
    <3>1. CASE v = w /\ at'[w] = "ack"
      BY <1>1, <2>1, <3>1 DEF Recoverable, Working
    <3>2. CASE ~(v = w /\ at'[w] = "ack")
      BY <2>1, <3>2 DEF Recoverable, Working, Moves
    <3> QED BY <3>1, <3>2
  <2> QED BY <1>1, <2>1 DEF LiveInv, Recoverable
<1> QED BY <1>2, <1>3, <1>4 DEF LiveInv

\* What becomes of the messages.
LEMMA PublishQueued ==
    ASSUME queue \in [Tasks -> [Retry -> Nat]], NEW t \in Tasks,
           NEW n \in Retry, Publish(t, n)
    PROVE  \A u \in Tasks : Queued(u)' <=> Queued(u) \/ u = t
<1>1. \A u \in Tasks, m \in Retry :
          queue'[u][m] = IF u = t /\ m = n THEN queue[u][m] + 1 ELSE queue[u][m]
  BY DEF Publish
<1> QED BY <1>1 DEF Queued

LEMMA RequeueQueued ==
    ASSUME TypeOK, NEW w \in Slots, Requeue(w)
    PROVE  \A u \in Tasks :
               Queued(u)' <=> Queued(u) \/ (run[w].held /\ u = run[w].task)
<1>1. /\ queue \in [Tasks -> [Retry -> Nat]]
      /\ run[w].task \in Tasks /\ run[w].retries \in Retry
  BY ExecutionFields DEF TypeOK
<1>2. CASE run[w].held
  BY <1>1, <1>2, PublishQueued DEF Requeue, Publish, Task
<1>3. CASE ~run[w].held
  BY <1>3 DEF Requeue, Queued
<1> QED BY <1>2, <1>3

LEMMA PickupQueued ==
    ASSUME TypeOK, NEW w \in Slots, Pickup(w)
    PROVE  \E t \in Tasks :
               /\ Queued(t)
               /\ \A u \in Tasks : Queued(u)' => Queued(u)
               /\ \A u \in Tasks \ {t} : Queued(u) => Queued(u)'
               /\ \A v \in Slots \ {w} : at'[v] = at[v] /\ run'[v] = run[v]
               /\ at[w] = "idle" /\ at'[w] = "check"
               /\ run'[w].task = t /\ run'[w].held
<1>1. PICK t \in Tasks, n \in Retry :
          /\ queue[t][n] > 0
          /\ queue' = [queue EXCEPT ![t][n] = @ - 1]
          /\ run' = [run EXCEPT ![w] = Take(t, n)]
  BY DEF Pickup
<1>2. \A u \in Tasks, m \in Retry :
          queue'[u][m] = IF u = t /\ m = n THEN queue[u][m] - 1 ELSE queue[u][m]
  BY <1>1 DEF TypeOK
<1>3. queue \in [Tasks -> [Retry -> Nat]]
  BY DEF TypeOK
<1>4. /\ Queued(t)
      /\ \A u \in Tasks : Queued(u)' => Queued(u)
      /\ \A u \in Tasks \ {t} : Queued(u) => Queued(u)'
  BY <1>1, <1>2, <1>3 DEF Queued
<1>5. run'[w].task = t /\ run'[w].held
  BY <1>1 DEF TypeOK, Take
<1>6. /\ \A v \in Slots \ {w} : at'[v] = at[v] /\ run'[v] = run[v]
      /\ at[w] = "idle" /\ at'[w] = "check"
  BY <1>1 DEF TypeOK, Pickup, Goto
<1> QED BY <1>4, <1>5, <1>6

LEMMA LiveStep == TypeInv /\ LiveInv /\ [Next]_vars => LiveInv'
<1> SUFFICES ASSUME TypeInv, LiveInv, [Next]_vars PROVE LiveInv'
  OBVIOUS
<1>f. /\ TypeOK
      /\ at \in [Slots -> Steps]
      /\ run \in [Slots -> Executions]
      /\ queue \in [Tasks -> [Retry -> Nat]]
      /\ result \in [Tasks -> {"none", "ok", "error"}]
      /\ enqueued \subseteq Tasks
      /\ \A w \in Slots : run[w].task \in Tasks /\ run[w].retries \in Retry
  BY ExecutionFields DEF TypeInv, TypeOK
<1>same. ASSUME UNCHANGED <<queue, at, run, enqueued, result, unsaved>>
         PROVE  LiveInv'
  BY <1>same DEF LiveInv, Recoverable, Working, Queued
<1>Aside. CASE Aside
  BY <1>Aside, <1>same, AsideUnchanged DEF jobVars, slotVars
<1>Enqueue. ASSUME NEW t \in Tasks, Enqueue(t) PROVE LiveInv'
  <2>1. \A u \in Tasks : Queued(u)' <=> Queued(u) \/ u = t
    BY <1>Enqueue, <1>f, PublishQueued, RetryRange DEF Enqueue
  <2>2. /\ enqueued' = enqueued \cup {t}
        /\ UNCHANGED <<at, run, result, unsaved>>
    BY <1>Enqueue DEF Enqueue, slotVars, taskiqVars, histVars
  <2> QED BY <1>f, <2>1, <2>2 DEF LiveInv, Recoverable, Working
<1>Body. ASSUME NEW w \in Slots, BodyStep(w) PROVE LiveInv'
  <2>1. Moves(w) /\ at'[w] # "ack" /\ UNCHANGED jobVars
    BY <1>Body, <1>f, BodyMoves
  <2> QED BY <1>f, <2>1, LiveMoves DEF jobVars, Queued
<1>Pickup. ASSUME NEW w \in Slots, Pickup(w) PROVE LiveInv'
  <2>1. PICK t \in Tasks :
               /\ Queued(t)
               /\ \A u \in Tasks : Queued(u)' => Queued(u)
               /\ \A u \in Tasks \ {t} : Queued(u) => Queued(u)'
               /\ \A v \in Slots \ {w} : at'[v] = at[v] /\ run'[v] = run[v]
               /\ at[w] = "idle" /\ at'[w] = "check"
               /\ run'[w].task = t /\ run'[w].held
    BY <1>Pickup, <1>f, PickupQueued
  <2>2. UNCHANGED <<enqueued, result, unsaved>>
    BY <1>Pickup DEF Pickup, cogVars, taskiqVars, histVars
  <2>3. Working(w, t)' /\ \A v \in Slots, u \in Tasks :
                              Working(v, u) => Working(v, u)'
    BY <2>1 DEF Working
  <2> QED BY <1>f, <2>1, <2>2, <2>3 DEF LiveInv, Recoverable
<1>Notify. ASSUME NEW w \in Slots, PostToChannel(w) \/ DmUser(w) PROVE LiveInv'
  <2>1. /\ Moves(w) /\ at'[w] # "ack"
        /\ UNCHANGED <<queue, enqueued, result, unsaved>>
    BY <1>Notify, <1>f DEF PostToChannel, DmUser, Notify, Goto, Moves, cogVars,
       taskiqVars, histVars
  <2> QED BY <1>f, <2>1, LiveMoves DEF Queued
<1>OnError. ASSUME NEW w \in Slots, OnError(w) PROVE LiveInv'
  <2>1. Moves(w) /\ UNCHANGED <<enqueued, result, unsaved>>
    BY <1>OnError, <1>f DEF OnError, Goto, Moves, cogVars, taskiqVars, histVars
  <2>2. CASE Retried(run[w].exc, run[w].retries)
    <3>1. \A u \in Tasks : Queued(u)' <=> Queued(u) \/ u = run[w].task
      BY <1>OnError, <1>f, <2>2, PublishQueued, RetryRange DEF OnError, Task
    <3> QED BY <1>f, <2>1, <3>1, LiveMoves
  <2>3. CASE ~Retried(run[w].exc, run[w].retries)
    <3>1. queue' = queue /\ at'[w] = "save"
      BY <1>OnError, <1>f, <2>3 DEF OnError, Goto
    <3> QED BY <1>f, <2>1, <3>1, LiveMoves DEF Queued
  <2> QED BY <2>2, <2>3
<1>Save. ASSUME NEW w \in Slots, SaveResult(w) \/ SaveResultFails(w)
         PROVE LiveInv'
  <2>1. Moves(w) /\ UNCHANGED <<queue, enqueued>>
    BY <1>Save, <1>f DEF SaveResult, SaveResultFails, Goto, Moves, cogVars
  <2>2. /\ result'[run[w].task] # "none" \/ run[w].task \in unsaved'
        /\ \A t \in Tasks : result[t] # "none" => result'[t] # "none"
        /\ unsaved \subseteq unsaved'
    BY <1>Save, <1>f DEF SaveResult, SaveResultFails, Task, taskiqVars, histVars
  <2> QED BY <1>f, <2>1, <2>2, LiveMoves DEF Queued
<1>End. ASSUME NEW w \in Slots, Ack(w) \/ Crash(w) PROVE LiveInv'
  <2>1. /\ \A v \in Slots \ {w} : at'[v] = at[v] /\ run'[v] = run[v]
        /\ at[w] # "idle" /\ at'[w] = "idle"
        /\ UNCHANGED <<enqueued, result, unsaved>>
    BY <1>End, <1>f DEF Ack, Crash, Release, Goto, cogVars, taskiqVars, histVars
  <2>2. \A u \in Tasks : Queued(u)' => Queued(u) \/ u = run[w].task
    BY <1>End, <1>f, RequeueQueued DEF Ack, Crash, Queued
  <2>3. \A u \in Tasks : Queued(u) => Queued(u)'
    BY <1>End, <1>f, RequeueQueued DEF Ack, Crash, Queued
  <2>4. \A u \in Tasks : Working(w, u) => Queued(u)'
    BY <1>End, <1>f, RequeueQueued DEF Ack, Crash, Working
  <2>5. \A v \in Slots \ {w}, u \in Tasks : Working(v, u) => Working(v, u)'
    BY <2>1 DEF Working
  <2> QED BY <1>f, <2>1, <2>2, <2>3, <2>4, <2>5 DEF LiveInv, Recoverable
<1>DropConnection. ASSUME NEW w \in Slots, DropConnection(w) PROVE LiveInv'
  <2>1. /\ \A v \in Slots \ {w} : run'[v] = run[v]
        /\ at[w] # "idle" /\ run[w].held
        /\ run'[w].task = run[w].task
        /\ UNCHANGED <<at, enqueued, result, unsaved>>
    BY <1>DropConnection, <1>f, FieldsKept DEF DropConnection, cogVars,
       taskiqVars, histVars
  <2>2. \A u \in Tasks : Queued(u)' <=> Queued(u) \/ u = run[w].task
    BY <1>DropConnection, <1>f, <2>1, RequeueQueued DEF DropConnection
  <2>3. \A v \in Slots \ {w}, u \in Tasks : Working(v, u) => Working(v, u)'
    BY <2>1 DEF Working
  <2>4. \A u \in Tasks : Working(w, u) => Queued(u)'
    BY <2>2 DEF Working
  <2> QED BY <1>f, <2>1, <2>2, <2>3, <2>4 DEF LiveInv, Recoverable
<1>Stutter. CASE UNCHANGED vars
  BY <1>Stutter, <1>same DEF vars, slotVars, cogVars, taskiqVars, histVars
<1> QED
  BY <1>Aside, <1>Enqueue, <1>Body, <1>Pickup, <1>Notify, <1>OnError, <1>Save,
     <1>End, <1>DropConnection, <1>Stutter, StepKinds

\* However many workers die or lose their connection, and whatever fails in
\* the rest, a job that was queued has a message, an execution or an outcome.
THEOREM NoJobLost == Spec => []NeverLost
<1>1. TypeInv /\ LiveInv => NeverLost
  BY DEF TypeInv, TypeOK, LiveInv, Recoverable, Working, NeverLost, Pending,
         Active, Task
<1> QED BY <1>1, TypeInit, TypeStep, LiveInit, LiveStep, PTL DEF Spec
-----------------------------------------------------------------------------
(* The index entry *)

LEMMA ForgetStep ==
    TypeInv /\ NoticeInv /\ [Next]_vars
        => \A t \in Tasks : index[t] > now' /\ index'[t] = 0 => notices[t] > 0
<1> SUFFICES ASSUME TypeInv, NoticeInv, [Next]_vars, NEW t \in Tasks,
                    index[t] > now', index'[t] = 0
             PROVE  notices[t] > 0
  OBVIOUS
<1>1. index[t] \in Nat /\ now \in Nat /\ index \in [Tasks -> Nat]
  BY TaskAssumption DEF TypeInv, TypeOK
<1>2. CASE \E w \in Slots : ForgetJob(w)
  BY <1>1, <1>2 DEF ForgetJob, NoticeInv, Task
<1>3. CASE \E u \in Tasks : RecordJob(u)
  <2>1. PICK u \in Tasks, ttl \in Hours :
            index' = IF ttl > 0 THEN [index EXCEPT ![u] = now + ttl] ELSE index
    BY <1>3 DEF RecordJob
  <2>2. ttl \in Int
    BY TaskAssumption DEF Hours
  <2>3. now' = now
    BY <1>3 DEF RecordJob
  <2> QED BY <1>1, <2>1, <2>2, <2>3
<1>4. CASE Tick
  BY <1>1, <1>4 DEF Tick
<1>5. CASE index' = index
  <2>1. now' \in Nat
    BY <1>1, TypeStep, TaskAssumption DEF TypeInv, TypeOK
  <2> QED BY <1>1, <1>5, <2>1
<1>6. \/ \E w \in Slots : ForgetJob(w)
      \/ \E u \in Tasks : RecordJob(u)
      \/ Tick
      \/ index' = index
  <2> USE DEF keyVars
  <2>1. CASE Aside
    BY <2>1 DEF Aside, RecordJobFails, ResolveJob, Cancel
  <2>2. ASSUME NEW w \in Slots, BodyStep(w), ~ForgetJob(w)
        PROVE  index' = index
    BY <2>2 DEF BodyStep, CheckCancelled, ReportPickedUp, ReadSettings,
       LookupArchiveUrl, FetchChannel, OnProgress, Upload, NothingToArchive,
       Sign, DeleteBlob, DeleteBlobFails, CacheArchiveUrl, CheckDelivered,
       ResultsChannelUnusable, MarkDelivered, ReportDone, ForgetJobFails, Fail,
       Interrupt
  <2>3. ASSUME NEW w \in Slots,
               \/ Pickup(w) \/ PostToChannel(w) \/ DmUser(w) \/ OnError(w)
               \/ SaveResult(w) \/ SaveResultFails(w) \/ Ack(w) \/ Crash(w)
               \/ DropConnection(w)
        PROVE  index' = index
    BY <2>3 DEF Pickup, PostToChannel, DmUser, Notify, OnError, SaveResult,
       SaveResultFails, Ack, Crash, DropConnection
  <2>4. ASSUME NEW u \in Tasks, Enqueue(u) PROVE index' = index
    BY <2>4 DEF Enqueue
  <2>5. CASE UNCHANGED vars
    BY <2>5 DEF vars
  <2> QED BY <2>1, <2>2, <2>3, <2>4, <2>5, StepKinds
<1> QED BY <1>2, <1>3, <1>4, <1>5, <1>6

\* A job still to be delivered stays visible to /status and /cancel: its entry
\* does not go before its time, however its attempts end.
THEOREM ForgottenInTime == Spec => ForgetOnlyAfterNotice
  BY TypeInit, TypeStep, NoticeInit, NoticeStep, ForgetStep, PTL
     DEF Spec, ForgetOnlyAfterNotice
-----------------------------------------------------------------------------
(* DownloadTask implements JobLifecycle *)

LEMMA StageUnchanged ==
    ASSUME enqueued' = enqueued, \A t \in Tasks : Pending(t)' <=> Pending(t)
    PROVE  [t \in Tasks |-> StageOf(t)]' = [t \in Tasks |-> StageOf(t)]
<1>1. \A t \in Tasks : StageOf(t)' = StageOf(t)
  BY DEF StageOf
<1> QED BY <1>1

LEMMA OutcomeUnchanged ==
    ASSUME UNCHANGED <<result, unsaved>>
    PROVE  [t \in Tasks |-> OutcomeOf(t)]' = [t \in Tasks |-> OutcomeOf(t)]
  BY DEF OutcomeOf

LEMMA MovesPending ==
    ASSUME NEW w \in Slots, Moves(w), run[w].task \in Tasks,
           \A t \in Tasks : Queued(t) => Queued(t)',
           \A t \in Tasks : Queued(t)' => Queued(t) \/ t = run[w].task
    PROVE  /\ \A t \in Tasks : Pending(t)' <=> Pending(t)
           /\ Pending(run[w].task)
<1>1. \A v \in Slots, t \in Tasks : Active(v, t)' <=> Active(v, t)
  BY DEF Moves, Active, Task
<1>2. Active(w, run[w].task)
  BY DEF Moves, Active, Task
<1> QED BY <1>1, <1>2 DEF Pending

LEMMA LifecycleInit == Init => Lifecycle!Init
<1> SUFFICES ASSUME Init PROVE Lifecycle!Init
  OBVIOUS
<1>1. \A t \in Tasks : StageOf(t) = "new" /\ OutcomeOf(t) = "none"
  BY DEF Init, StageOf, OutcomeOf
<1>2. {t \in Tasks : notices[t] > 0} = {}
  BY DEF Init
<1> QED BY <1>1, <1>2 DEF Lifecycle!Init

LEMMA LifecycleStep ==
    TypeInv /\ NoticeInv /\ LiveInv /\ [Next]_vars
        => [Lifecycle!Next]_Lifecycle!lifeVars
<1> SUFFICES ASSUME TypeInv, NoticeInv, LiveInv, [Next]_vars
             PROVE  [Lifecycle!Next]_Lifecycle!lifeVars
  OBVIOUS
<1> DEFINE Seen == [Lifecycle!Next]_Lifecycle!lifeVars
<1>f. /\ TypeOK
      /\ at \in [Slots -> Steps]
      /\ run \in [Slots -> Executions]
      /\ queue \in [Tasks -> [Retry -> Nat]]
      /\ result \in [Tasks -> {"none", "ok", "error"}]
      /\ notices \in [Tasks -> Nat]
      /\ enqueued \subseteq Tasks
      /\ \A w \in Slots : run[w].task \in Tasks /\ run[w].retries \in Retry
  BY ExecutionFields DEF TypeInv, TypeOK
<1>e. \A t \in Tasks : Pending(t) => t \in enqueued
  BY DEF LiveInv, Pending, Active, Task
<1>quiet. ASSUME \A t \in Tasks : Pending(t)' <=> Pending(t),
                 UNCHANGED <<enqueued, result, unsaved, notices>>
          PROVE  Seen
  BY <1>quiet, StageUnchanged, OutcomeUnchanged DEF Lifecycle!lifeVars
<1>same. ASSUME UNCHANGED <<jobVars, slotVars>> PROVE Seen
  <2>1. \A t \in Tasks : Pending(t)' <=> Pending(t)
    BY <1>same DEF jobVars, slotVars, Pending, Queued, Active, Task
  <2> QED BY <2>1, <1>same, <1>quiet DEF jobVars
<1>Aside. CASE Aside
  BY <1>Aside, <1>same, AsideUnchanged
<1>Enqueue. ASSUME NEW t \in Tasks, Enqueue(t) PROVE Seen
  <2>1. \A u \in Tasks : Queued(u)' <=> Queued(u) \/ u = t
    BY <1>Enqueue, <1>f, PublishQueued, RetryRange DEF Enqueue
  <2>2. /\ t \notin enqueued
        /\ enqueued' = enqueued \cup {t}
        /\ UNCHANGED <<at, run, result, unsaved, notices>>
    BY <1>Enqueue DEF Enqueue, slotVars, taskiqVars, sendVars, histVars
  <2>3. \A u \in Tasks : Pending(u)' <=> Pending(u) \/ u = t
    BY <2>1, <2>2 DEF Pending, Active, Task
  <2>4. /\ StageOf(t) = "new" /\ StageOf(t)' = "open"
        /\ \A u \in Tasks \ {t} : StageOf(u)' = StageOf(u)
    BY <2>2, <2>3 DEF StageOf
  <2>5. [u \in Tasks |-> StageOf(u)]'
            = [[u \in Tasks |-> StageOf(u)] EXCEPT ![t] = "open"]
    BY <2>4
  <2>6. Lifecycle!Request(t)
    BY <2>2, <2>4, <2>5, OutcomeUnchanged DEF Lifecycle!Request
  <2> QED BY <2>6 DEF Lifecycle!Next
<1>Body. ASSUME NEW w \in Slots, BodyStep(w) PROVE Seen
  <2>1. Moves(w) /\ at'[w] # "ack" /\ UNCHANGED jobVars
    BY <1>Body, <1>f, BodyMoves
  <2>2. \A t \in Tasks : Pending(t)' <=> Pending(t)
    BY <1>f, <2>1, MovesPending DEF jobVars, Queued
  <2> QED BY <2>1, <2>2, <1>quiet DEF jobVars
<1>Pickup. ASSUME NEW w \in Slots, Pickup(w) PROVE Seen
  <2>1. PICK t \in Tasks :
               /\ Queued(t)
               /\ \A u \in Tasks : Queued(u)' => Queued(u)
               /\ \A u \in Tasks \ {t} : Queued(u) => Queued(u)'
               /\ \A v \in Slots \ {w} : at'[v] = at[v] /\ run'[v] = run[v]
               /\ at[w] = "idle" /\ at'[w] = "check"
               /\ run'[w].task = t /\ run'[w].held
    BY <1>Pickup, <1>f, PickupQueued
  <2>2. UNCHANGED <<enqueued, result, unsaved, notices>>
    BY <1>Pickup DEF Pickup, cogVars, taskiqVars, sendVars, histVars
  <2>3. \A v \in Slots, u \in Tasks :
            Active(v, u)' <=> Active(v, u) \/ (v = w /\ u = t)
    BY <2>1 DEF Active, Task
  <2>4. \A u \in Tasks : Pending(u)' <=> Pending(u)
    BY <2>1, <2>3 DEF Pending
  <2> QED BY <2>2, <2>4, <1>quiet
<1>Notify. ASSUME NEW w \in Slots, PostToChannel(w) \/ DmUser(w) PROVE Seen
  <2>t. PICK t \in Tasks : t = run[w].task
    BY <1>f
  <2>1. /\ Moves(w)
        /\ notices' = [notices EXCEPT ![t] = @ + 1]
        /\ UNCHANGED <<queue, enqueued, result, unsaved>>
    BY <1>Notify, <1>f, <2>t DEF PostToChannel, DmUser, Notify, Goto, Moves, Task,
       cogVars, taskiqVars, histVars
  <2>2. (\A u \in Tasks : Pending(u)' <=> Pending(u)) /\ Pending(t)
    BY <1>f, <2>t, <2>1, MovesPending DEF Queued
  <2>3. StageOf(t) = "open"
    BY <1>f, <2>t, <1>e, <2>2 DEF StageOf
  <2>4. {u \in Tasks : notices[u] > 0}' = {u \in Tasks : notices[u] > 0} \cup {t}
    BY <1>f, <2>t, <2>1
  <2>5. Lifecycle!Tell(t)
    BY <1>f, <2>t, <2>1, <2>2, <2>3, <2>4, StageUnchanged, OutcomeUnchanged
       DEF Lifecycle!Tell
  <2> QED BY <1>f, <2>t, <2>5 DEF Lifecycle!Next
<1>OnError. ASSUME NEW w \in Slots, OnError(w) PROVE Seen
  <2>1. Moves(w) /\ UNCHANGED <<enqueued, result, unsaved, notices>>
    BY <1>OnError, <1>f DEF OnError, Goto, Moves, cogVars, taskiqVars,
       sendVars, histVars
  <2>2. CASE Retried(run[w].exc, run[w].retries)
    <3>1. \A u \in Tasks : Queued(u)' <=> Queued(u) \/ u = run[w].task
      BY <1>OnError, <1>f, <2>2, PublishQueued, RetryRange DEF OnError, Task
    <3> QED BY <1>f, <1>quiet, <2>1, <3>1, MovesPending
  <2>3. CASE ~Retried(run[w].exc, run[w].retries)
    <3>1. queue' = queue
      BY <1>OnError, <1>f, <2>3 DEF OnError
    <3> QED BY <1>f, <1>quiet, <2>1, <3>1, MovesPending DEF Queued
  <2> QED BY <2>2, <2>3
<1>Save. ASSUME NEW w \in Slots, SaveResult(w) \/ SaveResultFails(w) PROVE Seen
  <2>t. PICK t \in Tasks : t = run[w].task
    BY <1>f
  <2>1. /\ Moves(w) /\ at[w] = "save"
        /\ UNCHANGED <<queue, enqueued, notices>>
    BY <1>Save, <1>f, <2>t DEF SaveResult, SaveResultFails, Goto, Moves, cogVars,
       sendVars
  <2>2. (\A u \in Tasks : Pending(u)' <=> Pending(u)) /\ Pending(t)
    BY <1>f, <2>t, <2>1, MovesPending DEF Queued
  <2>3. StageOf(t) = "open"
    BY <1>f, <2>t, <1>e, <2>2 DEF StageOf
  <2>4. CASE SaveResult(w)
    <3>r. PICK r \in {"ok", "error"} :
              r = IF run[w].exc = "none" THEN "ok" ELSE "error"
      OBVIOUS
    <3>1. result' = [result EXCEPT ![t] = r] /\ unsaved' = unsaved
      BY <2>4, <2>t, <3>r DEF SaveResult, Task, histVars
    <3>2. OutcomeOf(t)' = r /\ \A u \in Tasks \ {t} : OutcomeOf(u)' = OutcomeOf(u)
      BY <1>f, <2>t, <3>1 DEF OutcomeOf
    <3>3. [u \in Tasks |-> OutcomeOf(u)]'
              = [[u \in Tasks |-> OutcomeOf(u)] EXCEPT ![t] = r]
      BY <1>f, <2>t, <3>2
    <3>4. r = "ok" => notices[t] > 0
      BY <2>1, <2>t, <3>r DEF NoticeInv, Task
    <3>5. Lifecycle!Report(t, r)
      BY <1>f, <2>t, <2>1, <2>2, <2>3, <3>3, <3>4, StageUnchanged
         DEF Lifecycle!Report
    <3> QED BY <1>f, <2>t, <3>5 DEF Lifecycle!Next, Lifecycle!Outcomes
  <2>5. CASE SaveResultFails(w) /\ OutcomeOf(t) = "none"
    <3>1. result' = result /\ unsaved' = unsaved \cup {t}
      BY <2>5, <2>t DEF SaveResultFails, Task, taskiqVars
    <3>2. /\ OutcomeOf(t)' = "unknown"
          /\ \A u \in Tasks \ {t} : OutcomeOf(u)' = OutcomeOf(u)
      BY <1>f, <2>t, <2>5, <3>1 DEF OutcomeOf
    <3>3. [u \in Tasks |-> OutcomeOf(u)]'
              = [[u \in Tasks |-> OutcomeOf(u)] EXCEPT ![t] = "unknown"]
      BY <1>f, <2>t, <3>2
    <3>4. Lifecycle!Report(t, "unknown")
      BY <1>f, <2>t, <2>1, <2>2, <2>3, <2>5, <3>3, StageUnchanged
         DEF Lifecycle!Report
    <3> QED BY <1>f, <2>t, <3>4 DEF Lifecycle!Next, Lifecycle!Outcomes
  <2>6. CASE SaveResultFails(w) /\ OutcomeOf(t) # "none"
    <3>1. result' = result /\ unsaved' = unsaved \cup {t}
      BY <2>6, <2>t DEF SaveResultFails, Task, taskiqVars
    <3>2. \A u \in Tasks : OutcomeOf(u)' = OutcomeOf(u)
      BY <1>f, <2>t, <2>6, <3>1 DEF OutcomeOf
    <3> QED BY <2>1, <2>2, <3>2, StageUnchanged DEF Lifecycle!lifeVars
  <2> QED BY <1>Save, <2>4, <2>5, <2>6
<1>End. ASSUME NEW w \in Slots, Ack(w) \/ Crash(w) PROVE Seen
  <2>t. PICK t \in Tasks : t = run[w].task
    BY <1>f
  <2>1. /\ \A v \in Slots \ {w} : at'[v] = at[v] /\ run'[v] = run[v]
        /\ at[w] # "idle" /\ at'[w] = "idle"
        /\ UNCHANGED <<enqueued, result, unsaved, notices>>
    BY <1>End, <1>f, <2>t DEF Ack, Crash, Release, Goto, cogVars, taskiqVars,
       sendVars, histVars
  <2>2. /\ \A u \in Tasks : Queued(u)' => Queued(u) \/ u = t
        /\ \A u \in Tasks : Queued(u) => Queued(u)'
    BY <1>End, <1>f, <2>t, RequeueQueued DEF Ack, Crash, Queued
  <2>3. \A u \in Tasks \ {t} : Pending(u)' <=> Pending(u)
    <3>1. \A v \in Slots, u \in Tasks \ {t} : Active(v, u)' <=> Active(v, u)
      BY <2>1, <2>t DEF Active, Task
    <3> QED BY <2>2, <2>t, <3>1 DEF Pending
  <2>4. Pending(t)
    BY <2>1, <2>t DEF Pending, Active, Task
  <2>5. CASE Pending(t)'
    BY <1>quiet, <2>1, <2>3, <2>4, <2>5
  <2>6. CASE ~Pending(t)'
    <3>1. StageOf(t) = "open" /\ StageOf(t)' = "settled"
      BY <1>f, <2>t, <1>e, <2>1, <2>4, <2>6 DEF StageOf
    <3>2. \A u \in Tasks \ {t} : StageOf(u)' = StageOf(u)
      BY <2>1, <2>3 DEF StageOf
    <3>3. [u \in Tasks |-> StageOf(u)]'
              = [[u \in Tasks |-> StageOf(u)] EXCEPT ![t] = "settled"]
      BY <1>f, <2>t, <3>1, <3>2
    <3>4. OutcomeOf(t) # "none"
      <4>1. Recoverable(t)' /\ t \in enqueued
        BY <1>f, <2>t, <1>e, <2>1, <2>4, LiveStep DEF LiveInv
      <4>2. result[t] # "none" \/ t \in unsaved
        BY <2>1, <2>6, <4>1 DEF Recoverable, Working, Pending, Active, Task
      <4> QED BY <4>2 DEF OutcomeOf
    <3>5. Lifecycle!Settle(t)
      BY <1>f, <2>t, <2>1, <3>1, <3>3, <3>4, OutcomeUnchanged DEF Lifecycle!Settle
    <3> QED BY <1>f, <2>t, <3>5 DEF Lifecycle!Next
  <2> QED BY <2>5, <2>6
<1>DropConnection. ASSUME NEW w \in Slots, DropConnection(w) PROVE Seen
  <2>1. /\ \A v \in Slots \ {w} : run'[v] = run[v]
        /\ at[w] # "idle" /\ run[w].held
        /\ run'[w].task = run[w].task
        /\ UNCHANGED <<at, enqueued, result, unsaved, notices>>
    BY <1>DropConnection, <1>f, FieldsKept DEF DropConnection, cogVars,
       taskiqVars, sendVars, histVars
  <2>2. \A u \in Tasks : Queued(u)' <=> Queued(u) \/ u = run[w].task
    BY <1>DropConnection, <1>f, <2>1, RequeueQueued DEF DropConnection
  <2>3. \A v \in Slots, u \in Tasks : Active(v, u)' <=> Active(v, u)
    BY <2>1 DEF Active, Task
  <2>4. Active(w, run[w].task)
    BY <2>1 DEF Active, Task
  <2>5. \A u \in Tasks : Pending(u)' <=> Pending(u)
    BY <2>2, <2>3, <2>4 DEF Pending
  <2> QED BY <1>quiet, <2>1, <2>5
<1>Stutter. CASE UNCHANGED vars
  BY <1>Stutter, <1>same DEF vars, jobVars, slotVars, cogVars, taskiqVars,
     sendVars, histVars
<1> QED
  BY <1>Aside, <1>Enqueue, <1>Body, <1>Pickup, <1>Notify, <1>OnError, <1>Save,
     <1>End, <1>DropConnection, <1>Stutter, StepKinds

\* Queue, worker, faults and commands together are a life cycle: requested
\* once, settled once and not without an outcome, successful only after a
\* notice went out.
THEOREM TaskIsALifecycle == Spec => ImplementsLifecycle
  BY TypeInit, TypeStep, NoticeInit, NoticeStep, LiveInit, LiveStep,
     LifecycleInit, LifecycleStep, PTL
     DEF Spec, ImplementsLifecycle, Lifecycle!Spec
=============================================================================
