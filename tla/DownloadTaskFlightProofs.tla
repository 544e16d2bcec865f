---------------------- MODULE DownloadTaskFlightProofs ----------------------
(***************************************************************************)
(* Proofs about the retries of DownloadTask: they do not multiply a job,   *)
(* hence do not deliver it twice, nor take back an archive whose link is   *)
(* out, as long as RabbitMQ does not redeliver what is still worked on.    *)
(***************************************************************************)
EXTENDS DownloadTaskLifecycleProofs

(* One copy of a job *)

OneCopy(t) ==
    /\ \A m, n \in Retry : queue[t][m] > 0 /\ queue[t][n] > 0 => m = n
    /\ \A n \in Retry : queue[t][n] <= 1
    /\ \A v, w \in Slots : Carries(v, t) /\ Carries(w, t) => v = w
    /\ Queued(t) => \A w \in Slots : ~Carries(w, t)

\* A delivery that is no longer held has been given to somebody else.
FlightInv ==
    /\ \A t \in Tasks \ forked : OneCopy(t)
    /\ \A w \in Slots : at[w] # "idle" /\ ~run[w].held => run[w].task \in forked

LEMMA FlightInit == Init => FlightInv
  BY DEF Init, FlightInv, OneCopy, Queued, Carries, Active

LEMMA OneCopyKept ==
    ASSUME NEW t \in Tasks, OneCopy(t), queue'[t] = queue[t],
           \A v \in Slots : Carries(v, t)' => Carries(v, t)
    PROVE  OneCopy(t)'
  BY DEF OneCopy, Queued

LEMMA MovesCarries ==
    ASSUME NEW w \in Slots, Moves(w)
    PROVE  \A v \in Slots, t \in Tasks : Carries(v, t)' => Carries(v, t)
<1>1. ASSUME NEW v \in Slots \ {w}, NEW t \in Tasks, Carries(v, t)'
      PROVE  Carries(v, t)
  BY <1>1 DEF Moves, Carries, Active, Kicked, Task
<1>2. ASSUME NEW t \in Tasks, Carries(w, t)' PROVE Carries(w, t)
  BY <1>2 DEF Moves, Carries, Active, Kicked, Task
<1> QED BY <1>1, <1>2

LEMMA FlightMoves ==
    ASSUME FlightInv, NEW w \in Slots, Moves(w), queue' = queue,
           forked' = forked
    PROVE  FlightInv'
<1>1. \A t \in Tasks \ forked : OneCopy(t)'
  BY MovesCarries, OneCopyKept DEF FlightInv
<1>2. \A v \in Slots :
          at'[v] # "idle" /\ ~run'[v].held => run'[v].task \in forked
  BY DEF FlightInv, Moves
<1> QED BY <1>1, <1>2 DEF FlightInv

LEMMA FlightStep == TypeInv /\ LiveInv /\ FlightInv /\ [Next]_vars => FlightInv'
<1> SUFFICES ASSUME TypeInv, LiveInv, FlightInv, [Next]_vars PROVE FlightInv'
  OBVIOUS
<1>f. /\ TypeOK
      /\ at \in [Slots -> Steps]
      /\ run \in [Slots -> Executions]
      /\ queue \in [Tasks -> [Retry -> Nat]]
      /\ \A w \in Slots : run[w].task \in Tasks /\ run[w].retries \in Retry
  BY ExecutionFields DEF TypeInv, TypeOK
<1>same. ASSUME UNCHANGED <<jobVars, slotVars>> PROVE FlightInv'
  <2>1. \A v \in Slots, t \in Tasks : Carries(v, t)' <=> Carries(v, t)
    BY <1>same DEF slotVars, Carries, Active, Kicked, Task
  <2>2. \A t \in Tasks \ forked : OneCopy(t)'
    BY <1>same, <2>1, OneCopyKept DEF FlightInv, jobVars
  <2> QED BY <1>same, <2>2 DEF FlightInv, jobVars, slotVars
<1>Aside. CASE Aside
  BY <1>Aside, <1>same, AsideUnchanged
<1>Enqueue. ASSUME NEW t \in Tasks, Enqueue(t) PROVE FlightInv'
  <2>1. /\ ~Queued(t)
        /\ \A w \in Slots : ~Carries(w, t)
    BY <1>Enqueue DEF Enqueue, LiveInv, Carries, Active, Task
  <2>2. /\ UNCHANGED <<at, run, forked>>
        /\ \A u \in Tasks \ {t} : queue'[u] = queue[u]
        /\ \A m \in Retry : queue'[t][m] = IF m = 0 THEN queue[t][0] + 1
                                           ELSE queue[t][m]
    BY <1>Enqueue, <1>f, RetryRange DEF Enqueue, Publish, slotVars, histVars
  <2>3. \A v \in Slots, u \in Tasks : Carries(v, u)' <=> Carries(v, u)
    BY <2>2 DEF Carries, Active, Kicked, Task
  <2>4. \A u \in Tasks \ (forked \cup {t}) : OneCopy(u)'
    BY <2>2, <2>3, OneCopyKept DEF FlightInv
  <2>5. \A m \in Retry : queue[t][m] = 0
    BY <1>f, <2>1 DEF Queued
  <2>6. OneCopy(t)'
    BY <2>1, <2>2, <2>3, <2>5 DEF OneCopy
  <2> QED BY <2>2, <2>4, <2>6 DEF FlightInv
<1>Body. ASSUME NEW w \in Slots, BodyStep(w) PROVE FlightInv'
  BY <1>Body, <1>f, BodyMoves, FlightMoves DEF jobVars
<1>Pickup. ASSUME NEW w \in Slots, Pickup(w) PROVE FlightInv'
  <2>1. PICK t \in Tasks, n \in Retry :
            /\ queue[t][n] > 0
            /\ queue' = [queue EXCEPT ![t][n] = @ - 1]
            /\ run' = [run EXCEPT ![w] = Take(t, n)]
    BY <1>Pickup DEF Pickup
  <2>2. /\ \A v \in Slots \ {w} : at'[v] = at[v] /\ run'[v] = run[v]
        /\ at[w] = "idle" /\ at'[w] = "check"
        /\ run'[w].task = t /\ run'[w].held
        /\ forked' = forked
    BY <1>Pickup, <1>f, <2>1 DEF Pickup, Goto, Take, histVars
  <2>3. /\ \A u \in Tasks \ {t} : queue'[u] = queue[u]
        /\ \A m \in Retry : queue'[t][m] = IF m = n THEN queue[t][n] - 1
                                           ELSE queue[t][m]
    BY <1>f, <2>1
  <2>4. \A v \in Slots, u \in Tasks :
            Carries(v, u)' => Carries(v, u) \/ (v = w /\ u = t)
    BY <2>2 DEF Carries, Active, Kicked, Task
  <2>5. \A u \in Tasks \ (forked \cup {t}) : OneCopy(u)'
    BY <2>3, <2>4, OneCopyKept DEF FlightInv
  <2>6. ASSUME t \notin forked PROVE OneCopy(t)'
    <3>1. OneCopy(t) /\ Queued(t)
      BY <2>1, <2>6 DEF FlightInv, Queued
    <3>2. \A m \in Retry : queue'[t][m] = 0
      BY <1>f, <2>1, <2>3, <3>1 DEF OneCopy
    <3>3. \A v \in Slots : Carries(v, t)' => v = w
      BY <2>4, <3>1 DEF OneCopy
    <3> QED BY <3>2, <3>3 DEF OneCopy, Queued
  <2> QED BY <2>2, <2>5, <2>6 DEF FlightInv
<1>Notify. ASSUME NEW w \in Slots, PostToChannel(w) \/ DmUser(w) PROVE FlightInv'
  <2>1. Moves(w) /\ UNCHANGED <<queue, forked>>
    BY <1>Notify, <1>f DEF PostToChannel, DmUser, Notify, Goto, Moves, histVars
  <2> QED BY <2>1, FlightMoves
<1>OnError. ASSUME NEW w \in Slots, OnError(w) PROVE FlightInv'
  <2>1. Moves(w) /\ UNCHANGED <<run, forked>>
    BY <1>OnError, <1>f DEF OnError, Goto, Moves, histVars
  <2>2. CASE Retried(run[w].exc, run[w].retries)
    <3>t. PICK t \in Tasks, n \in Retry :
              t = run[w].task /\ n = run[w].retries + 1
      BY <1>f, <2>2, RetryRange
    <3>1. /\ \A u \in Tasks \ {t} : queue'[u] = queue[u]
          /\ \A m \in Retry : queue'[t][m] = IF m = n THEN queue[t][n] + 1
                                             ELSE queue[t][m]
      BY <1>OnError, <1>f, <2>2, <3>t DEF OnError, Publish, Task
    <3>2. Carries(w, t) /\ ~Carries(w, t)'
      BY <1>OnError, <1>f, <2>1, <2>2, <3>t
         DEF OnError, Goto, Carries, Active, Kicked, Task
    <3>3. \A u \in Tasks \ (forked \cup {t}) : OneCopy(u)'
      BY <2>1, <3>1, MovesCarries, OneCopyKept DEF FlightInv
    <3>4. ASSUME t \notin forked PROVE OneCopy(t)'
      <4>1. \A v \in Slots : ~Carries(v, t)'
        BY <2>1, <3>2, <3>4, MovesCarries DEF FlightInv, OneCopy
      <4>2. \A m \in Retry : queue[t][m] = 0
        BY <1>f, <3>2, <3>4 DEF FlightInv, OneCopy, Queued
      <4> QED BY <3>1, <4>1, <4>2 DEF OneCopy
    <3> QED BY <2>1, <3>3, <3>4 DEF FlightInv, Moves
  <2>3. CASE ~Retried(run[w].exc, run[w].retries)
    BY <1>OnError, <2>1, <2>3, FlightMoves DEF OnError
  <2> QED BY <2>2, <2>3
<1>Save. ASSUME NEW w \in Slots, SaveResult(w) \/ SaveResultFails(w)
         PROVE FlightInv'
  <2>1. Moves(w) /\ UNCHANGED <<queue, forked>>
    BY <1>Save, <1>f DEF SaveResult, SaveResultFails, Goto, Moves, histVars
  <2> QED BY <2>1, FlightMoves
<1>Ack. ASSUME NEW w \in Slots, Ack(w) PROVE FlightInv'
  <2>1. /\ \A v \in Slots \ {w} : at'[v] = at[v] /\ run'[v] = run[v]
        /\ at'[w] = "idle"
        /\ UNCHANGED <<queue, forked>>
    BY <1>Ack, <1>f DEF Ack, Release, Goto, histVars
  <2>2. \A v \in Slots, t \in Tasks : Carries(v, t)' => Carries(v, t)
    BY <2>1 DEF Carries, Active, Kicked, Task
  <2> QED BY <2>1, <2>2, OneCopyKept DEF FlightInv
<1>Crash. ASSUME NEW w \in Slots, Crash(w) PROVE FlightInv'
  <2>t. PICK t \in Tasks, n \in Retry : t = run[w].task /\ n = run[w].retries
    BY <1>f
  <2>1. /\ \A v \in Slots \ {w} : at'[v] = at[v] /\ run'[v] = run[v]
        /\ at[w] # "idle" /\ at'[w] = "idle"
        /\ forked' = IF Kicked(w) /\ run[w].held THEN forked \cup {t} ELSE forked
    BY <1>Crash, <1>f, <2>t DEF Crash, Release, Goto, Task
  <2>2. /\ \A u \in Tasks \ {t} : queue'[u] = queue[u]
        /\ run[w].held => \A m \in Retry :
               queue'[t][m] = IF m = n THEN queue[t][n] + 1 ELSE queue[t][m]
    BY <1>Crash, <1>f, <2>t DEF Crash, Requeue, Task
  <2>3. \A v \in Slots, u \in Tasks : Carries(v, u)' => Carries(v, u) /\ v # w
    BY <2>1 DEF Carries, Active, Kicked, Task
  <2>4. \A u \in Tasks \ (forked \cup {t}) : OneCopy(u)'
    BY <2>2, <2>3, OneCopyKept DEF FlightInv
  <2>5. ASSUME t \notin forked' PROVE OneCopy(t)'
    <3>1. t \notin forked /\ run[w].held /\ ~Kicked(w)
      BY <2>1, <2>5, <2>t DEF FlightInv
    <3>2. OneCopy(t) /\ Carries(w, t)
      BY <2>1, <2>t, <3>1 DEF FlightInv, Carries, Active, Task
    <3>3. \A v \in Slots : ~Carries(v, t)'
      BY <2>3, <3>2 DEF OneCopy
    <3>4. \A m \in Retry : queue[t][m] = 0
      BY <1>f, <3>2 DEF OneCopy, Queued
    <3> QED BY <2>2, <3>1, <3>3, <3>4 DEF OneCopy
  <2> QED BY <2>1, <2>4, <2>5 DEF FlightInv
<1>DropConnection. ASSUME NEW w \in Slots, DropConnection(w) PROVE FlightInv'
  <2>t. PICK t \in Tasks : t = run[w].task
    BY <1>f
  <2>1. /\ \A v \in Slots \ {w} : run'[v] = run[v]
        /\ run'[w].task = t /\ run'[w] = [run[w] EXCEPT !.held = FALSE]
        /\ at' = at
        /\ forked' = forked \cup {t}
    BY <1>DropConnection, <1>f, <2>t, FieldsKept DEF DropConnection, Task
  <2>2. \A u \in Tasks \ {t} : queue'[u] = queue[u]
    BY <1>DropConnection, <1>f, <2>t DEF DropConnection, Requeue, Task
  <2>3. \A v \in Slots, u \in Tasks \ {t} : Carries(v, u)' => Carries(v, u)
    BY <2>1, <2>t DEF Carries, Active, Kicked, Task
  <2>4. \A u \in Tasks \ (forked \cup {t}) : OneCopy(u)'
    BY <2>2, <2>3, OneCopyKept DEF FlightInv
  <2> QED BY <2>1, <2>4 DEF FlightInv
<1>Stutter. CASE UNCHANGED vars
  BY <1>Stutter, <1>same DEF vars, jobVars, slotVars, cogVars, taskiqVars,
     sendVars, histVars
<1> QED
  BY <1>Aside, <1>Enqueue, <1>Body, <1>Pickup, <1>Notify, <1>OnError, <1>Save,
     <1>Ack, <1>Crash, <1>DropConnection, <1>Stutter, StepKinds

\* Retrying under one task_id gives one execution at a time: the retry is
\* published by the execution that ends, and a message put back replaces one
\* that died.
THEOREM RetriesFlyAlone == Spec => []SingleFlight
<1>1. FlightInv => SingleFlight
  BY DEF FlightInv, OneCopy, SingleFlight
<1> QED BY <1>1, TypeInit, TypeStep, LiveInit, LiveStep, FlightInit, FlightStep,
           PTL DEF Spec
-----------------------------------------------------------------------------
(* No second notice while the marker lives *)

\* is_delivered is read one await before the send: what it said still holds.
MarkInv ==
    \A w \in Slots :
        at[w] = "send" /\ run[w].task \notin forked
            => delivered[run[w].task] = 0

LEMMA MarkInit == Init => MarkInv
  BY DEF Init, MarkInv

\* Of two executions of one task, at most one is before its end.
LEMMA SingleCarrier ==
    ASSUME TypeOK, FlightInv, NEW v \in Slots, NEW w \in Slots,
           at[v] \notin {"idle", "ack"}, at[w] \notin {"idle", "ack"},
           run[v].task = run[w].task, run[v].task \notin forked
    PROVE  v = w
<1>1. run[v].task \in Tasks
  BY ExecutionFields DEF TypeOK
<1>2. Carries(v, run[v].task) /\ Carries(w, run[v].task)
  BY DEF Carries, Active, Kicked, Task
<1> QED BY <1>1, <1>2 DEF FlightInv, OneCopy

\* A step of a slot that neither marks nor arrives at the send.
LEMMA MarkKept ==
    ASSUME MarkInv, NEW w \in Slots, at'[w] # "send",
           \A v \in Slots \ {w} : at'[v] = at[v] /\ run'[v] = run[v],
           delivered' = delivered, forked \subseteq forked'
    PROVE  MarkInv'
  BY DEF MarkInv

LEMMA MarkStep == TypeInv /\ FlightInv /\ MarkInv /\ [Next]_vars => MarkInv'
<1> SUFFICES ASSUME TypeInv, FlightInv, MarkInv, [Next]_vars PROVE MarkInv'
  OBVIOUS
<1> USE DEF Goto, Task, keyVars, taskiqVars, histVars
<1>f. /\ TypeOK
      /\ at \in [Slots -> Steps]
      /\ run \in [Slots -> Executions]
      /\ delivered \in [Tasks -> Nat]
      /\ \A w \in Slots : run[w].task \in Tasks
  BY ExecutionFields DEF TypeInv, TypeOK
<1>same. ASSUME UNCHANGED <<jobVars, slotVars, delivered>> PROVE MarkInv'
  BY <1>same DEF MarkInv, jobVars, slotVars
<1>Aside. CASE Aside
  <2>1. CASE Tick
    <3>1. \A t \in Tasks : delivered[t] = 0 => delivered'[t] = 0
      BY <1>f, <2>1 DEF Tick
    <3>2. UNCHANGED <<at, run, forked>>
      BY <1>Aside, AsideUnchanged DEF jobVars, slotVars
    <3> QED BY <1>f, <3>1, <3>2 DEF MarkInv
  <2>2. CASE ~Tick
    BY <1>Aside, <1>same, <2>2, AsideUnchanged
       DEF Aside, RecordJob, RecordJobFails, ResolveJob, Cancel
  <2> QED BY <2>1, <2>2
<1>Enqueue. ASSUME NEW t \in Tasks, Enqueue(t) PROVE MarkInv'
  BY <1>Enqueue DEF Enqueue, MarkInv, slotVars
<1>Body. ASSUME NEW w \in Slots, BodyStep(w) PROVE MarkInv'
  <2>1. Moves(w) /\ forked' = forked
    BY <1>Body, <1>f, BodyMoves DEF jobVars
  <2>2. CASE CheckDelivered(w)
    BY <1>f, <2>1, <2>2 DEF CheckDelivered, AlreadyDelivered, Moves, MarkInv
  <2>3. CASE ResultsChannelUnusable(w)
    BY <1>f, <2>1, <2>3 DEF ResultsChannelUnusable, Moves, MarkInv
  <2>4. CASE MarkDelivered(w)
    <3>1. \A u \in Tasks \ {run[w].task} : delivered'[u] = delivered[u]
      BY <1>f, <2>4 DEF MarkDelivered
    <3>2. at'[w] # "send"
      BY <1>f, <2>4 DEF MarkDelivered, Raise, AfterRaise
    <3>3. ASSUME NEW v \in Slots \ {w}, at[v] = "send",
                 run[v].task \notin forked
          PROVE  run[v].task # run[w].task
      BY <1>f, <2>1, <3>3, SingleCarrier DEF Moves
    <3> QED BY <1>f, <2>1, <3>1, <3>2, <3>3 DEF Moves, MarkInv
  <2>5. CASE ~(CheckDelivered(w) \/ ResultsChannelUnusable(w) \/ MarkDelivered(w))
    <3>1. delivered' = delivered
      BY <1>Body, <2>5 DEF BodyStep, CheckCancelled, ReportPickedUp,
         ReadSettings, LookupArchiveUrl, FetchChannel, OnProgress, Upload,
         NothingToArchive, Sign, DeleteBlob, DeleteBlobFails, CacheArchiveUrl,
         ReportDone, ForgetJob, ForgetJobFails, Fail, Interrupt
    <3>2. at'[w] # "send"
      BY <1>Body, <1>f, <2>5 DEF BodyStep, CheckCancelled, ReportPickedUp,
         ReadSettings, LookupArchiveUrl, FetchChannel, OnProgress, Upload,
         NothingToArchive, Sign, DeleteBlob, DeleteBlobFails, CacheArchiveUrl,
         ReportDone, ForgetJob, ForgetJobFails, Fail, Interrupt, Raise,
         AfterRaise, AfterCleanup, slotVars
    <3> QED BY <2>1, <3>1, <3>2, MarkKept DEF Moves
  <2> QED BY <2>2, <2>3, <2>4, <2>5
<1>Other. ASSUME NEW w \in Slots,
                 \/ Pickup(w) \/ PostToChannel(w) \/ DmUser(w) \/ OnError(w)
                 \/ SaveResult(w) \/ SaveResultFails(w) \/ Ack(w) \/ Crash(w)
          PROVE  MarkInv'
  <2>1. /\ at'[w] # "send"
        /\ \A v \in Slots \ {w} : at'[v] = at[v] /\ run'[v] = run[v]
        /\ delivered' = delivered /\ forked \subseteq forked'
    BY <1>Other, <1>f DEF Pickup, PostToChannel, DmUser, Notify, OnError,
       SaveResult, SaveResultFails, Ack, Crash, Release
  <2> QED BY <2>1, MarkKept
<1>DropConnection. ASSUME NEW w \in Slots, DropConnection(w) PROVE MarkInv'
  <2>1. /\ \A v \in Slots : run'[v].task = run[v].task
        /\ UNCHANGED <<at, delivered>> /\ forked \subseteq forked'
    BY <1>DropConnection, <1>f, FieldsKept DEF DropConnection
  <2> QED BY <2>1 DEF MarkInv
<1>Stutter. CASE UNCHANGED vars
  BY <1>Stutter, <1>same DEF vars, jobVars, slotVars, cogVars, sendVars
<1> QED
  BY <1>Aside, <1>Enqueue, <1>Body, <1>Other, <1>DropConnection, <1>Stutter,
     StepKinds

LEMMA ResendStep ==
    TypeInv /\ MarkInv /\ [Next]_vars
        => \A t \in Tasks \ forked : notices'[t] > notices[t] => delivered[t] = 0
<1> SUFFICES ASSUME TypeInv, MarkInv, [Next]_vars, NEW t \in Tasks \ forked,
                    notices'[t] > notices[t]
             PROVE  delivered[t] = 0
  OBVIOUS
<1>f. /\ TypeOK
      /\ notices \in [Tasks -> Nat]
      /\ \A w \in Slots : run[w].task \in Tasks
  BY ExecutionFields DEF TypeInv, TypeOK
<1>1. notices' # notices
  BY <1>f
<1>2. PICK w \in Slots : PostToChannel(w) \/ DmUser(w)
  <2>1. ASSUME NEW w \in Slots, BodyStep(w) PROVE FALSE
    BY <1>f, <1>1, <2>1, BodyMoves DEF jobVars
  <2>2. CASE Aside
    BY <1>1, <2>2, AsideUnchanged DEF jobVars
  <2>3. ASSUME NEW w \in Slots,
               \/ Pickup(w) \/ OnError(w) \/ SaveResult(w)
               \/ SaveResultFails(w) \/ Ack(w) \/ Crash(w) \/ DropConnection(w)
        PROVE  FALSE
    BY <1>1, <2>3 DEF Pickup, OnError, SaveResult, SaveResultFails, Ack, Crash,
       DropConnection, sendVars
  <2>4. ASSUME NEW u \in Tasks, Enqueue(u) PROVE FALSE
    BY <1>1, <2>4 DEF Enqueue, sendVars
  <2>5. CASE UNCHANGED vars
    BY <1>1, <2>5 DEF vars, sendVars
  <2> QED BY <2>1, <2>2, <2>3, <2>4, <2>5, StepKinds
<1>3. at[w] = "send" /\ t = run[w].task
  BY <1>f, <1>2 DEF PostToChannel, DmUser, Notify, Task
<1> QED BY <1>3 DEF MarkInv

\* What an earlier attempt marked as delivered, a retry does not send again.
THEOREM MarkerIsHeeded == Spec => MarkedNotResent
  BY TypeInit, TypeStep, LiveInit, LiveStep, FlightInit, FlightStep, MarkInit,
     MarkStep, ResendStep, PTL DEF Spec, MarkedNotResent
-----------------------------------------------------------------------------
(* Links that were sent stay alive *)

\* The archive behind a link that has not expired is there, and the link in
\* the cache, where the next attempt finds it instead of uploading again.
LinkOf(t) ==
    /\ archiveUrl[t].sas > now
           => t \in blobs /\ archiveUrl[t].exp >= archiveUrl[t].sas
    /\ linkUntil[t] > now => t \in blobs /\ archiveUrl[t].exp >= linkUntil[t]

\* An execution that uploads, or may delete, found no link; one that delivers
\* has a link of which the same holds.
LinkIn(w, t) ==
    /\ at[w] \in {"fetch", "upload", "sign", "cleanup", "cache"}
           => linkUntil[t] <= now /\ archiveUrl[t].sas <= now
    /\ at[w] = "sign" => t \in blobs
    /\ at[w] = "cleanup" /\ run[w].exc = "none" => run[w].url.sas = 0
    /\ at[w] = "cache" =>
           /\ run[w].url.sas > now => t \in blobs
           /\ run[w].url.sas = 0 \/ run[w].url.sas <= now + run[w].ttl
    /\ at[w] \in {"is_delivered", "send"} =>
           /\ run[w].url.sas > now => t \in blobs
           /\ run[w].url.sas > now => archiveUrl[t].exp >= run[w].url.sas

LinkInv ==
    /\ \A t \in Tasks \ forked : LinkOf(t)
    /\ \A w \in Slots :
           at[w] \notin {"idle", "ack"} /\ run[w].task \notin forked
               => LinkIn(w, run[w].task)

LEMMA LinkInit == Init => LinkInv
<1>1. ASSUME Init, NEW t \in Tasks PROVE LinkOf(t)
  BY <1>1 DEF Init, LinkOf, NoUrl
<1>2. ASSUME Init, NEW w \in Slots PROVE at[w] = "idle"
  BY <1>2 DEF Init
<1> QED BY <1>1, <1>2 DEF LinkInv

\* A step of an execution touches what belongs to its own task only.
LEMMA LinkFrame ==
    ASSUME TypeOK, FlightInv, LinkInv, NEW w \in Slots, NEW t \in Tasks,
           Moves(w), run[w].task = t, forked' = forked, now' = now,
           \A u \in Tasks \ {t} : /\ archiveUrl'[u] = archiveUrl[u]
                                  /\ linkUntil'[u] = linkUntil[u]
                                  /\ u \in blobs <=> u \in blobs',
           t \notin forked /\ LinkOf(t) /\ LinkIn(w, t)
               => LinkOf(t)' /\ LinkIn(w, t)'
    PROVE  LinkInv'
<1>1. ASSUME t \notin forked PROVE LinkOf(t)' /\ LinkIn(w, t)'
  <2>1. LinkOf(t)
    BY <1>1 DEF LinkInv
  <2>2. LinkIn(w, t)
    BY <1>1 DEF LinkInv, Moves
  <2> QED BY <1>1, <2>1, <2>2
<1>2. ASSUME NEW u \in Tasks \ {t}, u \notin forked PROVE LinkOf(u)'
  BY <1>2 DEF LinkInv, LinkOf
<1>3. ASSUME NEW v \in Slots \ {w}, at'[v] \notin {"idle", "ack"},
             run'[v].task \notin forked
      PROVE  LinkIn(v, run[v].task)'
  <2>1. at'[v] = at[v] /\ run'[v] = run[v]
    BY DEF Moves
  <2>2. run[v].task \in Tasks \ {t}
    BY <1>3, <2>1, SingleCarrier, ExecutionFields DEF Moves, TypeOK
  <2>3. PICK u \in Tasks \ {t} : u = run[v].task
    BY <2>2
  <2>4. LinkIn(v, u)
    BY <1>3, <2>1, <2>3 DEF LinkInv
  <2>5. LinkIn(v, u)'
    BY <2>1, <2>4 DEF LinkIn
  <2> QED BY <2>1, <2>3, <2>5 DEF LinkIn
<1>4. run'[w].task = t /\ \A v \in Slots \ {w} : run'[v] = run[v]
  BY DEF Moves
<1> QED BY <1>1, <1>2, <1>3, <1>4 DEF LinkInv, LinkIn

LEMMA LinkTick == TypeInv /\ LinkInv /\ Tick => LinkInv'
<1> SUFFICES ASSUME TypeInv, LinkInv, Tick PROVE LinkInv'
  OBVIOUS
<1>f. /\ at \in [Slots -> Steps]
      /\ run \in [Slots -> Executions]
      /\ archiveUrl \in [Tasks -> Url]
      /\ linkUntil \in [Tasks -> Int]
      /\ now \in Nat
      /\ \A w \in Slots : /\ run[w].task \in Tasks /\ run[w].url.sas \in Int
                          /\ run[w].ttl \in Int
      /\ \A t \in Tasks : archiveUrl[t].sas \in Int /\ archiveUrl[t].exp \in Nat
  BY ExecutionFields, UrlTypes, TaskAssumption DEF TypeInv, TypeOK
<1>1. /\ now' = now + 1
      /\ UNCHANGED <<at, run, blobs, linkUntil, forked>>
  BY DEF Tick, slotVars, sendVars, histVars
<1>2. \A t \in Tasks :
          \/ archiveUrl'[t] = archiveUrl[t]
          \/ /\ archiveUrl[t].exp <= now + 1
             /\ archiveUrl'[t].sas = 0 /\ archiveUrl'[t].exp = 0
  BY <1>f DEF Tick, NoUrl
<1>3. ASSUME NEW t \in Tasks, LinkOf(t) PROVE LinkOf(t)'
  BY <1>f, <1>1, <1>2, <1>3 DEF LinkOf
<1>4. ASSUME NEW w \in Slots, NEW t \in Tasks, LinkIn(w, t) PROVE LinkIn(w, t)'
  BY <1>f, <1>1, <1>2, <1>4 DEF LinkIn
<1>5. ASSUME NEW w \in Slots, at'[w] \notin {"idle", "ack"},
             run'[w].task \notin forked'
      PROVE  LinkIn(w, run[w].task)'
  <2>1. PICK t \in Tasks : t = run[w].task
    BY <1>f
  <2>2. LinkIn(w, t)'
    BY <1>1, <1>4, <1>5, <2>1 DEF LinkInv
  <2> QED BY <1>1, <2>1, <2>2 DEF LinkIn
<1>6. \A t \in Tasks \ forked' : LinkOf(t)'
  BY <1>1, <1>3 DEF LinkInv
<1> QED BY <1>1, <1>5, <1>6 DEF LinkInv, LinkIn

LEMMA LinkBody ==
    ASSUME TypeInv, FlightInv, LinkInv, NEW w \in Slots, BodyStep(w)
    PROVE  LinkInv'
<1> USE DEF Goto, Task, keyVars, sendVars, histVars
<1>t. PICK t \in Tasks : t = run[w].task
  BY ExecutionFields DEF TypeInv, TypeOK
<1>f. /\ TypeOK
      /\ at \in [Slots -> Steps]
      /\ run \in [Slots -> Executions]
      /\ archiveUrl \in [Tasks -> Url]
      /\ linkUntil[t] \in Int
      /\ now \in Nat
      /\ run[w] \in Executions /\ run[w].url \in Url /\ run[w].ttl \in Int
      /\ run[w].url.sas \in Int
      /\ archiveUrl[t].sas \in Int /\ archiveUrl[t].exp \in Nat
  BY ExecutionFields, UrlTypes, TaskAssumption DEF TypeInv, TypeOK
<1>m. Moves(w) /\ forked' = forked
  BY <1>f, BodyMoves DEF jobVars
<1>c. /\ now' = now /\ linkUntil' = linkUntil
      /\ \A u \in Tasks \ {t} : /\ archiveUrl'[u] = archiveUrl[u]
                                /\ u \in blobs <=> u \in blobs'
  BY <1>f, <1>t DEF BodyStep, CheckCancelled, ReportPickedUp, ReadSettings,
     LookupArchiveUrl, FetchChannel, OnProgress, Upload, NothingToArchive, Sign,
     DeleteBlob, DeleteBlobFails, CacheArchiveUrl, CheckDelivered,
     ResultsChannelUnusable, MarkDelivered, ReportDone, ForgetJob,
     ForgetJobFails, Fail, Interrupt
<1>g. ASSUME LinkOf(t), LinkIn(w, t) PROVE LinkOf(t)' /\ LinkIn(w, t)'
  <2> DEFINE Goal == LinkOf(t)' /\ LinkIn(w, t)'
  <2>h. LinkOf(t) /\ LinkIn(w, t)
    BY <1>g
  <2>same. ASSUME UNCHANGED <<archiveUrl, blobs>> PROVE LinkOf(t)'
    BY <1>c, <2>h, <2>same DEF LinkOf
  <2>past. ASSUME UNCHANGED <<archiveUrl, blobs>>,
                  at'[w] \notin {"fetch", "upload", "sign", "cleanup", "cache",
                                 "is_delivered", "send"}
           PROVE  Goal
    BY <2>past, <2>same DEF LinkIn
  <2>Raise. ASSUME NEW exc \in {"error", "cancel"}, Raise(w, exc),
                   UNCHANGED <<archiveUrl, blobs>>
            PROVE  Goal
    <3>1. Raised(w, exc)
      BY <1>f, <2>Raise, RaiseEffect
    <3> QED BY <1>c, <2>h, <2>Raise, <2>same, <3>1 DEF Raised, LinkIn, Guarded
  <2>Vacuous. CASE \/ ReportPickedUp(w) \/ ReadSettings(w) \/ ReportDone(w)
                   \/ ForgetJob(w) \/ ForgetJobFails(w)
    BY <1>f, <2>Vacuous, <2>past DEF ReportPickedUp, ReadSettings, ReportDone,
       ForgetJob, ForgetJobFails
  <2>CheckCancelled. CASE CheckCancelled(w)
    <3>1. CASE run[w].task \in cancelled
      BY <2>CheckCancelled, <2>Raise, <3>1 DEF CheckCancelled
    <3>2. CASE run[w].task \notin cancelled
      BY <1>f, <2>CheckCancelled, <2>past, <3>2 DEF CheckCancelled
    <3> QED BY <3>1, <3>2
  <2>LookupArchiveUrl. CASE LookupArchiveUrl(w)
    <3>1. /\ at'[w] = IF archiveUrl[t] = NoUrl THEN "fetch" ELSE "is_delivered"
          /\ run'[w].url = archiveUrl[t]
          /\ UNCHANGED <<archiveUrl, blobs>>
      BY <1>f, <1>t, <2>LookupArchiveUrl DEF LookupArchiveUrl, Executions
    <3>2. archiveUrl[t] = NoUrl
              => linkUntil[t] <= now /\ archiveUrl[t].sas <= now
      BY <1>f, <2>h DEF NoUrl, LinkOf
    <3> QED BY <1>c, <1>f, <2>h, <2>same, <3>1, <3>2 DEF LinkIn, LinkOf
  <2>FetchChannel. CASE FetchChannel(w)
    BY <1>c, <1>f, <2>h, <2>same, <2>FetchChannel DEF FetchChannel, LinkIn
  <2>OnProgress. CASE OnProgress(w)
    BY <1>c, <1>f, <2>h, <2>same, <2>OnProgress
       DEF OnProgress, LinkIn, slotVars
  <2>Upload. CASE Upload(w)
    BY <1>c, <1>f, <1>t, <2>h, <2>Upload DEF Upload, LinkIn, LinkOf
  <2>NothingToArchive. CASE NothingToArchive(w)
    <3>1. /\ at'[w] = "cleanup" /\ run'[w].url.sas = 0
          /\ UNCHANGED <<archiveUrl, blobs>>
      BY <1>f, <2>NothingToArchive
         DEF NothingToArchive, _EMPTY_SENTINEL, Executions
    <3> QED BY <1>c, <2>h, <2>same, <2>NothingToArchive, <3>1
            DEF NothingToArchive, LinkIn
  <2>Sign. CASE Sign(w)
    <3>1. /\ at'[w] = "cache"
          /\ run'[w].url.sas = now + run[w].ttl
          /\ run'[w].ttl = run[w].ttl
          /\ UNCHANGED <<archiveUrl, blobs>>
      BY <1>f, <2>Sign DEF Sign, Link, Executions
    <3> QED BY <1>c, <1>f, <2>h, <2>same, <2>Sign, <3>1 DEF Sign, LinkIn
  <2>Delete. CASE DeleteBlob(w) \/ DeleteBlobFails(w)
    <3>1. /\ at[w] = "cleanup" /\ run' = run /\ archiveUrl' = archiveUrl
          /\ at'[w] = IF run[w].exc = "none" THEN "cache" ELSE "on_error"
      BY <1>f, <2>Delete DEF DeleteBlob, DeleteBlobFails, AfterCleanup
    <3> QED BY <1>c, <1>f, <2>h, <3>1 DEF LinkIn, LinkOf
  <2>CacheArchiveUrl. CASE CacheArchiveUrl(w)
    <3>1. CASE run[w].ttl > 0
      <4>1. /\ at[w] = "cache" /\ at'[w] = "is_delivered"
            /\ run' = run /\ blobs' = blobs
            /\ archiveUrl'[t] = [run[w].url EXCEPT !.exp = now + run[w].ttl]
        BY <1>f, <1>t, <2>CacheArchiveUrl, <3>1 DEF CacheArchiveUrl
      <4>2. /\ archiveUrl'[t].sas = run[w].url.sas
            /\ archiveUrl'[t].exp = now + run[w].ttl
        BY <1>f, <4>1 DEF Url
      <4> QED BY <1>c, <1>f, <2>h, <3>1, <4>1, <4>2 DEF LinkIn, LinkOf
    <3>2. CASE ~(run[w].ttl > 0)
      BY <2>CacheArchiveUrl, <2>Raise, <3>2 DEF CacheArchiveUrl
    <3> QED BY <3>1, <3>2
  <2>CheckDelivered. CASE CheckDelivered(w)
    BY <1>c, <1>f, <2>h, <2>same, <2>CheckDelivered DEF CheckDelivered, LinkIn
  <2>ResultsChannelUnusable. CASE ResultsChannelUnusable(w)
    <3>1. /\ at' = at /\ run'[w].url = run[w].url
          /\ UNCHANGED <<archiveUrl, blobs>>
      BY <1>f, <2>ResultsChannelUnusable DEF ResultsChannelUnusable, Executions
    <3> QED BY <1>c, <2>h, <2>same, <2>ResultsChannelUnusable, <3>1
            DEF ResultsChannelUnusable, LinkIn
  <2>MarkDelivered. CASE MarkDelivered(w)
    <3>1. CASE run[w].ttl > 0
      BY <1>f, <2>MarkDelivered, <2>past, <3>1 DEF MarkDelivered
    <3>2. CASE ~(run[w].ttl > 0)
      BY <2>MarkDelivered, <2>Raise, <3>2 DEF MarkDelivered
    <3> QED BY <3>1, <3>2
  <2>Fail. CASE Fail(w) \/ Interrupt(w)
    BY <2>Fail, <2>Raise DEF Fail, Interrupt
  <2> QED
    BY <2>Vacuous, <2>CheckCancelled, <2>LookupArchiveUrl, <2>FetchChannel,
       <2>OnProgress, <2>Upload, <2>NothingToArchive, <2>Sign, <2>Delete,
       <2>CacheArchiveUrl, <2>CheckDelivered, <2>ResultsChannelUnusable,
       <2>MarkDelivered, <2>Fail DEF BodyStep
<1> QED BY <1>t, <1>f, <1>m, <1>c, <1>g, LinkFrame

LEMMA LinkStep == TypeInv /\ FlightInv /\ LinkInv /\ [Next]_vars => LinkInv'
<1> SUFFICES ASSUME TypeInv, FlightInv, LinkInv, [Next]_vars PROVE LinkInv'
  OBVIOUS
<1> USE DEF Goto, Task, keyVars, histVars
<1>f. /\ TypeOK
      /\ at \in [Slots -> Steps]
      /\ run \in [Slots -> Executions]
      /\ linkUntil \in [Tasks -> Int]
      /\ \A w \in Slots : run[w].task \in Tasks /\ run[w].url.sas \in Int
  BY ExecutionFields, UrlTypes DEF TypeInv, TypeOK
\* Nothing happens to the links, and no execution gets nearer to them.
<1>still. ASSUME UNCHANGED <<archiveUrl, blobs, now, linkUntil>>,
                 forked \subseteq forked',
                 \A v \in Slots :
                     \/ at'[v] \in {"idle", "check", "on_error", "save", "ack"}
                     \/ at'[v] = at[v] /\ run'[v] = run[v]
                     \/ run'[v].task \in forked'
          PROVE  LinkInv'
  <2>1. \A t \in Tasks \ forked' : LinkOf(t)'
    BY <1>still DEF LinkInv, LinkOf
  <2>2. ASSUME NEW v \in Slots, at'[v] \notin {"idle", "ack"},
               run'[v].task \notin forked'
        PROVE  LinkIn(v, run[v].task)'
    <3>1. CASE at'[v] = at[v] /\ run'[v] = run[v]
      BY <1>still, <2>2, <3>1 DEF LinkInv, LinkIn
    <3>2. CASE at'[v] \in {"idle", "check", "on_error", "save", "ack"}
      BY <3>2 DEF LinkIn
    <3> QED BY <1>still, <2>2, <3>1, <3>2
  <2> QED BY <2>1, <2>2 DEF LinkInv, LinkIn
<1>Aside. CASE Aside
  <2>1. CASE Tick
    BY <2>1, LinkTick
  <2>2. CASE ~Tick
    BY <1>Aside, <1>still, <2>2 DEF Aside, RecordJob, RecordJobFails,
       ResolveJob, Cancel, slotVars, sendVars
  <2> QED BY <2>1, <2>2
<1>Enqueue. ASSUME NEW t \in Tasks, Enqueue(t) PROVE LinkInv'
  BY <1>Enqueue, <1>still DEF Enqueue, slotVars, sendVars
<1>Body. ASSUME NEW w \in Slots, BodyStep(w) PROVE LinkInv'
  BY <1>Body, LinkBody
<1>Notify. ASSUME NEW w \in Slots, PostToChannel(w) \/ DmUser(w) PROVE LinkInv'
  <2>t. PICK t \in Tasks : t = run[w].task
    BY <1>f
  <2>1. /\ Moves(w) /\ at[w] = "send" /\ at'[w] = "mark"
        /\ forked' = forked
        /\ UNCHANGED <<archiveUrl, blobs, now>>
        /\ \A u \in Tasks \ {t} : linkUntil'[u] = linkUntil[u]
        /\ linkUntil'[t] = IF run[w].url.sas > linkUntil[t]
                           THEN run[w].url.sas ELSE linkUntil[t]
    BY <1>Notify, <1>f, <2>t DEF PostToChannel, DmUser, Notify, Moves
  <2>2. ASSUME LinkOf(t), LinkIn(w, t) PROVE LinkOf(t)' /\ LinkIn(w, t)'
    BY <1>f, <2>t, <2>1, <2>2 DEF LinkOf, LinkIn
  <2> QED BY <1>f, <2>t, <2>1, <2>2, LinkFrame
<1>End. ASSUME NEW w \in Slots,
               \/ Pickup(w) \/ OnError(w) \/ SaveResult(w)
               \/ SaveResultFails(w) \/ Ack(w) \/ Crash(w)
        PROVE  LinkInv'
  BY <1>End, <1>f, <1>still DEF Pickup, OnError, SaveResult, SaveResultFails,
     Ack, Crash, Release, sendVars
<1>DropConnection. ASSUME NEW w \in Slots, DropConnection(w) PROVE LinkInv'
  BY <1>DropConnection, <1>f, <1>still, FieldsKept DEF DropConnection, sendVars
<1>Stutter. CASE UNCHANGED vars
  BY <1>Stutter, <1>still DEF vars, slotVars, cogVars, sendVars
<1> QED
  BY <1>Aside, <1>Enqueue, <1>Body, <1>Notify, <1>End, <1>DropConnection,
     <1>Stutter, StepKinds

\* Later attempts never delete the archive of a link that was sent: the cache
\* outlives the link, and whoever finds it there does not upload.
THEOREM SentLinksLive == Spec => []LinkAlive
<1>1. LinkInv => LinkAlive
  BY DEF LinkInv, LinkOf, LinkAlive
<1> QED BY <1>1, TypeInit, TypeStep, LiveInit, LiveStep, FlightInit, FlightStep,
           LinkInit, LinkStep, PTL DEF Spec
=============================================================================
