---------------------------- MODULE DownloadTask ----------------------------
(***************************************************************************)
(* The download_channel_media task and what surrounds one execution of it: *)
(* the RabbitMQ queue, the cancellable wrapper, the two Redis idempotency  *)
(* keys, the archive blob, delivery, the retry middleware, the result      *)
(* backend and the user -> jobs index entry.                               *)
(*                                                                         *)
(* Every await of the task body that reads or writes shared state is a     *)
(* step of its own, so that a crash, an exception, a cancellation or       *)
(* another execution of the same task_id can fall between any two.         *)
(*                                                                         *)
(* Operators named ...Bug are plausible mistakes in the definition that    *)
(* follows them; no specification uses them (see README, "Mutants").       *)
(***************************************************************************)
EXTENDS Integers

CONSTANTS
    Tasks,             \* task_ids handed out by kiq()
    Private,           \* tasks that skip the guild lookup: dm_me, or no guild
    Cancellable,       \* tasks somebody may /cancel
    Slots,             \* executions that may run at once, over all workers
    MaxAttempts,       \* executions SimpleRetryMiddleware allows one lineage
    Retentions,        \* retention_hours values the guild row may hold
    DefaultRetention,  \* GuildSettings.retention_hours default
    MaxTime,           \* bound on the clock, in hours
    MaxCrashes,        \* bound on worker crashes
    MaxDrops           \* bound on broker connections lost by a live worker

ASSUME TaskAssumption ==
    /\ Tasks # {}
    /\ Private \subseteq Tasks
    /\ Cancellable \subseteq Tasks
    /\ MaxAttempts \in Nat \ {0}
    /\ Retentions \subseteq Int
    /\ DefaultRetention \in Nat \ {0}
    /\ MaxTime \in Nat
    /\ MaxCrashes \in Nat
    /\ MaxDrops \in Nat

VARIABLES
    queue,       \* queue[t][n]: ready messages of t carrying _retries = n
    at,          \* at[w]: the next await of the execution in slot w
    run,         \* run[w]: the message and the locals of that execution
    enqueued,    \* tasks whose kiq() returned
    unrecorded,  \* enqueued tasks whose cog has yet to call record_job
    cancelling,  \* tasks a running /cancel has resolved and not yet flagged
    cancelled,   \* cancellation state holder: tasks flagged by /cancel
    progress,    \* progress[t]: phase in the result backend
    result,      \* result[t]: what set_result stored
    archiveUrl,  \* Redis task:{t}:archive_url
    delivered,   \* Redis task:{t}:delivered, its expiry time, 0 when absent
    index,       \* Redis task:{t}:meta + ZSET entry, expiry, 0 when absent
    blobs,       \* tasks whose blob exists in the container
    now,         \* wall clock
    crashes,     \* crashes so far
    drops        \* dropped connections so far

\* What the properties remember of the past; no action reads these.
VARIABLES
    notices,     \* notices[t]: messages sent to the user or results channel
    linkUntil,   \* linkUntil[t]: latest SAS expiry among the links sent
    errs,        \* errs[t]: executions that raised, cancellation apart
    disturbed,   \* tasks hit by a failed call, a crash or a dropped link
    signed,      \* tasks whose blob, as last committed, got its link signed
    leaked,      \* tasks for which some blob cleanup was cut short or failed
    unsaved,     \* tasks of which a set_result failed
    forked       \* tasks of which two live copies of a message came to exist

slotVars   == <<at, run>>
cogVars    == <<enqueued, unrecorded, cancelling>>
faultVars  == <<crashes, drops>>
taskiqVars == <<cancelled, progress, result>>
keyVars    == <<archiveUrl, delivered, index>>
sendVars   == <<notices, linkUntil>>
histVars   == <<errs, disturbed, signed, leaked, unsaved, forked>>
vars == <<queue, slotVars, cogVars, faultVars, taskiqVars, keyVars, blobs,
          now, sendVars, histVars>>
-----------------------------------------------------------------------------
(* Values *)

Retry == 0 .. MaxAttempts - 1

\* retention_hours as GuildSettingsRepo.get returns it: row or default.
Hours == Retentions \cup {DefaultRetention}

\* A cached or local archive_url: absent, the empty-channel sentinel, or a
\* link whose SAS token expires at `sas'.  `exp' is the Redis expiry.
NoUrl == [kind |-> "none", sas |-> 0, exp |-> 0]
_EMPTY_SENTINEL == [kind |-> "empty", sas |-> 0, exp |-> 0]
Link(until) == [kind |-> "link", sas |-> until, exp |-> 0]
Url == [kind : {"none", "empty", "link"}, sas : Int, exp : Nat]

\* The awaits of one execution, in program order.
Body == {"picked_up", "settings", "lookup", "fetch", "upload", "sign",
         "cleanup", "cache", "is_delivered", "send", "mark", "success",
         "forget"}
Steps == Body \cup {"idle", "check", "on_error", "save", "ack"}

\* The try/finally drawn around the delivery as well.
GuardedBug == {"upload", "sign", "cache", "is_delivered", "send", "mark"}

\* The awaits inside the try/finally that guards the blob.
Guarded == {"upload", "sign"}

\* Awaits at which Redis, Postgres, Discord, the CDN or Azure may fail.
Fallible == (Body \cup {"check"}) \ {"cleanup", "forget"}

Phase == {"none", "picked_up", "stream", "deliver", "done"}

Executions == [task : Tasks, retries : Retry, held : BOOLEAN,
               exc : {"none", "error", "cancel"}, url : Url, ttl : Int,
               route : {"dm", "channel"}]

\* run[w] for a message just taken off the queue.  `held' says the broker
\* still has the delivery outstanding on the worker's connection.
Take(t, n) == [task |-> t, retries |-> n, held |-> TRUE, exc |-> "none",
               url |-> NoUrl, ttl |-> 0, route |-> "dm"]

\* run[w] of an idle slot.
NoRun == Take(CHOOSE t \in Tasks : TRUE, 0)

TypeOK ==
    /\ queue \in [Tasks -> [Retry -> Nat]]
    /\ at \in [Slots -> Steps]
    /\ run \in [Slots -> Executions]
    /\ enqueued \subseteq Tasks
    /\ unrecorded \subseteq enqueued
    /\ cancelling \subseteq enqueued
    /\ cancelled \subseteq enqueued
    /\ progress \in [Tasks -> Phase]
    /\ result \in [Tasks -> {"none", "ok", "error"}]
    /\ archiveUrl \in [Tasks -> Url]
    /\ delivered \in [Tasks -> Nat]
    /\ index \in [Tasks -> Nat]
    /\ blobs \subseteq Tasks
    /\ now \in 0 .. MaxTime
    /\ crashes \in 0 .. MaxCrashes
    /\ drops \in 0 .. MaxDrops
    /\ notices \in [Tasks -> Nat]
    /\ linkUntil \in [Tasks -> Int]
    /\ errs \in [Tasks -> Nat]
    /\ disturbed \subseteq Tasks
    /\ signed \subseteq Tasks
    /\ leaked \subseteq Tasks
    /\ unsaved \subseteq Tasks
    /\ forked \subseteq Tasks

Init ==
    /\ queue = [t \in Tasks |-> [n \in Retry |-> 0]]
    /\ at = [w \in Slots |-> "idle"]
    /\ run = [w \in Slots |-> NoRun]
    /\ enqueued = {}
    /\ unrecorded = {}
    /\ cancelling = {}
    /\ cancelled = {}
    /\ progress = [t \in Tasks |-> "none"]
    /\ result = [t \in Tasks |-> "none"]
    /\ archiveUrl = [t \in Tasks |-> NoUrl]
    /\ delivered = [t \in Tasks |-> 0]
    /\ index = [t \in Tasks |-> 0]
    /\ blobs = {}
    /\ now = 0
    /\ crashes = 0
    /\ drops = 0
    /\ notices = [t \in Tasks |-> 0]
    /\ linkUntil = [t \in Tasks |-> 0]
    /\ errs = [t \in Tasks |-> 0]
    /\ disturbed = {}
    /\ signed = {}
    /\ leaked = {}
    /\ unsaved = {}
    /\ forked = {}
-----------------------------------------------------------------------------
(* Control flow of one execution *)

Task(w) == run[w].task
Goto(w, step) == at' = [at EXCEPT ![w] = step]
Publish(t, n) == queue' = [queue EXCEPT ![t][n] = @ + 1]

\* "except Exception" in place of "finally": a cancellation skips the cleanup.
AfterRaiseBug(step, exc) ==
    IF step \in Guarded /\ exc = "error" THEN "cleanup" ELSE "on_error"

\* forget_job in a finally block of its own.
AfterRaiseForgetsBug(step, exc) ==
    IF step \in Guarded THEN "cleanup" ELSE "forget"

\* Where an exception leaves the await it interrupts: the finally block
\* around the upload runs for errors and for cancellation alike.
AfterRaise(step, exc) == IF step \in Guarded THEN "cleanup" ELSE "on_error"

\* The task body raises at the current await of slot w.
Raise(w, exc) ==
    /\ run' = [run EXCEPT ![w].exc = exc]
    /\ Goto(w, AfterRaise(at[w], exc))
    /\ errs' = IF exc = "error" THEN [errs EXCEPT ![Task(w)] = @ + 1] ELSE errs

\* An empty channel returns without caching its sentinel or delivering.
AfterCleanupBug(exc) == IF exc = "none" THEN "success" ELSE "on_error"

\* After the finally block: the empty channel goes on to cache its sentinel,
\* an exception propagates.
AfterCleanup(exc) == IF exc = "none" THEN "cache" ELSE "on_error"

\* The plain SimpleRetryMiddleware.
RetriedBug(exc, n) == exc # "none" /\ n + 1 < MaxAttempts

\* CancelAwareRetryMiddleware.on_error: re-kick errors, never cancellations,
\* while SimpleRetryMiddleware has attempts left.
Retried(exc, n) == exc = "error" /\ n + 1 < MaxAttempts

\* The execution in w has re-kicked its task and only has to acknowledge.
Kicked(w) == at[w] = "ack" /\ Retried(run[w].exc, run[w].retries)
-----------------------------------------------------------------------------
(* The bot: /download and /cancel *)

\* A task_id derived from the channel instead of a fresh one.
EnqueueBug(t) ==
    /\ queue[t][0] < 2
    /\ Publish(t, 0)
    /\ enqueued' = enqueued \cup {t}
    /\ unrecorded' = unrecorded \cup {t}
    /\ UNCHANGED <<slotVars, cancelling, faultVars, taskiqVars, keyVars, blobs,
                   now, sendVars, histVars>>

\* download_channel_media.kiq(): a message under a fresh task_id.
Enqueue(t) ==
    /\ t \notin enqueued
    /\ Publish(t, 0)
    /\ enqueued' = enqueued \cup {t}
    /\ unrecorded' = unrecorded \cup {t}
    /\ UNCHANGED <<slotVars, cancelling, faultVars, taskiqVars, keyVars, blobs,
                   now, sendVars, histVars>>

\* The rest of the /download handler: read the retention, record_job.
RecordJob(t) ==
    /\ t \in unrecorded
    /\ unrecorded' = unrecorded \ {t}
    /\ \E ttl \in Hours :
           index' = IF ttl > 0 THEN [index EXCEPT ![t] = now + ttl] ELSE index
    /\ UNCHANGED <<queue, slotVars, enqueued, cancelling, faultVars,
                   taskiqVars, archiveUrl, delivered, blobs, now, sendVars, histVars>>

\* Postgres or Redis fails there: the job stays without an index entry.
RecordJobFails(t) ==
    /\ t \in unrecorded
    /\ unrecorded' = unrecorded \ {t}
    /\ disturbed' = disturbed \cup {t}
    /\ UNCHANGED <<queue, slotVars, enqueued, cancelling, faultVars,
                   taskiqVars, keyVars, blobs, now, sendVars, errs, signed,
                   leaked, unsaved, forked>>

\* /cancel takes the task_id as typed.
ResolveJobBug(t) ==
    /\ t \in Cancellable \ cancelled
    /\ cancelling' = cancelling \cup {t}
    /\ UNCHANGED <<queue, slotVars, enqueued, unrecorded, faultVars,
                   taskiqVars, keyVars, blobs, now, sendVars, histVars>>

\* /cancel finds the job through the index ...
ResolveJob(t) ==
    /\ t \in Cancellable \ cancelled
    /\ index[t] # 0
    /\ cancelling' = cancelling \cup {t}
    /\ UNCHANGED <<queue, slotVars, enqueued, unrecorded, faultVars,
                   taskiqVars, keyVars, blobs, now, sendVars, histVars>>

\* ... and flags it; the entry may be gone and the job finished by then.
Cancel(t) ==
    /\ t \in cancelling
    /\ cancelling' = cancelling \ {t}
    /\ cancelled' = cancelled \cup {t}
    /\ UNCHANGED <<queue, slotVars, enqueued, unrecorded, faultVars, progress,
                   result, keyVars, blobs, now, sendVars, histVars>>
-----------------------------------------------------------------------------
(* One execution, from pickup to acknowledgement *)

Pickup(w) ==
    /\ at[w] = "idle"
    /\ \E t \in Tasks, n \in Retry :
           /\ queue[t][n] > 0
           /\ queue' = [queue EXCEPT ![t][n] = @ - 1]
           /\ run' = [run EXCEPT ![w] = Take(t, n)]
    /\ Goto(w, "check")
    /\ UNCHANGED <<cogVars, faultVars, taskiqVars, keyVars, blobs, now,
                   sendVars, histVars>>

\* The cancellable wrapper looks at the flag before it runs the body.
CheckCancelled(w) ==
    /\ at[w] = "check"
    /\ IF Task(w) \in cancelled
       THEN Raise(w, "cancel")
       ELSE Goto(w, "picked_up") /\ UNCHANGED <<run, errs>>
    /\ UNCHANGED <<queue, cogVars, faultVars, taskiqVars, keyVars, blobs, now,
                   sendVars, disturbed, signed, leaked, unsaved,
                   forked>>

ReportPickedUp(w) ==
    /\ at[w] = "picked_up"
    /\ progress' = [progress EXCEPT ![Task(w)] = "picked_up"]
    /\ Goto(w, "settings")
    /\ UNCHANGED <<queue, run, cogVars, faultVars, cancelled, result, keyVars,
                   blobs, now, sendVars, histVars>>

\* dm_me and DM contexts use the defaults without asking Postgres.
ReadSettings(w) ==
    /\ at[w] = "settings"
    /\ \E ttl \in (IF Task(w) \in Private THEN {DefaultRetention} ELSE Hours),
          route \in (IF Task(w) \in Private THEN {"dm"} ELSE {"dm", "channel"}) :
           run' = [run EXCEPT ![w].ttl = ttl, ![w].route = route]
    /\ Goto(w, "lookup")
    /\ UNCHANGED <<queue, cogVars, faultVars, taskiqVars, keyVars, blobs, now,
                   sendVars, histVars>>

LookupArchiveUrl(w) ==
    /\ at[w] = "lookup"
    /\ run' = [run EXCEPT ![w].url = archiveUrl[Task(w)]]
    /\ Goto(w, IF archiveUrl[Task(w)] = NoUrl THEN "fetch" ELSE "is_delivered")
    /\ UNCHANGED <<queue, cogVars, faultVars, taskiqVars, keyVars, blobs, now,
                   sendVars, histVars>>

FetchChannel(w) ==
    /\ at[w] = "fetch"
    /\ progress' = [progress EXCEPT ![Task(w)] = "stream"]
    /\ Goto(w, "upload")
    /\ UNCHANGED <<queue, run, cogVars, faultVars, cancelled, result, keyVars,
                   blobs, now, sendVars, histVars>>

\* A progress tick while the archive streams.
OnProgress(w) ==
    /\ at[w] = "upload"
    /\ progress' = [progress EXCEPT ![Task(w)] = "stream"]
    /\ UNCHANGED <<queue, slotVars, cogVars, faultVars, cancelled, result,
                   keyVars, blobs, now, sendVars, histVars>>

\* upload_blob commits the whole archive under the task's blob name.
Upload(w) ==
    /\ at[w] = "upload"
    /\ blobs' = blobs \cup {Task(w)}
    /\ signed' = signed \ {Task(w)}
    /\ Goto(w, "sign")
    /\ UNCHANGED <<queue, run, cogVars, faultVars, taskiqVars, keyVars, now,
                   sendVars, errs, disturbed, leaked, unsaved, forked>>

\* NoMatchingAttachments: nothing was committed, the finally block still runs.
NothingToArchive(w) ==
    /\ at[w] = "upload"
    /\ run' = [run EXCEPT ![w].url = _EMPTY_SENTINEL]
    /\ Goto(w, "cleanup")
    /\ UNCHANGED <<queue, cogVars, faultVars, taskiqVars, keyVars, blobs, now,
                   sendVars, histVars>>

\* upload_blob has returned: sign for ttl from this moment.
Sign(w) ==
    /\ at[w] = "sign"
    /\ run' = [run EXCEPT ![w].url = Link(now + run[w].ttl)]
    /\ signed' = signed \cup {Task(w)}
    /\ Goto(w, "cache")
    /\ UNCHANGED <<queue, cogVars, faultVars, taskiqVars, keyVars, blobs, now,
                   sendVars, errs, disturbed, leaked, unsaved, forked>>

\* delete_blob insists until the blob it deletes is there.
DeleteBlobBug(w) ==
    /\ at[w] = "cleanup"
    /\ Task(w) \in blobs
    /\ blobs' = blobs \ {Task(w)}
    /\ Goto(w, AfterCleanup(run[w].exc))
    /\ UNCHANGED <<queue, run, cogVars, faultVars, taskiqVars, keyVars, now,
                   sendVars, histVars>>

\* delete_blob; a missing blob is success.
DeleteBlob(w) ==
    /\ at[w] = "cleanup"
    /\ blobs' = blobs \ {Task(w)}
    /\ Goto(w, AfterCleanup(run[w].exc))
    /\ UNCHANGED <<queue, run, cogVars, faultVars, taskiqVars, keyVars, now,
                   sendVars, histVars>>

\* delete_blob raises UploadError, which is logged and dropped.
DeleteBlobFails(w) ==
    /\ at[w] = "cleanup"
    /\ leaked' = leaked \cup {Task(w)}
    /\ disturbed' = disturbed \cup {Task(w)}
    /\ Goto(w, AfterCleanup(run[w].exc))
    /\ UNCHANGED <<queue, run, cogVars, faultVars, taskiqVars, keyVars, blobs,
                   now, sendVars, errs, signed, unsaved, forked>>

\* redis.set(..., ex=ttl) raises for a TTL that is not positive.
CacheArchiveUrl(w) ==
    /\ at[w] = "cache"
    /\ IF run[w].ttl > 0
       THEN /\ archiveUrl' = [archiveUrl EXCEPT
                   ![Task(w)] = [run[w].url EXCEPT !.exp = now + run[w].ttl]]
            /\ Goto(w, "is_delivered")
            /\ UNCHANGED <<run, errs>>
       ELSE Raise(w, "error") /\ UNCHANGED archiveUrl
    /\ UNCHANGED <<queue, cogVars, faultVars, taskiqVars, delivered, index,
                   blobs, now, sendVars, disturbed, signed, leaked, unsaved,
                   forked>>

\* Retries deliver whatever is_delivered says.
AlreadyDeliveredBug(t) == FALSE

\* is_delivered.
AlreadyDelivered(t) == delivered[t] # 0

CheckDelivered(w) ==
    /\ at[w] = "is_delivered"
    /\ IF AlreadyDelivered(Task(w))
       THEN Goto(w, "success") /\ UNCHANGED progress
       ELSE /\ progress' = [progress EXCEPT ![Task(w)] = "deliver"]
            /\ Goto(w, "send")
    /\ UNCHANGED <<queue, run, cogVars, faultVars, cancelled, result, keyVars,
                   blobs, now, sendVars, histVars>>

\* The embed with this execution's link (or the empty-channel notice) is out.
Notify(w) ==
    /\ notices' = [notices EXCEPT ![Task(w)] = @ + 1]
    /\ linkUntil' = [linkUntil EXCEPT
           ![Task(w)] = IF run[w].url.sas > @ THEN run[w].url.sas ELSE @]
    /\ Goto(w, "mark")
    /\ UNCHANGED <<queue, run, cogVars, faultVars, taskiqVars, keyVars, blobs,
                   now, histVars>>

PostToChannel(w) ==
    /\ at[w] = "send"
    /\ run[w].route = "channel"
    /\ Notify(w)

\* The failed post is logged and nothing more.
ResultsChannelUnusableBug(w) ==
    /\ at[w] = "send"
    /\ run[w].route = "channel"
    /\ Goto(w, "mark")
    /\ UNCHANGED <<queue, run, cogVars, faultVars, taskiqVars, keyVars, blobs,
                   now, sendVars, histVars>>

\* NotFound, Forbidden or TypeError on the results channel: DM instead.
ResultsChannelUnusable(w) ==
    /\ at[w] = "send"
    /\ run[w].route = "channel"
    /\ run' = [run EXCEPT ![w].route = "dm"]
    /\ UNCHANGED <<queue, at, cogVars, faultVars, taskiqVars, keyVars, blobs,
                   now, sendVars, histVars>>

DmUser(w) ==
    /\ at[w] = "send"
    /\ run[w].route = "dm"
    /\ Notify(w)

MarkDelivered(w) ==
    /\ at[w] = "mark"
    /\ IF run[w].ttl > 0
       THEN /\ delivered' = [delivered EXCEPT ![Task(w)] = now + run[w].ttl]
            /\ Goto(w, "success")
            /\ UNCHANGED <<run, errs>>
       ELSE Raise(w, "error") /\ UNCHANGED delivered
    /\ UNCHANGED <<queue, cogVars, faultVars, taskiqVars, archiveUrl, index,
                   blobs, now, sendVars, disturbed, signed, leaked, unsaved,
                   forked>>

ReportDone(w) ==
    /\ at[w] = "success"
    /\ progress' = [progress EXCEPT ![Task(w)] = "done"]
    /\ Goto(w, "forget")
    /\ UNCHANGED <<queue, run, cogVars, faultVars, cancelled, result, keyVars,
                   blobs, now, sendVars, histVars>>

ForgetJob(w) ==
    /\ at[w] = "forget"
    /\ index' = [index EXCEPT ![Task(w)] = 0]
    /\ Goto(w, "save")
    /\ UNCHANGED <<queue, run, cogVars, faultVars, taskiqVars, archiveUrl,
                   delivered, blobs, now, sendVars, histVars>>

\* forget_job raises: logged, the job still succeeds.
ForgetJobFails(w) ==
    /\ at[w] = "forget"
    /\ disturbed' = disturbed \cup {Task(w)}
    /\ Goto(w, "save")
    /\ UNCHANGED <<queue, run, cogVars, faultVars, taskiqVars, keyVars, blobs,
                   now, sendVars, errs, signed, leaked, unsaved,
                   forked>>

\* No result is stored for a cancelled or finally failed execution.
OnErrorBug(w) ==
    /\ at[w] = "on_error"
    /\ Goto(w, "ack")
    /\ IF Retried(run[w].exc, run[w].retries)
       THEN Publish(Task(w), run[w].retries + 1)
       ELSE UNCHANGED queue
    /\ UNCHANGED <<run, cogVars, faultVars, taskiqVars, keyVars, blobs, now,
                   sendVars, histVars>>

\* The retry middleware; a re-kicked task stores no result.
OnError(w) ==
    /\ at[w] = "on_error"
    /\ IF Retried(run[w].exc, run[w].retries)
       THEN Publish(Task(w), run[w].retries + 1) /\ Goto(w, "ack")
       ELSE Goto(w, "save") /\ UNCHANGED queue
    /\ UNCHANGED <<run, cogVars, faultVars, taskiqVars, keyVars, blobs, now,
                   sendVars, histVars>>

\* The stored result does not tell an error from a success.
SaveResultBug(w) ==
    /\ at[w] = "save"
    /\ result' = [result EXCEPT ![Task(w)] = "ok"]
    /\ Goto(w, "ack")
    /\ UNCHANGED <<queue, run, cogVars, faultVars, cancelled, progress,
                   keyVars, blobs, now, sendVars, histVars>>

SaveResult(w) ==
    /\ at[w] = "save"
    /\ result' = [result EXCEPT
           ![Task(w)] = IF run[w].exc = "none" THEN "ok" ELSE "error"]
    /\ Goto(w, "ack")
    /\ UNCHANGED <<queue, run, cogVars, faultVars, cancelled, progress,
                   keyVars, blobs, now, sendVars, histVars>>

\* set_result fails: the receiver logs it and goes on to acknowledge.
SaveResultFails(w) ==
    /\ at[w] = "save"
    /\ unsaved' = unsaved \cup {Task(w)}
    /\ disturbed' = disturbed \cup {Task(w)}
    /\ Goto(w, "ack")
    /\ UNCHANGED <<queue, run, cogVars, faultVars, taskiqVars, keyVars, blobs,
                   now, sendVars, errs, signed, leaked, forked>>

\* The slot is free again.
Release(w) ==
    /\ Goto(w, "idle")
    /\ run' = [run EXCEPT ![w] = NoRun]

Ack(w) ==
    /\ at[w] = "ack"
    /\ Release(w)
    /\ UNCHANGED <<queue, cogVars, faultVars, taskiqVars, keyVars, blobs, now,
                   sendVars, histVars>>
-----------------------------------------------------------------------------
(* What can befall an execution *)

\* The call at the current await fails (it may have had its effect: the step
\* before this one covers that) and the body does not handle the exception.
Fail(w) ==
    /\ at[w] \in Fallible
    /\ Raise(w, "error")
    /\ disturbed' = disturbed \cup {Task(w)}
    /\ UNCHANGED <<queue, cogVars, faultVars, taskiqVars, keyVars, blobs, now,
                   sendVars, signed, leaked, unsaved, forked>>

\* The cancellation notice reaches a running body.
Interrupt(w) ==
    /\ Task(w) \in cancelled
    /\ at[w] \in Body
    /\ Raise(w, "cancel")
    /\ leaked' = IF at[w] = "cleanup" THEN leaked \cup {Task(w)} ELSE leaked
    /\ UNCHANGED <<queue, cogVars, faultVars, taskiqVars, keyVars, blobs, now,
                   sendVars, disturbed, signed, unsaved, forked>>

\* RabbitMQ puts an unacknowledged delivery back.
Requeue(w) ==
    queue' = IF run[w].held
             THEN [queue EXCEPT ![Task(w)][run[w].retries] = @ + 1]
             ELSE queue

\* The worker process dies.
Crash(w) ==
    /\ crashes < MaxCrashes
    /\ crashes' = crashes + 1
    /\ at[w] # "idle"
    /\ Requeue(w)
    /\ Release(w)
    /\ disturbed' = disturbed \cup {Task(w)}
    /\ leaked' = IF at[w] \in Guarded \cup {"cleanup"}
                 THEN leaked \cup {Task(w)} ELSE leaked
    /\ forked' = IF Kicked(w) /\ run[w].held
                 THEN forked \cup {Task(w)} ELSE forked
    /\ UNCHANGED <<cogVars, drops, taskiqVars, keyVars, blobs, now, sendVars,
                   errs, signed, unsaved>>

\* The worker loses its RabbitMQ connection and carries on executing.
DropConnection(w) ==
    /\ drops < MaxDrops
    /\ drops' = drops + 1
    /\ at[w] # "idle"
    /\ run[w].held
    /\ Requeue(w)
    /\ run' = [run EXCEPT ![w].held = FALSE]
    /\ disturbed' = disturbed \cup {Task(w)}
    /\ forked' = forked \cup {Task(w)}
    /\ UNCHANGED <<at, cogVars, crashes, taskiqVars, keyVars, blobs, now,
                   sendVars, errs, signed, leaked, unsaved>>

\* An hour passes; Redis drops the keys whose time has come.
Tick ==
    /\ now < MaxTime
    /\ now' = now + 1
    /\ archiveUrl' = [t \in Tasks |->
           IF archiveUrl[t].exp > now + 1 THEN archiveUrl[t] ELSE NoUrl]
    /\ delivered' = [t \in Tasks |->
           IF delivered[t] > now + 1 THEN delivered[t] ELSE 0]
    /\ index' = [t \in Tasks |-> IF index[t] > now + 1 THEN index[t] ELSE 0]
    /\ UNCHANGED <<queue, slotVars, cogVars, faultVars, taskiqVars, blobs,
                   sendVars, histVars>>
-----------------------------------------------------------------------------
(* The specification *)

\* What slot w does when nothing goes wrong.
Proceed(w) ==
    \/ Pickup(w) \/ CheckCancelled(w) \/ ReportPickedUp(w) \/ ReadSettings(w)
    \/ LookupArchiveUrl(w) \/ FetchChannel(w) \/ Upload(w)
    \/ NothingToArchive(w) \/ Sign(w) \/ DeleteBlob(w) \/ CacheArchiveUrl(w)
    \/ CheckDelivered(w) \/ PostToChannel(w) \/ ResultsChannelUnusable(w)
    \/ DmUser(w) \/ MarkDelivered(w) \/ ReportDone(w) \/ ForgetJob(w)
    \/ OnError(w) \/ SaveResult(w) \/ Ack(w)

\* What may happen to slot w besides.
Disturb(w) ==
    \/ OnProgress(w) \/ DeleteBlobFails(w) \/ ForgetJobFails(w)
    \/ SaveResultFails(w) \/ Fail(w) \/ Interrupt(w) \/ Crash(w)
    \/ DropConnection(w)

Bot(t) ==
    \/ Enqueue(t) \/ RecordJob(t) \/ RecordJobFails(t) \/ ResolveJob(t)
    \/ Cancel(t)

Next ==
    \/ \E t \in Tasks : Bot(t)
    \/ \E w \in Slots : Proceed(w) \/ Disturb(w)
    \/ Tick

Spec == Init /\ [][Next]_vars

\* Worker event loops keep running; users, faults and the clock owe nothing.
FairSpec == Spec /\ \A w \in Slots : WF_vars(Proceed(w))
-----------------------------------------------------------------------------
(* Safety *)

Active(w, t) == at[w] # "idle" /\ Task(w) = t
Queued(t) == \E n \in Retry : queue[t][n] > 0
Pending(t) == Queued(t) \/ \E w \in Slots : Active(w, t)

\* Nothing tells the user or the operator that a job is delivered -- the
\* delivered marker, phase "done", a stored success -- unless a notice really
\* went out: mark_delivered, set_progress(SUCCESS) and the return follow a
\* send, of this attempt or of an earlier one, on every path, the DM fallback
\* and the empty channel included.
NoticeBeforeClaim ==
    \A t \in Tasks :
        delivered[t] # 0 \/ progress[t] = "done" \/ result[t] = "ok"
            => notices[t] > 0

\* A job that was enqueued is never lost: whatever crashes, lost connections,
\* errors and cancellations befall its executions, either it still has a
\* message or an execution, or a result was handed to the result backend.
NeverLost ==
    \A t \in enqueued : Pending(t) \/ result[t] # "none" \/ t \in unsaved

\* An execution that still has to finish its task: one that re-kicked it and
\* is about to acknowledge does not count.
Carries(w, t) == Active(w, t) /\ ~Kicked(w)

\* Retries do not multiply a job.  Unless RabbitMQ redelivered a message whose
\* first copy was still at work (a lost connection, or a crash between the
\* re-kick and the acknowledgement), a task_id has at most one message, or one
\* execution, and never both.  The idempotency keys rely on it.
SingleFlight ==
    \A t \in Tasks \ forked :
        /\ \A m, n \in Retry : queue[t][m] > 0 /\ queue[t][n] > 0 => m = n
        /\ \A n \in Retry : queue[t][n] <= 1
        /\ \A v, w \in Slots : Carries(v, t) /\ Carries(w, t) => v = w
        /\ Queued(t) => \A w \in Slots : ~Carries(w, t)

\* A link the user was sent works until its SAS token expires: no cleanup of
\* a later attempt, which uses the same blob name, deletes the archive.
LinkAlive ==
    \A t \in Tasks \ forked : linkUntil[t] > now => t \in blobs

\* A committed archive nobody holds a link to is removed: if the last commit
\* was never signed, its execution is still inside the try/finally, unless
\* the cleanup itself failed, was cancelled, or died with the worker.
PartialBlobCleaned ==
    \A t \in blobs \ (signed \cup leaked) :
        \E w \in Slots : Active(w, t) /\ at[w] \in Guarded \cup {"cleanup"}

\* Every retry is paid for by an execution that raised: a message or an
\* execution with _retries = n exists only after n errors, so neither a
\* cancellation nor a redelivery uses up or multiplies attempts.
RetriesAccounted ==
    /\ \A t \in Tasks, n \in Retry : queue[t][n] > 0 => errs[t] >= n
    /\ \A w \in Slots : at[w] # "idle" => errs[Task(w)] >= run[w].retries

\* A delivered job is not delivered again while its marker lives: of a task
\* without a redelivered twin, no notice goes out while task:{t}:delivered is
\* set, although the send happens two awaits after is_delivered was read.
MarkedNotResent ==
    [][\A t \in Tasks \ forked :
           notices'[t] > notices[t] => delivered[t] = 0]_vars

\* /status and /cancel keep seeing a job until it is over: its index entry
\* goes early (before its TTL) only once a notice went out, so never between
\* two attempts of a job still to be delivered.
ForgetOnlyAfterNotice ==
    [][\A t \in Tasks :
           index[t] > now' /\ index'[t] = 0 => notices[t] > 0]_vars
-----------------------------------------------------------------------------
(* Liveness *)

\* Retrying ends: every job comes to rest, with no message and no execution.
EveryJobSettles == \A t \in Tasks : t \in enqueued ~> ~Pending(t)

\* If nothing disturbs a job and nobody cancels it, its requester is notified,
\* be the channel empty or the results channel gone.
UndisturbedJobDelivered ==
    \A t \in Tasks :
        t \in enqueued ~> notices[t] > 0 \/ t \in disturbed \cup cancelled
-----------------------------------------------------------------------------
(* The promise the task implements *)

StageOf(t) ==
    IF t \notin enqueued THEN "new" ELSE IF Pending(t) THEN "open" ELSE "settled"

OutcomeOf(t) ==
    IF result[t] = "none" /\ t \in unsaved THEN "unknown" ELSE result[t]

Lifecycle == INSTANCE JobLifecycle WITH
    stage    <- [t \in Tasks |-> StageOf(t)],
    notified <- {t \in Tasks : notices[t] > 0},
    outcome  <- [t \in Tasks |-> OutcomeOf(t)]

\* The worker with its faults, seen from outside, is a JobLifecycle: a job that
\* came to rest stays at rest, rests only with an outcome on record (or one the
\* result backend refused), tells nobody anything afterwards, and is never
\* recorded as a success that was not delivered.
ImplementsLifecycle == Lifecycle!Spec
-----------------------------------------------------------------------------
(* What the repository says of the task, and the code does not keep *)

\* README: "the idempotency layer makes that [retrying under the same task_id]
\* safe".  LinkAlive with redelivered twins included.
LinkAliveDespiteRedelivery ==
    \A t \in Tasks : linkUntil[t] > now => t \in blobs
=============================================================================
