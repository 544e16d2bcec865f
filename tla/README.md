# A verification of discord-downloader-bot

TLA+ specifications of the bot and its worker, the TLC runs that check them,
and TLAPS proofs about them. Sources are named relative to
`src/downloader_bot/`; `PROJECT.json` gives, for every definition that models
code, the lines it stands for.

## The system

A Discord bot takes `/download`, charges a per-guild token bucket, and puts a
task on RabbitMQ. A worker walks the channel, streams a zip into Azure, signs a
link and delivers it by DM or into a results channel. taskiq retries failed
executions under the same `task_id`; Redis holds what makes that bearable: two
idempotency keys, progress, results, the cancellation flag, the index of a
user's jobs and the bucket. Postgres holds one settings row per guild.

| Component | State it keeps | Operations | Talks to | What is hard |
|---|---|---|---|---|
| Download task (`tasks/download.py`) | locals of one execution | the body: settings, cached URL, upload, cleanup, cache, deliver, mark, forget | everything below | error, cancellation, crash or a second execution between any two awaits |
| Queue, retry, cancellation (`tq.py`, taskiq, RabbitMQ) | messages with `_retries`, the flag, progress and result keys (24 h) | take, re-kick, acknowledge, redeliver, flag, notify | task, commands | at-least-once delivery; retry and redelivery at once |
| Idempotency (`download/idempotency.py`) | `task:{id}:archive_url`, `:delivered`, with TTL | get, cache, is_delivered, mark | task | read and acted upon two awaits later; TTL may be 0 |
| Storage (`storage/`) | one blob per `task_id` | upload and sign, delete | task | attempts share the name; the link outlives the execution |
| Delivery (`download/deliver.py`) | none | DM, channel post with DM fallback | task, Discord | sent but not yet marked |
| Job index (`download/jobs.py`) | `task:{id}:meta`, ZSET `user:{id}:active_jobs`, with TTL | record, get, latest, forget | task, commands | recorded after the task was queued; one TTL for a whole ZSET |
| Rate limit (`download/ratelimit.py`) | one hash per guild, with TTL | acquire, refund | commands | optimistic locking, eviction, several hosts' clocks |
| `/download` (`cogs/download.py`) | a handler's locals | checks, acquire, kiq, record | bucket, queue, index, settings | fails after the token, after the message |
| `/status`, `/cancel` (`cogs/jobs.py`) | a handler's locals | resolve, authorise, read flag, result, progress; flag, refund | index, result backend, bucket | three reads, one after the other, of keys the worker is changing |
| `/setup` and settings (`cogs/setup.py`, `db/`) | a row per guild | set, clear, show; get, upsert | task, `/download` | read-modify-write; two readers of one job |
| Filters (`download/filters.py`) | none | resolve, parse, named periods, match | command, task | calendar arithmetic; bounds inclusive or not; parsed in one process, resolved in another, later |
| Zip stream (`download/zip_stream.py`) | position, tally | bounds, members, peek, progress | task, Discord, its CDN | a failure in the middle of a member; counted before it is written; messages posted during the walk |
| Health check (`worker/healthcheck.py`) | heartbeat key with TTL, idle loop | refresh, delete, probe | Redis, every process with a broker | refresh period against TTL; lost writes; keys of the dead |
| Processes (`bot.py`, hooks of `tq.py`, `db/pool.py`, `download/discord_rest.py`) | clients, pools, connections | start, stop | all | a start that fails half way; a stop that fails or waits for ever |
| Presence, help, invite, sync (`presence.py`, other cogs) | none | one Discord call each | Discord | -- |

What makes each of them correct is stated with its module below; the list of
what can go wrong, line by line, is under "hazards" in `PROJECT.json`.

## Modules

| Module | Models | Extended by |
|---|---|---|
| `DownloadTask` | the task, the queue, retries, cancellation, idempotency, storage, delivery, its index entry | `MCDownloadTask` (TLC), `DownloadTaskProofs`, `DownloadTaskLifecycleProofs`, `DownloadTaskFlightProofs` (TLAPS) |
| `JobLifecycle` | no code: what a job promises, which `DownloadTask` implements | instantiated by `DownloadTask` |
| `RateLimit` | the bucket, command by Redis command | `MCRateLimit`, `RateLimitProofs` (TLAPS) |
| `JobControl` | `/download`, `/status`, `/cancel`, the index with both keys, the expiring result keys, the worker as seen from there | `MCJobControl`, `JobControlProofs` (TLAPS) |
| `GuildSettings` | `/setup`, the row, its two readers | `MCGuildSettings`, `GuildSettingsProofs` (TLAPS) |
| `Filters` | durations, named periods, the matcher, as operators | `ZipStream` |
| `ZipStream` | one archive, from the payload to the committed upload | `MCZipStream`, `ZipStreamProofs` (TLAPS; its first half is about `Filters`) |
| `Processes` | a worker and the bot, what they open and close, heartbeat and probe | `MCProcesses`, `ProcessesProofs` (TLAPS) |

An `MC` module gives no definition of the system, only symmetry sets and the
values of constants that are functions or sets of records; the `.cfg` files
give the rest.

### DownloadTask

`queue[t][n]` counts the ready messages of task `t` that carry `_retries = n`;
their order does not matter to any step. A slot `w` is one execution, in
whichever worker: `at[w]` is the await it is at, `run[w]` its message and
locals. Each action is one await of `download_channel_media` with the code up
to the next one, under the name of what it does; `Pickup`, `CheckCancelled`,
`OnError`, `SaveResult` and `Ack` are what taskiq does around the body. `Fail`
raises at any await that can raise out of the body, `Interrupt` is the
cancellation notice reaching the body, `Crash` the death of the worker,
`DropConnection` a broker connection lost under a worker that carries on --
RabbitMQ then redelivers what the worker still works on. `Enqueue`,
`RecordJob`, `ResolveJob` and `Cancel` are the bot's share. A failed call may
have had its effect: that is the order "action, then `Fail` at the next await".

The clock is in hours and matters through the TTLs and the link's expiry.
A blob has no content: a commit replaces the blob under the task's name.
History variables (`notices`, `linkUntil`, `errs`, `disturbed`, `signed`,
`leaked`, `unsaved`, `forked`) record what properties ask about; no guard reads
them. `forked` deserves a word: it collects the tasks of which RabbitMQ came to
hold or deliver two copies -- a lost connection, or a crash after the retry's
re-kick and before the acknowledgement. Properties that need a single live copy
exempt them, and `TaskRedelivery` shows that they must.

Left out: publish failures inside `on_error`; an Azure commit that takes
effect after the upload was cancelled; the results' and progress keys' 24 h
lifetime (it is in `JobControl`); archive contents and progress figures.

`JobLifecycle` is the task seen from outside: requested once, settled once,
never settled without an outcome, never on record as delivered before somebody
was told. `Lifecycle` maps it onto `DownloadTask`: a job is open while it has a
message or an execution, notified once a message was sent, and its outcome is
the stored result, or "unknown" if the result backend refused it. Every step of
the task is a step of the life cycle or none of its business.

### RateLimit

One bucket, callers of `acquire()` and `refund()` at the granularity of WATCH,
HMGET, the computation and EXEC. `dirty` is Redis's knowledge of who watches a
key that changed. Amounts are integers: `Hour` units are a token, `Hour` ticks
an hour, so nothing is rounded where the code uses floats. `Disconnect` breaks
a call before EXEC, `ReplyLost` after it. `OpenWindow` only resets the counters
of the history so that `WindowBound` speaks of every window, not of the one
since the start. `Ahead` and `Skew` give some callers a fast clock; `hasty`
counts their writes, because each of them credits the difference once more.

### JobControl

`step[t]` is the `/download` handler that creates `t`, `pc[h]` and `call[h]` a
`/status` or `/cancel` handler, an action for each of its reads and writes.
The worker is `DownloadTask` with the steps the commands cannot see merged:
`Pickup` (with the wrapper's check), `Start` (`picked_up`), `Progress`,
`Deliver`, `ForgetJob`, `Error`, `Interrupt`, `Crash`, `SaveResult`. The index
has both keys, each with its expiry; the ZSET is the set of its members
(`activeJobs`) and, apart from it, the order of the scores (`scores`), which
only the choice of the latest job reads. `record_job` is one MULTI/EXEC, which
does not roll back: with a TTL that is not positive the SET is refused and the
rest runs, so that EXPIRE deletes the ZSET with all that is in it
(`RecordJobRefused`); `RecordJobFails` is Postgres or Redis failing. Result and
progress keys expire `ResultHours` after they were written. Who sends a command,
and from where, is chosen where the handler first looks at it. `acquire()` and
`refund()` are atomic here: `RateLimit` is about their inside.

History: `refunds`, `begun`, `heard` (when the worker last wrote a key for a
job), `clipped` (jobs whose ZSET a later `record_job` ends before their meta),
`early` (a `/cancel` whose flag landed before the job began), `said` (the last
answer of a `/status`, and what was true then). `word` in a handler's locals is
`heard` as of the moment it resolved its job.

Two assumptions about time: a `/status` or `/cancel` is answered within the
hour, and no tick falls between `kiq()` and `record_job`.

### GuildSettings

The row, `/setup set` (one statement), `/setup clear` (a read and a write) and
the two readers of a job: the `/download` handler, which takes the index TTL
from it, and the worker, which takes route, retention and media policy. A row
that restricts `allowed_media_types` can only have been written by hand -- no
command sets it -- so rows like that are initial states.

### Filters and ZipStream

A datetime is a day ordinal and seconds into the day; years and months are
found from Python's own formulas for ordinals. `Filters` has the functions of
`filters.py` under their names. A filter that the command would not have queued
is ruled out by `ZipAssumption`, not modelled as an error of the worker; one
that overflows only there is. `ZipAssumption` also says that ids are in order of
time, as snowflakes are, and that the worker's clock is past year two.

`ZipStream` is one attempt. `pc` is the await of the pulled pipeline: a member
is asked for only when the body before it has been consumed, so `Get`,
`BeginMember` and `EndMember` follow each other. `FetchPage` is a request of
discord.py's history iterator, which walks from the new to the old, or from the
old to the new when it is given `after` (`Precedes`): of what lies ahead of the
cursor (`Ahead`) it returns the first `PageSize` (`Fetched`), and drops by
predicate, on the client, what lies beyond the other bound. `page` is the set of
ids that are left of it. Ids are positions, so a snowflake of
a datetime is the number of older messages. `done` is `attachments_done`, `zip`
what really is in the archive; `snapshot` is the last progress stored. `Abort`
is anything that raises out of the pipeline, a cancellation included.

The reference definition is `Wanted`: what a filter means told by weeks, months
and ages, not by boundaries. `ArchiveComplete` compares the two, through the
walk.

Left out: the contents and names of members, `bytes_streamed`, and what
discord.py does about rate limits. The window is resolved once; a retry would
resolve it anew.

### Processes

A process is down, starting, up or stopping; `todo` is what it still has to
open or to close, in the order of the code; `open` what it has. The worker's
lists are `WORKER_STARTUP` and `WORKER_SHUTDOWN` with the middlewares and the
broker's connection where taskiq puts them, the bot's are login, `setup_hook`
and `close`. `build_pool` is two awaits, so it is two entries: "pool" is what
`create_pool` made, held by a local variable, and becomes "db_pool", which the
process knows and closes, when the schema is applied (`Holding`). A worker whose start fails exits; a bot whose `setup_hook` fails
is closed by discord.py, which is why `close` skips what is None
(`SkipMissing`). `Write` is a heartbeat write that succeeds or is lost; `Beat`,
`JobEvent` and `OpenNext` do it. A tick is thirty seconds, and does not pass
over a loop that is due.

History: `missed` (writes lost in a row), `died` (when a process went down),
`ghost` (processes that broke and may have left a sentinel).

Left out: a Redis call that hangs, for the client has no timeout; replicas of a
container, whose pids may coincide (`Alone` exempts them); the scheduler.

## Properties and runs

All runs have CHECK_DEADLOCK FALSE: the bounds on jobs, commands, faults and
the clock let a run end, as the system does when it is idle.

| Run | Bounds | Shows |
|---|---|---|
| `TaskLive` | one job, one slot, three attempts, a crash, cancellable, clock stopped, fair | `TypeOK`; `NoticeBeforeClaim`; `PartialBlobCleaned`; `RetriesAccounted`; `NeverLost`; `ForgetOnlyAfterNotice`; `EveryJobSettles`; `UndisturbedJobDelivered` |
| `TaskExpiry` | one job, three attempts, retentions 0 and 1, four instants | `LinkAlive`; `MarkedNotResent` |
| `TaskTwins` | one job, two slots, two attempts, a lost connection | `SingleFlight`; `NeverLost`; `ImplementsLifecycle` |
| `RateBucket` | two callers, one with a clock ahead, four calls, burst 2, TTL of two ticks in a run of four instants, fair | `TypeOK`; `WindowBound`; `RefusalJustified`; `EveryCallReturns` |
| `ControlCommands` | two jobs, requester and guild owner, two handlers, four turns (a `/download`, another command or an execution each), three instants an hour apart, result keys and default retention of one hour, guild rows of 0 and 2 | `TypeOK`; `RefundDue`; `CancelledOutranks`; `QueuedMeansUnstarted`; `MetaMeansListed` |
| `SettingsOwner` | two handlers, three commands, a plain and a `dm_me` job | `TypeOK`; `NeverBounces`; `IndexMatchesLink`; `ClearPreserves` |
| `Archive` | 3 messages of 1 or 2 attachments, pages of 2, one message posted meanwhile; 8 periods at 5 dates, durations, kinds, authors, policies; fair | `TypeOK`; `ArchiveComplete`; `WholeOrNothing`; `EmptyMeansNothing`; `TallyHonest`; `PositionForward`; `EveryWalkEnds` |
| `Processes` | a worker, the bot, five instants, TTL of three refresh periods, fair | `TypeOK`; `NoFalseAlarm`; `DeadDetected`; `ShutdownSilent`; `NothingLeftOpen`; `EveryStopEnds` |
| `TaskRedelivery` | one job, two slots, a crash | `LinkAliveDespiteRedelivery` fails |
| `ControlRefundTwice` | one job, two commands | `OneRefundPerToken` fails |
| `ControlStaleKeys` | one job, one command, a retention twice the life of the result keys | `AbsenceIsUnambiguous` fails |
| `HeartbeatMasked` | a worker, the bot | `WorkerProbeHonest` fails |

Why the bounds are enough. Two attempts are one more than none: every property
of `DownloadTask` about a retry relates an attempt to the one before; three,
where keys written by the first expire during the second and the third starts
afresh. One crash and one lost connection are what it takes to fork a job; a
second would only fork it again. One job suffices where the properties are per
job and jobs share nothing but slots. In `RateBucket` the clock passes one
eviction and each caller can be in the middle of a call when it happens; the
burst of two can be spent, refused and refunded within four calls. In
`ControlCommands` an hour stands for the 24 that result and progress keys live
(`tq.py`) and that a guild's retention is by default, so keys and entries expire
at the same instant; two is a longer retention, as `/setup` stores it, under
which the entry outlives the keys, and 0 one that makes `record_job` fail half
way. Each `record_job` takes one of the three, so two jobs of a user can share a
ZSET under different retentions. Two handlers are one more than a race between a
handler and the worker needs; the second adds the race between two handlers.
Four turns are two jobs, an execution and a command, or one job, a second
execution and a command, and so on: what one property relates never takes more.
`TaskTwins` has the lost connection, `TaskLive` and `TaskRedelivery` the crash;
`NeverLost` is checked against the lost connection in the one, the crash and the
cancellation in the other.
In `Archive` three messages stand around each midnight on which a period
begins, at dates that meet the ends of 28-, 29-, 30- and 31-day months, a
Monday, a New Year and a leap day; a page of two makes three messages a full
page and a short one. In `Processes` a sentinel can be written, expire and be
missed within the run; the worker's and the bot's lives repeat within it.

### Fairness

`DownloadTask` has weak fairness on `Proceed(w)`: the event loop of a worker
runs whatever await is ready, every client call it awaits returns or raises,
and RabbitMQ delivers ready messages to an idle consumer. Nothing is assumed of
users, of faults, of the clock, nor of the cancellation notice. `EveryJobSettles`
rests on the retry count; `UndisturbedJobDelivered` speaks of jobs no failure
and no cancellation touched (for retentions that are positive: with 0 the TTL
itself is the failure). `RateLimit` has weak fairness on `Advance(c)`.
`EveryCallReturns` holds because traffic is bounded by `MaxCalls`: every retry
of the WATCH loop is owed to another call's success or to an eviction. The loop
is lock-free, not wait-free: under unbounded traffic one caller can starve.
`ZipStream` has weak fairness on `Proceed`: each request is answered or raises
(aiohttp's total timeout sees to it). `Processes` has weak fairness on
`Shutdown(p)`: each close returns or raises, except the one in `NeverReturns`.

### What the code does not keep

Four runs end in a counterexample to what the repository says of itself (the
quotations are in `PROJECT.json`, "findings").

- `TaskRedelivery`: a worker dies after `on_error` re-kicked the task and
  before it acknowledged. The message comes back beside the retry. One copy
  delivers its link; the other fails in its upload and deletes the blob both
  share.
- `ControlRefundTwice`: a second `/cancel` of a queued job finds what the first
  one found, and refunds again.
- `ControlStaleKeys`: the worker's keys are gone after 24 hours, the index entry
  after the guild's retention; with a longer one a job that ran and failed reads
  as queued, where `cogs/jobs.py`:163-165 calls the absence of progress
  unambiguous.
- `HeartbeatMasked`: the bot's broker has the heartbeat middleware too, and the
  deployment gives the bot no `TASKIQ_PROCESS_ROLE`; it beats as "worker", and
  the workers' probe passes when there is no worker.

More were met while modelling; the models contain the behaviour, the hazards
name the lines, and the properties carry the exemption that makes them true.

- Retention 0 fails every job (`UndisturbedJobDelivered` is checked for
  positive ones).
- A job forgotten before it was recorded stays listed (`ForgetOnlyAfterNotice`
  is the half that holds).
- A worker between the wrapper's check and `picked_up` runs a job that was
  refunded (`RefundDue` is about the flag, not the end).
- Where the keys of a silent worker are gone before the entry, `/cancel` refunds
  a job that ran (`RefundDue` and `QueuedMeansUnstarted` say that it takes the
  worker's silence for the life of its keys, no less; with equal lifetimes it
  takes a command that straddles the expiry).
- A later `record_job` with a shorter retention, or none, takes the requester's
  earlier jobs off the list while their meta lives (`clipped` in
  `MetaMeansListed`).
- `is_ready()` holds for a stored error too: `/status` says "Job delivered" of a
  job whose last attempt failed.
- When the schema is refused, the pool it was to be applied to stays open:
  `bot.db_pool` is still None, and `close()` skips it (`NothingLeftOpen` allows
  the bot that pool).
- `/setup clear` undoes a concurrent `/setup set` (`overtaken` in
  `ClearPreserves`).
- A `dm_me` job does not look at the guild's row: its link gets the default
  retention (`DmMe` in `IndexMatchesLink`), and its filter bypasses
  `allowed_media_types`, against `filters.py`:10-11.
- Hosts whose clocks differ re-credit the difference at each alternation, since
  `last_refill` can be set back (`hasty` in `WindowBound`).
- With `after`, the walk runs from old to new and the fraction shown from 1 down
  to 0 (`OldestFirst` in `PositionForward`).
- discord.py excludes both bounds: a message at the instant a period begins is
  in none (`OnTheStroke`).
- "200000w" passes the command and overflows in the worker, at every attempt.
- `close()` waits for a health check server nobody closes (`EveryStopEnds`
  leaves that stop out); the bot ends by being killed, and leaves its sentinel.

### Mutants

An operator named `XBug` is a plausible mistake in the definition `X` below it:
a dropped guard, a swapped order, a missing reset. No specification uses it.
For each property of each passing run `PROJECT.json` names one whose
substitution makes TLC find the property violated, which shows that the
property has something to say about that code.

## Proofs

The three `DownloadTask` modules prove, for any set of tasks and slots and any
bounds that satisfy `TaskAssumption`:

| Module | Theorem | Property |
|---|---|---|
| `DownloadTaskProofs` | `TypeCorrect` | `TypeOK` |
| | `ClaimsAreHonest` | `NoticeBeforeClaim` |
| | `BlobsCorrect` | `PartialBlobCleaned` |
| | `RetriesCorrect` | `RetriesAccounted` |
| `DownloadTaskLifecycleProofs` | `NoJobLost` | `NeverLost` |
| | `ForgottenInTime` | `ForgetOnlyAfterNotice` |
| | `TaskIsALifecycle` | `ImplementsLifecycle` |
| `DownloadTaskFlightProofs` | `RetriesFlyAlone` | `SingleFlight` |
| | `MarkerIsHeeded` | `MarkedNotResent` |
| | `SentLinksLive` | `LinkAlive` |

Each has an inductive strengthening, a lemma that the initial states satisfy
it, and one that every step keeps it, with a case per action.

- `TypeInv` is `TypeOK`; the lemmas `ExecutionFields`, `ExecutionUpdates` and
  `TakeType` say once what the updates of `run[w]` preserve.
- `NoticeInv`: the property says that a marker, a "done" or a stored success
  implies a notice. None of them is set next to the send, so the invariant adds
  where an execution stands: one that is past the send, or that skipped it on
  the strength of the marker, has a notice behind it; and one that saves its
  result without an exception has come that way.
- `BlobInv`: an unsigned, unleaked blob has an execution inside the
  try/finally. The invariant is the property itself: the step that takes the
  last such execution out of the guarded region either signs, deletes, or is
  recorded as a leak.
- `RetryInv` adds to the property that an execution about to be re-kicked has
  already been counted: at "cleanup" and "on_error" with an error there is one
  error more than retries.
- `LiveInv`: `NeverLost` counts any execution, but one that has lost its
  connection puts nothing back when it dies, and one that only acknowledges has
  nothing left to do. The invariant asks for an execution that still holds its
  delivery (`Recoverable`); what it gives up it hands to the queue or to the
  result backend. Queue and slots hold enqueued jobs only.
- `TaskIsALifecycle`: the mapping moves with the queue, the slots, the results
  and the notices, so the twenty steps of the body that leave those alone
  (`BodyStep`, `BodyMoves`) are stutters, all by one lemma; `StepKinds` sorts
  the others. A job settles when the last copy goes, and `LiveInv` says that
  there is an outcome by then; that "ok" follows a notice is `NoticeInv`.
- `FlightInv` adds to `SingleFlight` that an execution without its delivery
  belongs to a forked job: a crash then puts back a message only if it takes
  the only execution with it.
- `MarkInv`: at the send, `delivered` is still what `is_delivered` saw, for
  nobody else is there to set it.
- `LinkInv`: an execution that uploads, and so may delete, found no link in the
  cache, hence no link is alive, since the cache entry expires no earlier than
  the link (`CacheArchiveUrl` comes after `Sign`, with the same retention). One
  that delivers has a link with its archive and its cache entry behind it. Its
  step uses `FlightInv`: what one execution found, no other can change.

`GuildSettingsProofs` proves, for any number of handlers, jobs, channels and
media kinds:

| Theorem | Property |
|---|---|
| `TypeCorrect` | `TypeOK` |
| `UpsertsNeverBounce` | `NeverBounces` |
| `IndexAgreesWithLink` | `IndexMatchesLink` |
| `ClearIsNoWipe` | `ClearPreserves` |

One invariant, `Inv`, carries all four. `NotesAreCurrent` says of either reader
alone that what it noted is the row's retention still, unless the row was
changed since: `IndexMatchesLink` compares the readers with each other and is
not inductive, because the second one to read says nothing of the first.
`ReadsAreCurrent` says that a clear in flight still holds the current row
unless another handler wrote since; `ClearIsNoWipe` needs it for the step that
writes the row back. That no write bounces follows from two lemmas, that what
`Accepts` lets through satisfies the CHECKs and that `Cleared` always does.

`RateLimitProofs` proves, for any number of callers, any of them with a clock
ahead, any burst, refill and length of an hour:

| Theorem | Property |
|---|---|
| `BucketsInRange` | `TypeOK` |
| `RefusalsHaveACause` | `RefusalJustified` |
| `WindowsAreBounded` | `WindowBound` |

- `SpentInv`: what a bucket lacks of the burst was spent (`Backed`), of the one
  stored, of each one a call has read, and, up to the token it takes, of each
  one a call is about to write (`BackedWrite`), whether or not its EXEC commits.
  A refusal is then the work of at least one spent token.
- `WindowInv`: there is an instant, in true time, as of which the bucket was
  written (`AsOf`). The potential it bounds is what was granted plus the balance
  refilled to the start of the window (`Account`). A call that WATCH lets
  through has read the bucket that is there, so its write is `Due`: it offers no
  more than that bucket has gained since. The write of a slower host sets
  `last_refill` back, and each write of a fast one pays for that once
  (`hasty`). An evicted bucket has been gone long enough to be full (`TTL`).

`ProcessesProofs` proves, for any workers and bots, any roles and pids, any TTL
and any refresh period below it:

| Theorem | Property |
|---|---|
| `ProcessesInRange` | `TypeOK` |
| `EverythingIsReleased` | `NothingLeftOpen` |
| `RunningIsSeen` | `NoFalseAlarm` |
| `DeadIsMissed` | `DeadDetected` |
| `StoppedIsSilent` | `ShutdownSilent` |

- `LifeInv`: what a process has open is on its stop list, and while it stops,
  on what is left of it, with the loop first while it beats; the bare pool is on
  none, but while it is open the schema is still to come (`SchemaNext`), so only
  a startup that ends there leaves it, and a worker's exits as it is.
  "Released" says nothing of the states in between, so it is not inductive.
- `CadenceInv`: a sentinel whose last `missed` writes failed is still good for a
  TTL less that many periods after the next beat (`Covered`), and that beat is
  within one period.
- `DeathInv`: no sentinel expires more than a TTL from now, so one that a killed
  process left is gone a TTL after its death, unless a namesake writes it.
- `SilenceInv`: a process that has its key to itself has a sentinel only while
  it holds the heartbeat, whose stop deletes it; a life that broke in its
  startup (`ghost`) is left out.

`JobControlProofs` proves, for any users, jobs and handlers:

| Theorem | Property | Hypothesis |
|---|---|---|
| `ControlInRange` | `TypeOK` | |
| `FlagOutranksResult` | `CancelledOutranks` | |
| `RefundsAreDue` | `RefundDue` | |
| `QueuedIsUnstarted` | `QueuedMeansUnstarted` | |
| `EntriesAreListed` | `MetaMeansListed` | |
| `PromptRefundsAreDue` | a refund only for a job not begun when flagged | `NotShorter`, `Prompt` |
| `PromptAbsenceIsUnambiguous` | `AbsenceIsUnambiguous` | `NotShorter`, `Prompt` |

The first five hold for any retentions, those of 0 and those above 24 hours
included. The last two say when the sharper statements hold, the ones the code's
comments make: if no entry of the index lives longer than the keys
(`NotShorter`; the defaults, 24 hours each, satisfy it, a longer retention set by
`/setup` does not) and each command is answered before the next key expires
(`Prompt`: one that resolved a job in the last instant of its keys may say
anything after it). `ControlStaleKeys` shows that without the first they fail.

- `StageInv` ties a job's stage at its requester, at the worker and in the index
  together.
- `FlagInv`: the flag is never taken back, so a handler that resolved a job after
  it was flagged still finds it, and a `/status` past its first read was not
  late.
- `KeyInv`: of a job that has begun there is a progress or a result key for
  `ResultHours` after the worker's last word, through retries and crashes.
- `CallInv`: a handler that resolved a begun job, finds no result and then no
  progress, is `Silent`: the worker's last word as it was when the job was
  resolved is older than the keys live. Otherwise a `/cancel` past that read came
  before the start (`early`), and so does the refund it decides on.
- `MetaInv`, under `NotShorter`: an entry lives no longer than the worker's last
  word and the life of its keys; `WordInv`, under `Prompt`, that no handler is
  `Silent` then.
- `ListInv` compares the ZSET's expiry with that of each entry in it that is not
  `clipped`.

`ZipStreamProofs` proves, for any channel, payload, policy, page size, clock past
year two and number of messages posted meanwhile:

| Theorem | Property |
|---|---|
| `PeriodSpans` | each named period is an interval of the calendar, with the ends `resolve_named_period` returns |
| `WindowMeans` | an instant is within the resolved window iff it is what the filter means, but for `OnTheStroke` |
| `ArchiveInRange` | `TypeOK` |
| `ArchiveIsWhatWasAsked` | `ArchiveComplete` |
| `MembersAreWhole` | `WholeOrNothing` |
| `EmptyIsEmpty` | `EmptyMeansNothing` |
| `ShownIsWhole` | `TallyHonest` |
| `PositionNeverGoesBack` | `PositionForward` |

The run has eight periods at five dates; the first two theorems have them at all
dates. They rest on the arithmetic of the calendar: `DaysBeforeYear` and
`FirstOfMonth` grow, so each day lies in one year and one month (`YearOfDay`,
`MonthOfDay`), and those are what a CHOOSE finds (`YearIs`, `MonthIs`).

`ArchiveComplete` speaks of the end of a walk; the invariant `Archiving` says in
every state of it what has been done.

- `Walk`: a message of the window has been passed, is in the page, or lies
  beyond the cursor, and the last only as long as there may be another page.
  Its step for `FetchPage` is the delicate one (`ShortPageEnds`): a page that is
  not full after the client's predicate ends the walk, and nothing is missed by
  it, because what the predicate dropped was too late already and ids are in
  order of time. A message posted meanwhile is behind the walk or past its end.
- `Members`: a selected attachment that was passed is in the archive or was
  skipped, and what is in the archive was passed, once.
- `Tally`: `done` is ahead of the archive by the member at hand and no more.
  `Counted` bounds it by the number of attachments, by an injection.
- `Position`: what was shown is at most what the message at hand would show.
- `Setting` carries what the walk does not change, the window among it.

The proofs assume nothing but the assumptions on the constants
(`TaskAssumption`, `RateAssumption`, `ControlAssumption`, `SettingsAssumption`,
`ZipAssumption`, `ProcessAssumption`), which TLC evaluates on every run of their
modules, and in the last two theorems of `JobControlProofs` the hypotheses above. Fairness plays no role
in them. Each inductive invariant was model-checked before it was proved.

Only model-checked: the liveness properties (`EveryJobSettles`,
`UndisturbedJobDelivered`, `EveryCallReturns`, `EveryWalkEnds`,
`EveryStopEnds`), since TLAPS has no ENABLED here. Every other property of a
passing run is a theorem. That the mutated definitions violate the properties,
and the four findings, is TLC's.

## Plan

1. Extend: `JobControl` over `JobLifecycle` in place of its own worker; a second
   attempt around `ZipStream`, with the window resolved anew.
2. Prove: the measures behind the liveness properties, as action properties (a
   walk's cursor only moves ahead, an execution's attempts only grow); for
   `Filters`, that the five kinds of media partition the content types; what
   `JobControl` owes `JobLifecycle` once it is built over it.

## Not modelled

- Embeds, presence texts, help, logging, the error handler's replies: layout.
- `general.py`, `owner.py`, the loading of cogs: Discord calls that change no
  state another part reads.
- `config.py`, `logging_setup.py`: read once.
- The scheduler: it has no schedule in this repository.
- The checks `/download` makes before the bucket: they end the handler without
  having changed anything. Which durations they let through is in `Filters`.
- A worker's memory and disk: the pipeline holds a chunk at a time.
