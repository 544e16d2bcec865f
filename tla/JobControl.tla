----------------------------- MODULE JobControl -----------------------------
(***************************************************************************)
(* The three commands a user has over a job -- /download, /status and      *)
(* /cancel -- against the user -> jobs index in Redis, the cancellation    *)
(* flag, the result backend with its expiring keys, and the worker as it   *)
(* looks from there.  The worker's steps are those of DownloadTask, the    *)
(* ones without an effect on these keys merged into their neighbours.      *)
(*                                                                         *)
(* Every await of a handler that reads or writes shared state is a step,   *)
(* so that several handlers and the worker interleave between any two.     *)
(*                                                                         *)
(* Operators named ...Bug are plausible mistakes in the definition that    *)
(* follows them; no specification uses them (see README, "Mutants").       *)
(***************************************************************************)
EXTENDS Integers, Sequences

CONSTANTS
    Jobs,              \* task_ids
    Users,
    Guilds,
    NoGuild,           \* stands for None: a command sent in a DM
    OwnerOf,           \* OwnerOf[g]: guild.owner_id
    BotOwners,         \* users for whom bot.is_owner holds
    Calls,             \* /status and /cancel handlers that may be in flight
    Retentions,        \* retention_hours values the guild rows may hold
    DefaultRetention,  \* GuildSettings.retention_hours default
    ResultHours,       \* result_ex_time, in hours
    MaxTurns,          \* bound on commands and executions, taken together
    MaxTime            \* bound on the clock, in hours

ASSUME ControlAssumption ==
    /\ Jobs # {} /\ Users # {}
    /\ NoGuild \notin Guilds
    /\ OwnerOf \in [Guilds -> Users]
    /\ BotOwners \subseteq Users
    /\ Retentions \subseteq Int
    /\ DefaultRetention \in Nat \ {0}
    /\ ResultHours \in Nat \ {0}
    /\ MaxTurns \in Nat
    /\ MaxTime \in Nat

VARIABLES
    job,         \* job[t]: who asked for it, where, and whether it cost a token
    step,        \* step[t]: next await of the /download handler that makes t
    work,        \* work[t]: where the job is, between queue and result
    cancelled,   \* cancellation state holder: jobs flagged by /cancel
    progress,    \* progress[t]: phase and expiry of the progress key
    ready,       \* ready[t]: expiry of the result key, 0 when absent
    meta,        \* task:{t}:meta, its expiry, 0 when absent
    activeJobs,  \* ZSET user:{u}:active_jobs, its members
    scores,      \* jobs in the order of their scores in these ZSETs
    listUntil,   \* expiry of that ZSET
    pc,          \* pc[h]: next await of command handler h
    call,        \* call[h]: the command and the locals of that handler
    turns,       \* commands sent and executions begun so far
    now          \* wall clock

\* What the properties remember of the past; no action reads these.
VARIABLES
    refunds,     \* refunds[t]: tokens given back for t
    begun,       \* jobs whose body has run, if only its first line
    heard,       \* heard[t]: when the worker last wrote a key for t
    clipped,     \* jobs whose ZSET a later record_job ends before their meta
    early,       \* /cancel handlers whose flag landed before their job began
    said         \* said[h]: the last /status answer of h and what was true then

askVars    == <<job, step>>
workVars   == <<work, turns>>
resultVars == <<progress, ready>>
indexVars  == <<meta, activeJobs, scores, listUntil>>
callVars   == <<pc, call>>
histVars   == <<refunds, begun, heard, clipped, early, said>>
vars == <<askVars, workVars, cancelled, resultVars, indexVars, callVars, now,
          histVars>>
-----------------------------------------------------------------------------
(* Values *)

Places == Guilds \cup {NoGuild}

\* retention_hours as the /download handler computes it.
Hours(place) ==
    IF place = NoGuild THEN {DefaultRetention}
    ELSE Retentions \cup {DefaultRetention}

\* JobMeta.
JobMeta == [user : Users, guild : Places, token : BOOLEAN]

NoProgress == [phase |-> "none", exp |-> 0]
Answer == [label : {"none", "cancelled", "done", "queued", "working"},
           late : BOOLEAN, begun : BOOLEAN, silent : BOOLEAN]
NoAnswer == [label |-> "none", late |-> FALSE, begun |-> FALSE,
             silent |-> FALSE]

\* The locals of a handler; `late' (the job was flagged when it was resolved)
\* and `word' (when the worker had last written a key for it by then) are for
\* the properties, `aged' for the bound on a command's duration.
NoCall == [cmd |-> "status", job |-> CHOOSE t \in Jobs : TRUE,
           ready |-> FALSE, late |-> FALSE, word |-> 0, aged |-> FALSE]

TypeOK ==
    /\ job \in [Jobs -> JobMeta]
    /\ step \in [Jobs -> {"none", "kiq", "record", "over"}]
    /\ work \in [Jobs -> {"none", "queued", "checked", "running", "forget",
                          "save", "over"}]
    /\ cancelled \subseteq Jobs
    /\ \A t \in Jobs : /\ progress[t].phase \in {"none", "working", "done"}
                       /\ progress[t].exp \in Nat
    /\ ready \in [Jobs -> Nat]
    /\ meta \in [Jobs -> Nat]
    /\ activeJobs \in [Users -> SUBSET Jobs]
    /\ \A u \in Users : \A t \in activeJobs[u] : job[t].user = u
    /\ scores \in Seq(Jobs)
    /\ listUntil \in [Users -> Nat]
    /\ pc \in [Calls -> {"idle", "latest", "meta", "is_cancelled", "cancel",
                         "is_ready", "progress", "refund"}]
    /\ \A h \in Calls : /\ call[h].cmd \in {"status", "cancel"}
                        /\ call[h].job \in Jobs
                        /\ call[h].word \in Nat
    /\ turns \in 0 .. MaxTurns
    /\ now \in 0 .. MaxTime
    /\ refunds \in [Jobs -> Nat]
    /\ begun \subseteq Jobs
    /\ heard \in [Jobs -> Nat]
    /\ clipped \subseteq Jobs
    /\ early \subseteq Calls
    /\ said \in [Calls -> Answer]

Init ==
    /\ job = [t \in Jobs |-> [user |-> CHOOSE u \in Users : TRUE,
                              guild |-> NoGuild, token |-> FALSE]]
    /\ step = [t \in Jobs |-> "none"]
    /\ work = [t \in Jobs |-> "none"]
    /\ cancelled = {}
    /\ progress = [t \in Jobs |-> NoProgress]
    /\ ready = [t \in Jobs |-> 0]
    /\ meta = [t \in Jobs |-> 0]
    /\ activeJobs = [u \in Users |-> {}]
    /\ scores = <<>>
    /\ listUntil = [u \in Users |-> 0]
    /\ pc = [h \in Calls |-> "idle"]
    /\ call = [h \in Calls |-> NoCall]
    /\ turns = 0
    /\ now = 0
    /\ refunds = [t \in Jobs |-> 0]
    /\ begun = {}
    /\ heard = [t \in Jobs |-> 0]
    /\ clipped = {}
    /\ early = {}
    /\ said = [h \in Calls |-> NoAnswer]
-----------------------------------------------------------------------------
(* /download *)

\* A user sends a command, or a worker takes a job from the queue.
TakeTurn ==
    /\ turns < MaxTurns
    /\ turns' = turns + 1

\* Guild owners and DM contexts bypass the bucket.
ConsumesToken(u, place) == place # NoGuild /\ OwnerOf[place] # u

\* Validation passed and the bucket, if asked, granted a token (RateLimit).
Download(t) ==
    /\ step[t] = "none"
    /\ TakeTurn
    /\ \E u \in Users, place \in Places :
           job' = [job EXCEPT ![t] = [user |-> u, guild |-> place,
                                      token |-> ConsumesToken(u, place)]]
    /\ step' = [step EXCEPT ![t] = "kiq"]
    /\ UNCHANGED <<work, cancelled, resultVars, indexVars, callVars, now,
                   histVars>>

Kiq(t) ==
    /\ step[t] = "kiq"
    /\ step' = [step EXCEPT ![t] = "record"]
    /\ work' = [work EXCEPT ![t] = "queued"]
    /\ UNCHANGED <<job, turns, cancelled, resultVars, indexVars, callVars,
                   now, histVars>>

\* kiq() raises: "Service unavailable", although the message may be in the
\* queue if it was the broker's confirmation that got lost.
KiqFails(t) ==
    /\ step[t] = "kiq"
    /\ step' = [step EXCEPT ![t] = "over"]
    /\ \E published \in BOOLEAN :
           work' = IF published THEN [work EXCEPT ![t] = "queued"] ELSE work
    /\ UNCHANGED <<job, turns, cancelled, resultVars, indexVars, callVars,
                   now, histVars>>

\* "owner" read as the owner of the guild.
ListOwnerBug(t) ==
    IF job[t].guild = NoGuild THEN job[t].user ELSE OwnerOf[job[t].guild]

\* Whose ZSET a job goes to: meta["owner_user_id"], the requester.
ListOwner(t) == job[t].user

\* EXPIRE NX: the first record_job decides.
ListExpiryBug(u, ttl) == IF listUntil[u] = 0 THEN now + ttl ELSE listUntil[u]

\* EXPIRE of the ZSET: the latest record_job decides.
ListExpiry(u, ttl) == now + ttl

\* With t recorded, u's ZSET ends at `until': the jobs to outlive it.
Clip(u, t, until) ==
    clipped' = (clipped \ activeJobs[u])
                   \cup {s \in activeJobs[u] \ {t} : meta[s] > until}

\* record_job: SET meta, ZADD with the time as its score, and EXPIRE, in one
\* transaction.
RecordJob(t) ==
    /\ step[t] = "record"
    /\ step' = [step EXCEPT ![t] = "over"]
    /\ LET u == ListOwner(t)
       IN  \E ttl \in Hours(job[t].guild) :
               /\ ttl > 0
               /\ meta' = [meta EXCEPT ![t] = now + ttl]
               /\ activeJobs' = [activeJobs EXCEPT ![u] = @ \cup {t}]
               /\ scores' = Append(scores, t)
               /\ listUntil' = [listUntil EXCEPT ![u] = ListExpiry(u, ttl)]
               /\ Clip(u, t, ListExpiry(u, ttl))
    /\ UNCHANGED <<job, workVars, cancelled, resultVars, callVars, now,
                   refunds, begun, heard, early, said>>

\* The TTL is not positive.  EXEC refuses the SET but runs the rest: the ZADD,
\* and an EXPIRE that deletes the ZSET with every job in it.
RecordJobRefused(t) ==
    /\ step[t] = "record"
    /\ step' = [step EXCEPT ![t] = "over"]
    /\ \E ttl \in Hours(job[t].guild) : ttl <= 0
    /\ LET u == ListOwner(t)
       IN  /\ activeJobs' = [activeJobs EXCEPT ![u] = {}]
           /\ listUntil' = [listUntil EXCEPT ![u] = 0]
           /\ Clip(u, t, 0)
    /\ UNCHANGED <<job, workVars, cancelled, resultVars, meta, scores,
                   callVars, now, refunds, begun, heard, early, said>>

\* Postgres or Redis fails: nothing is recorded, the job runs all the same.
RecordJobFails(t) ==
    /\ step[t] = "record"
    /\ step' = [step EXCEPT ![t] = "over"]
    /\ UNCHANGED <<job, workVars, cancelled, resultVars, indexVars, callVars,
                   now, histVars>>
-----------------------------------------------------------------------------
(* The worker, as the commands can tell *)

MoveTo(t, place) == work' = [work EXCEPT ![t] = place]

\* set_progress; the key expires with result_ex_time.
SetProgress(t, phase) ==
    /\ progress' = [progress EXCEPT ![t] = [phase |-> phase,
                                            exp |-> now + ResultHours]]
    /\ heard' = [heard EXCEPT ![t] = now]

\* ZREM from u's ZSET; with its last member the key goes.
Zrem(u, t) ==
    /\ activeJobs' = [activeJobs EXCEPT ![u] = @ \ {t}]
    /\ listUntil' = [listUntil EXCEPT ![u] =
                         IF activeJobs[u] \subseteq {t} THEN 0 ELSE @]
    /\ UNCHANGED scores

\* ZREM without the DEL.
UnlistBug(t) ==
    /\ Zrem(ListOwner(t), t)
    /\ UNCHANGED meta

\* Both keys of the index, in one transaction.
Unlist(t) ==
    /\ Zrem(ListOwner(t), t)
    /\ meta' = [meta EXCEPT ![t] = 0]

\* A worker takes the message; its wrapper looks at the flag.
Pickup(t) ==
    /\ work[t] = "queued"
    /\ TakeTurn
    /\ MoveTo(t, IF t \in cancelled THEN "save" ELSE "checked")
    /\ UNCHANGED <<askVars, cancelled, resultVars, indexVars, callVars, now,
                   histVars>>

\* The body starts without saying so.
StartBug(t) ==
    /\ work[t] = "checked"
    /\ MoveTo(t, "running")
    /\ begun' = begun \cup {t}
    /\ UNCHANGED <<askVars, turns, cancelled, resultVars, indexVars,
                   callVars, now, refunds, heard, clipped, early, said>>

\* The first line of the body: phase "picked_up".
Start(t) ==
    /\ work[t] = "checked"
    /\ MoveTo(t, "running")
    /\ SetProgress(t, "working")
    /\ begun' = begun \cup {t}
    /\ UNCHANGED <<askVars, turns, cancelled, ready, indexVars, callVars,
                   now, refunds, clipped, early, said>>

\* Phases "stream" and "deliver".
Progress(t) ==
    /\ work[t] = "running"
    /\ SetProgress(t, "working")
    /\ UNCHANGED <<askVars, workVars, cancelled, ready, indexVars, callVars,
                   now, refunds, begun, clipped, early, said>>

\* The requester is notified (now or in an earlier execution); phase "done".
Deliver(t) ==
    /\ work[t] = "running"
    /\ SetProgress(t, "done")
    /\ MoveTo(t, "forget")
    /\ UNCHANGED <<askVars, turns, cancelled, ready, indexVars, callVars,
                   now, refunds, begun, clipped, early, said>>

ForgetJob(t) ==
    /\ work[t] = "forget"
    /\ Unlist(t)
    /\ MoveTo(t, "save")
    /\ UNCHANGED <<askVars, turns, cancelled, resultVars, callVars, now,
                   histVars>>

\* forget_job raises: the job still succeeds.
ForgetJobFails(t) ==
    /\ work[t] = "forget"
    /\ MoveTo(t, "save")
    /\ UNCHANGED <<askVars, turns, cancelled, resultVars, indexVars,
                   callVars, now, histVars>>

\* An execution raises: retried, or stored as the job's result.
Error(t) ==
    /\ work[t] \in {"checked", "running"}
    /\ \E retried \in BOOLEAN : MoveTo(t, IF retried THEN "queued" ELSE "save")
    /\ UNCHANGED <<askVars, turns, cancelled, resultVars, indexVars,
                   callVars, now, histVars>>

\* The cancellation notice reaches the body: never retried.
Interrupt(t) ==
    /\ t \in cancelled
    /\ work[t] \in {"checked", "running", "forget"}
    /\ MoveTo(t, "save")
    /\ UNCHANGED <<askVars, turns, cancelled, resultVars, indexVars,
                   callVars, now, histVars>>

\* The worker dies before it acknowledged; RabbitMQ requeues the message.
Crash(t) ==
    /\ work[t] \in {"checked", "running", "forget", "save"}
    /\ MoveTo(t, "queued")
    /\ UNCHANGED <<askVars, turns, cancelled, resultVars, indexVars,
                   callVars, now, histVars>>

SaveResult(t) ==
    /\ work[t] = "save"
    /\ \/ /\ ready' = [ready EXCEPT ![t] = now + ResultHours]
          /\ heard' = [heard EXCEPT ![t] = now]
       \/ UNCHANGED <<ready, heard>>  \* Redis failed
    /\ MoveTo(t, "over")
    /\ UNCHANGED <<askVars, turns, cancelled, progress, indexVars,
                   callVars, now, refunds, begun, clipped, early, said>>
-----------------------------------------------------------------------------
(* /status and /cancel *)

Goto(h, next) == pc' = [pc EXCEPT ![h] = next]

\* The handler has answered; forget its locals.
Finish(h) ==
    /\ Goto(h, "idle")
    /\ call' = [call EXCEPT ![h] = NoCall]
    /\ early' = early \ {h}

\* A user sends a command, with a task_id or without.
Command(h) ==
    /\ pc[h] = "idle"
    /\ TakeTurn
    /\ \E cmd \in {"status", "cancel"} :
           \/ /\ call' = [call EXCEPT ![h].cmd = cmd]
              /\ Goto(h, "latest")
           \/ \E t \in Jobs :
                  /\ call' = [call EXCEPT ![h].cmd = cmd, ![h].job = t]
                  /\ Goto(h, "meta")
    /\ said' = [said EXCEPT ![h] = NoAnswer]
    /\ UNCHANGED <<askVars, work, cancelled, resultVars, indexVars, now,
                   refunds, begun, heard, clipped, early>>

\* No task_id given: latest_job_for_user, the member with the highest score.
LatestJob(h) ==
    /\ pc[h] = "latest"
    /\ \E u \in Users :
           \/ activeJobs[u] = {} /\ Finish(h)
           \/ \E i \in 1 .. Len(scores) :
                  /\ scores[i] \in activeJobs[u]
                  /\ \A j \in i + 1 .. Len(scores) :
                         scores[j] \notin activeJobs[u]
                  /\ call' = [call EXCEPT ![h].job = scores[i]]
                  /\ Goto(h, "meta")
                  /\ UNCHANGED early
    /\ UNCHANGED <<askVars, workVars, cancelled, resultVars, indexVars,
                   now, refunds, begun, heard, clipped, said>>

\* _can_act_on: the requester, a bot owner, or the owner of the job's guild
\* from within that guild.
CanActOn(u, place, t) ==
    \/ u = job[t].user
    \/ u \in BotOwners
    \/ place \in Guilds /\ place = job[t].guild /\ u = OwnerOf[place]

\* get_job_meta and the authorisation check; a miss and a refusal look alike.
\* Who asks, and from where, is chosen here, where it is first looked at; of a
\* no-argument command it is the requester, and a refusal stands for CallFails.
ResolveJob(h) ==
    LET t == call[h].job
    IN  /\ pc[h] = "meta"
        /\ \E u \in Users, place \in Places :
               IF meta[t] # 0 /\ CanActOn(u, place, t)
               THEN /\ Goto(h, IF call[h].cmd = "status" THEN "is_cancelled"
                                                         ELSE "cancel")
                    /\ call' = [call EXCEPT
                           ![h].late = t \in cancelled,
                           ![h].word = IF t \in begun THEN heard[t] ELSE now]
                    /\ UNCHANGED early
               ELSE Finish(h)
        /\ UNCHANGED <<askVars, workVars, cancelled, resultVars, indexVars,
                       now, refunds, begun, heard, clipped, said>>

\* /status answers and is done.
Say(h, label) ==
    LET t == call[h].job
    IN  /\ said' = [said EXCEPT ![h] =
               [label |-> label, late |-> call[h].late,
                begun |-> t \in begun,
                silent |-> call[h].word + ResultHours <= now]]
        /\ Finish(h)

\* A result outranks the flag.
IsCancelledBug(h) ==
    /\ pc[h] = "is_cancelled"
    /\ IF call[h].job \in cancelled /\ ready[call[h].job] = 0
       THEN Say(h, "cancelled")
       ELSE Goto(h, "is_ready") /\ UNCHANGED <<call, early, said>>
    /\ UNCHANGED <<askVars, workVars, cancelled, resultVars, indexVars,
                   now, refunds, begun, heard, clipped>>

\* /status asks for the flag first.
IsCancelled(h) ==
    /\ pc[h] = "is_cancelled"
    /\ IF call[h].job \in cancelled
       THEN Say(h, "cancelled")
       ELSE Goto(h, "is_ready") /\ UNCHANGED <<call, early, said>>
    /\ UNCHANGED <<askVars, workVars, cancelled, resultVars, indexVars,
                   now, refunds, begun, heard, clipped>>

\* /cancel sets the flag first.
Cancel(h) ==
    LET t == call[h].job
    IN  /\ pc[h] = "cancel"
        /\ cancelled' = cancelled \cup {t}
        /\ early' = IF t \in begun THEN early ELSE early \cup {h}
        /\ Goto(h, "is_ready")
        /\ UNCHANGED <<askVars, workVars, resultVars, indexVars, call,
                       now, refunds, begun, heard, clipped, said>>

\* is_ready: enough for /status, remembered by /cancel.
IsReady(h) ==
    /\ pc[h] = "is_ready"
    /\ LET there == ready[call[h].job] # 0
       IN  IF call[h].cmd = "status" /\ there
           THEN Say(h, "done")
           ELSE /\ call' = [call EXCEPT ![h].ready = there]
                /\ Goto(h, "progress")
                /\ UNCHANGED <<early, said>>
    /\ UNCHANGED <<askVars, workVars, cancelled, resultVars, indexVars,
                   now, refunds, begun, heard, clipped>>

StatusProgress(h) ==
    /\ pc[h] = "progress"
    /\ call[h].cmd = "status"
    /\ LET phase == progress[call[h].job].phase
       IN  Say(h, IF phase = "none" THEN "queued" ELSE phase)
    /\ UNCHANGED <<askVars, workVars, cancelled, resultVars, indexVars,
                   now, refunds, begun, heard, clipped>>

\* A refund for every cancelled job without a result.
RefundEligibleBug(h) == job[call[h].job].token /\ ~call[h].ready

RefundEligible(h) ==
    /\ job[call[h].job].token
    /\ ~call[h].ready
    /\ progress[call[h].job] = NoProgress

CancelProgress(h) ==
    /\ pc[h] = "progress"
    /\ call[h].cmd = "cancel"
    /\ IF RefundEligible(h) /\ job[call[h].job].guild # NoGuild
       THEN Goto(h, "refund") /\ UNCHANGED <<call, early>>
       ELSE Finish(h)
    /\ UNCHANGED <<askVars, workVars, cancelled, resultVars, indexVars,
                   now, refunds, begun, heard, clipped, said>>

\* ratelimit.refund (RateLimit).
Refund(h) ==
    /\ pc[h] = "refund"
    /\ refunds' = [refunds EXCEPT ![call[h].job] = @ + 1]
    /\ Finish(h)
    /\ UNCHANGED <<askVars, workVars, cancelled, resultVars, indexVars,
                   now, begun, heard, clipped, said>>

\* Redis or RabbitMQ fails at the current await: the handler raises, or, at
\* the refund, logs it and answers all the same.
CallFails(h) ==
    /\ pc[h] # "idle"
    /\ Finish(h)
    /\ UNCHANGED <<askVars, workVars, cancelled, resultVars, indexVars,
                   now, refunds, begun, heard, clipped, said>>
-----------------------------------------------------------------------------
(* Time *)

Left(until) == IF until > now + 1 THEN until ELSE 0

\* An hour passes; Redis drops the keys whose time has come.  A command is
\* answered within the hour, so at most one tick falls into a /status or a
\* /cancel; none is let fall between kiq() and record_job.
Tick ==
    /\ now < MaxTime
    /\ \A h \in Calls : ~call[h].aged
    /\ \A t \in Jobs : step[t] # "record"
    /\ now' = now + 1
    /\ call' = [h \in Calls |-> [call[h] EXCEPT !.aged = pc[h] # "idle"]]
    /\ meta' = [t \in Jobs |-> Left(meta[t])]
    /\ ready' = [t \in Jobs |-> Left(ready[t])]
    /\ progress' = [t \in Jobs |->
           IF Left(progress[t].exp) = 0 THEN NoProgress ELSE progress[t]]
    /\ listUntil' = [u \in Users |-> Left(listUntil[u])]
    /\ activeJobs' = [u \in Users |->
           IF Left(listUntil[u]) = 0 THEN {} ELSE activeJobs[u]]
    /\ UNCHANGED <<askVars, workVars, cancelled, scores, pc, histVars>>
-----------------------------------------------------------------------------
(* The specification *)

Ask(t) ==
    \/ Download(t) \/ Kiq(t) \/ KiqFails(t) \/ RecordJob(t)
    \/ RecordJobRefused(t) \/ RecordJobFails(t)

Work(t) ==
    \/ Pickup(t) \/ Start(t) \/ Progress(t) \/ Deliver(t) \/ ForgetJob(t)
    \/ ForgetJobFails(t) \/ Error(t) \/ Interrupt(t) \/ Crash(t)
    \/ SaveResult(t)

Handle(h) ==
    \/ Command(h) \/ LatestJob(h) \/ ResolveJob(h) \/ IsCancelled(h)
    \/ Cancel(h) \/ IsReady(h) \/ StatusProgress(h) \/ CancelProgress(h)
    \/ Refund(h) \/ CallFails(h)

Next ==
    \/ \E t \in Jobs : Ask(t) \/ Work(t)
    \/ \E h \in Calls : Handle(h)
    \/ Tick

Spec == Init /\ [][Next]_vars
-----------------------------------------------------------------------------
(* Properties *)

\* "Cancel FIRST, then snapshot": a refund goes only to a job that cost a
\* token and whose body had not begun when this /cancel's flag landed, although
\* the two reads that decide it come later, one by one, with the worker running
\* on -- or to a job the worker had, by the time the command resolved it, left
\* without a word for so long that its keys have expired since.
RefundDue ==
    \A h \in Calls : pc[h] = "refund" =>
        /\ job[call[h].job].token
        /\ h \in early \/ call[h].word + ResultHours <= now

\* "Cancelled outranks delivered": a /status that resolved a job already
\* flagged calls it cancelled, whatever the worker does meanwhile.
CancelledOutranks ==
    \A h \in Calls : said[h].late => said[h].label = "cancelled"

\* /status says "queued" of a job whose body has run, in this execution or an
\* earlier one, only after the worker's silence has outlived its keys.
QueuedMeansUnstarted ==
    \A h \in Calls :
        said[h].label = "queued" => ~said[h].begun \/ said[h].silent

\* The index never holds half a job: while task:{t}:meta lives, the no-argument
\* commands of its requester find t in the ZSET, which has one expiry for all
\* of the requester's jobs -- unless a job recorded later, under a retention
\* too short for t or none, ended the ZSET early.
MetaMeansListed ==
    \A t \in Jobs \ clipped : meta[t] # 0 => t \in activeJobs[job[t].user]
-----------------------------------------------------------------------------
(* What the repository says of the commands, and the code does not keep *)

\* README, /cancel: "that token is refunded"; jobs.py: "otherwise we'd add a
\* token that was never spent".
OneRefundPerToken == \A t \in Jobs : refunds[t] <= 1

\* cogs/jobs.py: "The task body's first line emits picked_up, so absence of
\* progress is unambiguous".  /status says "queued" of no job that ever ran.
AbsenceIsUnambiguous ==
    \A h \in Calls : said[h].label = "queued" => ~said[h].begun
=============================================================================
