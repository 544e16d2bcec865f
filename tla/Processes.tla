------------------------------ MODULE Processes ------------------------------
(***************************************************************************)
(* The processes of a deployment: how a worker and the bot open and close  *)
(* what they hold (tq.py, bot.py, db/pool.py, discord_rest), the heartbeat *)
(* each broker keeps in Redis meanwhile, and the probe that looks for it   *)
(* (worker/healthcheck.py).                                                *)
(*                                                                         *)
(* Operators named ...Bug are plausible mistakes in the definition that    *)
(* follows them; no specification uses them.                               *)
(***************************************************************************)
EXTENDS Integers, Sequences, SequencesExt

CONSTANTS
    Workers,      \* processes of `taskiq worker'
    Bots,         \* processes of bot.py
    ProcessRole,  \* ProcessRole[p]: its TASKIQ_PROCESS_ROLE, or Unset
    Unset,
    Pid,          \* Pid[p]: os.getpid()
    Ttl,          \* _HEARTBEAT_TTL_SECONDS, in ticks
    Refresh,      \* _HEARTBEAT_REFRESH_SECONDS, in ticks
    MaxTime       \* bound on the clock

Procs == Workers \cup Bots

ASSUME ProcessAssumption ==
    /\ Workers \cap Bots = {}
    /\ DOMAIN ProcessRole = Procs
    /\ DOMAIN Pid = Procs
    /\ Refresh \in Nat \ {0}
    /\ Ttl \in Nat
    /\ Refresh < Ttl
    /\ MaxTime \in Nat

VARIABLES
    phase,     \* phase[p]: where the process is in its life
    todo,      \* todo[p]: resources still to open, or to close, next first
    open,      \* open[p]: resources it holds
    wake,      \* wake[p]: when its heartbeat loop comes out of its sleep
    sentinel,  \* sentinel[k]: expiry of Redis taskiq:heartbeat:{k}, or 0
    now        \* the clock

\* What the properties remember of the past; no action reads these.
VARIABLES
    missed,    \* missed[p]: heartbeat writes lost since the last that was not,
               \* as far as it matters: Ttl - 1 stands for that and more
    died,      \* died[p]: when it went down, if it is down
    ghost      \* processes whose sentinel a life that broke may have left

lifeVars == <<phase, todo, open>>
histVars == <<missed, died, ghost>>
vars == <<lifeVars, wake, sentinel, now, histVars>>
-----------------------------------------------------------------------------
(* Resources *)

\* WORKER_STARTUP in its order, then the middlewares', then the connection.
\* "pool" is what build_pool has created, "db_pool" what it returns after the
\* schema was applied.
WorkerStart == <<"discord_client", "download_session", "storage", "pool",
                 "db_pool", "redis", "heartbeat", "rabbitmq">>

\* The loop is left running.
WorkerStopBug == <<"storage", "download_session", "discord_client", "db_pool",
                   "redis", "heartbeat", "heartbeat_loop", "rabbitmq">>

\* WORKER_SHUTDOWN in its order, then the middlewares': the idle loop first,
\* then the sentinel.
WorkerStop == <<"storage", "download_session", "discord_client", "db_pool",
                "redis", "heartbeat_loop", "heartbeat", "rabbitmq">>

\* Login, then setup_hook.
BotStart == <<"discord_client", "heartbeat", "rabbitmq", "pool", "db_pool",
              "redis", "healthcheck_server">>

\* DiscordBot.close, the broker's shutdown in the middle of it.
BotStop == <<"healthcheck_server", "heartbeat_loop", "heartbeat", "rabbitmq",
             "db_pool", "redis", "discord_client">>

StopList(p) == IF p \in Workers THEN WorkerStop ELSE BotStop

\* Closing them waits for what nobody does: close() awaits wait_closed() of a
\* server it has not closed, and an uncancelled loop would not end either.
NeverReturnsBug == {"healthcheck_server", "heartbeat_loop"}

\* close() awaits wait_closed() of a server it has not closed.
NeverReturns == {"healthcheck_server"}

Resources == Range(WorkerStart) \cup Range(BotStart) \cup {"heartbeat_loop"}
-----------------------------------------------------------------------------
(* The heartbeat *)

\* os.environ.get("TASKIQ_PROCESS_ROLE", "worker")
Role(p) == IF ProcessRole[p] = Unset THEN "worker" ELSE ProcessRole[p]
Key(p) == <<Role(p), Pid[p]>>
Keys == {Key(p) : p \in Procs}
Fresh(k) == sentinel[k] > now

\* The probe: `python -m downloader_bot.worker.healthcheck' for a role.
Healthy(role) == \E k \in Keys : k[1] = role /\ Fresh(k)

\* SET without EX: a sentinel for good.
ExpiryBug == MaxTime + Ttl + 1

Expiry == now + Ttl

\* _refresh: SET with a fresh TTL; a Redis error is logged and swallowed.
Write(p) ==
    \/ /\ sentinel' = [sentinel EXCEPT ![Key(p)] = Expiry]
       /\ missed' = [missed EXCEPT ![p] = 0]
       /\ ghost' = ghost \ {p}
    \/ /\ missed' = [missed EXCEPT ![p] = IF @ < Ttl - 1 THEN @ + 1 ELSE @]
       /\ UNCHANGED <<sentinel, ghost>>

\* The loop sleeps as long as the sentinel lives.
SleepBug == Ttl

Sleep == Refresh

Beating(p) == "heartbeat_loop" \in open[p]

\* _loop comes out of its sleep, writes, and sleeps again.
Beat(p) ==
    /\ Beating(p)
    /\ wake[p] = now
    /\ Write(p)
    /\ wake' = [wake EXCEPT ![p] = now + Sleep]
    /\ UNCHANGED <<lifeVars, now, died>>

\* pre_execute and post_execute: a worker begins or ends a job.
JobEvent(p) ==
    /\ p \in Workers
    /\ phase[p] = "up"
    /\ Write(p)
    /\ UNCHANGED <<lifeVars, wake, now, died>>
-----------------------------------------------------------------------------
(* Starting *)

TypeOK ==
    /\ phase \in [Procs -> {"down", "starting", "up", "stopping"}]
    /\ todo \in [Procs -> Seq(Resources)]
    /\ open \in [Procs -> SUBSET Resources]
    /\ wake \in [Procs -> Nat]
    /\ \A p \in Procs : Beating(p) => wake[p] >= now
    /\ sentinel \in [Keys -> 0 .. MaxTime + Ttl]
    /\ now \in 0 .. MaxTime
    /\ missed \in [Procs -> 0 .. Ttl - 1]
    /\ died \in [Procs -> 0 .. now]
    /\ ghost \subseteq Procs

Init ==
    /\ phase = [p \in Procs |-> "down"]
    /\ todo = [p \in Procs |-> <<>>]
    /\ open = [p \in Procs |-> {}]
    /\ wake = [p \in Procs |-> 0]
    /\ sentinel = [k \in Keys |-> 0]
    /\ now = 0
    /\ missed = [p \in Procs |-> Ttl - 1]
    /\ died = [p \in Procs |-> 0]
    /\ ghost = {}

Launch(p) ==
    /\ phase[p] = "down"
    /\ phase' = [phase EXCEPT ![p] = "starting"]
    /\ todo' = [todo EXCEPT ![p] = IF p \in Workers THEN WorkerStart
                                   ELSE BotStart]
    /\ open' = [open EXCEPT ![p] = {}]
    /\ died' = [died EXCEPT ![p] = 0]
    /\ UNCHANGED <<wake, sentinel, now, missed, ghost>>

\* With r opened.  Until the schema is applied, the pool is in a local of
\* build_pool only; HeartbeatMiddleware.startup starts the loop.
Holding(held, r) ==
    IF r = "heartbeat" THEN held \cup {r, "heartbeat_loop"}
    ELSE (IF r = "db_pool" THEN held \ {"pool"} ELSE held) \cup {r}

\* The next resource is there; with the heartbeat, its first sentinel is
\* written, as well as it can.
OpenNext(p) ==
    /\ phase[p] = "starting"
    /\ todo[p] # <<>>
    /\ todo' = [todo EXCEPT ![p] = Tail(@)]
    /\ open' = [open EXCEPT ![p] = Holding(@, Head(todo[p]))]
    /\ IF Head(todo[p]) = "heartbeat"
       THEN Write(p) /\ wake' = [wake EXCEPT ![p] = now + Sleep]
       ELSE UNCHANGED <<sentinel, missed, ghost, wake>>
    /\ UNCHANGED <<phase, now, died>>

Ready(p) ==
    /\ phase[p] = "starting"
    /\ todo[p] = <<>>
    /\ phase' = [phase EXCEPT ![p] = "up"]
    /\ UNCHANGED <<todo, open, wake, sentinel, now, histVars>>

\* The process is gone, and its loop with it.
Gone(p) ==
    /\ phase' = [phase EXCEPT ![p] = "down"]
    /\ todo' = [todo EXCEPT ![p] = <<>>]
    /\ wake' = [wake EXCEPT ![p] = 0]
    /\ missed' = [missed EXCEPT ![p] = Ttl - 1]
    /\ died' = [died EXCEPT ![p] = now]

\* It does not get to its end; the system reclaims what it held.
Breaks(p) ==
    /\ Gone(p)
    /\ open' = [open EXCEPT ![p] = {}]
    /\ ghost' = ghost \cup {p}

\* It gets to its end, with whatever it did not release.
Exits(p) ==
    /\ Gone(p)
    /\ open' = [open EXCEPT ![p] = @ \ {"heartbeat_loop"}]
    /\ UNCHANGED ghost

\* Discord, Azure, Postgres (the connection or the schema) or RabbitMQ refuses:
\* a worker process exits as it is, discord.py's runner calls the bot's close().
OpenFails(p) ==
    /\ phase[p] = "starting"
    /\ todo[p] # <<>>
    /\ Head(todo[p]) \notin {"redis", "heartbeat", "download_session"}
    /\ IF p \in Workers
       THEN Breaks(p)
       ELSE /\ phase' = [phase EXCEPT ![p] = "stopping"]
            /\ todo' = [todo EXCEPT ![p] = StopList(p)]
            /\ UNCHANGED <<open, wake, histVars>>
    /\ UNCHANGED <<sentinel, now>>
-----------------------------------------------------------------------------
(* Stopping *)

Stop(p) ==
    /\ phase[p] = "up"
    /\ phase' = [phase EXCEPT ![p] = "stopping"]
    /\ todo' = [todo EXCEPT ![p] = StopList(p)]
    /\ UNCHANGED <<open, wake, sentinel, now, histVars>>

\* The next resource is released; the sentinel is deleted with the heartbeat.
CloseNext(p) ==
    /\ phase[p] = "stopping"
    /\ todo[p] # <<>>
    /\ Head(todo[p]) \in open[p] \ NeverReturns
    /\ todo' = [todo EXCEPT ![p] = Tail(@)]
    /\ open' = [open EXCEPT ![p] = @ \ {Head(todo[p])}]
    /\ sentinel' = IF Head(todo[p]) = "heartbeat"
                   THEN [sentinel EXCEPT ![Key(p)] = 0] ELSE sentinel
    /\ UNCHANGED <<phase, wake, now, histVars>>

\* close() as if setup_hook had always come to its end: an AttributeError ends
\* the process.
SkipMissingBug(p) ==
    /\ phase[p] = "stopping"
    /\ todo[p] # <<>>
    /\ Head(todo[p]) \notin open[p]
    /\ Exits(p)
    /\ UNCHANGED <<sentinel, now>>

\* What setup_hook did not get to is None, and skipped.
SkipMissing(p) ==
    /\ phase[p] = "stopping"
    /\ todo[p] # <<>>
    /\ Head(todo[p]) \notin open[p]
    /\ todo' = [todo EXCEPT ![p] = Tail(@)]
    /\ UNCHANGED <<phase, open, wake, sentinel, now, histVars>>

\* A close raises, or times out: the ones after it are not reached.
CloseFails(p) ==
    /\ phase[p] = "stopping"
    /\ todo[p] # <<>>
    /\ Head(todo[p]) \in open[p] \ NeverReturns
    /\ Breaks(p)
    /\ UNCHANGED <<sentinel, now>>

Stopped(p) ==
    /\ phase[p] = "stopping"
    /\ todo[p] = <<>>
    /\ Exits(p)
    /\ UNCHANGED <<sentinel, now>>

\* SIGKILL, an OOM kill, the host.
Crash(p) ==
    /\ phase[p] # "down"
    /\ Breaks(p)
    /\ UNCHANGED <<sentinel, now>>
-----------------------------------------------------------------------------
(* The specification *)

\* A loop that is due runs before time goes on.
Tick ==
    /\ now < MaxTime
    /\ \A p \in Procs : Beating(p) => wake[p] > now
    /\ now' = now + 1
    /\ sentinel' = [k \in Keys |-> IF sentinel[k] > now + 1 THEN sentinel[k] ELSE 0]
    /\ UNCHANGED <<lifeVars, wake, histVars>>

Shutdown(p) == CloseNext(p) \/ SkipMissing(p) \/ Stopped(p)

Next ==
    \/ \E p \in Procs :
           \/ Launch(p) \/ OpenNext(p) \/ Ready(p) \/ OpenFails(p) \/ Beat(p)
           \/ JobEvent(p) \/ Stop(p) \/ Shutdown(p) \/ CloseFails(p) \/ Crash(p)
    \/ Tick

Spec == Init /\ [][Next]_vars

\* A close that returns, returns.
FairSpec == Spec /\ \A p \in Procs : WF_vars(Shutdown(p))
-----------------------------------------------------------------------------
(* Safety *)

Namesake(p, q) == p # q /\ Key(p) = Key(q)
Alone(p) == \A q \in Procs : ~Namesake(p, q)

\* "At worst the sentinel TTL expires": a process whose loop runs is seen by
\* the probe through as many lost writes as the cadence leaves room for in a
\* TTL, idle or busy, whatever its phase.  (Two processes with one role and
\* one pid share a key, which either deletes.)
NoFalseAlarm ==
    \A p \in Procs :
        Beating(p) /\ Alone(p) /\ (missed[p] + 1) * Refresh < Ttl
            => Fresh(Key(p))

\* A process that died without a word is missed after one TTL: no sentinel
\* outlives its process by more, whoever wrote it and however it ended.
DeadDetected ==
    \A k \in Keys : Fresh(k) =>
        \E p \in Procs :
            Key(p) = k /\ (phase[p] # "down" \/ sentinel[k] <= died[p] + Ttl)

\* A life without a fault leaves no sentinel to vouch for the process that
\* is gone, not even when the bot's setup had failed half way.
ShutdownSilent ==
    \A p \in Procs \ ghost :
        phase[p] = "down" /\ Alone(p) => ~Fresh(Key(p))

\* What a startup had acquired is released again, unless the process broke:
\* also after a setup that failed half way, and never by closing what it had
\* not opened yet.  One resource the bot's close() cannot release, as it does not
\* know of it: the pool build_pool had created when the schema was refused.
NothingLeftOpen ==
    /\ \A p \in Workers : phase[p] = "down" => open[p] = {}
    /\ \A p \in Bots : phase[p] = "down" => open[p] \subseteq {"pool"}
-----------------------------------------------------------------------------
(* Liveness *)

\* A shutdown comes to an end, unless it waits for the bot's health check
\* server, which close() never closes.
EveryStopEnds ==
    \A p \in Procs :
        phase[p] = "stopping" ~>
            phase[p] # "stopping" \/ "healthcheck_server" \in open[p]
-----------------------------------------------------------------------------
(* What the repository says of the probe, and the deployment does not keep *)

\* test_healthcheck.py: "a probe scoped to one role can't be fooled by the
\* other".  The workers' probe passes only while some worker is there, or died
\* within the last TTL.
WorkerProbeHonest ==
    Healthy("worker") =>
        \E p \in Workers : phase[p] # "down" \/ died[p] + Ttl > now
=============================================================================
