------------------------------ MODULE RateLimit ------------------------------
(***************************************************************************)
(* The per-guild token bucket: acquire() and refund() of ratelimit.py, run *)
(* by concurrent callers against one Redis hash with WATCH / MULTI / EXEC, *)
(* a TTL that evicts the hash, and connections that break.                 *)
(*                                                                         *)
(* Amounts are integers: `Hour' units make one token and `Hour' clock      *)
(* ticks one hour, so that a tick refills RefillPerHour units.  The code's *)
(* floats are taken as exact.                                              *)
(*                                                                         *)
(* Operators named ...Bug are plausible mistakes in the definition that    *)
(* follows them; no specification uses them (see README, "Mutants").       *)
(***************************************************************************)
EXTENDS Integers

CONSTANTS
    Callers,        \* concurrent acquire() / refund() calls, over all bots
    Ahead,          \* callers on a host whose clock runs ahead
    Skew,           \* by how many ticks it does
    Capacity,       \* GUILD_RATE_LIMIT_BURST
    RefillPerHour,  \* GUILD_RATE_LIMIT_PER_HOUR
    Hour,           \* ticks per hour, and units per token
    MaxTime,        \* bound on the clock, in ticks
    MaxCalls        \* bound on the calls made

ASSUME RateAssumption ==
    /\ Ahead \subseteq Callers
    /\ Skew \in Nat
    /\ Capacity \in Nat \ {0}
    /\ RefillPerHour \in Nat \ {0}
    /\ Hour \in Nat \ {0}
    /\ MaxTime \in Nat
    /\ MaxCalls \in Nat

VARIABLES
    bucket,    \* hash ratelimit:guild:{id}: fields tokens and last_refill
    expires,   \* when Redis evicts it
    dirty,     \* callers whose watched key was touched since their WATCH
    pc,        \* pc[c]: next Redis command of the call
    op,        \* op[c]: which of the two functions it is
    raw,       \* raw[c]: what HMGET returned
    write,     \* write[c]: what the call is about to store
    now,       \* true time, which is also the Redis server's
    calls      \* calls made so far

\* What the properties remember; no action reads these, OpenWindow apart.
VARIABLES
    since,     \* start of the window the counts below refer to
    granted,   \* acquire() = True for tokens computed in the window
    refunded,  \* refunds stored in the window
    hasty,     \* writes in the window by a host whose clock is ahead
    spent,     \* tokens taken out of the bucket since the beginning
    refused    \* whether some acquire() returned False

callVars == <<pc, op, raw, write>>
histVars == <<since, granted, refunded, hasty, spent, refused>>
vars == <<bucket, expires, dirty, callVars, now, calls, histVars>>
-----------------------------------------------------------------------------
(* Arithmetic of the bucket *)

Token == Hour
Full == Capacity * Token

Max2(a, b) == IF a > b THEN a ELSE b
Min2(a, b) == IF a < b THEN a ELSE b

NoBucket == [present |-> FALSE, tokens |-> 0, last |-> 0]
Bucket(tokens, time) == [present |-> TRUE, tokens |-> tokens, last |-> time]

\* _ttl_seconds: twice the worst-case full refill, at least an hour.
TTL == Max2(Hour, 2 * ((Capacity * Hour) \div Max2(RefillPerHour, 1)))

\* A fresh bucket starts empty.
BalanceBug(b, time) ==
    IF b.present
    THEN Min2(Full, b.tokens + Max2(0, time - b.last) * RefillPerHour)
    ELSE 0

\* The balance acquire() and refund() compute at `time'.
Balance(b, time) ==
    IF b.present
    THEN Min2(Full, b.tokens + Max2(0, time - b.last) * RefillPerHour)
    ELSE Full

\* time() as caller c sees it.
Clock(c) == IF c \in Ahead THEN now + Skew ELSE now

Times == 0 .. MaxTime + Skew
Buckets == [present : BOOLEAN, tokens : 0 .. Full, last : Times]

TypeOK ==
    /\ bucket \in Buckets
    /\ expires \in 0 .. MaxTime + TTL
    /\ dirty \subseteq Callers
    /\ pc \in [Callers -> {"idle", "watch", "hmget", "compute", "execute"}]
    /\ op \in [Callers -> {"acquire", "refund"}]
    /\ raw \in [Callers -> Buckets]
    /\ write \in [Callers -> [allowed : BOOLEAN, to : Buckets]]
    /\ now \in 0 .. MaxTime
    /\ calls \in 0 .. MaxCalls
    /\ since \in 0 .. now
    /\ granted \in Nat
    /\ refunded \in Nat
    /\ hasty \in Nat
    /\ spent \in Nat
    /\ refused \in BOOLEAN

NoWrite == [allowed |-> FALSE, to |-> NoBucket]

Init ==
    /\ bucket = NoBucket
    /\ expires = 0
    /\ dirty = {}
    /\ pc = [c \in Callers |-> "idle"]
    /\ op = [c \in Callers |-> "acquire"]
    /\ raw = [c \in Callers |-> NoBucket]
    /\ write = [c \in Callers |-> NoWrite]
    /\ now = 0
    /\ calls = 0
    /\ since = 0
    /\ granted = 0
    /\ refunded = 0
    /\ hasty = 0
    /\ spent = 0
    /\ refused = FALSE
-----------------------------------------------------------------------------
(* One call *)

Goto(c, step) == pc' = [pc EXCEPT ![c] = step]

\* The call is over; forget its locals.
Finish(c) ==
    /\ Goto(c, "idle")
    /\ op' = [op EXCEPT ![c] = "acquire"]
    /\ raw' = [raw EXCEPT ![c] = NoBucket]
    /\ write' = [write EXCEPT ![c] = NoWrite]

\* /download calls acquire(), /cancel calls refund().
Call(c) ==
    /\ pc[c] = "idle"
    /\ calls < MaxCalls
    /\ calls' = calls + 1
    /\ \E o \in {"acquire", "refund"} : op' = [op EXCEPT ![c] = o]
    /\ Goto(c, "watch")
    /\ UNCHANGED <<bucket, expires, dirty, raw, write, now, histVars>>

Watch(c) ==
    /\ pc[c] = "watch"
    /\ dirty' = dirty \ {c}
    /\ Goto(c, "hmget")
    /\ UNCHANGED <<bucket, expires, op, raw, write, now, calls, histVars>>

Hmget(c) ==
    /\ pc[c] = "hmget"
    /\ raw' = [raw EXCEPT ![c] = bucket]
    /\ Goto(c, "compute")
    /\ UNCHANGED <<bucket, expires, dirty, op, write, now, calls, histVars>>

\* acquire() once HMGET has returned: time(), then take a token if there is
\* one.  The balance is stored either way.
ComputeAcquire(c) ==
    /\ pc[c] = "compute"
    /\ op[c] = "acquire"
    /\ LET tokens == Balance(raw[c], Clock(c))
           allowed == tokens >= Token
           left == IF allowed THEN tokens - Token ELSE tokens
       IN  write' = [write EXCEPT ![c] =
               [allowed |-> allowed, to |-> Bucket(left, Clock(c))]]
    /\ Goto(c, "execute")
    /\ UNCHANGED <<bucket, expires, dirty, op, raw, now, calls, histVars>>

\* A refund that ignores the cap.
RefundedBalanceBug(tokens) == tokens + Token

RefundedBalance(tokens) == Min2(Full, tokens + Token)

\* refund() adds a token to a bucket that exists and is not full.
ComputeRefund(c) ==
    /\ pc[c] = "compute"
    /\ op[c] = "refund"
    /\ raw[c].present
    /\ Balance(raw[c], Clock(c)) < Full
    /\ LET tokens == RefundedBalance(Balance(raw[c], Clock(c)))
       IN  write' = [write EXCEPT ![c] =
               [allowed |-> FALSE, to |-> Bucket(tokens, Clock(c))]]
    /\ Goto(c, "execute")
    /\ UNCHANGED <<bucket, expires, dirty, op, raw, now, calls, histVars>>

\* refund() with nothing to add: UNWATCH and return.
RefundNothing(c) ==
    /\ pc[c] = "compute"
    /\ op[c] = "refund"
    /\ ~raw[c].present \/ Balance(raw[c], Clock(c)) >= Full
    /\ Finish(c)
    /\ UNCHANGED <<bucket, expires, dirty, now, calls, histVars>>

\* EXEC: HSET and EXPIRE take effect together; every other watcher is dirty.
Store(c) ==
    /\ bucket' = write[c].to
    /\ expires' = now + TTL
    /\ dirty' = Callers
    /\ spent' = IF write[c].allowed THEN spent + 1 ELSE spent
    /\ refunded' = IF op[c] = "refund" THEN refunded + 1 ELSE refunded
    /\ hasty' = IF c \in Ahead THEN hasty + 1 ELSE hasty

\* MULTI / EXEC without the WATCH.
CommitsBug(c) == TRUE

\* EXEC goes through unless the watched key was touched.
Commits(c) == c \notin dirty

Execute(c) ==
    /\ pc[c] = "execute"
    /\ Commits(c)
    /\ Store(c)
    /\ granted' = IF write[c].allowed /\ write[c].to.last >= since
                  THEN granted + 1 ELSE granted
    /\ refused' = (refused \/ (op[c] = "acquire" /\ ~write[c].allowed))
    /\ Finish(c)
    /\ UNCHANGED <<now, calls, since>>

\* Reading again without a new WATCH.
AfterWatchErrorBug == "hmget"

\* The while loop opens a new pipeline.
AfterWatchError == "watch"

WatchError(c) ==
    /\ pc[c] = "execute"
    /\ ~Commits(c)
    /\ Goto(c, AfterWatchError)
    /\ raw' = [raw EXCEPT ![c] = NoBucket]
    /\ write' = [write EXCEPT ![c] = NoWrite]
    /\ UNCHANGED <<bucket, expires, dirty, op, now, calls, histVars>>

\* The connection to Redis breaks: the call raises.
Disconnect(c) ==
    /\ pc[c] # "idle"
    /\ Finish(c)
    /\ UNCHANGED <<bucket, expires, dirty, now, calls, histVars>>

\* It breaks after EXEC: the bucket changed, the caller does not know.
ReplyLost(c) ==
    /\ pc[c] = "execute"
    /\ Commits(c)
    /\ Store(c)
    /\ Finish(c)
    /\ UNCHANGED <<now, calls, since, granted, refused>>
-----------------------------------------------------------------------------
(* Time *)

\* A tick; Redis evicts the bucket when its TTL is over, which also breaks
\* the WATCH of whoever saw it.
Tick ==
    /\ now < MaxTime
    /\ now' = now + 1
    /\ IF bucket.present /\ expires <= now + 1
       THEN bucket' = NoBucket /\ expires' = 0 /\ dirty' = Callers
       ELSE UNCHANGED <<bucket, expires, dirty>>
    /\ UNCHANGED <<callVars, calls, histVars>>

\* Observation only: start counting afresh, so that a property about the
\* window is a property about every window.
OpenWindow ==
    /\ since = 0
    /\ now > 0
    /\ since' = now
    /\ granted' = 0
    /\ refunded' = 0
    /\ hasty' = 0
    /\ UNCHANGED <<bucket, expires, dirty, callVars, now, calls, spent,
                   refused>>

Advance(c) ==
    \/ Watch(c) \/ Hmget(c) \/ ComputeAcquire(c) \/ ComputeRefund(c)
    \/ RefundNothing(c) \/ Execute(c) \/ WatchError(c)

Next ==
    \/ \E c \in Callers :
           Call(c) \/ Advance(c) \/ Disconnect(c) \/ ReplyLost(c)
    \/ Tick
    \/ OpenWindow

Spec == Init /\ [][Next]_vars

\* A call that was started runs on.
FairSpec == Spec /\ \A c \in Callers : WF_vars(Advance(c))
-----------------------------------------------------------------------------
(* Properties *)

\* "Can't desync a single guild's bucket": over every window of time, however
\* calls interleave, whatever connections break and whenever the bucket is
\* evicted, /download gets no more than the burst, what the window's length
\* refills, what was refunded, and what a host whose clock is ahead refills too
\* early, each time it writes: a slower host sets last_refill back behind it.
\* (A token computed before the window opened belongs to the time before.)
WindowBound ==
    Token * granted
        <= Full + RefillPerHour * (now - since) + Token * refunded
                + RefillPerHour * Skew * hasty

\* Nobody is refused for tokens nobody took: a refusal means that at least a
\* burst of tokens has left the bucket.
RefusalJustified == refused => spent >= Capacity

\* Optimistic locking does not livelock: each retry is another call's success
\* or an eviction, so with the traffic bounded every call returns.
EveryCallReturns ==
    \A c \in Callers : pc[c] # "idle" ~> pc[c] = "idle"
=============================================================================
