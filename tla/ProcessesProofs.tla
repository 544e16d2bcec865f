--------------------------- MODULE ProcessesProofs ---------------------------
(***************************************************************************)
(* Proofs about Processes, for any number of workers and bots, any roles   *)
(* and pids, any TTL and any refresh shorter than it.                      *)
(***************************************************************************)
EXTENDS Processes, SequenceTheorems, TLAPS

(* Resources *)

Elements(s) == {s[i] : i \in 1 .. Len(s)}

LEMMA ResourceNames ==
    {"discord_client", "download_session", "storage", "pool", "db_pool",
     "redis", "heartbeat", "rabbitmq", "healthcheck_server", "heartbeat_loop"}
        = Resources
<1>1. Range(WorkerStart) = {"discord_client", "download_session", "storage",
                            "pool", "db_pool", "redis", "heartbeat", "rabbitmq"}
  BY DEF Range, WorkerStart
<1>2. Range(BotStart) = {"discord_client", "heartbeat", "rabbitmq", "pool",
                         "db_pool", "redis", "healthcheck_server"}
  BY DEF Range, BotStart
<1> QED BY <1>1, <1>2 DEF Resources

LEMMA ListTypes ==
    /\ WorkerStart \in Seq(Resources)
    /\ BotStart \in Seq(Resources)
    /\ WorkerStop \in Seq(Resources)
    /\ BotStop \in Seq(Resources)
    /\ <<>> \in Seq(Resources)
  BY ResourceNames DEF WorkerStart, BotStart, WorkerStop, BotStop

LEMMA StopListType ==
    ASSUME NEW p \in Procs
    PROVE  StopList(p) \in Seq(Resources)
  BY ListTypes DEF StopList

LEMMA ListElements ==
    /\ Elements(WorkerStart) = {"discord_client", "download_session", "storage",
                                "pool", "db_pool", "redis", "heartbeat",
                                "rabbitmq"}
    /\ Elements(BotStart) = {"discord_client", "heartbeat", "rabbitmq", "pool",
                             "db_pool", "redis", "healthcheck_server"}
    /\ Elements(WorkerStop) = {"storage", "download_session", "discord_client",
                               "db_pool", "redis", "heartbeat_loop",
                               "heartbeat", "rabbitmq"}
    /\ Elements(BotStop) = {"healthcheck_server", "heartbeat_loop", "heartbeat",
                            "rabbitmq", "db_pool", "redis", "discord_client"}
    /\ Elements(<<>>) = {}
<1> USE DEF Elements, WorkerStart, BotStart, WorkerStop, BotStop
<1>1. Len(WorkerStart) = 8 /\ Len(BotStart) = 7
      /\ Len(WorkerStop) = 8 /\ Len(BotStop) = 7 /\ Len(<<>>) = 0
  OBVIOUS
<1>2. /\ 1 .. 7 = {1, 2, 3, 4, 5, 6, 7}
      /\ 1 .. 8 = {1, 2, 3, 4, 5, 6, 7, 8}
      /\ 1 .. 0 = {}
  OBVIOUS
<1>3. Elements(WorkerStart) = {"discord_client", "download_session", "storage",
                               "pool", "db_pool", "redis", "heartbeat",
                               "rabbitmq"}
  BY <1>1, <1>2
<1>4. Elements(BotStart) = {"discord_client", "heartbeat", "rabbitmq", "pool",
                            "db_pool", "redis", "healthcheck_server"}
  BY <1>1, <1>2
<1>5. Elements(WorkerStop) = {"storage", "download_session", "discord_client",
                              "db_pool", "redis", "heartbeat_loop",
                              "heartbeat", "rabbitmq"}
  BY <1>1, <1>2
<1>6. Elements(BotStop) = {"healthcheck_server", "heartbeat_loop", "heartbeat",
                           "rabbitmq", "db_pool", "redis", "discord_client"}
  BY <1>1, <1>2
<1>7. Elements(<<>>) = {}
  BY <1>1, <1>2
<1> QED BY <1>3, <1>4, <1>5, <1>6, <1>7

\* What comes off a list is its head, and the rest keeps its order.
LEMMA ElementsTail ==
    ASSUME NEW S, NEW s \in Seq(S), s # <<>>
    PROVE  /\ Tail(s) \in Seq(S)
           /\ Head(s) \in S
           /\ Elements(s) = {Head(s)} \cup Elements(Tail(s))
           /\ Len(s) \in Nat /\ Len(s) >= 1
           /\ Len(Tail(s)) = Len(s) - 1
           /\ \A i \in 1 .. Len(Tail(s)) : Tail(s)[i] = s[i + 1]
           /\ Head(s) = s[1]
<1>1. /\ Tail(s) \in Seq(S) /\ Head(s) \in S /\ Head(s) = s[1]
      /\ Len(s) \in Nat /\ Len(s) >= 1
      /\ Len(Tail(s)) = Len(s) - 1
      /\ \A i \in 1 .. Len(Tail(s)) : Tail(s)[i] = s[i + 1]
  BY HeadTailProperties, LenProperties, EmptySeq
<1>2. \A i \in 2 .. Len(s) : s[i] = Tail(s)[i - 1] /\ i - 1 \in 1 .. Len(Tail(s))
  BY <1>1
<1>3. Elements(s) \subseteq {Head(s)} \cup Elements(Tail(s))
  BY <1>1, <1>2 DEF Elements
<1>4. {Head(s)} \cup Elements(Tail(s)) \subseteq Elements(s)
  BY <1>1 DEF Elements
<1> QED BY <1>1, <1>3, <1>4

\* A shutdown ends the idle loop before it deletes the sentinel.
LoopFirst(s) ==
    \A i \in 1 .. Len(s) :
        s[i] = "heartbeat" =>
            \E j \in 1 .. Len(s) : j < i /\ s[j] = "heartbeat_loop"

\* A startup applies the schema after it has created the pool.
SchemaNext(s) ==
    \A i \in 1 .. Len(s) :
        s[i] = "pool" => \E j \in 1 .. Len(s) : j > i /\ s[j] = "db_pool"

\* A shutdown names all that a startup acquires, but for the pool whose schema is not
\* applied yet.
LEMMA StopLists ==
    ASSUME NEW p \in Procs
    PROVE  /\ LoopFirst(StopList(p))
           /\ Elements(IF p \in Workers THEN WorkerStart ELSE BotStart)
                  \subseteq (Elements(StopList(p)) \ {"heartbeat_loop"})
                                \cup {"pool"}
           /\ {"heartbeat", "heartbeat_loop", "db_pool"}
                  \subseteq Elements(StopList(p))
           /\ SchemaNext(IF p \in Workers THEN WorkerStart ELSE BotStart)
           /\ "heartbeat" \in
                  Elements(IF p \in Workers THEN WorkerStart ELSE BotStart)
<1>1. LoopFirst(WorkerStop)
  <2>1. Len(WorkerStop) = 8 /\ WorkerStop[6] = "heartbeat_loop"
        /\ \A i \in 1 .. 6 : WorkerStop[i] # "heartbeat"
    BY DEF WorkerStop
  <2> QED BY <2>1 DEF LoopFirst
<1>2. LoopFirst(BotStop)
  <2>1. Len(BotStop) = 7 /\ BotStop[2] = "heartbeat_loop"
        /\ \A i \in 1 .. 2 : BotStop[i] # "heartbeat"
    BY DEF BotStop
  <2> QED BY <2>1 DEF LoopFirst
<1>3. SchemaNext(WorkerStart)
  <2>1. Len(WorkerStart) = 8 /\ WorkerStart[5] = "db_pool"
        /\ \A i \in 5 .. 8 : WorkerStart[i] # "pool"
    BY DEF WorkerStart
  <2> QED BY <2>1 DEF SchemaNext
<1>4. SchemaNext(BotStart)
  <2>1. Len(BotStart) = 7 /\ BotStart[5] = "db_pool"
        /\ \A i \in 5 .. 7 : BotStart[i] # "pool"
    BY DEF BotStart
  <2> QED BY <2>1 DEF SchemaNext
<1>5. CASE p \in Workers
  BY <1>1, <1>3, <1>5, ListElements DEF StopList
<1>6. CASE p \notin Workers
  BY <1>2, <1>4, <1>6, ListElements DEF StopList
<1> QED BY <1>5, <1>6

LEMMA LoopFirstTail ==
    ASSUME NEW S, NEW s \in Seq(S), s # <<>>, LoopFirst(s)
    PROVE  /\ Head(s) # "heartbeat"
           /\ Head(s) # "heartbeat_loop" => LoopFirst(Tail(s))
<1>1. /\ Len(s) \in Nat /\ Len(s) >= 1 /\ Head(s) = s[1]
      /\ Len(Tail(s)) = Len(s) - 1
      /\ \A i \in 1 .. Len(Tail(s)) : Tail(s)[i] = s[i + 1]
  BY ElementsTail
<1>2. Head(s) # "heartbeat"
  BY <1>1 DEF LoopFirst
<1>3. ASSUME Head(s) # "heartbeat_loop", NEW i \in 1 .. Len(Tail(s)),
             Tail(s)[i] = "heartbeat"
      PROVE  \E j \in 1 .. Len(Tail(s)) : j < i /\ Tail(s)[j] = "heartbeat_loop"
  <2>1. PICK j \in 1 .. Len(s) : j < i + 1 /\ s[j] = "heartbeat_loop"
    BY <1>1, <1>3 DEF LoopFirst
  <2>2. j - 1 \in 1 .. Len(Tail(s)) /\ j - 1 < i
    BY <1>1, <1>3, <2>1
  <2>3. Tail(s)[j - 1] = s[j]
    BY <1>1, <2>2
  <2> QED BY <2>1, <2>2, <2>3
<1> QED BY <1>2, <1>3 DEF LoopFirst

LEMMA SchemaNextTail ==
    ASSUME NEW S, NEW s \in Seq(S), s # <<>>, SchemaNext(s)
    PROVE  /\ Head(s) = "pool" => "db_pool" \in Elements(Tail(s))
           /\ SchemaNext(Tail(s))
<1>1. /\ Len(s) \in Nat /\ Len(s) >= 1 /\ Head(s) = s[1]
      /\ Len(Tail(s)) = Len(s) - 1
      /\ \A i \in 1 .. Len(Tail(s)) : Tail(s)[i] = s[i + 1]
  BY ElementsTail
<1>2. ASSUME NEW i \in 1 .. Len(s), s[i] = "pool"
      PROVE  \E j \in 1 .. Len(Tail(s)) : j > i - 1 /\ Tail(s)[j] = "db_pool"
  <2>1. PICK j \in 1 .. Len(s) : j > i /\ s[j] = "db_pool"
    BY <1>2 DEF SchemaNext
  <2>2. j - 1 \in 1 .. Len(Tail(s)) /\ j - 1 > i - 1
    BY <1>1, <1>2, <2>1
  <2>3. Tail(s)[j - 1] = s[j]
    BY <1>1, <2>2
  <2> QED BY <2>1, <2>2, <2>3
<1>3. Head(s) = "pool" => "db_pool" \in Elements(Tail(s))
  BY <1>1, <1>2 DEF Elements
<1>4. ASSUME NEW i \in 1 .. Len(Tail(s)), Tail(s)[i] = "pool"
      PROVE  \E j \in 1 .. Len(Tail(s)) : j > i /\ Tail(s)[j] = "db_pool"
  <2>1. i + 1 \in 1 .. Len(s) /\ s[i + 1] = "pool" /\ i + 1 - 1 = i
    BY <1>1, <1>4
  <2> QED BY <1>2, <2>1
<1> QED BY <1>3, <1>4 DEF SchemaNext
-----------------------------------------------------------------------------
(* Types *)

\* What each variable holds, without the loops being on time.
Types ==
    /\ phase \in [Procs -> {"down", "starting", "up", "stopping"}]
    /\ todo \in [Procs -> Seq(Resources)]
    /\ open \in [Procs -> SUBSET Resources]
    /\ wake \in [Procs -> Nat]
    /\ sentinel \in [Keys -> 0 .. MaxTime + Ttl]
    /\ now \in 0 .. MaxTime
    /\ missed \in [Procs -> 0 .. Ttl - 1]
    /\ died \in [Procs -> 0 .. now]
    /\ ghost \subseteq Procs

LEMMA Cadence ==
    /\ Refresh \in Nat /\ Refresh >= 1
    /\ Ttl \in Nat /\ Ttl >= 2 /\ Ttl - 1 \in 0 .. Ttl - 1
    /\ MaxTime \in Nat
    /\ Sleep = Refresh
  BY ProcessAssumption DEF Sleep

LEMMA KeyType == ASSUME NEW p \in Procs PROVE Key(p) \in Keys
  BY DEF Keys

LEMMA TypesInitially == Init => Types
<1> SUFFICES ASSUME Init PROVE Types
  OBVIOUS
<1>1. /\ phase \in [Procs -> {"down", "starting", "up", "stopping"}]
      /\ todo \in [Procs -> Seq(Resources)]
      /\ open \in [Procs -> SUBSET Resources]
      /\ wake \in [Procs -> Nat]
  BY ListTypes DEF Init
<1>2. 0 \in 0 .. MaxTime + Ttl /\ 0 \in 0 .. MaxTime /\ 0 \in 0 .. 0
  BY Cadence
<1>3. /\ sentinel \in [Keys -> 0 .. MaxTime + Ttl]
      /\ now \in 0 .. MaxTime
      /\ missed \in [Procs -> 0 .. Ttl - 1]
      /\ died \in [Procs -> 0 .. now]
      /\ ghost \subseteq Procs
  BY <1>2, Cadence DEF Init
<1> QED BY <1>1, <1>3 DEF Types

\* A write, whether it succeeds or not.
LEMMA WriteEffect ==
    ASSUME Types, NEW p \in Procs, Write(p)
    PROVE  /\ sentinel' \in [Keys -> 0 .. MaxTime + Ttl]
           /\ missed' \in [Procs -> 0 .. Ttl - 1]
           /\ ghost' \subseteq Procs
           /\ \A k \in Keys \ {Key(p)} : sentinel'[k] = sentinel[k]
           /\ \A q \in Procs \ {p} : missed'[q] = missed[q]
           /\ \A q \in Procs \ {p} : q \in ghost' <=> q \in ghost
           /\ \/ /\ sentinel'[Key(p)] = now + Ttl
                 /\ missed'[p] = 0
              \/ /\ sentinel' = sentinel
                 /\ missed'[p] = IF missed[p] < Ttl - 1 THEN missed[p] + 1
                                 ELSE missed[p]
<1>1. Key(p) \in Keys /\ now + Ttl \in 0 .. MaxTime + Ttl
  BY KeyType, Cadence DEF Types
<1>2. (IF missed[p] < Ttl - 1 THEN missed[p] + 1 ELSE missed[p]) \in 0 .. Ttl - 1
      /\ 0 \in 0 .. Ttl - 1
  BY Cadence DEF Types
<1> QED BY <1>1, <1>2 DEF Types, Write, Expiry

\* A process that breaks, or exits.
LEMMA EndTypes ==
    ASSUME Types, NEW p \in Procs, Breaks(p) \/ Exits(p),
           UNCHANGED <<sentinel, now>>
    PROVE  Types'
<1>1. now \in 0 .. now /\ 0 \in Nat /\ Ttl - 1 \in 0 .. Ttl - 1
      /\ <<>> \in Seq(Resources)
  BY Cadence, ListTypes DEF Types
<1> Gone(p) /\ now' = now
  BY DEF Breaks, Exits
<1>2. /\ phase' \in [Procs -> {"down", "starting", "up", "stopping"}]
      /\ todo' \in [Procs -> Seq(Resources)]
      /\ wake' \in [Procs -> Nat]
      /\ missed' \in [Procs -> 0 .. Ttl - 1]
      /\ died' \in [Procs -> 0 .. now']
  BY <1>1 DEF Types, Gone
<1>3. open' \in [Procs -> SUBSET Resources] /\ ghost' \subseteq Procs
  BY DEF Types, Breaks, Exits
<1> QED BY <1>2, <1>3 DEF Types

LEMMA TypesStep == Types /\ [Next]_vars => Types'
<1> SUFFICES ASSUME Types, [Next]_vars PROVE Types'
  OBVIOUS
<1> USE DEF lifeVars, histVars
<1>1. ASSUME NEW p \in Procs, Launch(p) PROVE Types'
  <2>1. todo' \in [Procs -> Seq(Resources)]
    BY <1>1, ListTypes DEF Launch, Types
  <2>2. 0 \in 0 .. now
    BY DEF Types
  <2> QED BY <1>1, <2>1, <2>2 DEF Launch, Types
<1>2. ASSUME NEW p \in Procs, OpenNext(p) PROVE Types'
  <2>1. Head(todo[p]) \in Resources /\ Tail(todo[p]) \in Seq(Resources)
    BY <1>2, ElementsTail DEF OpenNext, Types
  <2>2. todo' \in [Procs -> Seq(Resources)]
    BY <1>2, <2>1 DEF OpenNext, Types
  <2>3. {"heartbeat", "heartbeat_loop", "db_pool"} \subseteq Resources
    BY ResourceNames
  <2>4. open' \in [Procs -> SUBSET Resources]
    <3>1. Holding(open[p], Head(todo[p])) \in SUBSET Resources
      BY <2>1, <2>3 DEF Holding, Types
    <3>2. open' = [open EXCEPT ![p] = Holding(open[p], Head(todo[p]))]
      BY <1>2 DEF OpenNext, Types
    <3> QED BY <3>1, <3>2 DEF Types
  <2>5. /\ wake' \in [Procs -> Nat]
        /\ sentinel' \in [Keys -> 0 .. MaxTime + Ttl]
        /\ missed' \in [Procs -> 0 .. Ttl - 1]
        /\ ghost' \subseteq Procs
    <3>1. now + Sleep \in Nat
      BY Cadence DEF Types
    <3>2. CASE Head(todo[p]) = "heartbeat"
      BY <1>2, <3>1, <3>2, WriteEffect DEF OpenNext, Types
    <3>3. CASE Head(todo[p]) # "heartbeat"
      BY <1>2, <3>3 DEF OpenNext, Types
    <3> QED BY <3>2, <3>3
  <2> QED BY <1>2, <2>2, <2>4, <2>5 DEF OpenNext, Types
<1>3. ASSUME NEW p \in Procs, Ready(p) PROVE Types'
  BY <1>3 DEF Ready, Types
<1>4. ASSUME NEW p \in Procs, OpenFails(p) PROVE Types'
  <2>1. CASE p \in Workers
    BY <1>4, <2>1, EndTypes DEF OpenFails
  <2>2. CASE p \notin Workers
    BY <1>4, <2>2, StopListType DEF OpenFails, Types
  <2> QED BY <2>1, <2>2
<1>5. ASSUME NEW p \in Procs, Beat(p) PROVE Types'
  <2>1. now + Sleep \in Nat
    BY Cadence DEF Types
  <2> QED BY <1>5, <2>1, WriteEffect DEF Beat, Types
<1>6. ASSUME NEW p \in Procs, JobEvent(p) PROVE Types'
  BY <1>6, WriteEffect DEF JobEvent, Types
<1>7. ASSUME NEW p \in Procs, Stop(p) PROVE Types'
  BY <1>7, StopListType DEF Stop, Types
<1>8. ASSUME NEW p \in Procs, CloseNext(p) PROVE Types'
  <2>1. Tail(todo[p]) \in Seq(Resources)
    BY <1>8, ElementsTail DEF CloseNext, Types
  <2>2. 0 \in 0 .. MaxTime + Ttl
    BY Cadence
  <2>3. sentinel' \in [Keys -> 0 .. MaxTime + Ttl]
    BY <1>8, <2>2 DEF CloseNext, Types
  <2> QED BY <1>8, <2>1, <2>3 DEF CloseNext, Types
<1>9. ASSUME NEW p \in Procs, SkipMissing(p) PROVE Types'
  <2>1. Tail(todo[p]) \in Seq(Resources)
    BY <1>9, ElementsTail DEF SkipMissing, Types
  <2> QED BY <1>9, <2>1 DEF SkipMissing, Types
<1>10. ASSUME NEW p \in Procs, CloseFails(p) PROVE Types'
  BY <1>10, EndTypes DEF CloseFails
<1>11. ASSUME NEW p \in Procs, Stopped(p) PROVE Types'
  BY <1>11, EndTypes DEF Stopped
<1>12. ASSUME NEW p \in Procs, Crash(p) PROVE Types'
  BY <1>12, EndTypes DEF Crash
<1>13. ASSUME Tick PROVE Types'
  <2>1. now + 1 \in 0 .. MaxTime /\ 0 \in 0 .. MaxTime + Ttl
        /\ 0 .. now \subseteq 0 .. now + 1
    BY <1>13, Cadence DEF Tick, Types
  <2>2. sentinel' \in [Keys -> 0 .. MaxTime + Ttl]
    BY <1>13, <2>1 DEF Tick, Types
  <2>3. died \in [Procs -> 0 .. now + 1]
    BY <2>1 DEF Types
  <2> QED BY <1>13, <2>1, <2>2, <2>3 DEF Tick, Types
<1>14. CASE UNCHANGED vars
  BY <1>14 DEF vars, Types
<1> QED BY <1>1, <1>2, <1>3, <1>4, <1>5, <1>6, <1>7, <1>8, <1>9, <1>10, <1>11,
           <1>12, <1>13, <1>14 DEF Next, Shutdown
-----------------------------------------------------------------------------
(* Steps *)

ProcessStep(p) ==
    \/ Launch(p) \/ OpenNext(p) \/ Ready(p) \/ OpenFails(p) \/ Beat(p)
    \/ JobEvent(p) \/ Stop(p) \/ Shutdown(p) \/ CloseFails(p) \/ Crash(p)

\* What a step of p does to the others: nothing, but for a sentinel they share.
Local(p) ==
    /\ now' = now
    /\ \A q \in Procs \ {p} :
           /\ phase'[q] = phase[q] /\ todo'[q] = todo[q]
           /\ open'[q] = open[q] /\ wake'[q] = wake[q]
           /\ missed'[q] = missed[q] /\ died'[q] = died[q]
           /\ q \in ghost' <=> q \in ghost
    /\ \A k \in Keys \ {Key(p)} : sentinel'[k] = sentinel[k]

LEMMA StepIsLocal ==
    ASSUME Types, NEW p \in Procs, ProcessStep(p)
    PROVE  Local(p)
<1> USE DEF lifeVars, histVars, Local
<1>1. CASE Launch(p)
  BY <1>1 DEF Launch, Types
<1>2. CASE OpenNext(p)
  <2>1. CASE Head(todo[p]) = "heartbeat"
    BY <1>2, <2>1, WriteEffect DEF OpenNext, Types
  <2>2. CASE Head(todo[p]) # "heartbeat"
    BY <1>2, <2>2 DEF OpenNext, Types
  <2> QED BY <2>1, <2>2
<1>3. CASE Ready(p) \/ Stop(p)
  BY <1>3 DEF Ready, Stop, Types
<1>4. ASSUME Breaks(p) \/ Exits(p), UNCHANGED <<sentinel, now>>
      PROVE  Local(p)
  BY <1>4 DEF Breaks, Exits, Gone, Types
<1>5. CASE OpenFails(p)
  <2>1. CASE p \in Workers
    BY <1>4, <1>5, <2>1 DEF OpenFails
  <2>2. CASE p \notin Workers
    BY <1>5, <2>2 DEF OpenFails, Types
  <2> QED BY <2>1, <2>2
<1>6. CASE Beat(p)
  BY <1>6, WriteEffect DEF Beat, Types
<1>7. CASE JobEvent(p)
  BY <1>7, WriteEffect DEF JobEvent, Types
<1>8. CASE CloseNext(p)
  BY <1>8 DEF CloseNext, Types
<1>9. CASE SkipMissing(p)
  BY <1>9 DEF SkipMissing, Types
<1>10. CASE CloseFails(p) \/ Stopped(p) \/ Crash(p)
  BY <1>4, <1>10 DEF CloseFails, Stopped, Crash
<1> QED BY <1>1, <1>2, <1>3, <1>5, <1>6, <1>7, <1>8, <1>9, <1>10
        DEF ProcessStep, Shutdown
-----------------------------------------------------------------------------
(* A life: what a process holds in each of its phases *)

\* What a process can hold: what its shutdown releases, and the bare pool.
Acquired(p) == Elements(StopList(p)) \cup {"pool"}

\* What a process may leave: a bot's setup_hook may end between the pool and
\* its schema, a worker's shutdown never sees the bare pool.
Leftover(p) == IF p \in Workers THEN {} ELSE {"pool"}

LifeInv(p) ==
    /\ phase[p] = "down" => open[p] \subseteq Leftover(p)
    /\ phase[p] \in {"starting", "up"} => open[p] \subseteq Acquired(p)
    /\ phase[p] = "starting" =>
           /\ Elements(todo[p]) \subseteq Acquired(p) \ {"heartbeat_loop"}
           /\ "heartbeat" \in open[p] \cup Elements(todo[p])
           /\ SchemaNext(todo[p])
           /\ "pool" \in open[p] => "db_pool" \in Elements(todo[p])
    /\ phase[p] = "up" => "heartbeat" \in open[p] /\ "pool" \notin open[p]
    /\ phase[p] = "stopping" =>
           /\ open[p] \subseteq Elements(todo[p]) \cup Leftover(p)
           /\ Beating(p) => LoopFirst(todo[p])
    /\ Beating(p) => "heartbeat" \in open[p]

LEMMA LifeInitially == Init => \A p \in Procs : LifeInv(p)
  BY DEF Init, LifeInv, Beating

LEMMA LifeStep ==
    ASSUME Types, NEW p \in Procs, LifeInv(p), ProcessStep(p)
    PROVE  LifeInv(p)'
<1> USE DEF lifeVars, histVars
<1> DEFINE start == IF p \in Workers THEN WorkerStart ELSE BotStart
<1>1. CASE Launch(p)
  <2>1. phase'[p] = "starting" /\ todo'[p] = start /\ open'[p] = {}
    BY <1>1 DEF Launch, Types
  <2>2. /\ Elements(start) \subseteq Acquired(p) \ {"heartbeat_loop"}
        /\ "heartbeat" \in Elements(start)
        /\ SchemaNext(start)
    BY ListElements, StopLists DEF Acquired
  <2> QED BY <2>1, <2>2 DEF LifeInv, Beating
<1>2. CASE OpenNext(p)
  <2>1. /\ phase[p] = "starting" /\ phase'[p] = "starting"
        /\ todo'[p] = Tail(todo[p])
    BY <1>2 DEF OpenNext, Types
  <2>2. Elements(todo[p]) = {Head(todo[p])} \cup Elements(Tail(todo[p]))
    BY <1>2, ElementsTail DEF OpenNext, Types
  <2>3. Elements(todo[p]) \subseteq Acquired(p) \ {"heartbeat_loop"}
        /\ open[p] \subseteq Acquired(p)
        /\ SchemaNext(todo[p])
        /\ ("pool" \in open[p] => "db_pool" \in Elements(todo[p]))
        /\ "heartbeat" \in open[p] \cup Elements(todo[p])
        /\ (Beating(p) => "heartbeat" \in open[p])
    BY <2>1 DEF LifeInv
  <2>4. {"heartbeat_loop", "db_pool"} \subseteq Acquired(p)
    BY StopLists DEF Acquired
  <2>5. /\ open'[p] = Holding(open[p], Head(todo[p]))
        /\ Head(todo[p]) = "pool" => "db_pool" \in Elements(Tail(todo[p]))
        /\ SchemaNext(Tail(todo[p]))
    <3>1. todo[p] \in Seq(Resources) /\ todo[p] # <<>>
          /\ open'[p] = Holding(open[p], Head(todo[p]))
      BY <1>2 DEF OpenNext, Types
    <3> QED BY <2>3, <3>1, SchemaNextTail
  <2>6. CASE Head(todo[p]) = "heartbeat"
    <3>1. open'[p] = open[p] \cup {"heartbeat", "heartbeat_loop"}
      BY <2>5, <2>6 DEF Holding
    <3> QED BY <2>1, <2>2, <2>3, <2>4, <2>5, <2>6, <3>1 DEF LifeInv
  <2>7. CASE Head(todo[p]) = "db_pool"
    <3>1. open'[p] = (open[p] \ {"pool"}) \cup {"db_pool"}
      BY <2>5, <2>7 DEF Holding
    <3> QED BY <2>1, <2>2, <2>3, <2>4, <2>5, <2>7, <3>1 DEF LifeInv, Beating
  <2>8. CASE Head(todo[p]) \notin {"heartbeat", "db_pool"}
    <3>1. open'[p] = open[p] \cup {Head(todo[p])}
      BY <2>5, <2>8 DEF Holding
    <3> QED BY <2>1, <2>2, <2>3, <2>5, <2>8, <3>1 DEF LifeInv, Beating
  <2> QED BY <2>6, <2>7, <2>8
<1>3. CASE Ready(p)
  <2>1. /\ phase[p] = "starting" /\ phase'[p] = "up"
        /\ todo[p] = <<>> /\ open'[p] = open[p]
    BY <1>3 DEF Ready, Types
  <2> QED BY <2>1, ListElements DEF LifeInv, Beating
<1>4. ASSUME Breaks(p) PROVE LifeInv(p)'
  <2>1. phase'[p] = "down" /\ open'[p] = {}
    BY <1>4 DEF Breaks, Gone, Types
  <2> QED BY <2>1 DEF LifeInv, Beating
<1>5. ASSUME phase[p] = "up" \/ (phase[p] = "starting" /\ p \notin Workers),
             phase'[p] = "stopping", todo'[p] = StopList(p), open'[p] = open[p]
      PROVE  LifeInv(p)'
  BY <1>5, StopLists DEF LifeInv, Acquired, Leftover, Beating
<1>6. CASE OpenFails(p)
  <2>1. CASE p \in Workers
    BY <1>4, <1>6, <2>1 DEF OpenFails
  <2>2. CASE p \notin Workers
    BY <1>5, <1>6, <2>2 DEF OpenFails, Types
  <2> QED BY <2>1, <2>2
<1>7. CASE Beat(p) \/ JobEvent(p)
  BY <1>7 DEF Beat, JobEvent, LifeInv, Beating
<1>8. CASE Stop(p)
  BY <1>5, <1>8 DEF Stop, Types
<1>9. CASE CloseNext(p)
  <2>1. /\ phase[p] = "stopping" /\ phase'[p] = "stopping"
        /\ todo[p] \in Seq(Resources) /\ todo[p] # <<>>
        /\ todo'[p] = Tail(todo[p])
        /\ open'[p] = open[p] \ {Head(todo[p])}
    BY <1>9 DEF CloseNext, Types
  <2>2. /\ Elements(todo[p]) = {Head(todo[p])} \cup Elements(Tail(todo[p]))
    BY <2>1, ElementsTail
  <2>3. open[p] \subseteq Elements(todo[p]) \cup Leftover(p)
        /\ (Beating(p) => LoopFirst(todo[p]) /\ "heartbeat" \in open[p])
    BY <2>1 DEF LifeInv
  <2>4. ASSUME Beating(p)'
        PROVE  LoopFirst(Tail(todo[p])) /\ "heartbeat" \in open'[p]
    <3>1. Beating(p) /\ Head(todo[p]) # "heartbeat_loop"
      BY <2>1, <2>4 DEF Beating
    <3>2. LoopFirst(todo[p]) /\ "heartbeat" \in open[p]
      BY <2>3, <3>1
    <3>3. Head(todo[p]) # "heartbeat" /\ LoopFirst(Tail(todo[p]))
      BY <2>1, <3>1, <3>2, LoopFirstTail
    <3> QED BY <2>1, <3>2, <3>3
  <2> QED BY <2>1, <2>2, <2>3, <2>4 DEF LifeInv
<1>10. CASE SkipMissing(p)
  <2>1. /\ phase[p] = "stopping" /\ phase'[p] = "stopping"
        /\ todo[p] \in Seq(Resources) /\ todo[p] # <<>>
        /\ todo'[p] = Tail(todo[p])
        /\ open'[p] = open[p] /\ Head(todo[p]) \notin open[p]
    BY <1>10 DEF SkipMissing, Types
  <2>2. /\ Elements(todo[p]) = {Head(todo[p])} \cup Elements(Tail(todo[p]))
    BY <2>1, ElementsTail
  <2>3. open[p] \subseteq Elements(todo[p]) \cup Leftover(p)
        /\ (Beating(p) => LoopFirst(todo[p]) /\ "heartbeat" \in open[p])
    BY <2>1 DEF LifeInv
  <2>4. Beating(p)' => LoopFirst(Tail(todo[p])) /\ "heartbeat" \in open'[p]
    BY <2>1, <2>3, LoopFirstTail DEF Beating
  <2> QED BY <2>1, <2>2, <2>3, <2>4 DEF LifeInv
<1>11. CASE CloseFails(p) \/ Crash(p)
  BY <1>4, <1>11 DEF CloseFails, Crash
<1>12. CASE Stopped(p)
  <2>1. /\ phase[p] = "stopping" /\ todo[p] = <<>>
        /\ phase'[p] = "down" /\ open'[p] = open[p] \ {"heartbeat_loop"}
    BY <1>12 DEF Stopped, Exits, Gone, Types
  <2>2. open[p] \subseteq Leftover(p)
    BY <2>1, ListElements DEF LifeInv
  <2> QED BY <2>1, <2>2 DEF LifeInv, Leftover, Beating
<1> QED BY <1>1, <1>2, <1>3, <1>6, <1>7, <1>8, <1>9, <1>10, <1>11, <1>12
        DEF ProcessStep, Shutdown

\* Every process keeps to its life, whatever the others do.
LEMMA LivesStep ==
    Types /\ (\A p \in Procs : LifeInv(p)) /\ [Next]_vars
        => (\A p \in Procs : LifeInv(p))'
<1> SUFFICES ASSUME Types, \A p \in Procs : LifeInv(p), [Next]_vars,
                    NEW q \in Procs
             PROVE  LifeInv(q)'
  OBVIOUS
<1>1. ASSUME phase'[q] = phase[q], todo'[q] = todo[q], open'[q] = open[q]
      PROVE  LifeInv(q)'
  BY <1>1 DEF LifeInv, Beating
<1>2. ASSUME NEW p \in Procs, ProcessStep(p) PROVE LifeInv(q)'
  <2>1. CASE q = p
    BY <1>2, <2>1, LifeStep
  <2>2. CASE q # p
    BY <1>1, <1>2, <2>2, StepIsLocal DEF Local
  <2> QED BY <2>1, <2>2
<1>3. CASE Tick \/ UNCHANGED vars
  BY <1>1, <1>3 DEF Tick, vars, lifeVars
<1> QED BY <1>2, <1>3 DEF Next, ProcessStep

-----------------------------------------------------------------------------
(* The cadence: how long a sentinel still covers a loop that runs *)

\* How far a sentinel of expiry s reaches past a loop that wakes at w, with m
\* writes lost since: a TTL, less one cadence for each.
Covered(s, m, w) ==
    (m + 1) * Refresh < Ttl => s + (m + 1) * Refresh >= w + Ttl

CadenceInv(p) ==
    /\ phase[p] \in {"down", "starting"} /\ ~Beating(p) => missed[p] = Ttl - 1
    /\ Beating(p) => wake[p] >= now /\ wake[p] <= now + Refresh
    /\ Beating(p) /\ Alone(p) => Covered(sentinel[Key(p)], missed[p], wake[p])

\* A write that succeeds covers any loop on time.
LEMMA CoveredByWrite ==
    ASSUME NEW n \in Nat, NEW w \in Nat, w <= n + Refresh
    PROVE  Covered(n + Ttl, 0, w)
  BY Cadence DEF Covered

\* One that is lost costs one cadence, and a loop that slept one gains as much.
LEMMA CoveredAfterLoss ==
    ASSUME NEW s \in Nat, NEW m \in Nat, NEW w \in Nat, NEW v \in Nat,
           Covered(s, m, w), v <= w + Refresh
    PROVE  Covered(s, m + 1, v)
<1> DEFINE a == (m + 1) * Refresh
<1>1. a \in Nat /\ (m + 1 + 1) * Refresh = a + Refresh
  BY Cadence
<1>2. a < Ttl => s + a >= w + Ttl
  BY DEF Covered
<1> HIDE DEF a
<1>3. a + Refresh < Ttl => s + a + Refresh >= v + Ttl
  BY <1>1, <1>2, Cadence
<1> QED BY <1>1, <1>3, Cadence DEF Covered

\* Ttl - 1 losses cover nothing.
LEMMA CoveredVacuously ==
    ASSUME NEW s, NEW w PROVE Covered(s, Ttl - 1, w)
<1>1. Ttl * Refresh >= Ttl
  BY Cadence
<1> QED BY <1>1, Cadence DEF Covered

LEMMA CoveredIsFresh ==
    ASSUME NEW s \in Nat, NEW m \in Nat, NEW w \in Nat,
           Covered(s, m, w), (m + 1) * Refresh < Ttl
    PROVE  s > w
<1> DEFINE a == (m + 1) * Refresh
<1>1. a \in Nat
  BY Cadence
<1>2. a < Ttl /\ s + a >= w + Ttl
  BY DEF Covered
<1> HIDE DEF a
<1> QED BY <1>1, <1>2, Cadence

LEMMA CadenceInitially == Init => \A p \in Procs : CadenceInv(p)
  BY DEF Init, CadenceInv, Beating

\* What a write leaves of the cadence, if the loop wakes at v next.
LEMMA WriteCovers ==
    ASSUME Types, NEW p \in Procs, Write(p), NEW v \in Nat, v <= now + Refresh,
           \/ missed[p] = Ttl - 1
           \/ \E w \in Nat : /\ v <= w + Refresh
                             /\ Covered(sentinel[Key(p)], missed[p], w)
    PROVE  Covered(sentinel'[Key(p)], missed'[p], v)
<1>1. /\ now \in Nat /\ sentinel[Key(p)] \in Nat /\ missed[p] \in Nat
      /\ missed[p] <= Ttl - 1
  BY KeyType, Cadence DEF Types
<1>2. CASE sentinel'[Key(p)] = now + Ttl /\ missed'[p] = 0
  BY <1>1, <1>2, CoveredByWrite
<1>3. CASE /\ sentinel' = sentinel
           /\ missed'[p] = IF missed[p] < Ttl - 1 THEN missed[p] + 1
                           ELSE missed[p]
  <2>1. CASE missed[p] = Ttl - 1
    BY <1>3, <2>1, CoveredVacuously, Cadence
  <2>2. CASE missed[p] # Ttl - 1
    <3>1. missed'[p] = missed[p] + 1
      BY <1>1, <1>3, <2>2, Cadence
    <3>2. PICK w \in Nat : /\ v <= w + Refresh
                           /\ Covered(sentinel[Key(p)], missed[p], w)
      BY <2>2
    <3> QED BY <1>1, <1>3, <3>1, <3>2, CoveredAfterLoss
  <2> QED BY <2>1, <2>2
<1> QED BY <1>2, <1>3, WriteEffect

LEMMA CadenceStep ==
    ASSUME Types, NEW p \in Procs, LifeInv(p), CadenceInv(p), ProcessStep(p)
    PROVE  CadenceInv(p)'
<1> USE DEF lifeVars, histVars
<1> Key(p)' = Key(p) /\ Alone(p)' = Alone(p)
  BY DEF Key, Role, Alone, Namesake
<1>t. /\ now \in Nat /\ wake[p] \in Nat /\ missed[p] \in Nat
      /\ now + Refresh \in Nat /\ Key(p) \in Keys
  BY KeyType, Cadence DEF Types
<1>1. CASE Launch(p)
  <2>1. phase[p] = "down" /\ open'[p] = {}
        /\ UNCHANGED <<missed, wake, sentinel, now>>
    BY <1>1 DEF Launch, Types
  <2>2. ~Beating(p) /\ ~Beating(p)'
    BY <2>1 DEF LifeInv, Leftover, Beating
  <2> QED BY <2>1, <2>2 DEF CadenceInv
<1>2. CASE OpenNext(p)
  <2>1. phase[p] = "starting" /\ now' = now
    BY <1>2 DEF OpenNext
  <2>2. CASE Head(todo[p]) = "heartbeat"
    <3>1. Write(p) /\ wake'[p] = now + Refresh /\ Beating(p)'
      BY <1>2, <2>2, Cadence DEF OpenNext, Holding, Types, Beating
    <3>2. \/ missed[p] = Ttl - 1
          \/ Alone(p) => Covered(sentinel[Key(p)], missed[p], wake[p])
      BY <2>1 DEF CadenceInv
    <3>3. now <= wake[p] \/ missed[p] = Ttl - 1
      BY <2>1 DEF CadenceInv
    <3>4. now + Refresh <= wake[p] + Refresh \/ missed[p] = Ttl - 1
      BY <1>t, <3>3, Cadence
    <3>5. now + Refresh <= now + Refresh /\ now + Refresh >= now
      BY <1>t, Cadence
    <3>6. Alone(p) => Covered(sentinel'[Key(p)], missed'[p], now + Refresh)
      BY <1>t, <3>1, <3>2, <3>4, <3>5, WriteCovers
    <3> QED BY <2>1, <3>1, <3>5, <3>6 DEF CadenceInv
  <2>3. CASE Head(todo[p]) # "heartbeat"
    <3>1. /\ open'[p] = Holding(open[p], Head(todo[p]))
          /\ UNCHANGED <<missed, wake, sentinel, phase>>
      BY <1>2, <2>3 DEF OpenNext, Types
    <3>2. Head(todo[p]) \in Elements(todo[p])
      BY <1>2, ElementsTail DEF OpenNext, Types
    <3>3. Head(todo[p]) # "heartbeat_loop"
      BY <2>1, <3>2 DEF LifeInv
    <3>4. Beating(p)' <=> Beating(p)
      BY <2>3, <3>1, <3>3 DEF Beating, Holding
    <3> QED BY <2>1, <3>1, <3>4 DEF CadenceInv
  <2> QED BY <2>2, <2>3
<1>3. ASSUME open'[p] = open[p], UNCHANGED <<missed, wake, sentinel, now>>,
             phase'[p] \in {"down", "starting"} => phase[p] \in {"down", "starting"}
      PROVE  CadenceInv(p)'
  BY <1>3 DEF CadenceInv, Beating
<1>4. ASSUME Breaks(p) \/ Exits(p) PROVE CadenceInv(p)'
  <2>1. missed'[p] = Ttl - 1 /\ ~Beating(p)'
    BY <1>4 DEF Breaks, Exits, Gone, Types, Beating
  <2> QED BY <2>1 DEF CadenceInv
<1>5. CASE Ready(p) \/ Stop(p)
  BY <1>3, <1>5 DEF Ready, Stop, Types
<1>6. CASE OpenFails(p)
  <2>1. CASE p \in Workers
    BY <1>4, <1>6, <2>1 DEF OpenFails
  <2>2. CASE p \notin Workers
    BY <1>3, <1>6, <2>2 DEF OpenFails, Types
  <2> QED BY <2>1, <2>2
<1>7. CASE Beat(p)
  <2>1. /\ Beating(p) /\ Beating(p)' /\ wake[p] = now /\ now' = now /\ Write(p)
        /\ wake'[p] = now + Refresh
    BY <1>7, Cadence DEF Beat, Types, Beating
  <2>2. now + Refresh <= wake[p] + Refresh /\ now + Refresh >= now
        /\ now + Refresh <= now + Refresh
    BY <1>t, <2>1, Cadence
  <2>3. Alone(p) => Covered(sentinel[Key(p)], missed[p], wake[p])
    BY <2>1 DEF CadenceInv
  <2>4. Alone(p) => Covered(sentinel'[Key(p)], missed'[p], now + Refresh)
    BY <1>t, <2>1, <2>2, <2>3, WriteCovers
  <2> QED BY <2>1, <2>2, <2>4 DEF CadenceInv
<1>8. CASE JobEvent(p)
  <2>1. /\ phase[p] = "up" /\ phase'[p] = "up" /\ Beating(p)' = Beating(p)
        /\ UNCHANGED <<wake, now>> /\ Write(p)
    BY <1>8 DEF JobEvent, Beating
  <2>2. wake[p] <= wake[p] + Refresh
    BY <1>t, Cadence
  <2>3. Beating(p) => wake[p] >= now /\ wake[p] <= now + Refresh
    BY DEF CadenceInv
  <2>4. Beating(p) /\ Alone(p) => Covered(sentinel[Key(p)], missed[p], wake[p])
    BY DEF CadenceInv
  <2>5. Beating(p) /\ Alone(p) => Covered(sentinel'[Key(p)], missed'[p], wake[p])
    BY <1>t, <2>1, <2>2, <2>3, <2>4, WriteCovers
  <2> QED BY <2>1, <2>3, <2>5 DEF CadenceInv
<1>9. CASE CloseNext(p)
  <2>1. /\ phase[p] = "stopping" /\ phase'[p] = "stopping"
        /\ open'[p] = open[p] \ {Head(todo[p])}
        /\ UNCHANGED <<missed, wake, now>>
        /\ Head(todo[p]) # "heartbeat" => sentinel' = sentinel
    BY <1>9 DEF CloseNext, Types
  <2>2. ASSUME Beating(p)' PROVE Beating(p) /\ Head(todo[p]) # "heartbeat"
    <3>1. Beating(p)
      BY <2>1, <2>2 DEF Beating
    <3>2. LoopFirst(todo[p])
      BY <2>1, <3>1 DEF LifeInv
    <3> QED BY <1>9, <3>1, <3>2, LoopFirstTail DEF CloseNext, Types
  <2> QED BY <2>1, <2>2 DEF CadenceInv
<1>10. CASE SkipMissing(p)
  BY <1>3, <1>10 DEF SkipMissing
<1>11. CASE CloseFails(p) \/ Stopped(p) \/ Crash(p)
  BY <1>4, <1>11 DEF CloseFails, Stopped, Crash
<1> QED BY <1>1, <1>2, <1>5, <1>6, <1>7, <1>8, <1>9, <1>10, <1>11
        DEF ProcessStep, Shutdown

\* Time passes for a loop that is not due, and whose sentinel outlives it.
LEMMA CadenceTick ==
    ASSUME Types, NEW p \in Procs, CadenceInv(p), Tick
    PROVE  CadenceInv(p)'
<1> USE DEF lifeVars, histVars
<1> Key(p)' = Key(p) /\ Alone(p)' = Alone(p)
  BY DEF Key, Role, Alone, Namesake
<1>1. /\ now \in Nat /\ wake[p] \in Nat /\ missed[p] \in Nat
      /\ Key(p) \in Keys /\ sentinel[Key(p)] \in Nat
  BY KeyType, Cadence DEF Types
<1>2. /\ UNCHANGED <<phase, open, missed, wake>> /\ Beating(p)' = Beating(p)
      /\ now' = now + 1
      /\ sentinel'[Key(p)] = IF sentinel[Key(p)] > now + 1
                             THEN sentinel[Key(p)] ELSE 0
      /\ Beating(p) => wake[p] > now
  BY <1>1 DEF Tick, Beating
<1>3. ASSUME Beating(p) PROVE wake[p] >= now + 1 /\ wake[p] <= now + 1 + Refresh
  BY <1>1, <1>2, <1>3, Cadence DEF CadenceInv
<1>4. ASSUME Beating(p), Alone(p)
      PROVE  Covered(sentinel'[Key(p)], missed[p], wake[p])
  <2>1. Covered(sentinel[Key(p)], missed[p], wake[p])
    BY <1>4 DEF CadenceInv
  <2>2. CASE (missed[p] + 1) * Refresh < Ttl
    <3>1. sentinel[Key(p)] > wake[p]
      BY <1>1, <2>1, <2>2, CoveredIsFresh
    <3>2. sentinel[Key(p)] > now + 1
      BY <1>1, <1>3, <1>4, <3>1
    <3> QED BY <1>2, <2>1, <3>2
  <2>3. CASE ~((missed[p] + 1) * Refresh < Ttl)
    BY <2>3 DEF Covered
  <2> QED BY <2>2, <2>3
<1> QED BY <1>2, <1>3, <1>4 DEF CadenceInv

-----------------------------------------------------------------------------
(* The end of a process, and what vouches for it afterwards *)

\* Nothing vouches for longer than a TTL from now, nor, once its processes are
\* down, than a TTL from their end.
DeathInv ==
    /\ \A k \in Keys : sentinel[k] <= now + Ttl
    /\ DeadDetected

\* A sentinel is there only while the heartbeat that deletes it is, unless the
\* life broke.
SilenceInv ==
    \A p \in Procs \ ghost :
        Alone(p) /\ Fresh(Key(p)) => "heartbeat" \in open[p]

\* What a step does to the process's own sentinel: nothing, or it deletes it,
\* or writes it for a heartbeat it holds.
LEMMA SentinelStep ==
    ASSUME Types, NEW p \in Procs, LifeInv(p), ProcessStep(p)
    PROVE  \/ sentinel' = sentinel
           \/ sentinel'[Key(p)] = 0
           \/ /\ sentinel'[Key(p)] = now + Ttl
              /\ "heartbeat" \in open'[p]
              /\ phase'[p] # "down"
<1> USE DEF lifeVars, histVars
<1>1. CASE OpenNext(p)
  <2>1. CASE Head(todo[p]) = "heartbeat"
    <3>1. Write(p) /\ phase'[p] = "starting" /\ "heartbeat" \in open'[p]
      BY <1>1, <2>1 DEF OpenNext, Holding, Types
    <3> QED BY <3>1, WriteEffect
  <2>2. CASE Head(todo[p]) # "heartbeat"
    BY <1>1, <2>2 DEF OpenNext
  <2> QED BY <2>1, <2>2
<1>2. CASE Beat(p) \/ JobEvent(p)
  <2>1. /\ Write(p) /\ phase'[p] # "down" /\ "heartbeat" \in open'[p]
    BY <1>2 DEF Beat, JobEvent, LifeInv, Leftover, Beating
  <2> QED BY <2>1, WriteEffect
<1>3. CASE CloseNext(p)
  BY <1>3, KeyType DEF CloseNext, Types
<1>4. CASE \/ Launch(p) \/ Ready(p) \/ OpenFails(p) \/ Stop(p) \/ SkipMissing(p)
           \/ Stopped(p) \/ CloseFails(p) \/ Crash(p)
  BY <1>4 DEF Launch, Ready, OpenFails, Stop, SkipMissing, Stopped, CloseFails,
              Crash
<1> QED BY <1>1, <1>2, <1>3, <1>4 DEF ProcessStep, Shutdown

\* A process goes down now, or was down, or is not.
LEMMA DownStep ==
    ASSUME Types, NEW p \in Procs, LifeInv(p), ProcessStep(p)
    PROVE  phase'[p] # "down" \/ died'[p] = now
<1> USE DEF lifeVars, histVars
<1>1. ASSUME Breaks(p) \/ Exits(p) PROVE died'[p] = now
  BY <1>1 DEF Breaks, Exits, Gone, Types
<1>2. CASE Launch(p) \/ Ready(p) \/ Stop(p)
  BY <1>2 DEF Launch, Ready, Stop, Types
<1>3. CASE OpenNext(p) \/ CloseNext(p) \/ SkipMissing(p)
  BY <1>3 DEF OpenNext, CloseNext, SkipMissing
<1>4. CASE OpenFails(p)
  <2>1. CASE p \in Workers
    BY <1>1, <1>4, <2>1 DEF OpenFails
  <2>2. CASE p \notin Workers
    BY <1>4, <2>2 DEF OpenFails, Types
  <2> QED BY <2>1, <2>2
<1>5. CASE Beat(p)
  BY <1>5 DEF Beat, LifeInv, Leftover, Beating
<1>6. CASE JobEvent(p)
  BY <1>6 DEF JobEvent
<1>7. CASE CloseFails(p) \/ Stopped(p) \/ Crash(p)
  BY <1>1, <1>7 DEF CloseFails, Stopped, Crash
<1> QED BY <1>2, <1>3, <1>4, <1>5, <1>6, <1>7 DEF ProcessStep, Shutdown

\* When a sentinel is gone before its time, what it vouched for was released,
\* or the process broke.
LEMMA ReleaseStep ==
    ASSUME Types, NEW p \in Procs, LifeInv(p), ProcessStep(p),
           "heartbeat" \in open[p]
    PROVE  "heartbeat" \in open'[p] \/ sentinel'[Key(p)] = 0 \/ p \in ghost'
<1> USE DEF lifeVars, histVars
<1>1. CASE CloseNext(p)
  BY <1>1, KeyType DEF CloseNext, Types
<1>2. CASE OpenNext(p)
  BY <1>2 DEF OpenNext, Holding, Types
<1>3. CASE Launch(p) \/ Ready(p) \/ Beat(p) \/ JobEvent(p) \/ Stop(p)
           \/ SkipMissing(p)
  BY <1>3 DEF Launch, Ready, Beat, JobEvent, Stop, SkipMissing, LifeInv, Leftover
<1>4. CASE OpenFails(p) \/ CloseFails(p) \/ Crash(p)
  BY <1>4 DEF OpenFails, CloseFails, Crash, Breaks
<1>5. CASE Stopped(p)
  BY <1>5 DEF Stopped, Exits, Types
<1> QED BY <1>1, <1>2, <1>3, <1>4, <1>5 DEF ProcessStep, Shutdown

\* A process that broke is a ghost until a write of its own replaces what it
\* left.
LEMMA GhostStep ==
    ASSUME Types, NEW p \in Procs, LifeInv(p), ProcessStep(p),
           p \in ghost, p \notin ghost'
    PROVE  "heartbeat" \in open'[p]
<1> USE DEF lifeVars, histVars
<1>1. CASE OpenNext(p)
  <2>1. CASE Head(todo[p]) = "heartbeat"
    BY <1>1, <2>1 DEF OpenNext, Holding, Types
  <2>2. CASE Head(todo[p]) # "heartbeat"
    BY <1>1, <2>2 DEF OpenNext
  <2> QED BY <2>1, <2>2
<1>2. CASE Beat(p) \/ JobEvent(p)
  BY <1>2 DEF Beat, JobEvent, LifeInv, Beating
<1>3. CASE \/ Launch(p) \/ Ready(p) \/ OpenFails(p) \/ Stop(p) \/ CloseNext(p)
           \/ SkipMissing(p) \/ Stopped(p) \/ CloseFails(p) \/ Crash(p)
  BY <1>3 DEF Launch, Ready, OpenFails, Stop, CloseNext, SkipMissing, Stopped,
              CloseFails, Crash, Breaks, Exits
<1> QED BY <1>1, <1>2, <1>3 DEF ProcessStep, Shutdown

LEMMA DeathInitially == Init => DeathInv /\ SilenceInv
<1> SUFFICES ASSUME Init PROVE DeathInv /\ SilenceInv
  OBVIOUS
<1>1. \A k \in Keys : sentinel[k] = 0 /\ now = 0
  BY DEF Init
<1>2. \A p \in Procs : ~Fresh(Key(p))
  BY <1>1, KeyType DEF Fresh
<1> QED BY <1>1, <1>2, Cadence DEF DeathInv, DeadDetected, SilenceInv, Fresh

LEMMA DeathStep ==
    ASSUME Types, NEW p \in Procs, LifeInv(p), DeathInv, ProcessStep(p)
    PROVE  DeathInv'
<1> Keys' = Keys /\ now' = now /\ \A q \in Procs : Key(q)' = Key(q)
  BY StepIsLocal DEF Local, Keys, Key, Role
<1>1. ASSUME NEW k \in Keys PROVE sentinel'[k] <= now + Ttl
  <2>1. /\ sentinel[k] <= now + Ttl /\ now + Ttl <= now + Ttl
        /\ 0 <= now + Ttl
    BY Cadence DEF DeathInv, Types
  <2>2. sentinel'[k] = sentinel[k] \/ sentinel'[k] = 0 \/ sentinel'[k] = now + Ttl
    BY SentinelStep, StepIsLocal DEF Local
  <2> QED BY <2>1, <2>2
<1>2. ASSUME NEW k \in Keys, sentinel'[k] > now
      PROVE  \E q \in Procs :
                 Key(q) = k /\ (phase'[q] # "down" \/ sentinel'[k] <= died'[q] + Ttl)
  <2>1. CASE Key(p) = k
    BY <1>1, <2>1, DownStep
  <2>2. CASE Key(p) # k
    <3>1. sentinel'[k] = sentinel[k]
      BY <2>2, StepIsLocal DEF Local
    <3>2. PICK q \in Procs :
              Key(q) = k /\ (phase[q] # "down" \/ sentinel[k] <= died[q] + Ttl)
      BY <1>2, <3>1 DEF DeathInv, DeadDetected, Fresh
    <3>3. phase'[q] = phase[q] /\ died'[q] = died[q]
      BY <2>2, <3>2, StepIsLocal DEF Local
    <3> QED BY <3>1, <3>2, <3>3
  <2> QED BY <2>1, <2>2
<1> QED BY <1>1, <1>2 DEF DeathInv, DeadDetected, Fresh

LEMMA SilenceStep ==
    ASSUME Types, NEW p \in Procs, LifeInv(p), SilenceInv, ProcessStep(p)
    PROVE  SilenceInv'
<1> now' = now /\ \A q \in Procs : Key(q)' = Key(q) /\ Alone(q)' = Alone(q)
  BY StepIsLocal DEF Local, Key, Role, Alone, Namesake
<1>1. ASSUME NEW q \in Procs \ ghost', Alone(q), sentinel'[Key(q)] > now
      PROVE  "heartbeat" \in open'[q]
  <2>1. CASE q = p
    <3>1. CASE p \in ghost
      BY <1>1, <2>1, <3>1, GhostStep
    <3>2. CASE p \notin ghost /\ sentinel' = sentinel
      <4>1. "heartbeat" \in open[p]
        BY <1>1, <2>1, <3>2 DEF SilenceInv, Fresh
      <4>2. sentinel'[Key(p)] # 0
        BY <1>1, <2>1 DEF Types
      <4> QED BY <1>1, <2>1, <4>1, <4>2, ReleaseStep
    <3>3. CASE sentinel'[Key(p)] = 0
      BY <1>1, <2>1, <3>3 DEF Types
    <3> QED BY <2>1, <3>1, <3>2, <3>3, SentinelStep
  <2>2. CASE q # p
    <3>1. Key(q) \in Keys \ {Key(p)}
      BY <1>1, <2>2, KeyType DEF Alone, Namesake
    <3> QED BY <1>1, <2>2, <3>1, StepIsLocal DEF Local, SilenceInv, Fresh
  <2> QED BY <2>1, <2>2
<1> QED BY <1>1 DEF SilenceInv, Fresh

LEMMA DeathTick ==
    ASSUME Types, DeathInv, SilenceInv, Tick
    PROVE  DeathInv' /\ SilenceInv'
<1> Keys' = Keys /\ \A q \in Procs : Key(q)' = Key(q) /\ Alone(q)' = Alone(q)
  BY DEF Keys, Key, Role, Alone, Namesake
<1>1. /\ UNCHANGED <<phase, open, died, ghost>>
      /\ now \in Nat /\ now' = now + 1
  BY DEF Tick, Types, lifeVars, histVars
<1>2. ASSUME NEW k \in Keys
      PROVE  /\ sentinel'[k] <= now + 1 + Ttl
             /\ sentinel'[k] > now + 1 => sentinel'[k] = sentinel[k] /\ Fresh(k)
  <2>1. sentinel[k] \in Nat /\ sentinel[k] <= now + Ttl
    BY Cadence DEF DeathInv, Types
  <2>2. sentinel'[k] = IF sentinel[k] > now + 1 THEN sentinel[k] ELSE 0
    BY DEF Tick
  <2> QED BY <1>1, <2>1, <2>2, Cadence DEF Fresh
<1>3. DeathInv'
  <2>1. ASSUME NEW k \in Keys, sentinel'[k] > now + 1
        PROVE  \E q \in Procs :
                   Key(q) = k /\ (phase'[q] # "down"
                                      \/ sentinel'[k] <= died'[q] + Ttl)
    <3>1. sentinel'[k] = sentinel[k] /\ Fresh(k)
      BY <1>2, <2>1
    <3>2. PICK q \in Procs :
              Key(q) = k /\ (phase[q] # "down" \/ sentinel[k] <= died[q] + Ttl)
      BY <3>1 DEF DeathInv, DeadDetected
    <3> QED BY <1>1, <3>1, <3>2
  <2> QED BY <1>1, <1>2, <2>1 DEF DeathInv, DeadDetected, Fresh
<1>4. SilenceInv'
  BY <1>1, <1>2, KeyType DEF SilenceInv, Fresh
<1> QED BY <1>3, <1>4
-----------------------------------------------------------------------------
(* The theorems *)

Lives == \A p \in Procs : LifeInv(p)
Cadences == \A p \in Procs : CadenceInv(p)

LEMMA TypesAlways == Spec => []Types
<1>1. Init => Types
  BY TypesInitially
<1>2. Types /\ [Next]_vars => Types'
  BY TypesStep
<1> QED BY <1>1, <1>2, PTL DEF Spec

LEMMA LivesAlways == Spec => []Lives
<1>1. Init => Lives
  BY LifeInitially DEF Lives
<1>2. Types /\ Lives /\ [Next]_vars => Lives'
  BY LivesStep DEF Lives
<1> QED BY <1>1, <1>2, TypesAlways, PTL DEF Spec

LEMMA CadencesStep == Types /\ Lives /\ Cadences /\ [Next]_vars => Cadences'
<1> SUFFICES ASSUME Types, Lives, Cadences, [Next]_vars, NEW q \in Procs
             PROVE  CadenceInv(q)'
  BY DEF Cadences
<1> Key(q)' = Key(q) /\ Alone(q)' = Alone(q)
  BY DEF Key, Role, Alone, Namesake
<1>1. CadenceInv(q)
  BY DEF Cadences
<1>2. ASSUME NEW p \in Procs, ProcessStep(p) PROVE CadenceInv(q)'
  <2>1. CASE q = p
    BY <1>1, <1>2, <2>1, CadenceStep DEF Lives
  <2>2. CASE q # p
    <3>1. /\ phase'[q] = phase[q] /\ open'[q] = open[q] /\ wake'[q] = wake[q]
          /\ missed'[q] = missed[q] /\ now' = now
      BY <1>2, <2>2, StepIsLocal DEF Local
    <3>2. Alone(q) => sentinel'[Key(q)] = sentinel[Key(q)]
      BY <1>2, <2>2, StepIsLocal, KeyType DEF Local, Alone, Namesake
    <3> QED BY <1>1, <3>1, <3>2 DEF CadenceInv, Beating
  <2> QED BY <2>1, <2>2
<1>3. CASE Tick
  BY <1>1, <1>3, CadenceTick
<1>4. CASE UNCHANGED vars
  BY <1>1, <1>4 DEF CadenceInv, Beating, vars, lifeVars, histVars
<1> QED BY <1>2, <1>3, <1>4 DEF Next, ProcessStep

LEMMA CadencesAlways == Spec => []Cadences
<1>1. Init => Cadences
  BY CadenceInitially DEF Cadences
<1>2. Types /\ Lives /\ Cadences /\ [Next]_vars => Cadences'
  BY CadencesStep
<1> QED BY <1>1, <1>2, TypesAlways, LivesAlways, PTL DEF Spec

LEMMA DeathAlways == Spec => [](DeathInv /\ SilenceInv)
<1>1. Init => DeathInv /\ SilenceInv
  BY DeathInitially
<1>2. Types /\ Lives /\ DeathInv /\ SilenceInv /\ [Next]_vars
          => DeathInv' /\ SilenceInv'
  <2> SUFFICES ASSUME Types, Lives, DeathInv, SilenceInv, [Next]_vars
               PROVE  DeathInv' /\ SilenceInv'
    OBVIOUS
  <2>1. ASSUME NEW p \in Procs, ProcessStep(p) PROVE DeathInv' /\ SilenceInv'
    BY <2>1, DeathStep, SilenceStep DEF Lives
  <2>2. CASE Tick
    BY <2>2, DeathTick
  <2>3. CASE UNCHANGED vars
    BY <2>3 DEF DeathInv, DeadDetected, SilenceInv, Keys, Key, Role, Fresh,
                Alone, Namesake, vars, lifeVars, histVars
  <2> QED BY <2>1, <2>2, <2>3 DEF Next, ProcessStep
<1> QED BY <1>1, <1>2, TypesAlways, LivesAlways, PTL DEF Spec

\* Every variable keeps its type, and no loop is overdue: time waits for it,
\* and a startup never starts one without setting its clock.
THEOREM ProcessesInRange == Spec => []TypeOK
<1>1. Types /\ Cadences => TypeOK
  BY DEF Types, Cadences, CadenceInv, TypeOK
<1> QED BY <1>1, TypesAlways, CadencesAlways, PTL

\* A process that ends without a fault holds nothing, but for a bot whose schema
\* was refused, which holds the pool it was to be applied to: the two shutdown lists name all else that the two startup
\* lists, or any beginning of them, acquire, and the pool itself once the schema
\* is applied.
THEOREM EverythingIsReleased == Spec => []NothingLeftOpen
<1>1. Lives => NothingLeftOpen
  BY DEF Lives, LifeInv, Leftover, NothingLeftOpen, Procs
<1> QED BY <1>1, LivesAlways, PTL

\* The probe sees a process whose loop runs, whatever its phase, through as
\* many lost writes as fit into a TTL at the loop's cadence.
THEOREM RunningIsSeen == Spec => []NoFalseAlarm
<1>1. Types /\ Cadences => NoFalseAlarm
  <2> SUFFICES ASSUME Types, Cadences, NEW p \in Procs, Beating(p), Alone(p),
                      (missed[p] + 1) * Refresh < Ttl
               PROVE  Fresh(Key(p))
    BY DEF NoFalseAlarm
  <2>1. /\ sentinel[Key(p)] \in Nat /\ missed[p] \in Nat /\ wake[p] \in Nat
        /\ now \in Nat
    BY KeyType, Cadence DEF Types
  <2>2. wake[p] >= now /\ Covered(sentinel[Key(p)], missed[p], wake[p])
    BY DEF Cadences, CadenceInv
  <2>3. sentinel[Key(p)] > wake[p]
    BY <2>1, <2>2, CoveredIsFresh
  <2> QED BY <2>1, <2>2, <2>3 DEF Fresh
<1> QED BY <1>1, TypesAlways, CadencesAlways, PTL

\* No sentinel outlives its processes by more than a TTL, whoever wrote it
\* last and however they ended.
THEOREM DeadIsMissed == Spec => []DeadDetected
<1>1. DeathInv => DeadDetected
  BY DEF DeathInv
<1> QED BY <1>1, DeathAlways, PTL

\* After a life without a fault no sentinel vouches for the process, also
\* when its startup had failed half way.
THEOREM StoppedIsSilent == Spec => []ShutdownSilent
<1>1. Lives /\ SilenceInv => ShutdownSilent
  BY DEF Lives, LifeInv, Leftover, SilenceInv, ShutdownSilent
<1> QED BY <1>1, LivesAlways, DeathAlways, PTL
=============================================================================
