--------------------------- MODULE JobControlProofs ---------------------------
(***************************************************************************)
(* Proofs about JobControl, for any number of jobs, users and commands in  *)
(* flight.                                                                 *)
(***************************************************************************)
EXTENDS JobControl, TLAPS

(* Types *)

CallType == [cmd : {"status", "cancel"}, job : Jobs, ready : BOOLEAN,
             late : BOOLEAN, word : Nat, aged : BOOLEAN]

ProgressType == [phase : {"none", "working", "done"}, exp : Nat]

PcType == {"idle", "latest", "meta", "is_cancelled", "cancel", "is_ready",
           "progress", "refund"}

\* What each variable holds, without what relates two of them.
Types ==
    /\ job \in [Jobs -> JobMeta]
    /\ step \in [Jobs -> {"none", "kiq", "record", "over"}]
    /\ work \in [Jobs -> {"none", "queued", "checked", "running", "forget",
                          "save", "over"}]
    /\ turns \in 0 .. MaxTurns
    /\ cancelled \subseteq Jobs
    /\ progress \in [Jobs -> ProgressType]
    /\ ready \in [Jobs -> Nat]
    /\ meta \in [Jobs -> Nat]
    /\ activeJobs \in [Users -> SUBSET Jobs]
    /\ scores \in Seq(Jobs)
    /\ listUntil \in [Users -> Nat]
    /\ pc \in [Calls -> PcType]
    /\ call \in [Calls -> CallType]
    /\ now \in 0 .. MaxTime
    /\ refunds \in [Jobs -> Nat]
    /\ begun \subseteq Jobs
    /\ heard \in [Jobs -> Nat]
    /\ clipped \subseteq Jobs
    /\ early \subseteq Calls
    /\ said \in [Calls -> Answer]

LEMMA Bounds ==
    /\ MaxTurns \in Nat /\ MaxTime \in Nat
    /\ ResultHours \in Nat /\ ResultHours >= 1
    /\ DefaultRetention \in Nat /\ DefaultRetention >= 1
    /\ Retentions \subseteq Int
  BY ControlAssumption

LEMMA ValueTypes ==
    /\ NoCall \in CallType
    /\ NoAnswer \in Answer
    /\ NoProgress \in ProgressType
    /\ NoGuild \in Places
<1>1. (CHOOSE u \in Users : TRUE) \in Users /\ (CHOOSE t \in Jobs : TRUE) \in Jobs
  BY ControlAssumption
<1> QED BY <1>1 DEF NoCall, CallType, NoAnswer, Answer, NoProgress,
                    ProgressType, Places

LEMMA TypesInitially == Init => Types
<1> SUFFICES ASSUME Init PROVE Types
  OBVIOUS
<1>1. (CHOOSE u \in Users : TRUE) \in Users
  BY ControlAssumption
<1>2. job \in [Jobs -> JobMeta]
  BY <1>1, ValueTypes DEF Init, JobMeta
<1>3. 0 \in 0 .. MaxTurns /\ 0 \in 0 .. MaxTime /\ 0 \in Nat
  BY Bounds
<1>4. scores \in Seq(Jobs)
  BY DEF Init
<1>5. /\ step \in [Jobs -> {"none", "kiq", "record", "over"}]
      /\ work \in [Jobs -> {"none", "queued", "checked", "running", "forget",
                            "save", "over"}]
      /\ ready \in [Jobs -> Nat] /\ meta \in [Jobs -> Nat]
      /\ activeJobs \in [Users -> SUBSET Jobs]
      /\ listUntil \in [Users -> Nat]
      /\ pc \in [Calls -> PcType]
      /\ refunds \in [Jobs -> Nat] /\ heard \in [Jobs -> Nat]
  BY <1>3 DEF Init, PcType
<1>6. /\ progress \in [Jobs -> ProgressType]
      /\ call \in [Calls -> CallType]
      /\ said \in [Calls -> Answer]
  BY ValueTypes DEF Init
<1> QED BY <1>2, <1>3, <1>4, <1>5, <1>6 DEF Init, Types

\* A handler's locals, with some of them set anew.
LEMMA CallEdits ==
    ASSUME NEW c \in CallType
    PROVE  /\ \A t \in Jobs : [c EXCEPT !.job = t] \in CallType
           /\ \A b \in BOOLEAN : [c EXCEPT !.ready = b] \in CallType
           /\ \A b \in BOOLEAN : [c EXCEPT !.aged = b] \in CallType
           /\ \A b \in BOOLEAN, w \in Nat :
                  [c EXCEPT !.late = b, !.word = w] \in CallType
           /\ \A cmd \in {"status", "cancel"} :
                  /\ [c EXCEPT !.cmd = cmd] \in CallType
                  /\ \A t \in Jobs :
                         [c EXCEPT !.cmd = cmd, !.job = t] \in CallType
  BY DEF CallType

\* The expiry of an entry recorded now.
LEMMA RecordedExpiry ==
    ASSUME Types, NEW place \in Places, NEW ttl \in Hours(place), ttl > 0
    PROVE  ttl \in Nat /\ now + ttl \in Nat
<1>1. ttl \in Int
  BY Bounds DEF Hours
<1> QED BY <1>1 DEF Types

LEMMA AskTypes ==
    ASSUME Types, NEW t \in Jobs, Ask(t)
    PROVE  Types'
<1> USE DEF workVars, resultVars, indexVars, callVars, histVars
<1>1. CASE Download(t)
  <2>1. ConsumesToken(job'[t].user, job'[t].guild) \in BOOLEAN
    BY DEF ConsumesToken
  <2>2. PICK u \in Users, place \in Places :
            job' = [job EXCEPT ![t] = [user |-> u, guild |-> place,
                                       token |-> ConsumesToken(u, place)]]
    BY <1>1 DEF Download
  <2>3. ConsumesToken(u, place) \in BOOLEAN
    BY DEF ConsumesToken
  <2> DEFINE m == [user |-> u, guild |-> place, token |-> ConsumesToken(u, place)]
  <2>4. m \in JobMeta
    BY <2>3 DEF JobMeta
  <2> HIDE DEF m
  <2>5. job' = [job EXCEPT ![t] = m]
    BY <2>2 DEF m
  <2>6. turns' \in 0 .. MaxTurns
    BY <1>1, Bounds DEF Download, TakeTurn, Types
  <2> QED BY <1>1, <2>4, <2>5, <2>6 DEF Download, Types
<1>2. CASE Kiq(t)
  BY <1>2 DEF Kiq, Types
<1>3. CASE KiqFails(t)
  BY <1>3 DEF KiqFails, Types
<1>4. CASE RecordJob(t)
  <2>1. ListOwner(t) \in Users /\ job[t].guild \in Places
    BY DEF ListOwner, Types, JobMeta
  <2>2. PICK ttl \in Hours(job[t].guild) :
            /\ ttl > 0
            /\ meta' = [meta EXCEPT ![t] = now + ttl]
            /\ activeJobs' = [activeJobs EXCEPT ![ListOwner(t)] = @ \cup {t}]
            /\ scores' = Append(scores, t)
            /\ listUntil' = [listUntil EXCEPT ![ListOwner(t)] = now + ttl]
    BY <1>4 DEF RecordJob, ListExpiry
  <2>3. now + ttl \in Nat
    BY <2>1, <2>2, RecordedExpiry
  <2>4. Append(scores, t) \in Seq(Jobs)
    BY DEF Types
  <2>5. /\ meta' \in [Jobs -> Nat] /\ listUntil' \in [Users -> Nat]
        /\ activeJobs' \in [Users -> SUBSET Jobs] /\ scores' \in Seq(Jobs)
    BY <2>1, <2>2, <2>3, <2>4 DEF Types
  <2>6. clipped' \subseteq Jobs
    BY <1>4, <2>1 DEF RecordJob, Clip, Types
  <2> QED BY <1>4, <2>5, <2>6 DEF RecordJob, Types
<1>5. CASE RecordJobRefused(t)
  <2>1. ListOwner(t) \in Users
    BY DEF ListOwner, Types, JobMeta
  <2>2. /\ activeJobs' \in [Users -> SUBSET Jobs]
        /\ listUntil' \in [Users -> Nat] /\ clipped' \subseteq Jobs
    BY <1>5, <2>1 DEF RecordJobRefused, Clip, Types
  <2> QED BY <1>5, <2>2 DEF RecordJobRefused, Types
<1>6. CASE RecordJobFails(t)
  BY <1>6 DEF RecordJobFails, Types
<1> QED BY <1>1, <1>2, <1>3, <1>4, <1>5, <1>6 DEF Ask

LEMMA WorkTypes ==
    ASSUME Types, NEW t \in Jobs, Work(t)
    PROVE  Types'
<1> USE DEF askVars, workVars, resultVars, indexVars, callVars, histVars, MoveTo
<1>p. ASSUME NEW phase \in {"working", "done"}, SetProgress(t, phase)
      PROVE  progress' \in [Jobs -> ProgressType] /\ heard' \in [Jobs -> Nat]
  <2>1. now + ResultHours \in Nat /\ now \in Nat
    BY Bounds DEF Types
  <2> QED BY <1>p, <2>1 DEF SetProgress, Types, ProgressType
<1>1. CASE Pickup(t)
  BY <1>1, Bounds DEF Pickup, TakeTurn, Types
<1>2. CASE Start(t)
  BY <1>2, <1>p DEF Start, Types
<1>3. CASE Progress(t)
  BY <1>3, <1>p DEF Progress, Types
<1>4. CASE Deliver(t)
  BY <1>4, <1>p DEF Deliver, Types
<1>5. CASE ForgetJob(t)
  <2>1. ListOwner(t) \in Users
    BY DEF ListOwner, Types, JobMeta
  <2> QED BY <1>5, <2>1 DEF ForgetJob, Unlist, Zrem, Types
<1>6. CASE ForgetJobFails(t) \/ Error(t) \/ Interrupt(t) \/ Crash(t)
  BY <1>6 DEF ForgetJobFails, Error, Interrupt, Crash, Types
<1>7. CASE SaveResult(t)
  <2>1. now + ResultHours \in Nat /\ now \in Nat
    BY Bounds DEF Types
  <2>2. ready' \in [Jobs -> Nat] /\ heard' \in [Jobs -> Nat]
    BY <1>7, <2>1 DEF SaveResult, Types
  <2> QED BY <1>7, <2>2 DEF SaveResult, Types
<1> QED BY <1>1, <1>2, <1>3, <1>4, <1>5, <1>6, <1>7 DEF Work

LEMMA HandleTypes ==
    ASSUME Types, NEW h \in Calls, Handle(h)
    PROVE  Types'
<1> USE DEF askVars, workVars, resultVars, indexVars, histVars, Goto
<1>f. ASSUME Finish(h)
      PROVE  /\ pc' \in [Calls -> PcType] /\ call' \in [Calls -> CallType]
             /\ early' \subseteq Calls
  BY <1>f, ValueTypes DEF Finish, Types, PcType
<1>s. ASSUME NEW label \in {"cancelled", "done", "queued", "working"},
             Say(h, label)
      PROVE  said' \in [Calls -> Answer] /\ Finish(h)
  <2> DEFINE b == call[h].job \in begun
             n == call[h].word + ResultHours <= now
  <2>1. b \in BOOLEAN /\ n \in BOOLEAN /\ call[h].late \in BOOLEAN
    BY DEF Types, CallType
  <2>2. /\ said' = [said EXCEPT ![h] = [label |-> label, late |-> call[h].late,
                                        begun |-> b, silent |-> n]]
        /\ Finish(h)
    BY <1>s DEF Say
  <2> HIDE DEF b, n
  <2> QED BY <2>1, <2>2 DEF Types, Answer
<1>1. CASE Command(h)
  <2>1. turns' \in 0 .. MaxTurns
    BY <1>1, Bounds DEF Command, TakeTurn, Types
  <2>2. call' \in [Calls -> CallType] /\ pc' \in [Calls -> PcType]
    <3>1. PICK cmd \in {"status", "cancel"} :
              \/ /\ call' = [call EXCEPT ![h].cmd = cmd]
                 /\ Goto(h, "latest")
              \/ \E t \in Jobs :
                     /\ call' = [call EXCEPT ![h].cmd = cmd, ![h].job = t]
                     /\ Goto(h, "meta")
      BY <1>1 DEF Command
    <3>2. call[h] \in CallType
      BY DEF Types
    <3>3. ASSUME call' = [call EXCEPT ![h].cmd = cmd]
          PROVE  call' \in [Calls -> CallType]
      BY <3>2, <3>3, CallEdits DEF Types
    <3>4. ASSUME NEW t \in Jobs,
                 call' = [call EXCEPT ![h].cmd = cmd, ![h].job = t]
          PROVE  call' \in [Calls -> CallType]
      BY <3>2, <3>4, CallEdits DEF Types
    <3>5. pc' \in [Calls -> PcType]
      BY <3>1 DEF Types, PcType
    <3> QED BY <3>1, <3>3, <3>4, <3>5
  <2> QED BY <1>1, <2>1, <2>2, ValueTypes DEF Command, Types
<1>2. CASE LatestJob(h)
  <2>1. \A i \in 1 .. Len(scores) : scores[i] \in Jobs
    BY DEF Types
  <2>2. /\ pc' \in [Calls -> PcType] /\ call' \in [Calls -> CallType]
        /\ early' \subseteq Calls
    <3>1. CASE Finish(h)
      BY <1>f, <3>1
    <3>2. CASE \E i \in 1 .. Len(scores) :
                  /\ call' = [call EXCEPT ![h].job = scores[i]]
                  /\ Goto(h, "meta")
                  /\ UNCHANGED early
      <4>1. PICK i \in 1 .. Len(scores) :
                /\ call' = [call EXCEPT ![h].job = scores[i]]
                /\ Goto(h, "meta")
                /\ UNCHANGED early
        BY <3>2
      <4>2. [call[h] EXCEPT !.job = scores[i]] \in CallType
        BY <2>1, CallEdits DEF Types
      <4>3. call' = [call EXCEPT ![h] = [call[h] EXCEPT !.job = scores[i]]]
        BY <4>1
      <4> QED BY <4>1, <4>2, <4>3 DEF Types, PcType
    <3> QED BY <1>2, <3>1, <3>2 DEF LatestJob
  <2> QED BY <1>2, <2>2 DEF LatestJob, Types
<1>3. CASE ResolveJob(h)
  <2> DEFINE l == call[h].job \in cancelled
             w == IF call[h].job \in begun THEN heard[call[h].job] ELSE now
  <2>1. l \in BOOLEAN /\ w \in Nat
    BY DEF Types, CallType
  <2>2. \/ Finish(h)
        \/ /\ pc' \in [Calls -> PcType]
           /\ call' = [call EXCEPT ![h].late = l, ![h].word = w]
           /\ early' = early
    BY <1>3 DEF ResolveJob, Types, PcType
  <2> HIDE DEF l, w
  <2>3. ASSUME call' = [call EXCEPT ![h].late = l, ![h].word = w]
        PROVE  call' \in [Calls -> CallType]
    <3>1. [call[h] EXCEPT !.late = l, !.word = w] \in CallType
      BY <2>1, CallEdits DEF Types
    <3> QED BY <2>3, <3>1 DEF Types
  <2>4. /\ pc' \in [Calls -> PcType] /\ call' \in [Calls -> CallType]
        /\ early' \subseteq Calls
    BY <1>f, <2>2, <2>3 DEF Types
  <2> QED BY <1>3, <2>4 DEF ResolveJob, Types
<1>4. CASE IsCancelled(h)
  <2>1. /\ pc' \in [Calls -> PcType] /\ call' \in [Calls -> CallType]
        /\ early' \subseteq Calls /\ said' \in [Calls -> Answer]
    BY <1>4, <1>f, <1>s DEF IsCancelled, Types, PcType
  <2> QED BY <1>4, <2>1 DEF IsCancelled, Types
<1>5. CASE Cancel(h)
  BY <1>5 DEF Cancel, Types, CallType, PcType
<1>6. CASE IsReady(h)
  <2>1. CASE call[h].cmd = "status" /\ ready[call[h].job] # 0
    BY <1>6, <1>f, <1>s, <2>1 DEF IsReady, Types
  <2>2. CASE ~(call[h].cmd = "status" /\ ready[call[h].job] # 0)
    <3> DEFINE there == ready[call[h].job] # 0
    <3>1. there \in BOOLEAN
      OBVIOUS
    <3>2. call' = [call EXCEPT ![h].ready = there]
      BY <1>6, <2>2 DEF IsReady
    <3> HIDE DEF there
    <3>3. call' \in [Calls -> CallType]
      <4>1. [call[h] EXCEPT !.ready = there] \in CallType
        BY <3>1, CallEdits DEF Types
      <4> QED BY <3>2, <4>1 DEF Types
    <3> QED BY <1>6, <2>2, <3>3 DEF IsReady, Types, PcType
  <2> QED BY <2>1, <2>2
<1>7. CASE StatusProgress(h)
  <2> DEFINE phase == progress[call[h].job].phase
             label == IF phase = "none" THEN "queued" ELSE phase
  <2>1. label \in {"cancelled", "done", "queued", "working"}
    BY DEF Types, CallType, ProgressType
  <2>2. Say(h, label)
    BY <1>7 DEF StatusProgress
  <2> HIDE DEF label
  <2> QED BY <1>7, <1>f, <1>s, <2>1, <2>2 DEF StatusProgress, Types
<1>8. CASE CancelProgress(h)
  BY <1>8, <1>f DEF CancelProgress, Types, PcType
<1>9. CASE Refund(h)
  <2>1. call[h].job \in Jobs
    BY DEF Types, CallType
  <2>2. refunds' \in [Jobs -> Nat]
    BY <1>9, <2>1 DEF Refund, Types
  <2> QED BY <1>9, <1>f, <2>2 DEF Refund, Types
<1>10. CASE CallFails(h)
  BY <1>10, <1>f DEF CallFails, Types
<1> QED BY <1>1, <1>2, <1>3, <1>4, <1>5, <1>6, <1>7, <1>8, <1>9, <1>10
        DEF Handle

LEMMA LeftType ==
    ASSUME Types, NEW until \in Nat
    PROVE  Left(until) \in Nat
  BY DEF Left, Types

LEMMA TypesStep == Types /\ [Next]_vars => Types'
<1> SUFFICES ASSUME Types, [Next]_vars PROVE Types'
  OBVIOUS
<1>1. CASE Tick
  <2> USE DEF askVars, workVars, histVars
  <2>1. now + 1 \in 0 .. MaxTime
    BY <1>1, Bounds DEF Tick, Types
  <2>2. \A until \in Nat : Left(until) \in Nat
    BY LeftType
  <2> DEFINE b(h) == pc[h] # "idle"
  <2>3. \A h \in Calls : b(h) \in BOOLEAN
    OBVIOUS
  <2>4. call' = [h \in Calls |-> [call[h] EXCEPT !.aged = b(h)]]
    BY <1>1 DEF Tick
  <2> HIDE DEF b
  <2>5. call' \in [Calls -> CallType]
    <3>1. \A h \in Calls : [call[h] EXCEPT !.aged = b(h)] \in CallType
      BY <2>3, CallEdits DEF Types
    <3> QED BY <2>4, <3>1
  <2>6. /\ meta' \in [Jobs -> Nat] /\ ready' \in [Jobs -> Nat]
        /\ listUntil' \in [Users -> Nat]
    BY <1>1, <2>2 DEF Tick, Types
  <2>7. progress' \in [Jobs -> ProgressType]
    BY <1>1, ValueTypes DEF Tick, Types
  <2>8. activeJobs' \in [Users -> SUBSET Jobs]
    BY <1>1 DEF Tick, Types
  <2> QED BY <1>1, <2>1, <2>5, <2>6, <2>7, <2>8 DEF Tick, Types
<1>2. CASE UNCHANGED vars
  BY <1>2 DEF vars, askVars, workVars, resultVars, indexVars, callVars,
              histVars, Types
<1> QED BY <1>1, <1>2, AskTypes, WorkTypes, HandleTypes DEF Next

LEMMA TypesAlways == Spec => []Types
<1>1. Init => Types
  BY TypesInitially
<1>2. Types /\ [Next]_vars => Types'
  BY TypesStep
<1> QED BY <1>1, <1>2, PTL DEF Spec
-----------------------------------------------------------------------------
(* What a step leaves alone *)

LEMMA AskFrame ==
    ASSUME Types, NEW t \in Jobs, Ask(t)
    PROVE  /\ UNCHANGED <<cancelled, progress, ready, pc, call, now, begun,
                          heard, early, said>>
           /\ \A s \in Jobs \ {t} :
                  /\ job'[s] = job[s] /\ step'[s] = step[s] /\ work'[s] = work[s]
                  /\ meta'[s] = meta[s]
                  /\ \A u \in Users : s \in activeJobs'[u] => s \in activeJobs[u]
<1> USE DEF workVars, resultVars, indexVars, callVars, histVars
<1>1. CASE Download(t)
  BY <1>1 DEF Download, Types
<1>2. CASE Kiq(t)
  BY <1>2 DEF Kiq, Types
<1>3. CASE KiqFails(t)
  BY <1>3 DEF KiqFails, Types
<1>4. CASE RecordJob(t)
  BY <1>4 DEF RecordJob, Types
<1>5. CASE RecordJobRefused(t) \/ RecordJobFails(t)
  BY <1>5 DEF RecordJobRefused, RecordJobFails, Types
<1> QED BY <1>1, <1>2, <1>3, <1>4, <1>5 DEF Ask

LEMMA WorkFrame ==
    ASSUME Types, NEW t \in Jobs, Work(t)
    PROVE  /\ UNCHANGED <<job, step, cancelled, pc, call, now, early, said>>
           /\ begun \subseteq begun'
           /\ \A s \in Jobs \ {t} :
                  /\ work'[s] = work[s] /\ progress'[s] = progress[s]
                  /\ meta'[s] = meta[s]
                  /\ s \in begun' <=> s \in begun
                  /\ ready'[s] = ready[s] /\ heard'[s] = heard[s]
                  /\ \A u \in Users : s \in activeJobs'[u] <=> s \in activeJobs[u]
           /\ meta'[t] = meta[t] \/ meta'[t] = 0
           /\ \A u \in Users : t \in activeJobs'[u] => t \in activeJobs[u]
<1> USE DEF askVars, workVars, resultVars, indexVars, callVars, histVars, MoveTo
<1>1. CASE Start(t) \/ Progress(t)
  BY <1>1 DEF Start, Progress, SetProgress, Types
<1>2. CASE Deliver(t)
  BY <1>2 DEF Deliver, SetProgress, Types
<1>3. CASE ForgetJob(t)
  <2>1. ListOwner(t) \in Users
    BY DEF ListOwner, Types, JobMeta
  <2> QED BY <1>3, <2>1 DEF ForgetJob, Unlist, Zrem, Types
<1>4. CASE Pickup(t) \/ ForgetJobFails(t) \/ Error(t) \/ Interrupt(t) \/ Crash(t)
           \/ SaveResult(t)
  BY <1>4 DEF Pickup, ForgetJobFails, Error, Interrupt, Crash, SaveResult, Types
<1> QED BY <1>1, <1>2, <1>3, <1>4 DEF Work

LEMMA HandleFrame ==
    ASSUME Types, NEW h \in Calls, Handle(h)
    PROVE  /\ UNCHANGED <<job, step, work, progress, ready, meta, activeJobs,
                          listUntil, now, begun, heard, clipped>>
           /\ cancelled \subseteq cancelled'
           /\ \A g \in Calls \ {h} :
                  /\ pc'[g] = pc[g] /\ call'[g] = call[g] /\ said'[g] = said[g]
                  /\ g \in early' <=> g \in early
<1> USE DEF askVars, workVars, resultVars, indexVars, histVars, Goto, Finish
<1>1. CASE Command(h)
  BY <1>1 DEF Command, Types
<1>2. CASE LatestJob(h) \/ ResolveJob(h)
  BY <1>2 DEF LatestJob, ResolveJob, Types
<1>3. CASE IsCancelled(h) \/ IsReady(h)
  BY <1>3 DEF IsCancelled, IsReady, Say, Types
<1>4. CASE StatusProgress(h)
  BY <1>4 DEF StatusProgress, Say, Types
<1>5. CASE Cancel(h) \/ CancelProgress(h) \/ Refund(h) \/ CallFails(h)
  BY <1>5 DEF Cancel, CancelProgress, Refund, CallFails, Types
<1> QED BY <1>1, <1>2, <1>3, <1>4, <1>5 DEF Handle
-----------------------------------------------------------------------------
(* Stages: how far a job is with its requester, the worker and the index *)

StageInv(t) ==
    /\ step[t] \in {"none", "kiq"} => work[t] = "none" /\ t \notin begun
    /\ step[t] # "over" => meta[t] = 0
    /\ work[t] \in {"running", "forget"} => t \in begun
    /\ \A u \in Users :
           t \in activeJobs[u] => step[t] = "over" /\ job[t].user = u

Stages == \A t \in Jobs : StageInv(t)

\* A handler that has resolved its job.
Resolved(h) ==
    pc[h] \in {"is_cancelled", "cancel", "is_ready", "progress", "refund"}

\* What /status knows of the flag.
FlagInv(h) ==
    /\ pc[h] = "cancel" => call[h].cmd = "cancel"
    /\ Resolved(h) /\ call[h].late => call[h].job \in cancelled
    /\ pc[h] \in {"is_ready", "progress"} /\ call[h].cmd = "status"
           => ~call[h].late
    /\ said[h].late => said[h].label = "cancelled"

Flags == \A h \in Calls : FlagInv(h)

LEMMA StagesInitially == Init => Stages
  BY DEF Init, Stages, StageInv

LEMMA StagesStep == Types /\ Stages /\ [Next]_vars => Stages'
<1> SUFFICES ASSUME Types, Stages, [Next]_vars, NEW s \in Jobs
             PROVE  StageInv(s)'
  BY DEF Stages
<1> USE DEF askVars, workVars, resultVars, indexVars, callVars, histVars
<1>1. StageInv(s)
  BY DEF Stages
<1>2. ASSUME NEW t \in Jobs, Ask(t) PROVE StageInv(s)'
  <2>1. CASE s # t
    BY <1>1, <1>2, <2>1, AskFrame DEF StageInv
  <2>2. CASE s = t
    <3>1. CASE Download(s)
      BY <1>1, <3>1 DEF Download, StageInv, Types
    <3>2. CASE Kiq(s)
      BY <1>1, <3>2 DEF Kiq, StageInv, Types
    <3>3. CASE KiqFails(s)
      BY <1>1, <3>3 DEF KiqFails, StageInv, Types
    <3>4. CASE RecordJob(s)
      <4>1. /\ step[s] = "record" /\ step'[s] = "over" /\ job' = job
            /\ UNCHANGED <<work, begun>>
            /\ activeJobs' = [activeJobs EXCEPT ![job[s].user] = @ \cup {s}]
        BY <3>4 DEF RecordJob, ListOwner, Types
      <4>2. \A u \in Users : s \in activeJobs'[u] => job[s].user = u
        BY <1>1, <4>1 DEF StageInv, Types
      <4> QED BY <1>1, <4>1, <4>2 DEF StageInv
    <3>5. CASE RecordJobRefused(s)
      <4>1. /\ step[s] = "record" /\ step'[s] = "over"
            /\ UNCHANGED <<job, work, begun>>
        BY <3>5 DEF RecordJobRefused, Types
      <4>2. \A u \in Users : s \in activeJobs'[u] => s \in activeJobs[u]
        BY <3>5 DEF RecordJobRefused, Types
      <4> QED BY <1>1, <4>1, <4>2 DEF StageInv
    <3>6. CASE RecordJobFails(s)
      BY <1>1, <3>6 DEF RecordJobFails, StageInv, Types
    <3> QED BY <1>2, <2>2, <3>1, <3>2, <3>3, <3>4, <3>5, <3>6 DEF Ask
  <2> QED BY <2>1, <2>2
<1>3. ASSUME NEW t \in Jobs, Work(t) PROVE StageInv(s)'
  <2>1. CASE s # t
    BY <1>1, <1>3, <2>1, WorkFrame DEF StageInv
  <2>2. CASE s = t
    <3> USE DEF MoveTo
    <3>1. /\ step' = step /\ job' = job
          /\ meta'[s] = meta[s] \/ meta'[s] = 0
          /\ \A u \in Users : s \in activeJobs'[u] => s \in activeJobs[u]
      BY <1>3, <2>2, WorkFrame
    <3>2. step[s] \notin {"none", "kiq"}
      BY <1>1, <1>3, <2>2 DEF StageInv, Work, Pickup, Start, Progress, Deliver,
         ForgetJob, ForgetJobFails, Error, Interrupt, Crash, SaveResult
    <3>3. work'[s] \in {"running", "forget"} => s \in begun'
      <4>1. CASE Start(s) \/ Progress(s)
        BY <1>1, <4>1 DEF Start, Progress, StageInv, Types
      <4>2. CASE Deliver(s)
        BY <1>1, <4>2 DEF Deliver, StageInv, Types
      <4>3. CASE \/ Pickup(s) \/ ForgetJob(s) \/ ForgetJobFails(s) \/ Error(s)
                 \/ Interrupt(s) \/ Crash(s) \/ SaveResult(s)
        BY <1>1, <4>3 DEF Pickup, ForgetJob, ForgetJobFails, Error, Interrupt,
           Crash, SaveResult, StageInv, Types
      <4> QED BY <1>3, <2>2, <4>1, <4>2, <4>3 DEF Work
    <3> QED BY <1>1, <3>1, <3>2, <3>3 DEF StageInv
  <2> QED BY <2>1, <2>2
<1>4. ASSUME NEW h \in Calls, Handle(h) PROVE StageInv(s)'
  BY <1>1, <1>4, HandleFrame DEF StageInv
<1>5. CASE Tick
  <2>1. /\ UNCHANGED <<job, step, work, begun>>
        /\ meta'[s] = Left(meta[s])
    BY <1>5 DEF Tick
  <2>2. \A u \in Users : activeJobs'[u] \subseteq activeJobs[u]
    BY <1>5 DEF Tick, Types
  <2>3. meta[s] = 0 => meta'[s] = 0
    BY <2>1 DEF Left, Types
  <2> QED BY <1>1, <2>1, <2>2, <2>3 DEF StageInv
<1>6. CASE UNCHANGED vars
  BY <1>1, <1>6 DEF vars, StageInv
<1> QED BY <1>2, <1>3, <1>4, <1>5, <1>6 DEF Next

LEMMA StagesAlways == Spec => []Stages
<1>1. Init => Stages
  BY StagesInitially
<1>2. Types /\ Stages /\ [Next]_vars => Stages'
  BY StagesStep
<1> QED BY <1>1, <1>2, TypesAlways, PTL DEF Spec

LEMMA FlagsInitially == Init => Flags
  BY DEF Init, Flags, FlagInv, Resolved, NoAnswer

LEMMA FlagsStep == Types /\ Flags /\ [Next]_vars => Flags'
<1> SUFFICES ASSUME Types, Flags, [Next]_vars, NEW g \in Calls
             PROVE  FlagInv(g)'
  BY DEF Flags
<1> USE DEF askVars, workVars, resultVars, indexVars, callVars, histVars
<1>1. FlagInv(g)
  BY DEF Flags
<1>2. ASSUME NEW t \in Jobs, Ask(t) \/ Work(t) PROVE FlagInv(g)'
  BY <1>1, <1>2, AskFrame, WorkFrame DEF FlagInv, Resolved
<1>3. ASSUME NEW h \in Calls, Handle(h) PROVE FlagInv(g)'
  <2>1. CASE g # h
    BY <1>1, <1>3, <2>1, HandleFrame DEF FlagInv, Resolved
  <2>2. CASE g = h
    <3> USE DEF Goto, FlagInv, Resolved
    <3>f. ASSUME Finish(g) PROVE pc'[g] = "idle"
      BY <3>f DEF Finish, Types
    <3>1. CASE Command(g)
      <4>1. said'[g] = NoAnswer /\ pc'[g] \in {"latest", "meta"}
        BY <3>1 DEF Command, Types
      <4> QED BY <4>1 DEF NoAnswer
    <3>2. CASE LatestJob(g)
      <4>1. said' = said /\ pc'[g] \in {"idle", "meta"}
        BY <3>2, <3>f DEF LatestJob, Types
      <4> QED BY <1>1, <4>1
    <3>3. CASE ResolveJob(g)
      <4>1. CASE Finish(g)
        BY <1>1, <3>3, <3>f, <4>1 DEF ResolveJob
      <4>2. CASE ~Finish(g)
        <5>1. /\ pc'[g] = IF call[g].cmd = "status" THEN "is_cancelled"
                           ELSE "cancel"
              /\ said' = said
              /\ cancelled' = cancelled
              /\ \E w : call' = [call EXCEPT
                     ![g].late = call[g].job \in cancelled, ![g].word = w]
          BY <3>3, <4>2 DEF ResolveJob, Types
        <5>2. /\ call'[g].job = call[g].job /\ call'[g].cmd = call[g].cmd
              /\ call'[g].late => call[g].job \in cancelled
          <6> DEFINE l == call[g].job \in cancelled
          <6>1. PICK w : call' = [call EXCEPT ![g].late = l, ![g].word = w]
            BY <5>1
          <6> HIDE DEF l
          <6>2. call'[g] = [call[g] EXCEPT !.late = l, !.word = w]
            BY <6>1 DEF Types
          <6>3. /\ call'[g].job = call[g].job /\ call'[g].cmd = call[g].cmd
                /\ call'[g].late = l
            BY <6>2 DEF Types, CallType
          <6>4. call'[g].late => l
            BY <6>3
          <6> QED BY <6>3, <6>4 DEF l
        <5>3. call[g].cmd \in {"status", "cancel"}
          BY DEF Types, CallType
        <5> QED BY <1>1, <5>1, <5>2, <5>3
      <4> QED BY <4>1, <4>2
    <3>s. ASSUME NEW label, Say(g, label), Resolved(g), cancelled' = cancelled,
                 call[g].late => label = "cancelled"
          PROVE  FlagInv(g)'
      <4>1. pc'[g] = "idle"
        BY <3>s, <3>f DEF Say
      <4>2. said'[g].late = call[g].late /\ said'[g].label = label
        BY <3>s DEF Say, Types
      <4> QED BY <3>s, <4>1, <4>2
    <3>4. CASE IsCancelled(g)
      <4>1. CASE call[g].job \in cancelled
        BY <3>4, <3>s, <4>1 DEF IsCancelled
      <4>2. CASE call[g].job \notin cancelled
        <5>1. pc'[g] = "is_ready" /\ UNCHANGED <<call, said, cancelled>>
          BY <3>4, <4>2 DEF IsCancelled, Types
        <5> QED BY <1>1, <3>4, <4>2, <5>1 DEF IsCancelled
      <4> QED BY <4>1, <4>2
    <3>5. CASE Cancel(g)
      <4>1. /\ pc[g] = "cancel" /\ pc'[g] = "is_ready"
            /\ UNCHANGED <<call, said>>
            /\ cancelled' = cancelled \cup {call[g].job}
        BY <3>5 DEF Cancel, Types
      <4> QED BY <1>1, <4>1
    <3>6. CASE IsReady(g)
      <4>1. pc[g] = "is_ready" /\ cancelled' = cancelled
        BY <3>6 DEF IsReady
      <4>2. CASE call[g].cmd = "status" /\ ready[call[g].job] # 0
        BY <1>1, <3>6, <3>s, <4>1, <4>2 DEF IsReady
      <4>3. CASE ~(call[g].cmd = "status" /\ ready[call[g].job] # 0)
        <5>1. /\ pc'[g] = "progress" /\ said' = said
              /\ call'[g] = [call[g] EXCEPT !.ready = ready[call[g].job] # 0]
          BY <3>6, <4>3 DEF IsReady, Types
        <5>2. /\ call'[g].cmd = call[g].cmd /\ call'[g].job = call[g].job
              /\ call'[g].late = call[g].late
          BY <5>1 DEF Types, CallType
        <5> QED BY <1>1, <4>1, <5>1, <5>2
      <4> QED BY <4>2, <4>3
    <3>7. CASE StatusProgress(g)
      <4>1. /\ pc[g] = "progress" /\ call[g].cmd = "status" /\ ~call[g].late
            /\ cancelled' = cancelled
        BY <1>1, <3>7 DEF StatusProgress
      <4> QED BY <3>7, <3>s, <4>1 DEF StatusProgress
    <3>8. CASE CancelProgress(g)
      <4>1. pc'[g] \in {"idle", "refund"} /\ pc[g] = "progress"
            /\ UNCHANGED <<cancelled, said>>
            /\ (pc'[g] = "refund" => call' = call)
        BY <3>8, <3>f DEF CancelProgress, Types
      <4> QED BY <1>1, <4>1
    <3>9. CASE Refund(g) \/ CallFails(g)
      <4>1. pc'[g] = "idle" /\ said' = said
        BY <3>9, <3>f DEF Refund, CallFails
      <4> QED BY <1>1, <4>1
    <3> QED BY <1>3, <2>2, <3>1, <3>2, <3>3, <3>4, <3>5, <3>6, <3>7, <3>8, <3>9
            DEF Handle
  <2> QED BY <2>1, <2>2
<1>4. CASE Tick
  <2>1. UNCHANGED <<pc, cancelled, said>>
        /\ call'[g] = [call[g] EXCEPT !.aged = pc[g] # "idle"]
    BY <1>4 DEF Tick
  <2>2. /\ call'[g].cmd = call[g].cmd /\ call'[g].job = call[g].job
        /\ call'[g].late = call[g].late
    BY <2>1 DEF Types, CallType
  <2> QED BY <1>1, <2>1, <2>2 DEF FlagInv, Resolved
<1>5. CASE UNCHANGED vars
  BY <1>1, <1>5 DEF vars, FlagInv, Resolved
<1> QED BY <1>2, <1>3, <1>4, <1>5 DEF Next

LEMMA FlagsAlways == Spec => []Flags
<1>1. Init => Flags
  BY FlagsInitially
<1>2. Types /\ Flags /\ [Next]_vars => Flags'
  BY FlagsStep
<1> QED BY <1>1, <1>2, TypesAlways, PTL DEF Spec
-----------------------------------------------------------------------------
(* What the keys tell: a worker's word is kept for ResultHours *)

\* While the result is not there, the phase is, unless the worker has been
\* silent for as long as its keys live.
KeyInv(t) ==
    /\ progress[t].exp = 0 => progress[t] = NoProgress
    /\ progress[t].exp # 0 => progress[t].phase # "none"
    /\ heard[t] <= now
    /\ t \in begun => \/ heard[t] + ResultHours <= now
                      \/ progress[t].exp >= heard[t] + ResultHours
                      \/ ready[t] >= heard[t] + ResultHours

Keys == \A t \in Jobs : KeyInv(t)

\* The worker's last word for h's job, as of when h resolved it, is too old.
Silent(h) == call[h].word + ResultHours <= now

CallInv(h) ==
    LET t == call[h].job
    IN  /\ pc[h] = "is_cancelled" => call[h].cmd = "status"
        /\ pc[h] = "progress" /\ call[h].cmd = "status" => ~call[h].ready
        /\ Resolved(h) => step[t] = "over"
        /\ call[h].word <= now
        /\ Resolved(h) /\ t \in begun => call[h].word <= heard[t]
        /\ pc[h] = "progress" /\ ~call[h].ready /\ t \in begun =>
               Silent(h) \/ progress[t].exp >= call[h].word + ResultHours
        /\ pc[h] \in {"is_ready", "progress"} /\ call[h].cmd = "cancel"
                /\ t \notin begun => h \in early
        /\ pc[h] = "refund" => job[t].token /\ (h \in early \/ Silent(h))
        /\ said[h].label = "queued" => ~said[h].begun \/ said[h].silent

Commands == \A h \in Calls : CallInv(h)

\* Setting the phase keeps the worker's word for ResultHours from now.
LEMMA ProgressSet ==
    ASSUME Types, NEW t \in Jobs, NEW phase \in {"working", "done"},
           SetProgress(t, phase)
    PROVE  /\ progress'[t].exp = now + ResultHours
           /\ progress'[t].phase # "none"
           /\ heard'[t] = now
  BY DEF SetProgress, Types

\* What a step of the worker does to the keys of its job: it writes the phase,
\* whenever the body begins, or the result, or nothing.
LEMMA WorkKeys ==
    ASSUME Types, NEW t \in Jobs, Work(t)
    PROVE  \/ /\ progress'[t].exp = now + ResultHours
              /\ progress'[t].phase # "none"
              /\ heard'[t] = now
           \/ /\ progress'[t] = progress[t] /\ (t \in begun' => t \in begun)
              /\ heard'[t] = now /\ ready'[t] = now + ResultHours
           \/ /\ progress'[t] = progress[t] /\ (t \in begun' => t \in begun)
              /\ heard'[t] = heard[t] /\ ready'[t] = ready[t]
<1> USE DEF workVars, resultVars, histVars
<1>1. CASE Start(t) \/ Progress(t) \/ Deliver(t)
  BY <1>1, ProgressSet DEF Start, Progress, Deliver
<1>2. CASE \/ Pickup(t) \/ ForgetJob(t) \/ ForgetJobFails(t) \/ Error(t)
           \/ Interrupt(t) \/ Crash(t)
  BY <1>2 DEF Pickup, ForgetJob, ForgetJobFails, Error, Interrupt, Crash
<1>3. CASE SaveResult(t)
  BY <1>3 DEF SaveResult, Types
<1> QED BY <1>1, <1>2, <1>3 DEF Work

LEMMA KeysInitially == Init => Keys
<1> SUFFICES ASSUME Init, NEW t \in Jobs PROVE KeyInv(t)
  BY DEF Keys
<1>1. NoProgress.exp = 0
  BY DEF NoProgress
<1>2. progress[t] = NoProgress /\ heard[t] = 0 /\ now = 0 /\ t \notin begun
  BY DEF Init
<1> QED BY <1>1, <1>2 DEF KeyInv

LEMMA KeysStep == Types /\ Keys /\ [Next]_vars => Keys'
<1> SUFFICES ASSUME Types, Keys, [Next]_vars, NEW s \in Jobs
             PROVE  KeyInv(s)'
  BY DEF Keys
<1> USE DEF askVars, workVars, resultVars, indexVars, callVars, histVars
<1>1. KeyInv(s)
  BY DEF Keys
<1>t. /\ now \in Nat /\ progress[s].exp \in Nat /\ heard[s] \in Nat
      /\ ready[s] \in Nat /\ ResultHours \in Nat /\ ResultHours >= 1
  BY Bounds DEF Types, ProgressType
<1>2. ASSUME NEW t \in Jobs, Ask(t) PROVE KeyInv(s)'
  BY <1>1, <1>2, AskFrame DEF KeyInv
<1>3. ASSUME NEW t \in Jobs, Work(t) PROVE KeyInv(s)'
  <2>1. CASE s # t
    BY <1>1, <1>3, <2>1, WorkFrame DEF KeyInv
  <2>2. CASE s = t
    <3>1. now' = now
      BY <1>3, WorkFrame
    <3>2. CASE /\ progress'[s].exp = now + ResultHours
               /\ progress'[s].phase # "none" /\ heard'[s] = now
      BY <1>t, <3>1, <3>2 DEF KeyInv
    <3>3. CASE /\ progress'[s] = progress[s] /\ (s \in begun' => s \in begun)
               /\ heard'[s] = now /\ ready'[s] = now + ResultHours
      BY <1>1, <1>t, <3>1, <3>3 DEF KeyInv
    <3>4. CASE /\ progress'[s] = progress[s] /\ (s \in begun' => s \in begun)
               /\ heard'[s] = heard[s] /\ ready'[s] = ready[s]
      BY <1>1, <3>1, <3>4 DEF KeyInv
    <3> QED BY <1>3, <2>2, <3>2, <3>3, <3>4, WorkKeys
  <2> QED BY <2>1, <2>2
<1>4. ASSUME NEW h \in Calls, Handle(h) PROVE KeyInv(s)'
  BY <1>1, <1>4, HandleFrame DEF KeyInv
<1>5. CASE Tick
  <2>1. /\ now' = now + 1 /\ UNCHANGED <<begun, heard>>
        /\ ready'[s] = IF ready[s] > now + 1 THEN ready[s] ELSE 0
    BY <1>5 DEF Tick, Left
  <2>2. progress'[s] = IF progress[s].exp > now + 1 THEN progress[s]
                       ELSE NoProgress
    BY <1>5, <1>t DEF Tick, Left
  <2>3. NoProgress.exp = 0
    BY DEF NoProgress
  <2>4. /\ progress'[s].exp = 0 => progress'[s] = NoProgress
        /\ progress'[s].exp # 0 => progress'[s].phase # "none"
    BY <1>1, <2>2, <2>3 DEF KeyInv
  <2>5. heard[s] <= now + 1
    BY <1>1, <1>t DEF KeyInv
  <2>6. ASSUME s \in begun, ~(heard[s] + ResultHours <= now + 1)
        PROVE  \/ progress'[s].exp >= heard[s] + ResultHours
               \/ ready'[s] >= heard[s] + ResultHours
    BY <1>1, <1>t, <2>1, <2>2, <2>6 DEF KeyInv
  <2> QED BY <2>1, <2>4, <2>5, <2>6 DEF KeyInv
<1>6. CASE UNCHANGED vars
  BY <1>1, <1>6 DEF vars, KeyInv
<1> QED BY <1>2, <1>3, <1>4, <1>5, <1>6 DEF Next

LEMMA KeysAlways == Spec => []Keys
<1>1. Init => Keys
  BY KeysInitially
<1>2. Types /\ Keys /\ [Next]_vars => Keys'
  BY KeysStep
<1> QED BY <1>1, <1>2, TypesAlways, PTL DEF Spec

LEMMA CommandsInitially == Init => Commands
<1> SUFFICES ASSUME Init, NEW h \in Calls PROVE CallInv(h)
  BY DEF Commands
<1>1. /\ pc[h] = "idle" /\ call[h].word = 0 /\ now = 0
      /\ said[h].label = "none"
  BY DEF Init, NoCall, NoAnswer
<1> QED BY <1>1 DEF CallInv, Resolved

LEMMA CommandsStep ==
    Types /\ Stages /\ Keys /\ Commands /\ [Next]_vars => Commands'
<1> SUFFICES ASSUME Types, Stages, Keys, Commands, [Next]_vars, NEW g \in Calls
             PROVE  CallInv(g)'
  BY DEF Commands
<1> USE DEF askVars, workVars, resultVars, indexVars, callVars, histVars
<1>1. CallInv(g)
  BY DEF Commands
<1> DEFINE t == call[g].job
           w == call[g].word
<1>t. /\ t \in Jobs /\ w \in Nat /\ now \in Nat /\ progress[t].exp \in Nat
      /\ heard[t] \in Nat /\ ready[t] \in Nat
      /\ ResultHours \in Nat /\ ResultHours >= 1
      /\ call[g].cmd \in {"status", "cancel"}
  BY Bounds DEF Types, ProgressType, CallType
<1>k. KeyInv(t) /\ StageInv(t)
  BY <1>t DEF Keys, Stages
<1> HIDE DEF t, w
<1>2. ASSUME NEW s \in Jobs, Ask(s) PROVE CallInv(g)'
  <2>1. step[s] # "over"
    BY <1>2 DEF Ask, Download, Kiq, KiqFails, RecordJob, RecordJobRefused,
                RecordJobFails
  <2>2. UNCHANGED <<progress, now, begun, heard, pc, call, early, said>>
    BY <1>2, AskFrame
  <2>3. Resolved(g) => job'[t] = job[t] /\ step'[t] = step[t]
    BY <1>1, <1>2, <1>t, <2>1, AskFrame DEF CallInv, t
  <2> QED BY <1>1, <2>2, <2>3 DEF CallInv, Resolved, Silent, t
<1>3. ASSUME NEW s \in Jobs, Work(s) PROVE CallInv(g)'
  <2>1. UNCHANGED <<job, step, pc, call, now, early, said>>
        /\ begun \subseteq begun'
    BY <1>3, WorkFrame
  <2>2. \/ heard'[t] = now /\ progress'[t].exp = now + ResultHours
        \/ /\ heard'[t] \in {heard[t], now} /\ progress'[t] = progress[t]
           /\ t \in begun' => t \in begun
    BY <1>3, <1>t, WorkFrame, WorkKeys
  <2>3. w <= now /\ (Resolved(g) /\ t \in begun => w <= heard[t])
    BY <1>1 DEF CallInv, t, w
  <2>4. Resolved(g) /\ t \in begun' => w <= heard'[t]
    BY <1>t, <2>2, <2>3
  <2>5. ASSUME pc[g] = "progress", ~call[g].ready, t \in begun'
        PROVE  Silent(g) \/ progress'[t].exp >= w + ResultHours
    <3>1. CASE progress'[t] = progress[t] /\ t \in begun
      BY <1>1, <2>5, <3>1 DEF CallInv, t, w
    <3>2. CASE progress'[t].exp = now + ResultHours
      BY <1>t, <2>3, <3>2
    <3> QED BY <2>2, <2>5, <3>1, <3>2
  <2> QED BY <1>1, <2>1, <2>4, <2>5 DEF CallInv, Resolved, Silent, t, w
<1>4. ASSUME NEW h \in Calls, Handle(h) PROVE CallInv(g)'
  <2>1. UNCHANGED <<job, step, progress, now, begun, heard>>
    BY <1>4, HandleFrame
  <2>2. CASE g # h
    BY <1>1, <1>4, <2>1, <2>2, HandleFrame DEF CallInv, Resolved, Silent
  <2>3. CASE g = h
    <3> USE DEF Goto
    <3>q. /\ said[g].label = "queued" => ~said[g].begun \/ said[g].silent
          /\ w <= now
      BY <1>1 DEF CallInv, w
    <3>i. ASSUME pc'[g] \in {"idle", "latest", "meta"}, call'[g].word <= now,
                 said'[g].label = "queued" => ~said'[g].begun \/ said'[g].silent
          PROVE  CallInv(g)'
      BY <2>1, <3>i DEF CallInv, Resolved
    <3>f. ASSUME Finish(g) PROVE pc'[g] = "idle" /\ call'[g].word <= now
      <4>1. pc'[g] = "idle" /\ call'[g] = NoCall
        BY <3>f DEF Finish, Types
      <4>2. NoCall.word = 0
        BY DEF NoCall
      <4> QED BY <1>t, <4>1, <4>2
    <3>s. ASSUME NEW label, Say(g, label),
                 label = "queued" => t \notin begun \/ Silent(g)
          PROVE  CallInv(g)'
      <4>1. pc'[g] = "idle" /\ call'[g].word <= now
        BY <3>s, <3>f DEF Say
      <4>2. /\ said'[g].label = label /\ said'[g].begun = (t \in begun)
            /\ said'[g].silent = Silent(g)
        BY <3>s DEF Say, Types, Silent, t
      <4>3. said'[g].label = "queued" => ~said'[g].begun \/ said'[g].silent
        BY <3>s, <4>2
      <4> QED BY <3>i, <4>1, <4>3
    <3>1. CASE Command(g)
      <4>1. pc'[g] \in {"latest", "meta"} /\ said'[g] = NoAnswer
        BY <3>1 DEF Command, Types
      <4>2. said'[g].label # "queued"
        BY <4>1 DEF NoAnswer
      <4>3. call'[g].word = w
        BY <3>1 DEF Command, Types, CallType, w
      <4> QED BY <3>i, <3>q, <4>1, <4>2, <4>3
    <3>2. CASE LatestJob(g)
      <4>1. CASE Finish(g)
        BY <3>2, <3>f, <3>i, <3>q, <4>1 DEF LatestJob
      <4>2. CASE ~Finish(g)
        <5>1. /\ pc'[g] = "meta" /\ said' = said
              /\ \E s : call' = [call EXCEPT ![g].job = s]
          BY <3>2, <4>2 DEF LatestJob, Types
        <5>2. call'[g].word = w
          BY <5>1 DEF Types, CallType, w
        <5> QED BY <3>i, <3>q, <5>1, <5>2
      <4> QED BY <4>1, <4>2
    <3>3. CASE ResolveJob(g)
      <4>1. CASE Finish(g)
        BY <3>3, <3>f, <3>i, <3>q, <4>1 DEF ResolveJob
      <4>2. CASE ~Finish(g)
        <5> DEFINE v == IF t \in begun THEN heard[t] ELSE now
        <5>1. /\ meta[t] # 0 /\ said' = said /\ early' = early
              /\ pc'[g] = IF call[g].cmd = "status" THEN "is_cancelled"
                           ELSE "cancel"
              /\ \E l : call' = [call EXCEPT ![g].late = l, ![g].word = v]
          BY <3>3, <4>2 DEF ResolveJob, Types, t
        <5>2. v <= now /\ (t \in begun => v <= heard[t])
          BY <1>k, <1>t DEF KeyInv
        <5> HIDE DEF v
        <5>3. /\ call'[g].job = t /\ call'[g].cmd = call[g].cmd
              /\ call'[g].word = v
          BY <5>1 DEF Types, CallType, t
        <5>4. step[t] = "over"
          BY <1>k, <5>1 DEF StageInv
        <5> QED BY <1>t, <2>1, <3>q, <5>1, <5>2, <5>3, <5>4
                DEF CallInv, Resolved
      <4> QED BY <4>1, <4>2
    <3>4. CASE IsCancelled(g)
      <4>1. CASE t \in cancelled
        BY <3>4, <3>s, <4>1 DEF IsCancelled, t
      <4>2. CASE t \notin cancelled
        <5>1. pc[g] = "is_cancelled" /\ pc'[g] = "is_ready"
              /\ UNCHANGED <<call, early, said>>
          BY <3>4, <4>2 DEF IsCancelled, Types, t
        <5> QED BY <1>1, <2>1, <5>1 DEF CallInv, Resolved
      <4> QED BY <4>1, <4>2
    <3>5. CASE Cancel(g)
      <4>1. /\ pc[g] = "cancel" /\ pc'[g] = "is_ready"
            /\ UNCHANGED <<call, said>>
            /\ early' = IF t \in begun THEN early ELSE early \cup {g}
        BY <3>5 DEF Cancel, Types, t
      <4> QED BY <1>1, <2>1, <4>1 DEF CallInv, Resolved, t
    <3>6. CASE IsReady(g)
      <4>1. CASE call[g].cmd = "status" /\ ready[t] # 0
        BY <3>6, <3>s, <4>1 DEF IsReady, t
      <4>2. CASE ~(call[g].cmd = "status" /\ ready[t] # 0)
        <5> DEFINE there == ready[t] # 0
        <5>1. /\ pc[g] = "is_ready" /\ pc'[g] = "progress"
              /\ UNCHANGED <<early, said>>
              /\ call' = [call EXCEPT ![g].ready = there]
          BY <3>6, <4>2 DEF IsReady, Types, t
        <5>2. there \in BOOLEAN /\ (call[g].cmd = "status" => ~there)
          BY <4>2
        <5>3. ~there /\ t \in begun =>
                  Silent(g) \/ progress[t].exp >= w + ResultHours
          <6>1. t \in begun => w <= heard[t]
            BY <1>1, <5>1 DEF CallInv, Resolved, t, w
          <6> QED BY <1>k, <1>t, <6>1 DEF KeyInv, Silent, w
        <5> HIDE DEF there
        <5>4. /\ call'[g].cmd = call[g].cmd /\ call'[g].job = t
              /\ call'[g].word = w /\ call'[g].ready = there
          BY <5>1 DEF Types, CallType, t, w
        <5>5. Silent(g)' = Silent(g)
          BY <2>1, <5>4 DEF Silent, w
        <5> QED BY <1>1, <2>1, <5>1, <5>2, <5>3, <5>4, <5>5
                DEF CallInv, Resolved, t, w
      <4> QED BY <4>1, <4>2
    <3>p. ASSUME pc[g] = "progress", ~call[g].ready, progress[t].exp = 0
          PROVE  t \notin begun \/ Silent(g)
      <4>1. t \in begun => Silent(g) \/ progress[t].exp >= w + ResultHours
        BY <1>1, <3>p DEF CallInv, t, w
      <4> QED BY <1>t, <3>p, <4>1
    <3>7. CASE StatusProgress(g)
      <4> DEFINE phase == progress[t].phase
                 label == IF phase = "none" THEN "queued" ELSE phase
      <4>1. Say(g, label) /\ pc[g] = "progress" /\ ~call[g].ready
        BY <1>1, <3>7 DEF StatusProgress, CallInv, t
      <4>2. phase \in {"none", "working", "done"}
        BY <1>t DEF Types, ProgressType
      <4>3. phase = "none" => progress[t].exp = 0
        BY <1>k DEF KeyInv
      <4>4. label = "queued" => t \notin begun \/ Silent(g)
        BY <3>p, <4>1, <4>2, <4>3
      <4> HIDE DEF label
      <4> QED BY <3>s, <4>1, <4>4
    <3>8. CASE CancelProgress(g)
      <4>1. CASE Finish(g) /\ said' = said
        BY <3>f, <3>i, <3>q, <4>1
      <4>2. CASE /\ RefundEligible(g) /\ pc' = [pc EXCEPT ![g] = "refund"]
                 /\ UNCHANGED <<call, early, said>>
        <5>1. pc[g] = "progress" /\ pc'[g] = "refund" /\ call[g].cmd = "cancel"
          BY <3>8, <4>2 DEF CancelProgress, Types
        <5>2. job[t].token /\ progress[t].exp = 0 /\ ~call[g].ready
          BY <4>2 DEF RefundEligible, NoProgress, t
        <5>3. t \notin begun \/ Silent(g)
          BY <3>p, <5>1, <5>2
        <5>4. t \notin begun => g \in early
          BY <1>1, <5>1 DEF CallInv, t
        <5>5. Silent(g)' = Silent(g)
          BY <2>1, <4>2 DEF Silent
        <5> QED BY <1>1, <2>1, <4>2, <5>1, <5>2, <5>3, <5>4, <5>5
                DEF CallInv, Resolved, t
      <4> QED BY <3>8, <4>1, <4>2 DEF CancelProgress
    <3>9. CASE Refund(g) \/ CallFails(g)
      <4>1. Finish(g) /\ said' = said
        BY <3>9 DEF Refund, CallFails
      <4> QED BY <3>f, <3>i, <3>q, <4>1
    <3> QED BY <1>4, <2>3, <3>1, <3>2, <3>3, <3>4, <3>5, <3>6, <3>7, <3>8, <3>9
            DEF Handle
  <2> QED BY <2>2, <2>3
<1>5. CASE Tick
  <2>1. /\ UNCHANGED <<job, step, begun, heard, pc, early, said>>
        /\ now' = now + 1
        /\ call'[g] = [call[g] EXCEPT !.aged = pc[g] # "idle"]
        /\ progress'[t] = IF progress[t].exp > now + 1 THEN progress[t]
                          ELSE NoProgress
    BY <1>5, <1>t DEF Tick, Left
  <2>2. /\ call'[g].cmd = call[g].cmd /\ call'[g].job = t
        /\ call'[g].word = w /\ call'[g].ready = call[g].ready
    BY <2>1 DEF Types, CallType, t, w
  <2>3. w <= now + 1 /\ (Silent(g) => w + ResultHours <= now + 1)
    BY <1>1, <1>t DEF CallInv, Silent, w
  <2>4. ASSUME pc[g] = "progress", ~call[g].ready, t \in begun
        PROVE  \/ w + ResultHours <= now + 1
               \/ progress'[t].exp >= w + ResultHours
    <3>1. Silent(g) \/ progress[t].exp >= w + ResultHours
      BY <1>1, <2>4 DEF CallInv, t, w
    <3> QED BY <1>t, <2>1, <2>3, <3>1
  <2>5. Silent(g)' <=> w + ResultHours <= now + 1
    BY <2>1, <2>2 DEF Silent
  <2> QED BY <1>1, <2>1, <2>2, <2>3, <2>4, <2>5 DEF CallInv, Resolved, t, w
<1>6. CASE UNCHANGED vars
  BY <1>1, <1>6 DEF vars, CallInv, Resolved, Silent
<1> QED BY <1>2, <1>3, <1>4, <1>5, <1>6 DEF Next

LEMMA CommandsAlways == Spec => []Commands
<1>1. Init => Commands
  BY CommandsInitially
<1>2. Types /\ Stages /\ Keys /\ Commands /\ [Next]_vars => Commands'
  BY CommandsStep
<1> QED BY <1>1, <1>2, TypesAlways, StagesAlways, KeysAlways, PTL DEF Spec
-----------------------------------------------------------------------------
(* Keys that live at least as long as the entry of the index *)

EntryHours == {r \in Retentions \cup {DefaultRetention} : r > 0}

NotShorter == \A r \in EntryHours : r <= ResultHours

\* Every command is answered within the hour in which it was sent.
Prompt == \A h \in Calls : ~call[h].aged

\* A job that has begun had a word from its worker no longer ago than its
\* index entry goes back.
MetaInv(t) ==
    /\ meta[t] # 0 => meta[t] > now /\ meta[t] <= now + ResultHours
    /\ t \in begun /\ step[t] = "record" => heard[t] = now
    /\ t \in begun /\ meta[t] # 0 => meta[t] <= heard[t] + ResultHours

Metas == \A t \in Jobs : MetaInv(t)

WordInv(h) ==
    /\ Resolved(h) => ~Silent(h)
    /\ ~said[h].silent

Words == \A h \in Calls : WordInv(h)

LEMMA MetasInitially == Init => Metas
  BY DEF Init, Metas, MetaInv

LEMMA MetasStep ==
    ASSUME NotShorter
    PROVE  Types /\ Stages /\ Keys /\ Metas /\ [Next]_vars => Metas'
<1> SUFFICES ASSUME Types, Stages, Keys, Metas, [Next]_vars, NEW s \in Jobs
             PROVE  MetaInv(s)'
  BY DEF Metas
<1> USE DEF askVars, workVars, resultVars, indexVars, callVars, histVars
<1>1. MetaInv(s) /\ StageInv(s) /\ KeyInv(s)
  BY DEF Metas, Stages, Keys
<1>t. /\ now \in Nat /\ meta[s] \in Nat /\ heard[s] \in Nat
      /\ ResultHours \in Nat
  BY Bounds DEF Types
<1>2. ASSUME NEW t \in Jobs, Ask(t) PROVE MetaInv(s)'
  <2>1. UNCHANGED <<now, begun, heard>>
    BY <1>2, AskFrame
  <2>2. CASE s # t
    BY <1>1, <1>2, <2>1, <2>2, AskFrame DEF MetaInv
  <2>3. CASE s = t /\ (Download(s) \/ Kiq(s) \/ KiqFails(s))
    <3>1. meta' = meta /\ meta[s] = 0 /\ s \notin begun
      BY <1>1, <2>3 DEF Download, Kiq, KiqFails, StageInv
    <3> QED BY <1>1, <2>1, <3>1 DEF MetaInv
  <2>4. CASE s = t /\ RecordJob(s)
    <3>1. PICK ttl \in EntryHours :
              /\ meta'[s] = now + ttl
              /\ step[s] = "record" /\ step'[s] = "over"
      <4>1. Hours(job[s].guild) \subseteq Retentions \cup {DefaultRetention}
        BY DEF Hours
      <4>2. PICK ttl \in Hours(job[s].guild) :
                ttl > 0 /\ meta' = [meta EXCEPT ![s] = now + ttl]
        BY <2>4 DEF RecordJob
      <4>3. ttl \in EntryHours
        BY <4>1, <4>2 DEF EntryHours
      <4>4. step[s] = "record" /\ step'[s] = "over"
        BY <2>4 DEF RecordJob, Types
      <4> QED BY <4>2, <4>3, <4>4 DEF Types
    <3> DEFINE m == now + ttl
    <3>2. ttl \in Nat /\ ttl <= ResultHours /\ ttl > 0
      BY Bounds DEF EntryHours, NotShorter
    <3>3. m > now /\ m <= now + ResultHours
      BY <1>t, <3>2
    <3>4. s \in begun => m <= heard[s] + ResultHours
      <4>1. s \in begun => heard[s] = now
        BY <1>1, <3>1 DEF MetaInv
      <4> QED BY <3>3, <4>1
    <3>5. meta'[s] = m
      BY <3>1
    <3> HIDE DEF m
    <3> QED BY <2>1, <3>1, <3>3, <3>4, <3>5 DEF MetaInv
  <2>5. CASE s = t /\ (RecordJobRefused(s) \/ RecordJobFails(s))
    <3>1. meta' = meta /\ meta[s] = 0 /\ step'[s] = "over"
      BY <1>1, <2>5 DEF RecordJobRefused, RecordJobFails, StageInv, Types
    <3> QED BY <2>1, <3>1 DEF MetaInv
  <2> QED BY <1>2, <2>2, <2>3, <2>4, <2>5 DEF Ask
<1>3. ASSUME NEW t \in Jobs, Work(t) PROVE MetaInv(s)'
  <2>1. CASE s # t
    BY <1>1, <1>3, <2>1, WorkFrame DEF MetaInv
  <2>2. CASE s = t
    <3>1. /\ now' = now /\ step' = step
          /\ meta'[s] = meta[s] \/ meta'[s] = 0
      BY <1>3, <2>2, WorkFrame
    <3>2. \/ heard'[s] = now
          \/ heard'[s] = heard[s] /\ (s \in begun' => s \in begun)
      BY <1>3, <2>2, WorkKeys
    <3> QED BY <1>1, <1>t, <3>1, <3>2 DEF MetaInv
  <2> QED BY <2>1, <2>2
<1>4. ASSUME NEW h \in Calls, Handle(h) PROVE MetaInv(s)'
  BY <1>1, <1>4, HandleFrame DEF MetaInv
<1>5. CASE Tick
  <2>1. /\ now' = now + 1 /\ UNCHANGED <<step, begun, heard>>
        /\ step[s] # "record"
        /\ meta'[s] = IF meta[s] > now + 1 THEN meta[s] ELSE 0
    BY <1>5 DEF Tick, Left
  <2>2. meta'[s] # 0 =>
            /\ meta'[s] = meta[s] /\ meta[s] > now + 1
            /\ meta[s] <= now + 1 + ResultHours
            /\ s \in begun => meta[s] <= heard[s] + ResultHours
    BY <1>1, <1>t, <2>1 DEF MetaInv
  <2> QED BY <2>1, <2>2 DEF MetaInv
<1>6. CASE UNCHANGED vars
  BY <1>1, <1>6 DEF vars, MetaInv
<1> QED BY <1>2, <1>3, <1>4, <1>5, <1>6 DEF Next

LEMMA MetasAlways ==
    ASSUME NotShorter
    PROVE  Spec => []Metas
<1>1. Init => Metas
  BY MetasInitially
<1>2. Types /\ Stages /\ Keys /\ Metas /\ [Next]_vars => Metas'
  BY MetasStep
<1> QED BY <1>1, <1>2, TypesAlways, StagesAlways, KeysAlways, PTL DEF Spec

LEMMA WordsInitially == Init => Words
  BY DEF Init, Words, WordInv, Resolved, NoAnswer

LEMMA WordsStep ==
    Types /\ Metas /\ Words /\ [Next]_vars /\ Prompt' => Words'
<1> SUFFICES ASSUME Types, Metas, Words, [Next]_vars, Prompt', NEW g \in Calls
             PROVE  WordInv(g)'
  BY DEF Words
<1> USE DEF askVars, workVars, resultVars, indexVars, callVars, histVars
<1>1. WordInv(g)
  BY DEF Words
<1>2. ASSUME NEW t \in Jobs, Ask(t) \/ Work(t) PROVE WordInv(g)'
  BY <1>1, <1>2, AskFrame, WorkFrame DEF WordInv, Resolved, Silent
<1>3. ASSUME NEW h \in Calls, Handle(h) PROVE WordInv(g)'
  <2>1. now' = now
    BY <1>3, HandleFrame
  <2>2. CASE g # h
    BY <1>1, <1>3, <2>1, <2>2, HandleFrame DEF WordInv, Resolved, Silent
  <2>3. CASE g = h
    <3> USE DEF Goto
    <3>i. ASSUME pc'[g] \in {"idle", "latest", "meta"}, ~said'[g].silent
          PROVE  WordInv(g)'
      BY <3>i DEF WordInv, Resolved
    <3>f. ASSUME Finish(g) PROVE pc'[g] = "idle"
      BY <3>f DEF Finish, Types
    <3>g. ASSUME Resolved(g), call'[g].word = call[g].word, said' = said
          PROVE  WordInv(g)'
      BY <1>1, <2>1, <3>g DEF WordInv, Silent
    <3>s. ASSUME NEW label, Say(g, label), Resolved(g)
          PROVE  WordInv(g)'
      <4>1. pc'[g] = "idle"
        BY <3>s, <3>f DEF Say
      <4>2. said'[g].silent = Silent(g)
        BY <3>s DEF Say, Types, Silent
      <4> QED BY <1>1, <3>i, <3>s, <4>1, <4>2 DEF WordInv
    <3>q. ~said[g].silent
      BY <1>1 DEF WordInv
    <3>1. CASE Command(g)
      <4>1. pc'[g] \in {"latest", "meta"} /\ said'[g] = NoAnswer
        BY <3>1 DEF Command, Types
      <4> QED BY <3>i, <4>1 DEF NoAnswer
    <3>2. CASE LatestJob(g)
      <4>1. pc'[g] \in {"idle", "meta"} /\ said' = said
        BY <3>2, <3>f DEF LatestJob, Types
      <4> QED BY <3>i, <3>q, <4>1
    <3>3. CASE ResolveJob(g)
      <4>1. CASE Finish(g)
        BY <3>3, <3>f, <3>i, <3>q, <4>1 DEF ResolveJob
      <4>2. CASE ~Finish(g)
        <5> DEFINE t == call[g].job
                   v == IF t \in begun THEN heard[t] ELSE now
        <5>1. /\ meta[t] # 0 /\ said' = said
              /\ \E l : call' = [call EXCEPT ![g].late = l, ![g].word = v]
          BY <3>3, <4>2 DEF ResolveJob, Types
        <5>2. t \in Jobs /\ MetaInv(t)
          BY DEF Types, CallType, Metas
        <5>3. /\ now \in Nat /\ meta[t] \in Nat /\ heard[t] \in Nat
              /\ ResultHours \in Nat /\ ResultHours >= 1
          BY <5>2, Bounds DEF Types
        <5>4. ~(v + ResultHours <= now)
          BY <5>1, <5>2, <5>3 DEF MetaInv
        <5> HIDE DEF v
        <5>5. call'[g].word = v
          BY <5>1 DEF Types, CallType
        <5> QED BY <2>1, <3>q, <5>1, <5>4, <5>5 DEF WordInv, Silent
      <4> QED BY <4>1, <4>2
    <3>4. CASE IsCancelled(g)
      <4>1. Resolved(g)
        BY <3>4 DEF IsCancelled, Resolved
      <4> QED BY <3>4, <3>g, <3>s, <4>1 DEF IsCancelled
    <3>5. CASE Cancel(g)
      <4>1. Resolved(g) /\ UNCHANGED <<call, said>>
        BY <3>5 DEF Cancel, Resolved
      <4> QED BY <3>g, <4>1
    <3>6. CASE IsReady(g)
      <4>1. Resolved(g)
        BY <3>6 DEF IsReady, Resolved
      <4>2. CASE Say(g, "done")
        BY <3>s, <4>1, <4>2
      <4>3. CASE /\ \E r : call' = [call EXCEPT ![g].ready = r]
                 /\ said' = said
        <5>1. call'[g].word = call[g].word
          BY <4>3 DEF Types, CallType
        <5> QED BY <3>g, <4>1, <4>3, <5>1
      <4> QED BY <3>6, <4>2, <4>3 DEF IsReady
    <3>7. CASE StatusProgress(g)
      <4>1. Resolved(g)
        BY <3>7 DEF StatusProgress, Resolved
      <4> QED BY <3>7, <3>s, <4>1 DEF StatusProgress
    <3>8. CASE CancelProgress(g)
      <4>1. Resolved(g)
        BY <3>8 DEF CancelProgress, Resolved
      <4> QED BY <3>8, <3>f, <3>g, <3>i, <3>q, <4>1 DEF CancelProgress
    <3>9. CASE Refund(g) \/ CallFails(g)
      <4>1. Finish(g) /\ said' = said
        BY <3>9 DEF Refund, CallFails
      <4> QED BY <3>f, <3>i, <3>q, <4>1
    <3> QED BY <1>3, <2>3, <3>1, <3>2, <3>3, <3>4, <3>5, <3>6, <3>7, <3>8, <3>9
            DEF Handle
  <2> QED BY <2>2, <2>3
<1>4. CASE Tick
  <2>1. /\ UNCHANGED <<pc, said>>
        /\ call'[g] = [call[g] EXCEPT !.aged = pc[g] # "idle"]
    BY <1>4 DEF Tick
  <2>2. call'[g].aged = (pc[g] # "idle")
    BY <2>1 DEF Types, CallType
  <2>3. pc[g] = "idle"
    BY <2>2 DEF Prompt
  <2> QED BY <1>1, <2>1, <2>3 DEF WordInv, Resolved
<1>5. CASE UNCHANGED vars
  BY <1>1, <1>5 DEF vars, WordInv, Resolved, Silent
<1> QED BY <1>2, <1>3, <1>4, <1>5 DEF Next

LEMMA WordsAlways ==
    ASSUME NotShorter
    PROVE  Spec /\ []Prompt => []Words
<1>1. Init => Words
  BY WordsInitially
<1>2. Types /\ Metas /\ Words /\ [Next]_vars /\ Prompt' => Words'
  BY WordsStep
<1>3. Spec => []Metas
  BY MetasAlways
<1> QED BY <1>1, <1>2, <1>3, TypesAlways, PTL DEF Spec
-----------------------------------------------------------------------------
(* The ZSET outlives the entries of its members, but for the clipped *)

ListInv(t) ==
    meta[t] # 0 /\ t \notin clipped =>
        /\ meta[t] <= listUntil[job[t].user]
        /\ t \in activeJobs[job[t].user]

Lists == \A t \in Jobs : ListInv(t)

LEMMA ListsInitially == Init => Lists
  BY DEF Init, Lists, ListInv

LEMMA ListsStep == Types /\ Stages /\ Lists /\ [Next]_vars => Lists'
<1> SUFFICES ASSUME Types, Stages, Lists, [Next]_vars, NEW s \in Jobs
             PROVE  ListInv(s)'
  BY DEF Lists
<1> USE DEF askVars, workVars, resultVars, indexVars, callVars, histVars
<1>1. ListInv(s) /\ StageInv(s)
  BY DEF Lists, Stages
<1>t. /\ now \in Nat /\ meta[s] \in Nat /\ job[s].user \in Users
      /\ listUntil[job[s].user] \in Nat
  BY DEF Types, JobMeta
<1>2. ASSUME NEW t \in Jobs, RecordJob(t) PROVE ListInv(s)'
  <2> DEFINE u == job[t].user
  <2>1. PICK ttl \in Hours(job[t].guild) :
            /\ ttl > 0
            /\ meta' = [meta EXCEPT ![t] = now + ttl]
            /\ activeJobs' = [activeJobs EXCEPT ![u] = @ \cup {t}]
            /\ listUntil' = [listUntil EXCEPT ![u] = now + ttl]
            /\ Clip(u, t, now + ttl)
    BY <1>2 DEF RecordJob, ListOwner, ListExpiry
  <2> DEFINE x == now + ttl
  <2>2. now' = now /\ job' = job
    BY <1>2 DEF RecordJob
  <2>3. u \in Users /\ job[t].guild \in Places
    BY DEF Types, JobMeta
  <2>4. x \in Nat /\ x <= x
    BY <2>1, <2>3, RecordedExpiry
  <2>5. /\ meta' = [meta EXCEPT ![t] = x]
        /\ activeJobs' = [activeJobs EXCEPT ![u] = @ \cup {t}]
        /\ listUntil' = [listUntil EXCEPT ![u] = x]
        /\ Clip(u, t, x)
    BY <2>1
  <2> HIDE DEF x
  <2>6. CASE s = t
    <3>1. meta'[s] = x /\ listUntil'[u] = x /\ s \in activeJobs'[u]
      BY <2>3, <2>5, <2>6 DEF Types
    <3> QED BY <2>2, <2>4, <2>6, <3>1 DEF ListInv
  <2>7. CASE s # t /\ job[s].user = u
    <3>1. /\ meta'[s] = meta[s] /\ listUntil'[u] = x
          /\ activeJobs'[u] = activeJobs[u] \cup {t}
      BY <2>3, <2>5, <2>7 DEF Types
    <3>2. s \notin clipped' =>
              /\ s \in activeJobs[u] => ~(meta[s] > x)
              /\ s \in clipped => s \in activeJobs[u]
      BY <2>5, <2>7 DEF Clip
    <3> HIDE DEF u
    <3>3. meta[s] # 0 /\ s \notin clipped' => s \in activeJobs[u]
      BY <1>1, <2>7, <3>2 DEF ListInv
    <3> QED BY <1>t, <2>2, <2>4, <2>7, <3>1, <3>2, <3>3 DEF ListInv
  <2>8. CASE s # t /\ job[s].user # u
    <3>1. /\ meta'[s] = meta[s]
          /\ listUntil'[job[s].user] = listUntil[job[s].user]
          /\ activeJobs'[job[s].user] = activeJobs[job[s].user]
      BY <1>t, <2>3, <2>5, <2>8 DEF Types
    <3>2. s \in clipped => s \in clipped'
      BY <1>1, <2>3, <2>5, <2>8 DEF Clip, StageInv
    <3> QED BY <1>1, <2>2, <3>1, <3>2 DEF ListInv
  <2> QED BY <2>6, <2>7, <2>8
<1>3. ASSUME NEW t \in Jobs, RecordJobRefused(t) PROVE ListInv(s)'
  <2> DEFINE u == job[t].user
  <2>1. /\ UNCHANGED <<job, meta>>
        /\ activeJobs' = [activeJobs EXCEPT ![u] = {}]
        /\ listUntil' = [listUntil EXCEPT ![u] = 0]
        /\ Clip(u, t, 0)
        /\ step[t] = "record"
    BY <1>3 DEF RecordJobRefused, ListOwner
  <2>2. u \in Users
    BY DEF Types, JobMeta
  <2>3. CASE s = t
    BY <1>1, <2>1, <2>3 DEF ListInv, StageInv
  <2>4. CASE s # t /\ job[s].user = u
    <3>1. s \notin clipped' => /\ s \in activeJobs[u] => ~(meta[s] > 0)
                               /\ s \in clipped => s \in activeJobs[u]
      BY <2>1, <2>4 DEF Clip
    <3>2. meta[s] # 0 => s \in clipped'
      BY <1>1, <1>t, <2>4, <3>1 DEF ListInv
    <3> QED BY <2>1, <3>2 DEF ListInv
  <2>5. CASE s # t /\ job[s].user # u
    <3>1. /\ listUntil'[job[s].user] = listUntil[job[s].user]
          /\ activeJobs'[job[s].user] = activeJobs[job[s].user]
      BY <1>t, <2>1, <2>2, <2>5 DEF Types
    <3>2. s \in clipped => s \in clipped'
      BY <1>1, <2>1, <2>2, <2>5 DEF Clip, StageInv
    <3> QED BY <1>1, <2>1, <3>1, <3>2 DEF ListInv
  <2> QED BY <2>3, <2>4, <2>5
<1>4. ASSUME NEW t \in Jobs, Ask(t), ~RecordJob(t), ~RecordJobRefused(t)
      PROVE  ListInv(s)'
  <2>1. UNCHANGED <<meta, activeJobs, listUntil, clipped>>
    BY <1>4 DEF Ask, Download, Kiq, KiqFails, RecordJobFails
  <2>2. meta[s] # 0 => job'[s] = job[s]
    <3>1. CASE s # t
      BY <1>4, <3>1, AskFrame
    <3>2. CASE s = t
      BY <1>1, <1>4, <3>2 DEF Ask, Download, Kiq, KiqFails, RecordJobFails,
         StageInv
    <3> QED BY <3>1, <3>2
  <2> QED BY <1>1, <2>1, <2>2 DEF ListInv
<1>5. ASSUME NEW t \in Jobs, ForgetJob(t) PROVE ListInv(s)'
  <2> DEFINE u == job[t].user
  <2>1. /\ meta' = [meta EXCEPT ![t] = 0]
        /\ activeJobs' = [activeJobs EXCEPT ![u] = @ \ {t}]
        /\ listUntil' = [listUntil EXCEPT ![u] =
                             IF activeJobs[u] \subseteq {t} THEN 0 ELSE @]
        /\ job' = job /\ clipped' = clipped
    BY <1>5 DEF ForgetJob, Unlist, Zrem, ListOwner
  <2> HIDE DEF u
  <2>2. CASE s = t
    BY <2>1, <2>2 DEF ListInv, Types
  <2>3. CASE s # t
    <3>1. meta'[s] = meta[s]
      BY <2>1, <2>3 DEF Types
    <3>2. s \in activeJobs[job[s].user] =>
              /\ s \in activeJobs'[job[s].user]
              /\ listUntil'[job[s].user] = listUntil[job[s].user]
      BY <1>t, <2>1, <2>3 DEF Types
    <3> QED BY <1>1, <2>1, <3>1, <3>2 DEF ListInv
  <2> QED BY <2>2, <2>3
<1>6. ASSUME NEW t \in Jobs, Work(t), ~ForgetJob(t) PROVE ListInv(s)'
  <2>1. UNCHANGED <<job, meta, activeJobs, listUntil, clipped>>
    BY <1>6 DEF Work, Pickup, Start, Progress, Deliver, ForgetJobFails, Error,
                Interrupt, Crash, SaveResult
  <2> QED BY <1>1, <2>1 DEF ListInv
<1>7. ASSUME NEW h \in Calls, Handle(h) PROVE ListInv(s)'
  BY <1>1, <1>7, HandleFrame DEF ListInv
<1>8. CASE Tick
  <2> DEFINE u == job[s].user
             l == listUntil[u]
  <2>1. /\ job' = job /\ clipped' = clipped
        /\ meta'[s] = IF meta[s] > now + 1 THEN meta[s] ELSE 0
        /\ listUntil'[u] = IF l > now + 1 THEN l ELSE 0
        /\ l > now + 1 => activeJobs'[u] = activeJobs[u]
    BY <1>8, <1>t DEF Tick, Left
  <2>2. meta[s] > now + 1 /\ s \notin clipped =>
            meta[s] <= l /\ l > now + 1 /\ s \in activeJobs[u]
    BY <1>1, <1>t DEF ListInv
  <2> HIDE DEF l
  <2> QED BY <2>1, <2>2 DEF ListInv
<1>9. CASE UNCHANGED vars
  BY <1>1, <1>9 DEF vars, ListInv
<1> QED BY <1>2, <1>3, <1>4, <1>5, <1>6, <1>7, <1>8, <1>9 DEF Next
-----------------------------------------------------------------------------
(* The theorems *)

\* Every variable keeps its type, and a ZSET lists none but its user's jobs.
THEOREM ControlInRange == Spec => []TypeOK
<1>1. Types /\ Stages => TypeOK
  BY DEF Types, Stages, StageInv, ProgressType, PcType, CallType, TypeOK
<1> QED BY <1>1, TypesAlways, StagesAlways, PTL

\* A /status that resolved a flagged job says "cancelled", whatever the worker
\* stores while it asks: the flag is read first, and never taken back.
THEOREM FlagOutranksResult == Spec => []CancelledOutranks
<1>1. Flags => CancelledOutranks
  BY DEF Flags, FlagInv, CancelledOutranks
<1> QED BY <1>1, FlagsAlways, PTL

\* Whatever the retentions, a refund goes only to a job that cost a token and
\* had not begun when its /cancel set the flag, or whose worker had been silent
\* until its keys expired, however reads, worker and expiries interleave.
THEOREM RefundsAreDue == Spec => []RefundDue
<1>1. Commands => RefundDue
  BY DEF Commands, CallInv, Silent, RefundDue
<1> QED BY <1>1, CommandsAlways, PTL

\* Whatever the retentions, /status says "queued" of a job whose body has run
\* only after its worker's silence has outlived its keys.
THEOREM QueuedIsUnstarted == Spec => []QueuedMeansUnstarted
<1>1. Commands => QueuedMeansUnstarted
  BY DEF Commands, CallInv, QueuedMeansUnstarted
<1> QED BY <1>1, CommandsAlways, PTL

\* With keys that live at least as long as the entries, which is what the
\* defaults say (24 hours each), a command answered before the next key expires
\* gives no token back for a job that had begun when it set the flag.
THEOREM PromptRefundsAreDue ==
    ASSUME NotShorter
    PROVE  Spec /\ []Prompt =>
               [](\A h \in Calls : pc[h] = "refund" =>
                      job[call[h].job].token /\ h \in early)
<1>1. Commands /\ Words =>
          (\A h \in Calls : pc[h] = "refund" =>
               job[call[h].job].token /\ h \in early)
  BY DEF Commands, CallInv, Words, WordInv, Resolved
<1>2. Spec /\ []Prompt => []Words
  BY WordsAlways
<1> QED BY <1>1, <1>2, CommandsAlways, PTL

\* Under the same two conditions absence of progress is as unambiguous as the
\* comment in cogs/jobs.py says: "queued" is said only of a job that never ran.
THEOREM PromptAbsenceIsUnambiguous ==
    ASSUME NotShorter
    PROVE  Spec /\ []Prompt => []AbsenceIsUnambiguous
<1>1. Commands /\ Words => AbsenceIsUnambiguous
  BY DEF Commands, CallInv, Words, WordInv, AbsenceIsUnambiguous
<1>2. Spec /\ []Prompt => []Words
  BY WordsAlways
<1> QED BY <1>1, <1>2, CommandsAlways, PTL

\* Whatever the retentions, a job whose meta is there is in its requester's
\* ZSET, unless a later record_job gave that ZSET an earlier end: no expiry of
\* the shared key, no forget_job of another job and no Tick takes it out.
THEOREM EntriesAreListed == Spec => []MetaMeansListed
<1>1. Init => Lists
  BY ListsInitially
<1>2. Types /\ Stages /\ Lists /\ [Next]_vars => Lists'
  BY ListsStep
<1>3. Lists => MetaMeansListed
  BY DEF Lists, ListInv, MetaMeansListed
<1> QED BY <1>1, <1>2, <1>3, TypesAlways, StagesAlways, PTL DEF Spec
=============================================================================
