------------------------ MODULE GuildSettingsProofs ------------------------
(***************************************************************************)
(* Theorems about GuildSettings, for any number of /setup handlers, jobs   *)
(* and settings: an upsert never bounces off the table's CHECKs, /setup    *)
(* clear keeps what it must keep, and the two readers of a job agree on    *)
(* its retention while the row stands still.                               *)
(***************************************************************************)
EXTENDS GuildSettings, TLAPS

\* What either reader of a job has noted is the row's retention still, unless
\* the row was changed since. IndexMatchesLink compares the two notes with each
\* other; only this says why they agree, since each is compared with the row.
NotesAreCurrent ==
    \A t \in Jobs \ moved :
        /\ indexed[t] # 0 => indexed[t] = Get.hours
        /\ plan[t] # NoPlan /\ t \notin DmMe => plan[t].hours = Get.hours

\* What a clear in flight has read is the row still, unless another handler
\* wrote to it in between.
ReadsAreCurrent ==
    \A h \in Setups \ overtaken : pc[h] = "upsert" => existing[h] = Get

Inv ==
    /\ TypeOK
    /\ NeverBounces
    /\ NotesAreCurrent
    /\ ReadsAreCurrent
-----------------------------------------------------------------------------
(* Rows *)

\* The defaults are a row, and NoRow is not.
LEMMA DefaultsAreARow ==
    Defaults \in Rows /\ SatisfiesChecks(Defaults) /\ NoRow \notin Rows
BY SettingsAssumption DEF Defaults, Rows, NoRow, SatisfiesChecks, Modes

\* GuildSettingsRepo.get always returns a row that the CHECKs accept.
LEMMA GetIsARow ==
    ASSUME TypeOK
    PROVE  Get \in Rows /\ SatisfiesChecks(Get)
BY DefaultsAreARow DEF TypeOK, Get

\* /setup set writes only rows that the CHECKs accept: its own validation is
\* as strict as the table.
LEMMA AcceptedSatisfiesChecks ==
    ASSUME NEW mode, NEW channel \in Channels \cup {None},
           NEW hours \in Retentions, Accepts(mode, channel)
    PROVE  LET r == [mode |-> mode, channel |-> channel, media |-> Kinds,
                     hours |-> hours]
           IN  r \in Rows /\ SatisfiesChecks(r)
BY SettingsAssumption DEF Accepts, Rows, SatisfiesChecks

\* So does /setup clear, whatever row it has read.
LEMMA ClearedSatisfiesChecks ==
    ASSUME NEW r \in Rows
    PROVE  /\ Cleared(r) \in Rows
           /\ SatisfiesChecks(Cleared(r))
           /\ Cleared(r).hours = r.hours
           /\ Cleared(r).media = r.media
BY DEF Cleared, Rows, SatisfiesChecks, Modes

\* The upsert of a row that the CHECKs accept: what the job readers noted is
\* current afterwards, or marked as moved, and so is what clears have read.
LEMMA UpsertKeepsNotes ==
    ASSUME Inv, NEW h \in Setups, NEW r \in Rows, SatisfiesChecks(r),
           Upsert(h, r), UNCHANGED <<indexed, plan>>
    PROVE  /\ row' = r
           /\ UNCHANGED bounced
           /\ overtaken' \subseteq Setups
           /\ \A g \in Setups \ {h} : pc[g] = "upsert" => g \in overtaken'
           /\ moved' \subseteq Jobs
           /\ NotesAreCurrent'
<1>1. /\ row' = r
      /\ UNCHANGED bounced
      /\ overtaken' = (overtaken \cup {g \in Setups : pc[g] = "upsert"}) \ {h}
      /\ moved' = IF r = row THEN moved
                  ELSE moved \cup {t \in Jobs : indexed[t] # 0 \/ plan[t] # NoPlan}
  BY DEF Upsert
<1>2. overtaken' \subseteq Setups /\ moved' \subseteq Jobs
  BY <1>1 DEF Inv, TypeOK
<1>3. \A g \in Setups \ {h} : pc[g] = "upsert" => g \in overtaken'
  BY <1>1
<1>4. NotesAreCurrent'
  <2>1. CASE r = row
    BY <1>1, <2>1 DEF Inv, NotesAreCurrent, Get
  <2>2. CASE r # row
    BY <1>1, <2>2 DEF NotesAreCurrent
  <2> QED BY <2>1, <2>2
<1> QED BY <1>1, <1>2, <1>3, <1>4
-----------------------------------------------------------------------------
(* The steps *)

LEMMA InitInv == Init => Inv
<1> SUFFICES ASSUME Init PROVE Inv
  OBVIOUS
<1>1. row = NoRow \/ (row \in Rows /\ SatisfiesChecks(row))
  BY SettingsAssumption DEF Init, Rows, SatisfiesChecks, Defaults, Modes
<1>2. NoPlan \in [route : {"none", "dm"} \cup Channels, hours : Nat,
                  kinds : SUBSET Kinds]
  BY DEF NoPlan
<1>3. TypeOK
  <2>1. setups \in 0 .. MaxSetups
    BY SettingsAssumption DEF Init
  <2>2. pc \in [Setups -> {"idle", "upsert"}] /\ indexed \in [Jobs -> Nat]
    BY DEF Init
  <2>3. existing \in [Setups -> Rows]
    BY DefaultsAreARow DEF Init
  <2>4. plan \in [Jobs -> [route : {"none", "dm"} \cup Channels, hours : Nat,
                          kinds : SUBSET Kinds]]
    BY <1>2 DEF Init
  <2> QED BY <1>1, <2>1, <2>2, <2>3, <2>4 DEF TypeOK, Init
<1> QED BY <1>3 DEF Inv, Init, NeverBounces, NotesAreCurrent, ReadsAreCurrent

LEMMA SetupSetInv ==
    ASSUME Inv, NEW h \in Setups, SetupSet(h)
    PROVE  Inv'
<1>1. PICK mode \in Modes \cup {"other"}, channel \in Channels \cup {None},
           hours \in Retentions :
           /\ Accepts(mode, channel)
           /\ Upsert(h, [mode |-> mode, channel |-> channel, media |-> Kinds,
                         hours |-> hours])
  BY DEF SetupSet
<1> DEFINE r == [mode |-> mode, channel |-> channel, media |-> Kinds,
                 hours |-> hours]
<1>2. r \in Rows /\ SatisfiesChecks(r)
  BY <1>1, AcceptedSatisfiesChecks
<1>3. /\ setups' = setups + 1 /\ setups < MaxSetups /\ pc[h] = "idle"
      /\ UNCHANGED <<pc, existing, indexed, plan>>
  BY DEF SetupSet
<1>4. Upsert(h, r)
  BY <1>1
<1> HIDE DEF r
<1>5. /\ row' = r
      /\ UNCHANGED bounced
      /\ overtaken' \subseteq Setups
      /\ \A g \in Setups \ {h} : pc[g] = "upsert" => g \in overtaken'
      /\ moved' \subseteq Jobs
      /\ NotesAreCurrent'
  BY <1>2, <1>3, <1>4, UpsertKeepsNotes
<1>6. setups' \in 0 .. MaxSetups
  BY <1>3, SettingsAssumption DEF Inv, TypeOK
<1>7. TypeOK'
  BY <1>2, <1>3, <1>5, <1>6 DEF Inv, TypeOK
<1>8. ReadsAreCurrent'
  BY <1>3, <1>5 DEF ReadsAreCurrent
<1> QED BY <1>5, <1>7, <1>8 DEF Inv, NeverBounces

LEMMA SetupClearInv ==
    ASSUME Inv, NEW h \in Setups, SetupClear(h)
    PROVE  Inv'
<1>1. /\ setups < MaxSetups /\ setups' = setups + 1
      /\ existing' = [existing EXCEPT ![h] = Get]
      /\ pc' = [pc EXCEPT ![h] = "upsert"]
      /\ UNCHANGED <<row, indexed, plan, bounced, overtaken, moved>>
  BY DEF SetupClear, histVars
<1>2. Get \in Rows /\ Get' = Get
  BY <1>1, GetIsARow DEF Inv, Get
<1>3. setups' \in 0 .. MaxSetups
  BY <1>1, SettingsAssumption DEF Inv, TypeOK
<1>4. TypeOK'
  BY <1>1, <1>2, <1>3 DEF Inv, TypeOK
<1>5. ReadsAreCurrent'
  BY <1>1, <1>2 DEF Inv, TypeOK, ReadsAreCurrent
<1>6. NotesAreCurrent'
  BY <1>1, <1>2 DEF Inv, NotesAreCurrent
<1> QED BY <1>1, <1>4, <1>5, <1>6 DEF Inv, NeverBounces

LEMMA ClearUpsertInv ==
    ASSUME Inv, NEW h \in Setups, ClearUpsert(h)
    PROVE  Inv'
<1> DEFINE r == Cleared(existing[h])
<1>1. /\ Upsert(h, r)
      /\ existing' = [existing EXCEPT ![h] = Defaults]
      /\ pc' = [pc EXCEPT ![h] = "idle"]
      /\ UNCHANGED <<setups, indexed, plan>>
  BY DEF ClearUpsert
<1>2. r \in Rows /\ SatisfiesChecks(r)
  BY ClearedSatisfiesChecks DEF Inv, TypeOK
<1> HIDE DEF r
<1>3. /\ row' = r
      /\ UNCHANGED bounced
      /\ overtaken' \subseteq Setups
      /\ \A g \in Setups \ {h} : pc[g] = "upsert" => g \in overtaken'
      /\ moved' \subseteq Jobs
      /\ NotesAreCurrent'
  BY <1>1, <1>2, UpsertKeepsNotes
<1>4. TypeOK'
  BY <1>1, <1>2, <1>3, DefaultsAreARow DEF Inv, TypeOK
<1>5. ReadsAreCurrent'
  BY <1>1, <1>3 DEF Inv, TypeOK, ReadsAreCurrent
<1> QED BY <1>3, <1>4, <1>5 DEF Inv, NeverBounces

LEMMA IndexInv ==
    ASSUME Inv, NEW t \in Jobs, Index(t)
    PROVE  Inv'
<1>1. /\ indexed' = [indexed EXCEPT ![t] = Get.hours]
      /\ UNCHANGED <<row, pc, existing, setups, plan, bounced, overtaken, moved>>
  BY DEF Index, IndexHours, histVars
<1>2. Get.hours \in Nat /\ Get' = Get
  BY <1>1, GetIsARow DEF Inv, Get, Rows
<1>3. TypeOK'
  BY <1>1, <1>2 DEF Inv, TypeOK
<1>4. NotesAreCurrent'
  BY <1>1, <1>2 DEF Inv, TypeOK, NotesAreCurrent
<1>5. ReadsAreCurrent'
  BY <1>1, <1>2 DEF Inv, ReadsAreCurrent
<1> QED BY <1>1, <1>3, <1>4, <1>5 DEF Inv, NeverBounces

LEMMA PlanInv ==
    ASSUME Inv, NEW t \in Jobs, Plan(t)
    PROVE  Inv'
<1> DEFINE s == Effective(t)
           route == Route(t, s)
<1>1. s \in Rows /\ (t \notin DmMe => s.hours = Get.hours)
  BY DefaultsAreARow, GetIsARow DEF Inv, Effective
<1>2. PICK asked \in {Kinds} \cup {{k} : k \in Kinds} :
          plan' = [plan EXCEPT ![t] = [route |-> route, hours |-> s.hours,
                                       kinds |-> Allowed(asked, s)]]
  BY DEF Plan
<1>3. UNCHANGED <<row, pc, existing, setups, indexed, bounced, overtaken, moved>>
  BY DEF Plan, histVars
<1>4. route \in {"none", "dm"} \cup Channels /\ s.hours \in Nat
      /\ Allowed(asked, s) \in SUBSET Kinds
  BY <1>1 DEF Rows, Route, Allowed
<1> HIDE DEF s, route
<1>5. TypeOK'
  BY <1>2, <1>3, <1>4 DEF Inv, TypeOK
<1>6. Get' = Get
  BY <1>3 DEF Get
<1>7. NotesAreCurrent'
  BY <1>1, <1>2, <1>3, <1>6 DEF Inv, TypeOK, NotesAreCurrent
<1>8. ReadsAreCurrent'
  BY <1>3, <1>6 DEF Inv, ReadsAreCurrent
<1> QED BY <1>3, <1>5, <1>7, <1>8 DEF Inv, NeverBounces

LEMMA StepInv == Inv /\ [Next]_vars => Inv'
<1> SUFFICES ASSUME Inv, [Next]_vars PROVE Inv'
  OBVIOUS
<1>1. CASE \E h \in Setups : SetupSet(h) \/ SetupClear(h) \/ ClearUpsert(h)
  BY <1>1, SetupSetInv, SetupClearInv, ClearUpsertInv
<1>2. CASE \E t \in Jobs : Index(t) \/ Plan(t)
  BY <1>2, IndexInv, PlanInv
<1>3. CASE UNCHANGED vars
  BY <1>3 DEF vars, histVars, Inv, TypeOK, NeverBounces, NotesAreCurrent,
              ReadsAreCurrent, Get
<1> QED BY <1>1, <1>2, <1>3 DEF Next

LEMMA Invariance == Spec => []Inv
BY InitInv, StepInv, PTL DEF Spec
-----------------------------------------------------------------------------
(* The theorems *)

\* Every row written is a row the table accepts, and the variables of /setup
\* and of the two readers keep their types.
THEOREM TypeCorrect == Spec => []TypeOK
BY Invariance, PTL DEF Inv

\* No /setup gets past the validation of setup.py and then bounces off a CHECK
\* of the table, however many handlers interleave.
THEOREM UpsertsNeverBounce == Spec => []NeverBounces
BY Invariance, PTL DEF Inv

\* The hours of the index entry are those of the archive link, for every job
\* that is not a dm_me one and whose guild left the row alone in between.
THEOREM IndexAgreesWithLink == Spec => []IndexMatchesLink
<1>1. Inv => IndexMatchesLink
  BY DEF Inv, NotesAreCurrent, IndexMatchesLink
<1> QED BY <1>1, Invariance, PTL

\* /setup clear keeps retention and media kinds of a row that no other handler
\* wrote between its read and its write.
THEOREM ClearIsNoWipe == Spec => ClearPreserves
<1>1. Inv /\ [Next]_vars => [ClearKeeps]_vars
  <2> SUFFICES ASSUME Inv, Next, NEW h \in Setups \ overtaken,
                      pc[h] = "upsert", pc'[h] = "idle"
               PROVE  row'.hours = Get.hours /\ row'.media = Get.media
    BY DEF ClearKeeps
  <2>1. ClearUpsert(h)
    <3>1. \A g \in Setups : ~SetupSet(g) /\ ~SetupClear(g)
      BY DEF SetupSet, SetupClear, Inv, TypeOK
    <3>2. \A t \in Jobs : ~Index(t) /\ ~Plan(t)
      BY DEF Index, Plan
    <3>3. \A g \in Setups : ClearUpsert(g) => g = h
      BY DEF ClearUpsert, Inv, TypeOK
    <3> QED BY <3>1, <3>2, <3>3 DEF Next
  <2>2. existing[h] = Get /\ existing[h] \in Rows
    BY DEF Inv, ReadsAreCurrent, TypeOK
  <2>3. row' = Cleared(existing[h])
    BY <2>1, <2>2, ClearedSatisfiesChecks DEF ClearUpsert, Upsert
  <2> QED BY <2>2, <2>3, ClearedSatisfiesChecks
<1> QED BY <1>1, Invariance, PTL DEF Spec, ClearPreserves
=============================================================================
