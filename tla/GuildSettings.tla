--------------------------- MODULE GuildSettings ---------------------------
(***************************************************************************)
(* One guild's row of guild_settings: /setup set and /setup clear, which   *)
(* write it, and the two readers of a job, the /download handler (for the  *)
(* lifetime of the index entry) and the worker (for everything else).      *)
(*                                                                         *)
(* Operators named ...Bug are plausible mistakes in the definition that    *)
(* follows them; no specification uses them (see README, "Mutants").       *)
(***************************************************************************)
EXTENDS Naturals

CONSTANTS
    Setups,        \* /setup handlers that may be in flight
    Jobs,          \* jobs requested in the guild
    DmMe,          \* those with dm_me=True
    Channels,      \* results channels
    None,
    Kinds,         \* media categories
    Retentions,    \* retention_hours values owners type
    DefaultHours,  \* GuildSettings.retention_hours default
    MaxSetups      \* bound on /setup commands

ASSUME SettingsAssumption ==
    /\ DmMe \subseteq Jobs
    /\ None \notin Channels
    /\ Retentions \subseteq Nat
    /\ DefaultHours \in Nat
    /\ MaxSetups \in Nat

VARIABLES
    row,        \* the guild's row, or NoRow
    pc,         \* pc[h]: next await of /setup handler h
    existing,   \* existing[h]: what a /setup clear has read
    setups,     \* /setup commands so far
    indexed,    \* indexed[t]: hours the /download handler gave the index entry
    plan        \* plan[t]: route, hours and media kinds the worker decided on

\* What the properties remember of the past; no action reads these.
VARIABLES
    bounced,    \* whether an upsert ever violated a CHECK of the table
    overtaken,  \* clears that read before another handler's write
    moved       \* jobs whose guild changed the row once one reader had read it

histVars == <<bounced, overtaken, moved>>
vars == <<row, pc, existing, setups, indexed, plan, histVars>>
-----------------------------------------------------------------------------
(* Rows *)

Modes == {"dm", "channel"}
Rows == [mode : Modes, channel : Channels \cup {None}, media : SUBSET Kinds,
         hours : Nat]

\* GuildSettings(guild_id): allowed_media_types None allows every kind.
Defaults == [mode |-> "dm", channel |-> None, media |-> Kinds,
             hours |-> DefaultHours]

NoRow == [Defaults EXCEPT !.mode = "none"]
NoPlan == [route |-> "none", hours |-> 0, kinds |-> {}]

\* No special case for a missing row.
GetBug == row

\* GuildSettingsRepo.get: the row, or the defaults.
Get == IF row = NoRow THEN Defaults ELSE row

\* CHECK guild_settings_channel_requires_id (and the one on the mode).
SatisfiesChecks(r) ==
    r.mode \in Modes /\ (r.mode = "channel" => r.channel # None)

TypeOK ==
    /\ row = NoRow \/ (row \in Rows /\ SatisfiesChecks(row))
    /\ pc \in [Setups -> {"idle", "upsert"}]
    /\ existing \in [Setups -> Rows]
    /\ setups \in 0 .. MaxSetups
    /\ indexed \in [Jobs -> Nat]
    /\ plan \in [Jobs -> [route : {"none", "dm"} \cup Channels, hours : Nat,
                          kinds : SUBSET Kinds]]
    /\ bounced \in BOOLEAN
    /\ overtaken \subseteq Setups
    /\ moved \subseteq Jobs

\* allowed_media_types has no command yet: a row that restricts it was
\* written by hand.
Init ==
    /\ row \in {NoRow} \cup {[Defaults EXCEPT !.media = K] : K \in SUBSET Kinds}
    /\ pc = [h \in Setups |-> "idle"]
    /\ existing = [h \in Setups |-> Defaults]
    /\ setups = 0
    /\ indexed = [t \in Jobs |-> 0]
    /\ plan = [t \in Jobs |-> NoPlan]
    /\ bounced = FALSE
    /\ overtaken = {}
    /\ moved = {}
-----------------------------------------------------------------------------
(* /setup *)

\* GuildSettingsRepo.upsert by handler h: one statement writes every column.
Upsert(h, r) ==
    /\ IF SatisfiesChecks(r)
       THEN /\ row' = r
            /\ overtaken' = (overtaken \cup {g \in Setups : pc[g] = "upsert"})
                            \ {h}
            /\ moved' = IF r = row THEN moved
                        ELSE moved \cup {t \in Jobs :
                                indexed[t] # 0 \/ plan[t] # NoPlan}
            /\ UNCHANGED bounced
       ELSE bounced' = TRUE /\ UNCHANGED <<row, overtaken, moved>>

\* Only the mode is looked at.
AcceptsBug(mode, channel) == mode \in Modes

\* setup_set's own validation.
Accepts(mode, channel) ==
    mode \in Modes /\ ~(mode = "channel" /\ channel = None)

\* /setup set: a refused one only answers.
SetupSet(h) ==
    /\ pc[h] = "idle"
    /\ setups < MaxSetups
    /\ setups' = setups + 1
    /\ \E mode \in Modes \cup {"other"}, channel \in Channels \cup {None},
          hours \in Retentions :
           /\ Accepts(mode, channel)
           /\ Upsert(h, [mode |-> mode, channel |-> channel, media |-> Kinds,
                         hours |-> hours])
    /\ UNCHANGED <<pc, existing, indexed, plan>>

\* /setup clear reads the row ...
SetupClear(h) ==
    /\ pc[h] = "idle"
    /\ setups < MaxSetups
    /\ setups' = setups + 1
    /\ existing' = [existing EXCEPT ![h] = Get]
    /\ pc' = [pc EXCEPT ![h] = "upsert"]
    /\ UNCHANGED <<row, indexed, plan, histVars>>

\* A fresh GuildSettings in place of the one read.
ClearedBug(r) == Defaults

\* replace(existing, delivery_mode="dm", results_channel_id=None)
Cleared(r) == [r EXCEPT !.mode = "dm", !.channel = None]

\* ... and writes it back, mode and channel reset.
ClearUpsert(h) ==
    /\ pc[h] = "upsert"
    /\ Upsert(h, Cleared(existing[h]))
    /\ existing' = [existing EXCEPT ![h] = Defaults]
    /\ pc' = [pc EXCEPT ![h] = "idle"]
    /\ UNCHANGED <<setups, indexed, plan>>
-----------------------------------------------------------------------------
(* A job *)

\* The default for everybody.
IndexHoursBug == DefaultHours

\* The /download handler: GuildSettingsRepo.get, even for dm_me.
IndexHours == Get.hours

Index(t) ==
    /\ indexed[t] = 0
    /\ IndexHours > 0  \* or record_job raises
    /\ indexed' = [indexed EXCEPT ![t] = IndexHours]
    /\ UNCHANGED <<row, pc, existing, setups, plan, histVars>>

\* The worker's view of the settings: dm_me does not look at the guild.
Effective(t) == IF t \in DmMe THEN Defaults ELSE Get

\* effective_delivery_mode, and the branch of the delivery it selects.
Route(t, s) ==
    IF t \notin DmMe /\ s.mode = "channel" /\ s.channel # None
    THEN s.channel ELSE "dm"

\* filters.resolve: the kinds asked for that the guild allows.
Allowed(asked, s) == asked \cap s.media

\* The task reads the settings once and settles route, retention and matcher,
\* for one category or for all of them.
Plan(t) ==
    /\ plan[t] = NoPlan
    /\ \E asked \in {Kinds} \cup {{k} : k \in Kinds} :
           plan' = [plan EXCEPT ![t] =
                       [route |-> Route(t, Effective(t)),
                        hours |-> Effective(t).hours,
                        kinds |-> Allowed(asked, Effective(t))]]
    /\ UNCHANGED <<row, pc, existing, setups, indexed, histVars>>

Next ==
    \/ \E h \in Setups : SetupSet(h) \/ SetupClear(h) \/ ClearUpsert(h)
    \/ \E t \in Jobs : Index(t) \/ Plan(t)

Spec == Init /\ [][Next]_vars
-----------------------------------------------------------------------------
(* Properties *)

\* "Reject early so the user sees a precise error rather than a DB
\* IntegrityError": no /setup gets past the validation and then bounces off a
\* CHECK of the table, clears of a concurrently changed row included.
NeverBounces == ~bounced

\* "This isn't a backdoor wipe": /setup clear leaves retention and media kinds
\* of the row as they are, if no other write fell between its read and its own.
ClearKeeps ==
    \A h \in Setups \ overtaken :
        pc[h] = "upsert" /\ pc'[h] = "idle"
            => row'.hours = Get.hours /\ row'.media = Get.media

ClearPreserves == [][ClearKeeps]_vars

\* The index entry gets the retention its archive link gets, unless the owner
\* changed the settings in between, or the job is a dm_me one.
IndexMatchesLink ==
    \A t \in Jobs \ (moved \cup DmMe) :
        indexed[t] # 0 /\ plan[t] # NoPlan => indexed[t] = plan[t].hours
=============================================================================
