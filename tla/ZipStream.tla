------------------------------ MODULE ZipStream ------------------------------
(***************************************************************************)
(* One archive: download/zip_stream.py between the channel's history, the  *)
(* Discord CDN, the progress callback and the upload that consumes it.     *)
(* The pipeline is pulled: stream-zip asks for the next member only after  *)
(* it has consumed the body of the one before.                             *)
(*                                                                         *)
(* Message ids are positions in `channel', which is in order of time.      *)
(* Operators named ...Bug are plausible mistakes in the definition that    *)
(* follows them; no specification uses them.                               *)
(***************************************************************************)
EXTENDS Filters, FiniteSetsExt

CONSTANTS
    Cases,     \* [filters, allowed, now, channel] to archive
    Late,      \* what an attachment posted during the walk looks like
    PageSize,  \* messages per history request
    MaxPosts   \* bound on messages posted during the walk

\* What a case is made of.
Times == [day : Nat \ {0}, sec : 0 .. SecondsPerDay - 1]
Texts == [n : Nat, unit : STRING]
Payloads == [category : {Absent, "image", "video", "audio", "gif", "other"},
             from_user : STRING, before : Texts, after : Texts,
             during : NAMED_PERIODS \cup {Absent}]
Attached == [main : STRING, sub : STRING, decorated : BOOLEAN]
Messages == [at : Times, author : STRING, files : Seq(Attached)]

\* Ids are in order of time.
InOrder(messages) ==
    \A i, j \in 1 .. Len(messages) :
        i < j => ~Earlier(messages[j].at, messages[i].at)

ASSUME ZipAssumption ==
    /\ \A c \in Cases :
           /\ c.filters \in Payloads /\ Admitted(c.filters)
           /\ c.now \in Times /\ c.now.day > DaysBeforeYear(3)
           /\ c.channel \in Seq(Messages) /\ InOrder(c.channel)
    /\ Late \subseteq [author : STRING, files : Seq(Attached)]
    /\ PageSize \in Nat \ {0}
    /\ MaxPosts \in Nat

VARIABLES
    filters, allowed, now,  \* the payload, the policy, and the worker's clock
    channel,   \* messages: [at, author, files]
    pc,        \* the await the pipeline is at, or how it ended
    window,    \* ResolvedFilters.after and .before
    bounds,    \* low and high snowflake of the walk, or Unknown
    page,      \* ids fetched and not yet walked
    cursor,    \* id of the last message fetched, 0 before the first request
    more,      \* the last page was full: there may be another
    message,   \* id of the message being walked
    file,      \* index of the attachment being looked at
    done,      \* attachments_done
    due,       \* progress_throttle_seconds have passed since last_emit
    zip,       \* attachments wholly in the archive, in order
    emitted    \* bytes have been handed to the upload

\* What the properties remember of the past; no action reads these.
VARIABLES
    snapshot,  \* the last one on_progress stored
    skipped,   \* attachments left out after their GET
    atStart    \* Len(channel) when the walk began

walkVars == <<page, cursor, more>>
seenVars == <<message, file>>
inputVars == <<filters, allowed, now>>
vars == <<inputVars, channel, pc, window, bounds, walkVars, seenVars, done,
          due, zip, emitted, snapshot, skipped, atStart>>
-----------------------------------------------------------------------------
(* Values *)

Working == {"resolve", "bounds", "page", "message", "attachment", "get",
            "member", "body", "finish"}
Ended == {"committed", "empty", "failed"}

\* A snowflake nobody could tell, and a history_fraction of None.
Unknown == -1
NoSnapshot == [done |-> 0, fraction |-> Unknown]

Ids == 1 .. Len(channel)
Files(id) == channel[id].files
Attachments == UNION {{id} \X DOMAIN Files(id) : id \in Ids}
Current == <<message, file>>

Init ==
    /\ \E c \in Cases :
           /\ filters = c.filters
           /\ allowed = c.allowed
           /\ now = c.now
           /\ channel = c.channel
    /\ pc = "resolve"
    /\ window = Window(None, None)
    /\ bounds = [low |-> Unknown, high |-> Unknown]
    /\ page = {}
    /\ cursor = 0
    /\ more = TRUE
    /\ message = 0
    /\ file = 0
    /\ done = 0
    /\ due = FALSE
    /\ zip = <<>>
    /\ emitted = FALSE
    /\ snapshot = NoSnapshot
    /\ skipped = {}
    /\ atStart = 0

Goto(step) == pc' = step
-----------------------------------------------------------------------------
(* Before the walk *)

ResolveFilters ==
    /\ pc = "resolve"
    /\ IF ResolveError(filters, now) = "ok"
       THEN window' = Resolve(filters, now) /\ Goto("bounds")
       ELSE Goto("failed") /\ UNCHANGED window
    /\ UNCHANGED <<inputVars, channel, bounds, walkVars, seenVars, done, due,
                   zip, emitted, snapshot, skipped, atStart>>

\* The snowflake of a datetime among the ids: how many messages are older.
Snowflake(t) == Cardinality({id \in Ids : Earlier(channel[id].at, t)})

\* The oldest message comes from history(limit=1, oldest_first=True), which may
\* fail; the newest is what the channel object remembers.
ResolveSnowflakeBounds ==
    /\ pc = "bounds"
    /\ \E low \in IF window.after # None THEN {Snowflake(window.after)}
                  ELSE {Unknown, IF channel = <<>> THEN Unknown ELSE 1} :
           bounds' = [low |-> low,
                      high |-> IF window.before # None
                               THEN Snowflake(window.before)
                               ELSE IF channel = <<>> THEN Unknown
                               ELSE Len(channel)]
    /\ Goto("page")
    /\ atStart' = Len(channel)
    /\ UNCHANGED <<inputVars, channel, window, walkVars, seenVars, done, due,
                   zip, emitted, snapshot, skipped>>
-----------------------------------------------------------------------------
(* The walk: channel.history, a page at a time *)

\* discord.py walks oldest first when it is given `after', else newest first.
OldestFirst == window.after # None
Before(id) == window.before = None \/ Earlier(channel[id].at, window.before)
After(id) == Earlier(window.after, channel[id].at)

\* The order of the walk.
Precedes(i, j) == IF OldestFirst THEN i < j ELSE i > j

\* The ids beyond the cursor that Discord selects from, and those of them that
\* the next request returns.
Ahead ==
    {id \in Ids : /\ cursor # 0 => Precedes(cursor, id)
                  /\ IF OldestFirst THEN After(id) ELSE Before(id)}
Fetched ==
    {id \in Ahead : Cardinality({i \in Ahead : Precedes(i, id)}) < PageSize}

\* Every request starts where the first one did.
FetchPageBug ==
    /\ pc = "page"
    /\ page' = {id \in Fetched : Before(id)}
    /\ more' = (Cardinality(page') = PageSize)
    /\ Goto("message")
    /\ UNCHANGED <<inputVars, channel, window, bounds, cursor, seenVars, done,
                   due, zip, emitted, snapshot, skipped, atStart>>

\* A walk from `after' drops what is not before `before' once it has it.
FetchPage ==
    /\ pc = "page"
    /\ page' = {id \in Fetched : Before(id)}
    /\ IF Fetched = {} THEN UNCHANGED cursor
       ELSE \E last \in Fetched :
                /\ \A id \in Fetched : ~Precedes(last, id)
                /\ cursor' = last
    /\ more' = (Cardinality(page') = PageSize)
    /\ Goto("message")
    /\ UNCHANGED <<inputVars, channel, window, bounds, seenVars, done, due,
                   zip, emitted, snapshot, skipped, atStart>>

\* Counted from the oldest message.
_compute_history_fractionBug(id) ==
    IF bounds.high <= bounds.low THEN 1
    ELSE Max({0, Min({bounds.high - bounds.low, id - bounds.low})})

\* history_fraction, as the number of messages behind the walk, out of those
\* between the bounds; the whole, 1 of 1, of a range with nothing in between.
_compute_history_fraction(id) ==
    IF bounds.high <= bounds.low THEN 1
    ELSE Max({0, Min({bounds.high - bounds.low, bounds.high - id})})

Snapshot(id) ==
    [done |-> done,
     fraction |-> IF Unknown \in {bounds.low, bounds.high} THEN Unknown
                  ELSE _compute_history_fraction(id)]

\* A throttled tick; on_progress may fail, which is logged.
Tick(id) == \/ snapshot' = Snapshot(id)
            \/ UNCHANGED snapshot

NextMessage ==
    /\ pc = "message"
    /\ \E id \in page :
           /\ \A other \in page : ~Precedes(other, id)
           /\ message' = id
           /\ page' = page \ {id}
           /\ IF due THEN Tick(id) ELSE UNCHANGED snapshot
    /\ file' = 1
    /\ due' = FALSE
    /\ Goto("attachment")
    /\ UNCHANGED <<inputVars, channel, window, bounds, cursor, more, done, zip,
                   emitted, skipped, atStart>>

\* The peek gives up after the first page.
EndOfPageBug ==
    /\ pc = "message"
    /\ page = {}
    /\ Goto(IF done = 0 THEN "empty" ELSE IF more THEN "page" ELSE "finish")
    /\ UNCHANGED <<inputVars, channel, window, bounds, walkVars, seenVars, done,
                   due, zip, emitted, snapshot, skipped, atStart>>

\* Pages are asked for until one is full again.
EndOfPageEndlessBug ==
    /\ pc = "message"
    /\ page = {}
    /\ Goto("page")
    /\ UNCHANGED <<inputVars, channel, window, bounds, walkVars, seenVars, done,
                   due, zip, emitted, snapshot, skipped, atStart>>

\* The history is exhausted after a short page; _peek_or_raise_empty turns a
\* walk that yielded no member into NoMatchingAttachments.
EndOfPage ==
    /\ pc = "message"
    /\ page = {}
    /\ Goto(IF more THEN "page" ELSE IF done = 0 THEN "empty" ELSE "finish")
    /\ UNCHANGED <<inputVars, channel, window, bounds, walkVars, seenVars, done,
                   due, zip, emitted, snapshot, skipped, atStart>>
-----------------------------------------------------------------------------
(* The attachments of a message *)

Skip == file' = file + 1 /\ Goto("attachment")

LookAtAttachment ==
    /\ pc = "attachment"
    /\ IF file > Len(Files(message)) THEN Goto("message") /\ UNCHANGED file
       ELSE IF Matches(filters, allowed, channel[message].author,
                       Files(message)[file])
       THEN Goto("get") /\ UNCHANGED file
       ELSE Skip
    /\ UNCHANGED <<inputVars, channel, window, bounds, walkVars, message, done,
                   due, zip, emitted, snapshot, skipped, atStart>>

\* Progress is reported where the tally changes.
GetBug ==
    /\ pc = "get"
    /\ done' = done + 1
    /\ due' = FALSE
    /\ snapshot' = IF due THEN [snapshot EXCEPT !.done = done + 1] ELSE snapshot
    /\ Goto("member")
    /\ UNCHANGED <<inputVars, channel, window, bounds, walkVars, seenVars, zip,
                   emitted, skipped, atStart>>

\* The GET answers 200: the member is counted and yielded.
Get ==
    /\ pc = "get"
    /\ done' = done + 1
    /\ Goto("member")
    /\ UNCHANGED <<inputVars, channel, window, bounds, walkVars, seenVars, due,
                   zip, emitted, snapshot, skipped, atStart>>

\* A ClientError or another status: logged, the attachment is left out.
GetFails ==
    /\ pc = "get"
    /\ skipped' = skipped \cup {Current}
    /\ Skip
    /\ UNCHANGED <<inputVars, channel, window, bounds, walkVars, message, done,
                   due, zip, emitted, snapshot, atStart>>

\* stream-zip has the member and emits its header.
BeginMember ==
    /\ pc = "member"
    /\ emitted' = TRUE
    /\ Goto("body")
    /\ UNCHANGED <<inputVars, channel, window, bounds, walkVars, seenVars, done,
                   due, zip, snapshot, skipped, atStart>>

\* The body ended, and with it the member.
EndMember ==
    /\ pc = "body"
    /\ zip' = Append(zip, Current)
    /\ Skip
    /\ UNCHANGED <<inputVars, channel, window, bounds, walkVars, message, done,
                   due, emitted, snapshot, skipped, atStart>>

\* The truncated member is skipped like one that could not be opened.
BodyFailsBug ==
    /\ pc = "body"
    /\ Skip
    /\ UNCHANGED <<inputVars, channel, window, bounds, walkVars, message, done,
                   due, zip, emitted, snapshot, skipped, atStart>>

\* AttachmentStreamError, or a timeout that is no ClientError: the job aborts.
BodyFails ==
    /\ pc = "body"
    /\ Goto("failed")
    /\ UNCHANGED <<inputVars, channel, window, bounds, walkVars, seenVars, done,
                   due, zip, emitted, snapshot, skipped, atStart>>

\* The central directory is out, the upload commits.
Commit ==
    /\ pc = "finish"
    /\ emitted' = TRUE
    /\ Goto("committed")
    /\ UNCHANGED <<inputVars, channel, window, bounds, walkVars, seenVars, done,
                   due, zip, snapshot, skipped, atStart>>
-----------------------------------------------------------------------------
(* What happens around the pipeline *)

\* Discord's history or the upload fails, a GET times out, or the task is
\* cancelled: whatever is awaited raises, and nothing here catches it.
Abort ==
    /\ pc \in {"page", "get", "member", "body", "finish"}
    /\ Goto("failed")
    /\ UNCHANGED <<inputVars, channel, window, bounds, walkVars, seenVars, done,
                   due, zip, emitted, snapshot, skipped, atStart>>

\* progress_throttle_seconds go by.
Elapse ==
    /\ pc \in {"page", "get", "body"}
    /\ ~due
    /\ due' = TRUE
    /\ UNCHANGED <<inputVars, channel, pc, window, bounds, walkVars, seenVars,
                   done, zip, emitted, snapshot, skipped, atStart>>

\* Somebody posts in the channel, after the worker looked at its clock.
Post ==
    /\ pc \in Working \ {"resolve", "bounds"}
    /\ Len(channel) < atStart + MaxPosts
    /\ \E m \in Late :
           channel' = Append(channel, [at |-> Midnight(now.day + 1),
                                       author |-> m.author, files |-> m.files])
    /\ UNCHANGED <<inputVars, pc, window, bounds, walkVars, seenVars, done, due,
                   zip, emitted, snapshot, skipped, atStart>>
-----------------------------------------------------------------------------
(* The specification *)

Proceed ==
    \/ ResolveFilters \/ ResolveSnowflakeBounds \/ FetchPage \/ NextMessage
    \/ EndOfPage \/ LookAtAttachment \/ Get \/ GetFails \/ BeginMember
    \/ EndMember \/ Commit

Disturb == BodyFails \/ Abort \/ Elapse \/ Post

Next == Proceed \/ Disturb

Spec == Init /\ [][Next]_vars

\* The worker's event loop runs what is ready; requests are answered or raise.
FairSpec == Spec /\ WF_vars(Proceed)
-----------------------------------------------------------------------------
(* What a filter means, told by the calendar rather than by arithmetic *)

\* Weeks begin on Monday; day 1 was one.
WeekOf(day) == (day - 1) \div 7
MonthIndex(day) == 12 * YearOf[day] + MonthOf[day]

InPeriod(name, day) ==
    CASE name = "today"      -> day = now.day
      [] name = "yesterday"  -> day = now.day - 1
      [] name = "this-week"  -> WeekOf(day) = WeekOf(now.day)
      [] name = "last-week"  -> WeekOf(day) = WeekOf(now.day) - 1
      [] name = "this-month" -> MonthIndex(day) = MonthIndex(now.day)
      [] name = "last-month" -> MonthIndex(day) = MonthIndex(now.day) - 1
      [] name = "this-year"  -> YearOf[day] = YearOf[now.day]
      [] name = "last-year"  -> YearOf[day] = YearOf[now.day] - 1

\* Seconds since t, and in a duration.
Age(t) == (now.day - t.day) * SecondsPerDay + now.sec - t.sec
Seconds(text) ==
    text.n * [m |-> 60, h |-> 3600, d |-> SecondsPerDay,
              w |-> 7 * SecondsPerDay][text.unit]

InTime(t) ==
    /\ filters.during # Absent => InPeriod(filters.during, t.day) /\ Age(t) > 0
    /\ filters.before # NoDuration => Age(t) > Seconds(filters.before)
    /\ filters.after # NoDuration => Age(t) < Seconds(filters.after)

\* channel.history excludes its bounds: what was posted at the very instant a
\* period begins is in none.
OnTheStroke(t) == t.sec = 0 /\ filters.during # Absent

KindOf(f) ==
    IF f.main = "image" /\ f.sub = "gif" THEN "gif"
    ELSE IF f.main \in {"image", "video", "audio"} THEN f.main ELSE "other"

\* An attachment the requester asked for and the guild allows.
Wanted(a) ==
    LET m == channel[a[1]]
        f == m.files[a[2]]
    IN  /\ InTime(m.at)
        /\ filters.from_user \in {Absent, m.author}
        /\ filters.category \in {Absent, KindOf(f)}
        /\ \A types \in allowed : [main |-> f.main, sub |-> f.sub] \in types

\* Those of them the archive has to have, if they can be downloaded.
Due == {a \in Attachments : a[1] <= atStart /\ ~OnTheStroke(channel[a[1]].at)
                                /\ Wanted(a)}
-----------------------------------------------------------------------------
(* Safety *)

TypeOK ==
    /\ pc \in Working \cup Ended
    /\ \A b \in {now, window.after, window.before} :
           b.day \in Nat /\ b.sec \in 0 .. SecondsPerDay - 1
    /\ bounds.low \in Ids \cup {0, Unknown}
    /\ bounds.high \in Ids \cup {0, Unknown}
    /\ page \subseteq Ids
    /\ cursor \in Ids \cup {0}
    /\ more \in BOOLEAN
    /\ message \in Ids \cup {0}
    /\ file \in Nat
    /\ done \in 0 .. Cardinality(Attachments)
    /\ due \in BOOLEAN
    /\ zip \in Seq(Attachments)
    /\ emitted \in BOOLEAN
    /\ snapshot.fraction \in Ids \cup {0, Unknown}
    /\ skipped \subseteq Attachments
    /\ atStart \in 0 .. Len(channel)

\* A committed archive is what was asked for: each attachment that the filter
\* and the guild's policy select, by calendar and clock at the time the worker
\* resolved them, once, and nothing else -- except what answered its GET with
\* an error.
ArchiveComplete ==
    pc = "committed" =>
        /\ IsInjective(zip)
        /\ \A a \in Range(zip) : Wanted(a) /\ a \notin skipped
        /\ Due \subseteq Range(zip) \cup skipped

\* An archive has at least one member, and all its members whole: once the CDN
\* answered an attachment's GET, its body is in the archive to the end, or the
\* archive is not committed.
WholeOrNothing == pc = "committed" => zip # <<>> /\ Len(zip) = done

\* "Nothing to archive" is said only when there was nothing to be had, and
\* before the upload was given a single byte to commit.
EmptyMeansNothing ==
    pc = "empty" => ~emitted /\ zip = <<>> /\ Due \subseteq skipped

\* What /status shows as done is in the archive, whole.
TallyHonest == snapshot.done <= Len(zip)

\* The position shown during a walk without `after' never goes back.
PositionForward ==
    [][~OldestFirst => snapshot'.fraction >= snapshot.fraction]_vars
-----------------------------------------------------------------------------
(* Liveness *)

\* Every walk ends: no page is asked for again for ever.
EveryWalkEnds == <>(pc \in Ended)
=============================================================================
