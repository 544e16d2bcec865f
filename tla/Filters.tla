------------------------------- MODULE Filters -------------------------------
(***************************************************************************)
(* download/filters.py: what a /download filter selects.  The cog parses   *)
(* the durations; the worker resolves the payload, at the moment it runs,  *)
(* into two datetimes and a matcher.                                       *)
(*                                                                         *)
(* _previous_month_startBug is a plausible mistake in the definition that  *)
(* follows it; no specification uses it.                                   *)
(***************************************************************************)
EXTENDS Integers, Sequences

(* Python's datetime and timedelta: a day ordinal and seconds into the day *)

MaxDeltaDays == 999999999  \* timedelta.max
SecondsPerDay == 86400

Instant(day, sec) == [day |-> day, sec |-> sec]
Midnight(day) == Instant(day, 0)

\* No datetime: an absent bound.
None == Instant(0, 0)

Earlier(a, b) == a.day < b.day \/ (a.day = b.day /\ a.sec < b.sec)

Leap(y) == y % 4 = 0 /\ (y % 100 # 0 \/ y % 400 = 0)
DaysBeforeYear(y) ==
    (y - 1) * 365 + (y - 1) \div 4 - (y - 1) \div 100 + (y - 1) \div 400
DaysBeforeMonth(y, m) ==
    <<0, 31, 59, 90, 120, 151, 181, 212, 243, 273, 304, 334>>[m]
        + (IF m > 2 /\ Leap(y) THEN 1 ELSE 0)

\* date(y, m, 1).toordinal()
FirstOfMonth(y, m) == DaysBeforeYear(y) + DaysBeforeMonth(y, m) + 1

YearOf == [day \in Nat |->
    CHOOSE y \in (day \div 366) .. (day \div 365 + 1) :
        DaysBeforeYear(y) < day /\ day <= DaysBeforeYear(y + 1)]
MonthOf == [day \in Nat |->
    CHOOSE m \in 1 .. 12 :
        /\ FirstOfMonth(YearOf[day], m) <= day
        /\ m < 12 => day < FirstOfMonth(YearOf[day], m + 1)]
\* 0001-01-01 was a Monday.
Weekday(day) == (day + 6) % 7

\* datetime - timedelta; Python raises for a result before day 1.
Minus(t, d) ==
    IF t.sec >= d.sec THEN Instant(t.day - d.day, t.sec - d.sec)
    ELSE Instant(t.day - d.day - 1, t.sec + SecondsPerDay - d.sec)
Days(n) == Instant(n, 0)
-----------------------------------------------------------------------------
(* Durations *)

PerDay == [m |-> 1440, h |-> 24, d |-> 1]
UnitSeconds == [m |-> 60, h |-> 3600, d |-> SecondsPerDay]

\* magnitude * unit as a normalised timedelta.
Duration(n, unit) ==
    IF unit = "w" THEN Days(7 * n)
    ELSE Instant(n \div PerDay[unit], (n % PerDay[unit]) * UnitSeconds[unit])

\* A duration as typed: [n |-> .., unit |-> ..]; any other text has no unit.
parse_duration(text) == Duration(text.n, text.unit)

\* Which exception, if any, it raises; timedelta refuses very long ones.
ParseError(text) ==
    CASE text.unit \notin {"m", "h", "d", "w"}    -> "FilterParseError"
      [] text.n = 0                               -> "FilterParseError"
      [] parse_duration(text).day > MaxDeltaDays  -> "OverflowError"
      [] OTHER                                    -> "ok"
-----------------------------------------------------------------------------
(* Named periods *)

NAMED_PERIODS == {"today", "yesterday", "this-week", "last-week", "this-month",
                  "last-month", "this-year", "last-year"}

_start_of_day(t) == Midnight(t.day)
_start_of_week(t) == Minus(_start_of_day(t), Days(Weekday(t.day)))
_start_of_month(t) == Midnight(FirstOfMonth(YearOf[t.day], MonthOf[t.day]))
_start_of_year(t) == Midnight(FirstOfMonth(YearOf[t.day], 1))

\* A month is thirty days.
_previous_month_startBug(t) == Minus(_start_of_month(t), Days(30))

_previous_month_start(t) ==
    _start_of_month(Minus(_start_of_month(t), Days(1)))
_previous_year_start(t) == Midnight(FirstOfMonth(YearOf[t.day] - 1, 1))

\* A window: the datetimes given to channel.history as after and before.
Window(after, before) == [after |-> after, before |-> before]

resolve_named_period(name, now) ==
    CASE name = "today"      -> Window(_start_of_day(now), now)
      [] name = "yesterday"  -> Window(Minus(_start_of_day(now), Days(1)),
                                       _start_of_day(now))
      [] name = "this-week"  -> Window(_start_of_week(now), now)
      [] name = "last-week"  -> Window(Minus(_start_of_week(now), Days(7)),
                                       _start_of_week(now))
      [] name = "this-month" -> Window(_start_of_month(now), now)
      [] name = "last-month" -> Window(_previous_month_start(now),
                                       _start_of_month(now))
      [] name = "this-year"  -> Window(_start_of_year(now), now)
      [] name = "last-year"  -> Window(_previous_year_start(now),
                                       _start_of_year(now))
-----------------------------------------------------------------------------
(* The payload *)

\* Absent keys of the DownloadFilters dict.
Absent == "absent"
NoDuration == [n |-> 0, unit |-> Absent]

\* What the /download handler queues: durations that parse, and no period
\* beside them.
Admitted(f) ==
    /\ \A text \in {f.before, f.after} \ {NoDuration} : ParseError(text) = "ok"
    /\ f.during # Absent => f.before = NoDuration /\ f.after = NoDuration

\* now - timedelta raises when it would leave year 1.
Reaches(now, text) ==
    text # NoDuration => Minus(now, parse_duration(text)).day >= 1

Ago(now, text) ==
    IF text = NoDuration THEN None ELSE Minus(now, parse_duration(text))

\* Which exception, if any, resolve() raises for what the cog let through.
ResolveError(f, now) ==
    IF f.during = Absent /\ ~(Reaches(now, f.before) /\ Reaches(now, f.after))
    THEN "OverflowError" ELSE "ok"

Resolve(f, now) ==
    IF f.during # Absent THEN resolve_named_period(f.during, now)
    ELSE Window(Ago(now, f.after), Ago(now, f.before))
-----------------------------------------------------------------------------
(* The matcher *)

\* An attachment's content type as Discord reports it: a main and a sub type,
\* decorated (parameters, capitals) or not; a missing one has empty types.
\* _content_type undoes the decoration.
_content_type(file) == [main |-> file.main, sub |-> file.sub]

_is_gif(mime) == mime = [main |-> "image", sub |-> "gif"]
_is_image(mime) == mime.main = "image" /\ ~_is_gif(mime)
_is_video(mime) == mime.main = "video"
_is_audio(mime) == mime.main = "audio"
_is_other(mime) ==
    ~(_is_image(mime) \/ _is_video(mime) \/ _is_audio(mime) \/ _is_gif(mime))

CATEGORY_PREDICATES(category, mime) ==
    CASE category = "image" -> _is_image(mime)
      [] category = "video" -> _is_video(mime)
      [] category = "audio" -> _is_audio(mime)
      [] category = "gif"   -> _is_gif(mime)
      [] category = "other" -> _is_other(mime)

\* _build_matcher's closure.  `allowed' is {} where allowed_media_types is
\* None, and the set of that set otherwise.
Matches(f, allowed, author, file) ==
    /\ f.from_user \in {Absent, author}
    /\ \A types \in allowed : _content_type(file) \in types
    /\ f.category = Absent \/ CATEGORY_PREDICATES(f.category, _content_type(file))
=============================================================================
