----------------------------- MODULE MCZipStream -----------------------------
(* Instances of ZipStream for TLC: which archives are asked for.           *)
EXTENDS ZipStream, TLC

File(main, sub, decorated) ==
    [main |-> main, sub |-> sub, decorated |-> decorated]
png == File("image", "png", FALSE)
gif == File("image", "gif", FALSE)
mp4 == File("video", "mp4", TRUE)
pdf == File("", "", FALSE)

\* First of March after a 29 February, New Year's Day on a Wednesday, a Monday,
\* the 31st of a month after one with 30 days, and a leap day; at noon.
Noons == {Instant(d, 43200) : d \in {
    FirstOfMonth(2024, 3), FirstOfMonth(2025, 1), FirstOfMonth(2024, 7),
    FirstOfMonth(2024, 12) + 30, FirstOfMonth(2024, 2) + 28}}

All == [category |-> Absent, from_user |-> Absent, before |-> NoDuration,
        after |-> NoDuration, during |-> Absent]
During(p) == [All EXCEPT !.during = p]
Text(n, unit) == [n |-> n, unit |-> unit]

\* A message at each side of the midnight that begins `day', and on it.
Around(day, files) ==
    <<[at |-> Instant(day - 1, 86399), author |-> "ann", files |-> files],
      [at |-> Midnight(day), author |-> "bob", files |-> files],
      [at |-> Instant(day, 1), author |-> "ann", files |-> files]>>

\* The days near `day' on which a day, week, month or year begins.
Beginnings(day) ==
    LET y == YearOf[day]
        first == FirstOfMonth(y, MonthOf[day])
    IN  {day, day - 1, day - Weekday(day), day - Weekday(day) - 7, first,
         FirstOfMonth(YearOf[first - 1], MonthOf[first - 1]),
         FirstOfMonth(y, 1), FirstOfMonth(y - 1, 1)}

Case(f, policy, t, messages) ==
    [filters |-> f, allowed |-> policy, now |-> t, channel |-> messages]

\* Every period against every beginning; the clock and calendar cases.
Periods == UNION {
    {Case(During(p), {}, t, Around(d, <<png>>)) :
         p \in NAMED_PERIODS, d \in Beginnings(t.day)} : t \in Noons}

Noon == Instant(FirstOfMonth(2024, 3), 43200)

\* Ages on both sides of the durations, and one that reaches before year 1.
\* The command admits neither zero minutes nor what is no duration.
Typed == {NoDuration, Text(12, "h"), Text(720, "m"), Text(1, "d"), Text(1, "w"),
          Text(200000, "w"), Text(0, "m"), Text(7, "y")}
Durations == {
    Case(f, {}, Noon, Around(Noon.day, <<png>>)) :
    f \in {g \in {[All EXCEPT !.before = b, !.after = a] : a, b \in Typed} :
              Admitted(g)}}

\* Kinds and authors, against policies: none, images, and nothing at all.
Kinds == {
    Case([All EXCEPT !.category = c, !.from_user = u], policy, Noon,
         Around(Noon.day - 1, files)) :
    c \in {Absent, "image", "video", "gif", "other"}, u \in {Absent, "ann"},
    policy \in {{}, {{}}, {{[main |-> "image", sub |-> "png"],
                            [main |-> "video", sub |-> "mp4"]}}},
    files \in {<<png, gif>>, <<mp4>>, <<pdf>>}}

Nothing == {Case(All, {}, Noon, <<>>)}

AllCases == Periods \cup Durations \cup Kinds \cup Nothing
LateMessage == {[author |-> "ann", files |-> <<png>>]}
=============================================================================
