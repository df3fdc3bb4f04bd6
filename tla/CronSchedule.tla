---------------------------- MODULE CronSchedule ----------------------------
(***************************************************************************)
(* The schedule of a cron job (cron/parser.go): Parse turns the fields of  *)
(* an expression into sets of values, and Next searches the calendar for   *)
(* the first time that has one of each.                                    *)
(*                                                                         *)
(* A part of a field is a record with the numbers that its text has; text  *)
(* that has none is junk.  An expression that has not five fields is       *)
(* refused at once and left out.  The calendar is that of UTC, without the *)
(* hours that a local time skips or repeats.                               *)
(***************************************************************************)
EXTENDS Integers, Sequences, FiniteSets

CONSTANT Queries   \* Queries: an expression, and the time that Next is called with

VARIABLES
  query,     \* query: the one of them
  search     \* search: the values of each field, and where the search has come to

scheduleVars == <<query, search>>

-----------------------------------------------------------------------------
(* The fields, their limits, and the lengths of their arrays.              *)

Fields == 1..5
Minutes == 1
Hours == 2
Days == 3
Months == 4
Weekdays == 5

Limits ==
  <<[min |-> 0, max |-> 59, size |-> 60], [min |-> 0, max |-> 23, size |-> 24],
    [min |-> 1, max |-> 31, size |-> 32], [min |-> 1, max |-> 12, size |-> 13],
    [min |-> 0, max |-> 6, size |-> 7]>>

(* A sign is possible before a step and before the end of a range: a       *)
(* hyphen anywhere else makes a range of its own.                          *)
Part ==
  [kind : {"every", "junk"}] \cup [kind : {"step"}, step : Int]
  \cup [kind : {"range"}, from : Nat, to : Int, step : Int]
  \cup [kind : {"value"}, value : Nat]

Stepped(a, b, step) == {v \in a..b : (v - a) % step = 0}

MalformedPart(part, limit) ==
  \/ part.kind = "junk"
  \/ part.kind \in {"step", "range"} /\ part.step <= 0
  \/ part.kind = "value" /\ part.value \notin limit.min..limit.max

(* A range runs between its own bounds, which nobody compares with the     *)
(* limits of the field, and is empty if they are swapped.                  *)
PartValues(part, limit) ==
  CASE part.kind = "every" -> limit.min..limit.max
    [] part.kind = "step"  -> Stepped(limit.min, limit.max, part.step)
    [] part.kind = "range" -> Stepped(part.from, part.to, part.step)
    [] part.kind = "value" -> {part.value}

Parts(f) == {query.expr[f][i] : i \in DOMAIN query.expr[f]}

Malformed(f) == \E part \in Parts(f) : MalformedPart(part, Limits[f])

FieldValues(f) == UNION {PartValues(part, Limits[f]) : part \in Parts(f)}

Overruns(f) == ~Malformed(f) /\ \E v \in FieldValues(f) : v >= Limits[f].size

-----------------------------------------------------------------------------
(* The calendar (external: package time).                                  *)

Leap(year) == (year % 4 = 0 /\ year % 100 # 0) \/ year % 400 = 0

DaysIn(year, month) ==
  IF month = 2 /\ Leap(year) THEN 29
  ELSE <<31, 28, 31, 30, 31, 30, 31, 31, 30, 31, 30, 31>>[month]

(* A minute of the calendar since the year 2000.                           *)
IsTime(t) ==
  /\ t \in [year : Nat, month : 1..12, day : 1..31, hour : 0..23, minute : 0..59]
  /\ 2000 <= t.year /\ t.day <= DaysIn(t.year, t.month)

ASSUME QueriesAssumption ==
  \A q \in Queries : q.expr \in [Fields -> Seq(Part)] /\ IsTime(q.start)

(* Days since the first of January 2000, a Saturday.                       *)
DayNumber(t) ==
  LET before == <<0, 31, 59, 90, 120, 151, 181, 212, 243, 273, 304, 334>>
  IN 365 * (t.year - 2000) + Cardinality({y \in 2000..t.year - 1 : Leap(y)})
       + before[t.month] + (IF t.month > 2 /\ Leap(t.year) THEN 1 ELSE 0) + t.day - 1

Weekday(t) == (DayNumber(t) + 6) % 7

MinuteNumber(t) == (DayNumber(t) * 24 + t.hour) * 60 + t.minute

NextMonth(t) ==
  [year |-> IF t.month = 12 THEN t.year + 1 ELSE t.year,
   month |-> IF t.month = 12 THEN 1 ELSE t.month + 1, day |-> 1, hour |-> 0, minute |-> 0]

NextDay(t) ==
  IF t.day = DaysIn(t.year, t.month) THEN NextMonth(t)
  ELSE [t EXCEPT !.day = @ + 1, !.hour = 0, !.minute = 0]

NextHour(t) ==
  IF t.hour = 23 THEN NextDay(t) ELSE [t EXCEPT !.hour = @ + 1, !.minute = 0]

NextMinute(t) == IF t.minute = 59 THEN NextHour(t) ELSE [t EXCEPT !.minute = @ + 1]

(* Four years of 365 days.                                                 *)
SearchMinutes == 4 * 365 * 24 * 60

-----------------------------------------------------------------------------
(* Parse                                                                   *)

ScheduleInit ==
  search = [stage |-> "parse", schedule |-> [f \in Fields |-> {}], at |-> query.start]

Ended(stage) ==
  /\ search' = [search EXCEPT !.stage = stage]
  /\ UNCHANGED query

(* The first field that is malformed, or that has a value for which the    *)
(* array has no room, ends Parse: with an error, or with a panic.          *)
Refused(f) ==
  /\ search.stage = "parse"
  /\ Malformed(f) \/ Overruns(f)
  /\ \A g \in 1..f - 1 : ~Malformed(g) /\ ~Overruns(g)

RejectField(f) == Refused(f) /\ Malformed(f) /\ Ended("rejected")
PanicAtField(f) == Refused(f) /\ ~Malformed(f) /\ Ended("panicked")

(* The schedule is made, and Next begins with the minute after start.      *)
AcceptExpression ==
  /\ search.stage = "parse"
  /\ \A f \in Fields : ~Malformed(f) /\ ~Overruns(f)
  /\ search' = [stage |-> "search", schedule |-> [f \in Fields |-> FieldValues(f)],
                at |-> NextMinute(query.start)]
  /\ UNCHANGED query

-----------------------------------------------------------------------------
(* Next: one action for each way through the body of its loop.             *)

HasMonth == search.at.month \in search.schedule[Months]
HasDay ==
  /\ search.at.day \in search.schedule[Days]
  /\ Weekday(search.at) \in search.schedule[Weekdays]
HasHour == search.at.hour \in search.schedule[Hours]
HasMinute == search.at.minute \in search.schedule[Minutes]

Deadline == MinuteNumber(NextMinute(query.start)) + SearchMinutes

Searching == search.stage = "search" /\ MinuteNumber(search.at) < Deadline

StepTo(t) ==
  /\ search' = [search EXCEPT !.at = t]
  /\ UNCHANGED query

SkipMonth == Searching /\ ~HasMonth /\ StepTo(NextMonth(search.at))

SkipDay == Searching /\ HasMonth /\ ~HasDay /\ StepTo(NextDay(search.at))

SkipHour == Searching /\ HasMonth /\ HasDay /\ ~HasHour /\ StepTo(NextHour(search.at))

SkipMinute ==
  /\ Searching /\ HasMonth /\ HasDay /\ HasHour /\ ~HasMinute
  /\ StepTo(NextMinute(search.at))

Find == Searching /\ HasMonth /\ HasDay /\ HasHour /\ HasMinute /\ Ended("found")

(* The zero time, after which the job is never due again.                  *)
GiveUpSearch == search.stage = "search" /\ ~Searching /\ Ended("gaveUp")

ScheduleNext ==
  \/ \E f \in Fields : RejectField(f) \/ PanicAtField(f)
  \/ AcceptExpression
  \/ SkipMonth \/ SkipDay \/ SkipHour \/ SkipMinute
  \/ Find \/ GiveUpSearch

-----------------------------------------------------------------------------
(* What the search is to find, from the dates that there are.              *)

(* The dates of a span of years that the schedule has.                     *)
DatesBetween(first, last) ==
  {d \in [year : first..last, month : search.schedule[Months] \cap 1..12,
          day : search.schedule[Days] \cap 1..31] :
     d.day <= DaysIn(d.year, d.month) /\ Weekday(d) \in search.schedule[Weekdays]}

(* The schedule has a time after the one asked about and before the minute *)
(* with number end, in the years up to last.                               *)
HasTimeBefore(end, last) ==
  \E d \in DatesBetween(query.start.year, last) :
    /\ DayNumber(d) * 1440 < end
    /\ \E h \in search.schedule[Hours], m \in search.schedule[Minutes] :
         LET number == (DayNumber(d) * 24 + h) * 60 + m
         IN MinuteNumber(query.start) < number /\ number < end

(* Next skips nothing: what it returns is after the time it was asked      *)
(* about, is a time of the schedule, and no time of the schedule is in     *)
(* between, across the ends of hours, days, months and years; and it gives *)
(* up only if four years of 365 days have none (Schedule.Next).            *)
NextIsFirst ==
  /\ search.stage = "found" =>
       /\ MinuteNumber(search.at) > MinuteNumber(query.start)
       /\ search.at.day <= DaysIn(search.at.year, search.at.month)
       /\ HasMonth /\ HasDay /\ HasHour /\ HasMinute
       /\ ~HasTimeBefore(MinuteNumber(search.at), search.at.year)
  /\ search.stage = "gaveUp" => ~HasTimeBefore(Deadline, query.start.year + 4)
=============================================================================
