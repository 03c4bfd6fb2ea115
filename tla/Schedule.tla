------------------------------ MODULE Schedule ------------------------------
(***************************************************************************)
(* The schedule engine of ergasterion/source_delivery.py and the catch-up     *)
(* over it in ergasterion/ingestion/runtime.py.                              *)
(*                                                                         *)
(* An instant is an integer, one per slot of the wall clock; a local time is  *)
(* an instant plus the offset of the zone.  A zone has one change of offset.  *)
(* The calendar is small: days of DaySlots slots, weeks and months of a few   *)
(* days, of which the last month of a year lacks one.  A cron expression is a *)
(* record of five fields, each a set of parts [base, step] with base <<>> for  *)
(* a star, <<n>> or <<first, last>>, and step 0 for none.                     *)
(***************************************************************************)
EXTENDS Integers, Sequences, FiniteSets, FiniteSetsExt

CONSTANTS
    HourSlots,      \* minutes in an hour
    DayHours,       \* hours in a day
    WeekDays,       \* days in a week
    MonthDays,      \* days in a month
    YearMonths,     \* months in a year
    MaxSearchDays,  \* _MAX_CRON_SEARCH_DAYS
    None            \* no instant

ASSUME ScheduleParameters ==
    {HourSlots, DayHours, WeekDays, MonthDays, YearMonths, MaxSearchDays}
      \subseteq Nat \ {0}

DaySlots == HourSlots * DayHours

-----------------------------------------------------------------------------
(* The cron grammar *)

PartOK(part, low, high) ==
    \/ part.base = <<>>
    \/ /\ \A i \in DOMAIN part.base : part.base[i] \in low..high
       /\ Len(part.base) = 1 => part.step = 0
       /\ Len(part.base) = 2 => part.base[1] <= part.base[2]

\* The values of a part: its domain, its range or its number, in steps.
PartValues(part, low, high) ==
    LET first == IF part.base = <<>> THEN low ELSE part.base[1]
        last == IF part.base = <<>> THEN high ELSE part.base[Len(part.base)]
        step == IF part.step = 0 THEN 1 ELSE part.step
    IN  {v \in first..last : (v - first) % step = 0}

\* _parse_cron_field: the empty set stands for the error it raises.
ParseCronField(field, low, high) ==
    IF \A part \in field : PartOK(part, low, high)
    THEN UNION {PartValues(part, low, high) : part \in field}
    ELSE {}

Star == {[base |-> <<>>, step |-> 0]}

ParseCronExpression(cron) ==
    [minutes |-> ParseCronField(cron.minute, 0, HourSlots - 1),
     hours |-> ParseCronField(cron.hour, 0, DayHours - 1),
     days_of_month |-> ParseCronField(cron.day, 1, MonthDays),
     months |-> ParseCronField(cron.month, 1, YearMonths),
     days_of_week |-> ParseCronField(cron.weekday, 0, WeekDays - 1),
     day_of_month_restricted |-> cron.day # Star,
     day_of_week_restricted |-> cron.weekday # Star]

\* A schedule whose expression does not parse is refused with its contract.
ScheduleOK(schedule) ==
    schedule.kind = "cron" =>
      LET parsed == ParseCronExpression(schedule.expression)
      IN  {} \notin {parsed.minutes, parsed.hours, parsed.days_of_month,
                     parsed.months, parsed.days_of_week}

-----------------------------------------------------------------------------
(* The calendar and the zone, as datetime and zoneinfo have them *)

DayOf(local) == local \div DaySlots
YearDays == MonthDays * YearMonths - 1
MonthDay(day) == ((day % YearDays) % MonthDays) + 1
Month(day) == ((day % YearDays) \div MonthDays) + 1
Weekday(day) == day % WeekDays

Offset(zone, instant) == IF instant < zone.change THEN zone.before ELSE zone.after
Local(zone, instant) == instant + Offset(zone, instant)

\* Neither of days, nor of weekdays, is narrowed: every day; both are: either.
DayMatches(day, parsed) ==
    LET byMonthDay == MonthDay(day) \in parsed.days_of_month
        byWeekday == Weekday(day) \in parsed.days_of_week
    IN  /\ Month(day) \in parsed.months
        /\ IF parsed.day_of_month_restricted /\ parsed.day_of_week_restricted THEN
                  byMonthDay \/ byWeekday
           ELSE IF parsed.day_of_month_restricted THEN byMonthDay
           ELSE IF parsed.day_of_week_restricted THEN byWeekday
           ELSE TRUE

\* No instant in a gap, two when the local time repeats.
LocalToUtcInstants(local, zone) ==
    {u \in {local - zone.before, local - zone.after} : Local(zone, u) = local}

CronDayOccurrences(day, parsed, zone) ==
    UNION {LocalToUtcInstants(day * DaySlots + h * HourSlots + m, zone) :
             h \in parsed.hours, m \in parsed.minutes}

-----------------------------------------------------------------------------
(* Boundaries *)

\* The occurrences on each day of a search, which begins at the day of an instant
\* and goes in a direction.
SearchedDays(schedule, at, direction) ==
    LET parsed == ParseCronExpression(schedule.expression)
        first == DayOf(Local(schedule.zone, at))
    IN  [day \in {first + direction * i : i \in 0..(MaxSearchDays - 1)} |->
           IF DayMatches(day, parsed)
           THEN {u \in CronDayOccurrences(day, parsed, schedule.zone) : schedule.start <= u}
           ELSE {}]

LastOf(searched, at) ==
    LET past(day) == {u \in searched[day] : u <= at}
        days == {day \in DOMAIN searched : past(day) # {}}
    IN  IF days = {} THEN None ELSE Max(past(Max(days)))

FirstOf(searched, at) ==
    LET coming(day) == {u \in searched[day] : at < u}
        days == {day \in DOMAIN searched : coming(day) # {}}
    IN  IF days = {} THEN None ELSE Min(coming(Min(days)))

\* current_boundary_at: the last occurrence at or before an instant, of the
\* nearest day back that has one.
CurrentBoundaryAt(schedule, at) ==
    IF at < schedule.start THEN None
    ELSE IF schedule.kind = "interval" THEN
           schedule.start + ((at - schedule.start) \div schedule.every) * schedule.every
    ELSE LastOf(SearchedDays(schedule, at, -1), at)

\* next_boundary_after: the first occurrence after an instant, None where the search ends
\* without one and it raises.
NextBoundaryAfter(schedule, at) ==
    IF schedule.kind = "interval"
    THEN IF at < schedule.start THEN schedule.start
         ELSE schedule.start
                + ((at - schedule.start) \div schedule.every + 1) * schedule.every
    ELSE LET floor == IF at < schedule.start THEN schedule.start - 1 ELSE at
         IN  FirstOf(SearchedDays(schedule, floor, 1), at)

IsEligibleBoundary(schedule, boundary, at) ==
    boundary <= at /\ CurrentBoundaryAt(schedule, boundary) = boundary

\* Whether the catch-up takes an occurrence.
Reaches(next, at) == IF next = None THEN FALSE ELSE next <= at

Within(next, at) == IF Reaches(next, at) THEN next ELSE None

\* Where the catch-up is after n occurrences, None once it has passed the last.
Cursor(schedule, since, at, limit) ==
    LET cursor[n \in 0..limit] ==
          IF n = 0 THEN since
          ELSE LET reached == cursor[n - 1]
               IN  IF reached = None THEN None
                   ELSE Within(NextBoundaryAfter(schedule, reached), at)
    IN  cursor

\* The search for the occurrence after one of those ends without one.
SearchFails(schedule, cursor, limit) ==
    \E n \in 0..(limit - 1) :
      cursor[n] # None /\ NextBoundaryAfter(schedule, cursor[n]) = None

Taken(cursor) ==
    LET taken == {n \in DOMAIN cursor \ {0} : cursor[n] # None}
    IN  [n \in 1..Cardinality(taken) |-> cursor[n]]

\* scheduled_occurrences: the current boundary of a stream never evaluated, or
\* the occurrences after `since`, up to `at` and to the limit; None where it raises, whatever
\* it has collected.
ScheduledOccurrences(schedule, since, at, limit) ==
    IF since = None
    THEN SelectSeq(<<CurrentBoundaryAt(schedule, at)>>, LAMBDA boundary : boundary # None)
    ELSE LET cursor == Cursor(schedule, since, at, limit)
         IN  IF SearchFails(schedule, cursor, limit) THEN None
             ELSE SelectSeq(Taken(cursor),
                            LAMBDA boundary : IsEligibleBoundary(schedule, boundary, at))

-----------------------------------------------------------------------------
(* What a schedule means, one instant at a time *)

IsOccurrence(schedule, instant) ==
    /\ schedule.start <= instant
    /\ IF schedule.kind = "interval"
       THEN (instant - schedule.start) % schedule.every = 0
       ELSE LET parsed == ParseCronExpression(schedule.expression)
                local == Local(schedule.zone, instant)
                slot == local % DaySlots
            IN  /\ DayMatches(DayOf(local), parsed)
                /\ slot \div HourSlots \in parsed.hours
                /\ slot % HourSlots \in parsed.minutes

Occurrences(schedule, from, to) ==
    {u \in from..to : IsOccurrence(schedule, u)}
=============================================================================
