---------------------------- MODULE CronSchedule ----------------------------
(***************************************************************************)
(* Schedules (internal/cron/scheduler.go): ParseSchedule, and the search of *)
(* CronSchedule.Next for the first minute after a given one that matches.   *)
(* Every step of its loop jumps over a month, a day, an hour or a minute    *)
(* that cannot match.  The search runs on instants, the fields are read     *)
(* from the local clock, and the jumps go through time.Date, which has to   *)
(* choose when the clocks are put forward and the wanted hour is missing.   *)
(* The calendar is small: a few minutes, hours and days, months of unequal  *)
(* length (so that "the 31st of February" exists), years without leap days. *)
(***************************************************************************)
EXTENDS Integers, Sequences

CONSTANTS
  MinutesPerHour, HoursPerDay, DaysPerWeek,
  DaysBefore,    (* the table of package time: the days of a year before     *)
                 (* each month and, last, before the next year               *)
  YearsAhead,    (* how far the search goes, 5 in the code                   *)
  Zones,         (* [before, after, at]: two UTC offsets, in minutes, and    *)
                 (* the instant the second takes over                        *)
  Afters,        (* bound: the instants the search is started from           *)
  Specs          (* what may be written in a schedule's five fields: a set   *)
                 (* of items [from, to, step] each; "*" is the whole range   *)

Items == [from : Int, to : Int, step : Int]
ASSUME CalendarAssumption ==
  /\ {MinutesPerHour, HoursPerDay, DaysPerWeek, YearsAhead} \subseteq Nat \ {0}
  /\ DaysBefore \in Seq(Nat) /\ Len(DaysBefore) > 1 /\ DaysBefore[1] = 0
  /\ \A m, n \in DOMAIN DaysBefore : m < n => DaysBefore[m] < DaysBefore[n]
  /\ Zones \subseteq [before : Int, after : Int, at : Nat]
  /\ Afters \subseteq Nat
  /\ Specs \subseteq [minutes : SUBSET Items, hours : SUBSET Items,
                      doms : SUBSET Items, months : SUBSET Items,
                      dows : SUBSET Items]

VARIABLES
  zone, spec, after,      (* the arguments                                   *)
  schedule,               (* the values of each field                        *)
  t,                      (* the candidate instant                           *)
  answer                  (* "none yet", "t", or "zero" for the zero time    *)

scheduleVars == <<zone, spec, after, schedule, t, answer>>

-----------------------------------------------------------------------------
(* parseField: an item out of bounds, or upside down, rejects the field.    *)
InBounds(items, min, max) ==
  items # {} /\ \A item \in items : /\ min <= item.from /\ item.from <= item.to
                                    /\ item.to <= max /\ item.step > 0
Values(items) ==
  UNION {{v \in item.from .. item.to : (v - item.from) % item.step = 0} :
         item \in items}

Months == 1 .. Len(DaysBefore) - 1
DaysIn(m) == DaysBefore[m + 1] - DaysBefore[m]
Longest == CHOOSE n \in {DaysIn(m) : m \in Months} :
             \A m \in Months : DaysIn(m) <= n
Accepted(s) ==
  /\ InBounds(s.minutes, 0, MinutesPerHour - 1)
  /\ InBounds(s.hours, 0, HoursPerDay - 1)
  /\ InBounds(s.doms, 1, Longest)
  /\ InBounds(s.months, 1, Len(DaysBefore) - 1)
  /\ InBounds(s.dows, 0, DaysPerWeek)

(* Mutant: the other name of the first day of the week stays. *)
WeekdaysAsWritten(days) == days

(* Sunday is both the first day of the week and the one past its end.       *)
Weekdays(days) ==
  IF DaysPerWeek \in days THEN (days \ {DaysPerWeek}) \union {0} ELSE days

Parsed(s) == [minutes |-> Values(s.minutes), hours |-> Values(s.hours),
              doms |-> Values(s.doms), months |-> Values(s.months),
              dows |-> Weekdays(Values(s.dows))]

-----------------------------------------------------------------------------
(* The local clock. *)
OffsetAt(u) == IF u < zone.at THEN zone.before ELSE zone.after

DaysPerYear == DaysBefore[Len(DaysBefore)]
MinutesPerDay == MinutesPerHour * HoursPerDay

(* What Year, Month, Day, Weekday, Hour and Minute read off an instant.     *)
Clock(u) ==
  LET local == u + OffsetAt(u)
      days  == local \div MinutesPerDay
      inYear == days % DaysPerYear
      month == CHOOSE m \in Months :
                 DaysBefore[m] <= inYear /\ inYear < DaysBefore[m + 1]
  IN [year    |-> days \div DaysPerYear,
      month   |-> month,
      day     |-> inYear - DaysBefore[month] + 1,
      weekday |-> days % DaysPerWeek,
      hour    |-> (local \div MinutesPerHour) % HoursPerDay,
      minute  |-> local % MinutesPerHour]

(* time.Date: a field past its range carries over.  The offset is the one   *)
(* in force at the wanted time read as UTC, unless the instant that yields  *)
(* lies beyond the transition: then the one in force there.  For a missing  *)
(* hour this is an hour later east of Greenwich, an hour earlier west.      *)
Date(year, month, day, hour, minute) ==
  LET days  == year * DaysPerYear + DaysBefore[month] + day - 1
      local == days * MinutesPerDay + hour * MinutesPerHour + minute
      guess == local - OffsetAt(local)
  IN IF (local < zone.at) <=> (guess < zone.at) THEN guess
     ELSE local - OffsetAt(guess)

-----------------------------------------------------------------------------
(* Mutants: the next month is entered on the day the search had reached;    *)
(* the search begins with the minute it was asked to go beyond.             *)
NextMonthSameDay(c) == Date(c.year, c.month + 1, c.day, 0, 0)
FirstMinuteItself == after

FirstMinute == after + 1

(* AddDate(5, 0, 0) of the first minute. *)
MaxTime ==
  LET c == Clock(FirstMinute)
  IN Date(c.year + YearsAhead, c.month, c.day, c.hour, c.minute)

NextMonth(c) == Date(c.year, c.month + 1, 1, 0, 0)
NextDay(c) == Date(c.year, c.month, c.day + 1, 0, 0)
NextHour(c) == Date(c.year, c.month, c.day, c.hour + 1, 0)

DayMatches(c) == c.day \in schedule.doms /\ c.weekday \in schedule.dows

Matches(u) ==
  LET c == Clock(u)
  IN /\ c.month \in schedule.months
     /\ DayMatches(c)
     /\ c.hour \in schedule.hours
     /\ c.minute \in schedule.minutes

-----------------------------------------------------------------------------
ScheduleTypeOK ==
  /\ zone \in Zones /\ spec \in Specs /\ after \in Afters
  /\ schedule.months \subseteq Months
  /\ schedule.dows \subseteq 0 .. DaysPerWeek - 1
  /\ t \in Int
  /\ answer \in {"none yet", "t", "zero"}

ScheduleInit ==
  /\ zone \in Zones /\ spec \in Specs /\ after \in Afters
  /\ Accepted(spec) /\ schedule = Parsed(spec)
  /\ t = FirstMinute
  /\ answer = "none yet"

Searching == answer = "none yet" /\ t < MaxTime

(* One iteration: the coarsest field that does not match decides the jump.  *)
Jump ==
  /\ Searching
  /\ ~Matches(t)
  /\ t' = LET c == Clock(t)
          IN CASE c.month \notin schedule.months -> NextMonth(c)
               [] c.month \in schedule.months /\ ~DayMatches(c) -> NextDay(c)
               [] /\ c.month \in schedule.months /\ DayMatches(c)
                  /\ c.hour \notin schedule.hours -> NextHour(c)
               [] OTHER -> t + 1
  /\ UNCHANGED <<zone, spec, after, schedule, answer>>

Found ==
  /\ Searching
  /\ Matches(t)
  /\ answer' = "t"
  /\ UNCHANGED <<zone, spec, after, schedule, t>>

GiveUpSearch ==
  /\ answer = "none yet" /\ t >= MaxTime
  /\ answer' = "zero"
  /\ UNCHANGED <<zone, spec, after, schedule, t>>

ScheduleNext == Jump \/ Found \/ GiveUpSearch
ScheduleSpec == ScheduleInit /\ [][ScheduleNext]_scheduleVars
(* Next runs to its end unless its loop does not: nothing in it can block.  *)
ScheduleFairness == WF_scheduleVars(ScheduleNext)

-----------------------------------------------------------------------------
(* What is written in a field asks for a value. *)
Asks(items, v) ==
  \E item \in items : /\ item.from <= v /\ v <= item.to
                      /\ (v - item.from) % item.step = 0
Wanted(u) ==
  LET c == Clock(u)
  IN /\ Asks(spec.months, c.month) /\ Asks(spec.doms, c.day)
     /\ Asks(spec.hours, c.hour) /\ Asks(spec.minutes, c.minute)
     /\ \/ Asks(spec.dows, c.weekday)
        \/ c.weekday = 0 /\ Asks(spec.dows, DaysPerWeek)

(* A zone whose transition the search copes with: no hour of the local clock *)
(* begins strictly inside the times that are left out or repeated, and where *)
(* the clocks are put back they are behind Greenwich then.  (Ahead of it     *)
(* Date makes the second of two like hours out of the jump to its start, and *)
(* the first is passed over.)                                                *)
KindZone(z) ==
  LET from == z.at + z.before
      to   == z.at + z.after
  IN  /\ \A x \in (from + 1 .. to - 1) \union (to + 1 .. from - 1) :
           x % MinutesPerHour # 0
      /\ to < from => z.after < 0

(* The search passes no minute that was asked for, so what it returns is    *)
(* the next one, and the zero time means there is none (scheduler.go:245,   *)
(* "the next time after 'after' that satisfies the cron specification").    *)
NothingSkipped ==
  /\ \A u \in after + 1 .. t - 1 : u < MaxTime => ~Wanted(u)
  /\ answer = "t" => t > after /\ Wanted(t)

(* The search comes to an end within its horizon (scheduler.go:251,         *)
(* "Search up to 5 years ahead").  It does so where the jumps move forward. *)
SearchEnds == <>(answer # "none yet")
=============================================================================
