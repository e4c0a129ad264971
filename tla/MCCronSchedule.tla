--------------------------- MODULE MCCronSchedule ---------------------------
(* The small calendar of MCBackground in a zone west of Greenwich whose      *)
(* clocks are put forward at the second hour of a day.                       *)
EXTENDS CronSchedule
TwoMonths == <<0, 2, 3>>
Every(from, to) == {[from |-> from, to |-> to, step |-> 1]}
DailySpecs ==
  {[minutes |-> Every(0, 0), hours |-> Every(h, h), doms |-> Every(1, 2),
    months |-> Every(1, 2), dows |-> Every(0, 2)] : h \in 0 .. 2}
WesternZone == {[before |-> -4, after |-> -2, at |-> 48]}
StartTimes == 40 .. 50
FairScheduleSpec == ScheduleSpec /\ ScheduleFairness
=============================================================================
