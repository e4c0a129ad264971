SPECIFICATION FairScheduleSpec
CONSTANTS
  MinutesPerHour = 2
  HoursPerDay = 3
  DaysPerWeek = 2
  DaysBefore <- TwoMonths
  YearsAhead = 2
  Zones <- WesternZone
  Afters <- StartTimes
  Specs <- DailySpecs
PROPERTIES
  SearchEnds
CHECK_DEADLOCK FALSE
