SPECIFICATION StoresSpec
CONSTANTS
  KeyCount = 3
  PoolCalls = {k1, k2}
  LimitsMove = 1
  Procs = {agent, command}
  Requests <- SomeRequests
  Kind <- SubjectKind
  Rules <- SomeRules
  Covers <- PatternCovers
  Tiers = {"sandbox", "standard", "full"}
  OnDisk <- FirstFiles
  MaxEdits = 2
  db = db
  wal = wal
  Files <- ProfileFiles
  Guarded <- GuardedFiles
  NoFile = NoFile
  MaxWrites = 2
  MaxRestores = 2
  ApiRequests = {r1, r2}
  ApiAsks <- SomeAsks
  Untitled = "-"
  MaxElsewhere = 1
  Commands = {c1, c2}
  Named = {work}
  Unset = Unset
  MaxCommands = 3
  Runs = {p1, p2}
  plug1 = plug1
  plug2 = plug2
  Plugins <- TwoPlugins
  Orders <- SomeOrders
  Updaters = {u1, u2}
  MaxVersion = 2
  Hubs = {h1, h2}
  NoName = NoName
  SkillNames = {"s", "s-x"}
  DirOrder <- TwoSkillEntries
  UserFiles <- UserSkills
  MaxSkillWrites = 2
  Terminals = {t1, t2}
  Topics = {topic}
  MaxSessions = 1
  MaxSaid = 1
  MaxAnswers = 2
  MaxWork = 3
  MinutesPerHour = 2
  HoursPerDay = 3
  DaysPerWeek = 2
  DaysBefore <- TwoMonths
  YearsAhead = 2
  Zones <- KindZones
  Afters <- StartTimes
  Specs <- SomeSpecs
INVARIANTS
  StoresTypeOK
  GoodKeyIsFound
  PolicyKept
  ProfileSurvives
  ApiKeepsItsWord
  ProfilesHold
  ExtensionsKept
  UpdateKept
  SearchSkipsNothing
PROPERTIES
  BookHolds
CHECK_DEADLOCK FALSE
