------------------------------ MODULE MCStores ------------------------------
(* What lasts longer than a turn and has no lock around it: a behaviour has  *)
(* one of a provider's keys, the policy file, a profile that is backed up    *)
(* and restored, the server's conversations, the profiles, the plugins'      *)
(* state, the executable under update, the skills, the sessions, and the     *)
(* search for a schedule's next run.                                         *)
EXTENDS CredentialPool, PolicyStore, ProfileBackup, ApiSessions, Profiles,
        PluginStore, Updater, SkillStore, SessionBook, CronSchedule
CONSTANTS db, wal

Req(b, c, s) == [backend |-> b, category |-> c, subject |-> s]
Rule(b, c, s, a) == [backend |-> b, category |-> c, pattern |-> s, action |-> a]
SomeRequests == {Req("local", "commands", "git log"),
                 Req("local", "commands", "rm x"),
                 Req("web", "network", "host")}
SubjectKind == [s \in {"git log", "rm x", "host"} |->
  CASE s = "git log" -> "readonly"
    [] s = "rm x" -> "destructive"
    [] OTHER -> "other"]
SomeRules == {Rule("local", "commands", "*", "allow"),
              Rule("local", "commands", "rm", "deny"),
              Rule("web", "network", "host", "allow")}
PatternCovers == {<<"*", "git log">>, <<"*", "rm x">>, <<"rm", "rm x">>,
                  <<"host", "host">>}
(* A file that cannot be parsed, and one written by hand.                   *)
FirstFiles ==
  {[form |-> "corrupt", policy |-> Empty],
   Whole([tiers |-> [b \in Backends |-> IF b = "local" THEN "full" ELSE "sandbox"],
          rules |-> {Rule("local", "commands", "rm", "allow"),
                     Rule("local", "commands", "rm", "deny")}])}

(* A profile of its database, which shows that the profile exists, and the  *)
(* database's log, which comes and goes.                                    *)
ProfileFiles == {db, wal}
GuardedFiles == {db}

(* Two sessions by name, one asked for twice, a session by its id, and none.*)
Ask(b, n, s) == [by |-> b, name |-> n, stream |-> s]
SomeAsks == {Ask("name", "A", TRUE), Ask("name", "A", FALSE),
             Ask("name", "B", FALSE), Ask("id", "-", TRUE),
             Ask("nothing", "-", FALSE)}

(* Skills s and s-x, whose files stand in the directory between those of s; *)
(* the user puts s in either place, and under s-x one that bears its name.  *)
SkillAt(p, s) == [place |-> p, stem |-> s]
TwoSkillEntries == <<SkillAt("nested", "s"), SkillAt("nested", "s-x"),
                     SkillAt("flat", "s-x"), SkillAt("flat", "s")>>
UserSkills == {[place |-> "nested", stem |-> "s", name |-> "s"],
               [place |-> "flat", stem |-> "s", name |-> "s"],
               [place |-> "nested", stem |-> "s-x", name |-> "s"]}

CONSTANTS plug1, plug2
TwoPlugins == {plug1, plug2}
SomeOrders == {[plugin |-> plug1, on |-> TRUE], [plugin |-> plug1, on |-> FALSE],
               [plugin |-> plug2, on |-> TRUE]}

(* Days of three hours of two minutes, two days to the week, a year of a    *)
(* month of two days and one of one.                                        *)
TwoMonths == <<0, 2, 3>>
Every(from, to, by) == {[from |-> from, to |-> to, step |-> by]}
Only(v) == Every(v, v, 1)
SomeSpecs ==
  [minutes : {Only(1), Every(0, 1, 1)},
   hours   : {Only(0), Only(1), Only(2), Every(0, 2, 2),
              Only(1) \union Only(2)},
   doms    : {Only(1), Only(2), Every(1, 2, 1)},
   months  : {Only(1), Only(2), Every(1, 2, 1)},
   dows    : {Only(1), Only(2), Every(0, 2, 1), Every(2, 1, 1)}]
(* Clocks put forward at the second hour of a day, or at midnight, east of  *)
(* Greenwich; clocks put back west of it.                                   *)
KindZones == {[before |-> 2, after |-> 4, at |-> 42],
              [before |-> 2, after |-> 4, at |-> 40],
              [before |-> -2, after |-> -4, at |-> 48]}
StartTimes == {38, 41}
ASSUME ZonesAreKind == \A z \in Zones : KindZone(z)

-----------------------------------------------------------------------------
VARIABLE part
storesVars == <<part, poolVars, policyVars, backupVars, apiVars, profileVars,
                pluginVars, updVars, skillVars, bookVars, scheduleVars>>

NoSearch == /\ zone = CHOOSE z \in Zones : TRUE
            /\ spec = CHOOSE s \in Specs : Accepted(s)
            /\ schedule = Parsed(spec)
            /\ after = CHOOSE a \in Afters : TRUE
            /\ t = 0 /\ answer = "zero"

StoresInit ==
  /\ part \in {"pool", "policy", "backup", "api", "profiles", "plugins",
               "update", "skills", "book", "search"}
  /\ PoolInit /\ (part # "pool" => limited = {})
  /\ PolicyInit /\ (part # "policy" => linked["policy"] = NoInode)
  /\ BackupInit /\ (part # "backup" => live = Nothing /\ target = Nothing)
  /\ ApiInit /\ (part # "api" =>
                   asking = [r \in ApiRequests |-> CHOOSE q \in ApiAsks : TRUE])
  /\ ProfilesInit /\ (part # "profiles" => conf[Default] = Unset)
  /\ PluginInit
  /\ UpdaterInit /\ chosen[1] = "agis"
                 /\ (windows \/ ~stamped => chosen[2] = "agis")
                 /\ (part # "update" => ~windows /\ stamped /\ chosen[2] = "agis")
  /\ SkillInit
  /\ BookInit
  /\ IF part = "search" THEN ScheduleInit ELSE NoSearch

(* Everything but the behaviour's own part stays as it is. *)
TheRestStays ==
  /\ UNCHANGED part
  /\ part # "pool"     => UNCHANGED poolVars
  /\ part # "policy"   => UNCHANGED policyVars
  /\ part # "backup"   => UNCHANGED backupVars
  /\ part # "api"      => UNCHANGED apiVars
  /\ part # "profiles" => UNCHANGED profileVars
  /\ part # "plugins"  => UNCHANGED pluginVars
  /\ part # "update"   => UNCHANGED updVars
  /\ part # "skills"   => UNCHANGED skillVars
  /\ part # "book"     => UNCHANGED bookVars
  /\ part # "search"   => UNCHANGED scheduleVars

StoresNext ==
  /\ TheRestStays
  /\ \/ part = "pool" /\ PoolNext
     \/ part = "policy" /\ PolicyNext
     \/ part = "backup" /\ BackupNext
     \/ part = "api" /\ ApiNext
     \/ part = "profiles" /\ ProfilesNext
     \/ part = "plugins" /\ PluginNext
     \/ part = "update" /\ UpdaterNext
     \/ part = "skills" /\ SkillNext
     \/ part = "book" /\ BookNext
     \/ part = "search" /\ ScheduleNext

StoresSpec == StoresInit /\ [][StoresNext]_storesVars

StoresTypeOK ==
  CASE part = "pool"     -> PoolTypeOK
    [] part = "policy"   -> PolicyTypeOK
    [] part = "backup"   -> BackupTypeOK
    [] part = "api"      -> ApiTypeOK
    [] part = "profiles" -> ProfilesTypeOK
    [] part = "plugins"  -> PluginTypeOK
    [] part = "update"   -> UpdaterTypeOK
    [] part = "skills"   -> SkillTypeOK
    [] part = "book"     -> BookTypeOK
    [] part = "search"   -> ScheduleTypeOK

(* A plugin's and a skill's files stay what they were made to be. *)
ExtensionsKept == PluginsKept /\ SkillsKept

(* The search passes no minute that the schedule asks for. *)
SearchSkipsNothing == part = "search" => NothingSkipped
=============================================================================
