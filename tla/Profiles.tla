------------------------------ MODULE Profiles ------------------------------
(***************************************************************************)
(* Profiles (internal/config/profile_manager.go, `agis profile`, `agis      *)
(* config set`, `agis setup`): directories under one base, the pointer      *)
(* .active_profile to one of them, and the processes that use them at the   *)
(* same time, without a lock.  Only the default profile is always there.    *)
(*                                                                         *)
(* A config.yaml is reduced to the home its db.path lies in, which is       *)
(* written as an absolute path; SOUL.md, the policy and the skills to the   *)
(* profile their text came from.  Renames are atomic, their temporary files *)
(* have unique names.                                                       *)
(***************************************************************************)
EXTENDS Integers, FiniteSets

CONSTANTS
  Commands,      (* processes, each with one command after the other         *)
  Named,         (* the names of profiles                                    *)
  Unset,         (* no name                                                  *)
  MaxCommands    (* bound: commands run                                      *)

Default == "default"
Homes == Named \union {Default}
ASSUME ProfilesAssumption ==
  Default \notin Named /\ Unset \notin Homes /\ MaxCommands \in Nat

VARIABLES
  exists,   (* the named profiles with a directory                           *)
  conf,     (* home -> the home of the database its config.yaml names, or    *)
            (* Unset for no config.yaml                                      *)
  persona,  (* home -> where its SOUL.md came from, or Unset                 *)
  pointer,  (* the name in .active_profile, or Unset                         *)
  env,      (* the name a process has from --profile or AGIS_PROFILE, or     *)
            (* Unset                                                         *)
  step,     (* where a process stands                                        *)
  name,     (* the profile its command is about                              *)
  option,   (* the clone's source; "force"; the config it has read           *)
  begun,    (* how many commands were begun                                  *)
  excused   (* history: what voids the promises below has happened           *)

files == <<exists, conf, persona>>
command == <<env, step, name, option, begun>>
profileVars == <<files, pointer, command, excused>>

Steps == {"idle", "use", "judge", "reset", "remove", "mkdir", "config", "soul",
          "load", "save"}
ProfilesTypeOK ==
  /\ exists \subseteq Named
  /\ {conf, persona} \subseteq [Homes -> Homes \union {Unset}]
  /\ pointer \in Named \union {Unset}
  /\ env \in [Commands -> Homes \union {Unset}]
  /\ step \in [Commands -> Steps]
  /\ name \in [Commands -> Homes \union {Unset}]
  /\ option \in [Commands -> Homes \union {Unset, "force", "set", "setup"}]
  /\ begun \in 0 .. MaxCommands
  /\ excused \in BOOLEAN

ProfilesInit ==
  /\ exists = {} /\ pointer = Unset
  /\ conf \in [Homes -> {Unset}] \union
              {[h \in Homes |-> IF h = Default THEN Default ELSE Unset]}
  /\ persona = [h \in Homes |-> IF h = Default THEN Default ELSE Unset]
  /\ env = [c \in Commands |-> Unset]
  /\ step = [c \in Commands |-> "idle"]
  /\ name = [c \in Commands |-> Unset]
  /\ option = [c \in Commands |-> Unset]
  /\ begun = 0 /\ excused = FALSE

(* ResolveProfilePaths: the name given to the process, the pointer, or the  *)
(* default; whether the profile exists is not asked.                        *)
Resolved(given) ==
  CASE given # Unset -> given
    [] given = Unset /\ pointer # Unset -> pointer
    [] OTHER -> Default

There(h) == h = Default \/ h \in exists
Busy == {c \in Commands : step[c] # "idle"}

Starts(c, given, s, n, o) ==
  /\ step[c] = "idle" /\ begun < MaxCommands
  /\ begun' = begun + 1
  /\ env' = [env EXCEPT ![c] = given]
  /\ step' = [step EXCEPT ![c] = s]
  /\ name' = [name EXCEPT ![c] = n]
  /\ option' = [option EXCEPT ![c] = o]
  /\ excused' = (excused \/ Busy # {})
Goes(c, from, to) ==
  /\ step[c] = from
  /\ step' = [step EXCEPT ![c] = to]
  /\ UNCHANGED <<env, name, begun>>
Ends(c) ==
  /\ step' = [step EXCEPT ![c] = "idle"]
  /\ env' = [env EXCEPT ![c] = Unset]
  /\ name' = [name EXCEPT ![c] = Unset]
  /\ option' = [option EXCEPT ![c] = Unset]
  /\ UNCHANGED begun

-----------------------------------------------------------------------------
(* `agis profile use`: the default has no pointer; any other name is looked *)
(* for, and then the pointer is replaced.                                   *)
UseDefault ==
  /\ begun < MaxCommands /\ begun' = begun + 1
  /\ pointer' = Unset
  /\ excused' = (excused \/ Busy # {})
  /\ UNCHANGED <<files, env, step, name, option>>
Use(c, n) ==
  /\ n \in exists /\ Starts(c, Unset, "use", n, Unset)
  /\ UNCHANGED <<files, pointer>>
PointTo(c) ==
  /\ step[c] = "use" /\ Ends(c)
  /\ pointer' = name[c]
  /\ UNCHANGED <<files, excused>>

-----------------------------------------------------------------------------
(* `agis profile delete`. *)
Delete(c, given, n, o) ==
  /\ n \in exists /\ Starts(c, given, "judge", n, o)
  /\ UNCHANGED <<files, pointer>>

(* The active profile is the one this process resolves: a process that was  *)
(* given another one may delete the profile the pointer names.              *)
Active(c) == Resolved(env[c]) = name[c]
Judge(c) ==
  /\ \/ ~Active(c) /\ Goes(c, "judge", "remove") /\ UNCHANGED option
     \/ /\ Active(c) /\ option[c] = Unset
        /\ step[c] = "judge" /\ Ends(c)
     \/ /\ Active(c) /\ option[c] # Unset
        /\ Goes(c, "judge", "reset") /\ UNCHANGED option
  /\ excused' = (excused \/ (~Active(c) /\ pointer = name[c]))
  /\ UNCHANGED <<files, pointer>>

(* Mutant: the pointer stays. *)
ResetNothing(c) ==
  /\ Goes(c, "reset", "remove")
  /\ UNCHANGED <<files, pointer, option, excused>>

(* The pointer is removed, whatever it names by now; an error is ignored.   *)
Reset(c) ==
  /\ Goes(c, "reset", "remove")
  /\ \/ pointer' = Unset /\ UNCHANGED excused
     \/ UNCHANGED pointer /\ excused' = TRUE
  /\ UNCHANGED <<files, option>>

(* RemoveAll, to the end or up to a file it cannot remove. *)
RemoveDir(c) ==
  /\ step[c] = "remove" /\ Ends(c)
  /\ conf' = [conf EXCEPT ![name[c]] = Unset]
  /\ \/ /\ exists' = exists \ {name[c]}
        /\ persona' = [persona EXCEPT ![name[c]] = Unset]
     \/ UNCHANGED <<exists, persona>>
  /\ UNCHANGED <<pointer, excused>>

-----------------------------------------------------------------------------
(* `agis profile create`: its directory is made before the source of the    *)
(* clone is looked for.                                                     *)
Create(c, given, n, from) ==
  /\ n \in Named \ exists /\ Starts(c, given, "mkdir", n, from)
  /\ UNCHANGED <<files, pointer>>
MakeDir(c) ==
  /\ Goes(c, "mkdir", "config")
  /\ exists' = exists \union {name[c]}
  /\ UNCHANGED <<conf, persona, pointer, option, excused>>

(* The source's config.yaml is copied as it is.  Where there is none, the   *)
(* defaults are saved, with the paths of the profile this process resolves. *)
(* Saving makes the directory again if it is gone.                          *)
MakeConfig(c) ==
  /\ LET from == option[c]
         copied == from # Unset /\ conf[from] # Unset
     IN  /\ \/ from = Unset /\ step[c] = "config" /\ Ends(c)
            \/ /\ from # Unset /\ There(from)
               /\ Goes(c, "config", "soul") /\ UNCHANGED option
         /\ conf' = [conf EXCEPT ![name[c]] =
                       IF copied THEN conf[from] ELSE Resolved(env[c])]
  /\ exists' = exists \union {name[c]}
  /\ UNCHANGED <<persona, pointer, excused>>
CopyPersona(c) ==
  /\ step[c] = "soul" /\ Ends(c)
  /\ LET from == option[c]
     IN  /\ persona' = IF persona[from] = Unset THEN persona
                       ELSE [persona EXCEPT ![name[c]] = persona[from]]
         /\ exists' = IF persona[from] = Unset THEN exists
                      ELSE exists \union {name[c]}
  /\ UNCHANGED <<conf, pointer, excused>>

-----------------------------------------------------------------------------
(* `agis config set`: the place to save to is resolved, the configuration   *)
(* is read, for which the profile is resolved once more, and saved whole.   *)
(* In between another process may move the pointer.                         *)
SetConfig(c, given) ==
  /\ Starts(c, given, "load", Resolved(given), "set")
  /\ UNCHANGED <<files, pointer>>

(* `agis setup`: the wizard resolves the place and asks its questions, for  *)
(* as long as that takes; only then it reads the file that is there now,    *)
(* and saves that with the answers.                                         *)
RunSetup(c, given) ==
  /\ Starts(c, given, "load", Resolved(given), "setup")
  /\ UNCHANGED <<files, pointer>>

(* Mutant: it is saved where the root's configuration is. *)
SaveToRoot(c) ==
  /\ step[c] = "save" /\ Ends(c)
  /\ conf' = [conf EXCEPT ![Default] = option[c]]
  /\ exists' = exists
  /\ UNCHANGED <<persona, pointer, excused>>
LoadConfig(c) ==
  /\ Goes(c, "load", "save")
  /\ LET from == IF option[c] = "setup" THEN name[c] ELSE Resolved(env[c])
     IN  option' = [option EXCEPT ![c] = IF conf[from] # Unset THEN conf[from]
                                         ELSE Resolved(env[c])]
  /\ UNCHANGED <<files, pointer, excused>>
SaveConfig(c) ==
  /\ step[c] = "save" /\ Ends(c)
  /\ conf' = [conf EXCEPT ![name[c]] = option[c]]
  /\ exists' = exists \union ({name[c]} \ {Default})
  /\ UNCHANGED <<persona, pointer, excused>>

(* A command gives up on an error, or is killed. *)
Abandon(c) ==
  /\ c \in Busy /\ Ends(c)
  /\ UNCHANGED <<files, pointer, excused>>

ProfilesNext ==
  \/ UseDefault
  \/ \E c \in Commands :
       \/ PointTo(c) \/ Judge(c) \/ Reset(c) \/ RemoveDir(c)
       \/ MakeDir(c) \/ MakeConfig(c) \/ CopyPersona(c)
       \/ LoadConfig(c) \/ SaveConfig(c) \/ Abandon(c)
       \/ \E n \in Named : Use(c, n)
       \/ \E given \in Homes \union {Unset} :
            \/ SetConfig(c, given) \/ RunSetup(c, given)
            \/ \E n \in Named :
                 \/ \E o \in {Unset, "force"} : Delete(c, given, n, o)
                 \/ \E from \in Homes \union {Unset} :
                      Create(c, given, n, from)

ProfilesSpec == ProfilesInit /\ [][ProfilesNext]_profileVars

-----------------------------------------------------------------------------
(* The database a process in a profile works on (config.Load and main): the *)
(* one its config.yaml names, or its own.                                   *)
Database(h) == IF conf[h] = Unset THEN h ELSE conf[h]

(* The pointer names a profile that is there, unless commands ran at the    *)
(* same time, the pointer could not be removed, or a profile was deleted by *)
(* a process that had been given another one.                               *)
PointerHolds == ~excused => pointer = Unset \/ pointer \in exists

(* The root keeps to its own database, with the same reservation: what a    *)
(* profile was given never comes back to the root.                          *)
RootKeepsItsOwn == ~excused => Database(Default) = Default

ProfilesHold == PointerHolds /\ RootKeepsItsOwn

(* setup-profiles/spec.md:127: what runs in a profile never works on the    *)
(* database of another profile or of the root.                              *)
ProfilesIsolated == \A h \in Homes : There(h) => Database(h) = h
=============================================================================
