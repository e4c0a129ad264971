------------------------------ MODULE PluginStore ------------------------------
(***************************************************************************)
(* `agis plugins enable | disable` (cmd/agis/plugins.go) over the plugin    *)
(* manager's state file (internal/plugins/manager.go).  A command reads the *)
(* file, then the manifests, changes one plugin in memory and writes the    *)
(* file anew: truncated first, then filled.  A file that does not parse is  *)
(* taken for an empty one, and a plugin without a valid manifest for one    *)
(* that is not there.  The user installs, edits and removes plugins at any  *)
(* time, so a command may find any of them.  Nothing locks the state file.  *)
(*                                                                         *)
(* The file is the set of plugins it calls enabled: one it calls disabled   *)
(* and one it does not name are the same to every reader.                   *)
(***************************************************************************)
EXTENDS FiniteSets

CONSTANTS
  Runs,      (* processes that run the command                              *)
  Plugins,
  Orders     (* what a command may be given: [plugin, on]                   *)

ASSUME PluginAssumption ==
  Orders \subseteq [plugin : Plugins, on : BOOLEAN] /\ Orders # {}

VARIABLES
  stateFile,  (* the plugins state.json calls enabled                        *)
  turn,       (* run -> "free", "ready" or "wiped"                           *)
  job,        (* run -> [plugin, on]: what it was asked for                  *)
  known,      (* run -> the plugins its manager has                          *)
  enabled,    (* run -> those it holds enabled                               *)
  missed,     (* history: run -> plugins another run wrote since it read     *)
  crossed,    (* history: runs another has written past since they truncated *)
  word,       (* history: plugins whose last command that succeeded said on  *)
  stale,      (* history: plugins overwritten from an older read             *)
  dropped     (* history: plugins a write left out or a torn file lost       *)

pluginVars == <<stateFile, turn, job, known, enabled, missed, crossed, word,
                stale, dropped>>

AnyJob == CHOOSE j \in Orders : TRUE

PluginTypeOK ==
  /\ {stateFile, word, stale, dropped} \subseteq SUBSET Plugins
  /\ turn \in [Runs -> {"free", "ready", "wiped"}]
  /\ job \in [Runs -> Orders]
  /\ {known, enabled, missed} \subseteq [Runs -> SUBSET Plugins]
  /\ crossed \subseteq Runs

PluginInit ==
  /\ stateFile = {}
  /\ turn = [r \in Runs |-> "free"] /\ job = [r \in Runs |-> AnyJob]
  /\ known = [r \in Runs |-> {}] /\ enabled = known /\ missed = known
  /\ crossed = {} /\ word = {} /\ stale = {} /\ dropped = {}

Over(r) ==
  /\ turn' = [turn EXCEPT ![r] = "free"] /\ job' = [job EXCEPT ![r] = AnyJob]
  /\ known' = [known EXCEPT ![r] = {}] /\ enabled' = [enabled EXCEPT ![r] = {}]
Writing == {r \in Runs : turn[r] = "wiped"}

(* Manager.Load: the state, from a file that reads as empty while another   *)
(* run has truncated it, and then the manifests that are there and valid.   *)
LoadPlugins(r, j, found) ==
  /\ turn[r] = "free"
  /\ turn' = [turn EXCEPT ![r] = "ready"]
  /\ job' = [job EXCEPT ![r] = j]
  /\ known' = [known EXCEPT ![r] = found]
  /\ enabled' = [enabled EXCEPT ![r] = stateFile \intersect found]
  /\ missed' = [missed EXCEPT ![r] = IF Writing = {} THEN {} ELSE Plugins]
  /\ UNCHANGED <<stateFile, crossed, word, stale, dropped>>

(* Enable and Disable: memory changes, and os.WriteFile truncates the file. *)
Change(r) ==
  LET j == job[r] IN
  /\ turn[r] = "ready" /\ j.plugin \in known[r]
  /\ turn' = [turn EXCEPT ![r] = "wiped"]
  /\ enabled' = [enabled EXCEPT ![r] = IF j.on THEN @ \union {j.plugin}
                                       ELSE @ \ {j.plugin}]
  /\ stateFile' = {}
  /\ crossed' = crossed \ {r}
  /\ UNCHANGED <<job, known, missed, word, stale, dropped>>

(* A plugin that is not there, or a file that cannot be opened.  *)
Refused(r) ==
  /\ turn[r] = "ready" /\ Over(r)
  /\ missed' = [missed EXCEPT ![r] = {}]
  /\ UNCHANGED <<stateFile, crossed, word, stale, dropped>>

(* Mutant: what a run writes is the plugin it was asked for, alone. *)
ContentOfJob(r) == enabled[r] \intersect {job[r].plugin}
(* What a run writes: all its manager has. *)
Content(r) == enabled[r]

(* The write.  Where two wrote at a time, the longer one's tail may stay    *)
(* behind the shorter one and the file parse no more.                       *)
Written(r) ==
  LET p == job[r].plugin IN
  /\ turn[r] = "wiped" /\ Over(r)
  /\ word' = IF job[r].on THEN word \union {p} ELSE word \ {p}
  /\ stale' = (stale \union missed[r]) \ {p}
  /\ \/ /\ stateFile' = Content(r)
        /\ dropped' = (dropped \union (word \ known[r])) \ {p}
     \/ /\ r \in crossed /\ stateFile' = {} /\ dropped' = Plugins
  /\ missed' = [s \in Runs |-> IF s = r \/ turn[s] = "free" THEN {}
                               ELSE missed[s] \union {p}]
  /\ crossed' = (crossed \ {r}) \union (Writing \ {r})

(* The write fails or the process is killed in it. *)
WriteLost(r) ==
  /\ turn[r] = "wiped" /\ Over(r)
  /\ stateFile' \in {stateFile, {}}
  /\ dropped' = Plugins
  /\ missed' = [missed EXCEPT ![r] = {}]
  /\ crossed' = (crossed \ {r}) \union (Writing \ {r})
  /\ UNCHANGED <<word, stale>>

PluginNext ==
  \E r \in Runs :
    \/ \E j \in Orders, found \in SUBSET Plugins : LoadPlugins(r, j, found)
    \/ Change(r) \/ Refused(r) \/ Written(r) \/ WriteLost(r)

PluginSpec == PluginInit /\ [][PluginNext]_pluginVars

(* The file says of every plugin what the last command that succeeded said. *)
(* One is on that was turned off only if two commands overlapped; one is    *)
(* off that was turned on only if they did, a write stopped in the middle,  *)
(* or a command saved while the manifest was invalid (manager.go:166, 291). *)
PluginsKept ==
  /\ stateFile \ stale \subseteq word
  /\ Writing = {} => word \ (stale \union dropped) \subseteq stateFile
=============================================================================
