------------------------------ MODULE SkillStore ------------------------------
(***************************************************************************)
(* Skills: the files of the skill directory, the rows of the database, and  *)
(* the index each running process keeps of them (internal/skills/loader.go, *)
(* hub.go, internal/memory/sqlite.go).  A load reads the directory, saves   *)
(* one skill after the other and lists what is there; `agis skill create`   *)
(* and `delete` and the tool create_skill change the files and load again,  *)
(* and a session that closes may save a skill of the agent's own.           *)
(*                                                                         *)
(* A file stands at <dir>/<stem>/SKILL.md ("nested") or <dir>/<stem>.md     *)
(* ("flat") and holds a name, which need not be its stem, and a text: the   *)
(* number of the write it came from, or Blank where the injection scan      *)
(* leaves nothing of it.                                                    *)
(***************************************************************************)
EXTENDS Integers, Sequences, SequencesExt

CONSTANTS
  Hubs,         (* processes with an index of skills                         *)
  SkillNames,   (* the names there may be                                    *)
  NoName,       (* and none, which no file and no request may have           *)
  DirOrder,     (* where files may stand, [place, stem], as os.ReadDir sorts *)
                (* the entries: "s" before "s.md", but "s-x" between the two *)
  UserFiles,    (* what the user may write: [place, stem, name]              *)
  MaxSkillWrites    (* bound: files written and skills extracted             *)

SkillEntries == [place : {"nested", "flat"}, stem : SkillNames]
ASSUME SkillAssumption ==
  /\ DirOrder \in Seq(SkillEntries) /\ ToSet(DirOrder) = SkillEntries
  /\ NoName \notin SkillNames /\ MaxSkillWrites \in Nat
  /\ UserFiles \subseteq [place : {"nested", "flat"}, stem : SkillNames,
                          name : SkillNames]

NoText == -1
Blank == 0
Texts == 0 .. MaxSkillWrites
Skills == [name : SkillNames, text : Texts]
NoSkill == [name |-> NoName, text |-> NoText]

VARIABLES
  skillFiles,   (* place -> stem -> the file there                           *)
  skillRows,    (* name -> the text of its row                               *)
  index,        (* hub -> name -> text                                       *)
  loading,      (* hub -> where it stands                                    *)
  toSave,       (* hub -> what a load has still to save, entry by entry      *)
  doomed,       (* hub -> the name under deletion                            *)
  skillWrites,  (* writes so far                                             *)
  fresh,        (* history: hubs that nothing happened beside since they read*)
  deleted,      (* history: names deleted, and not written again since       *)
  raced         (* history: names that may be there after their deletion     *)

skillVars == <<skillFiles, skillRows, index, loading, toSave, doomed, skillWrites,
               fresh, deleted, raced>>

SkillTypeOK ==
  /\ skillFiles \in [{"nested", "flat"} -> [SkillNames -> Skills \union {NoSkill}]]
  /\ skillRows \in [SkillNames -> Texts \union {NoText}]
  /\ index \in [Hubs -> [SkillNames -> Texts \union {NoText}]]
  /\ loading \in [Hubs -> {"off", "save", "idle", "drop", "reload"}]
  /\ toSave \in [Hubs -> [DOMAIN DirOrder -> Skills \union {NoSkill}]]
  /\ doomed \in [Hubs -> SkillNames \union {NoName}] /\ skillWrites \in Texts
  /\ fresh \subseteq Hubs /\ {deleted, raced} \subseteq SUBSET SkillNames

NoTexts == [n \in SkillNames |-> NoText]
NoSkills == [i \in DOMAIN DirOrder |-> NoSkill]
SkillInit ==
  /\ skillFiles = [place \in {"nested", "flat"} |-> [s \in SkillNames |-> NoSkill]]
  /\ skillRows = NoTexts /\ index = [h \in Hubs |-> NoTexts]
  /\ loading = [h \in Hubs |-> "off"] /\ toSave = [h \in Hubs |-> NoSkills]
  /\ doomed = [h \in Hubs |-> NoName] /\ skillWrites = 0
  /\ fresh = {} /\ deleted = {} /\ raced = {}

(* What LoadDir returns: the files in the order of the directory.           *)
Listing == [i \in DOMAIN DirOrder |->
              skillFiles[DirOrder[i].place][DirOrder[i].stem]]
Filled(list) == {i \in DOMAIN list : list[i] # NoSkill}

-----------------------------------------------------------------------------
(* LoadDir, at a start and after a change. *)
ReadSkills(h) ==
  /\ loading[h] \in {"off", "reload"}
  /\ loading' = [loading EXCEPT ![h] = "save"]
  /\ toSave' = [toSave EXCEPT ![h] = Listing]
  /\ fresh' = fresh \union {h}
  /\ UNCHANGED <<skillFiles, skillRows, index, doomed, skillWrites, deleted, raced>>

(* Mutant: a name that is there already keeps its row. *)
UpsertNew(n, t) == IF skillRows[n] = NoText THEN [skillRows EXCEPT ![n] = t]
                   ELSE skillRows
(* SaveSkill: the row of a name is made, or its text replaced.  *)
Upsert(n, t) == [skillRows EXCEPT ![n] = t]

(* One file whose text is empty after the scan ends the whole load: the     *)
(* files after it are not saved, and the index stays what it was.           *)
SaveNext(h) ==
  /\ loading[h] = "save"
  /\ \E i \in Filled(toSave[h]) :
       /\ \A k \in Filled(toSave[h]) : i <= k
       /\ LET f == toSave[h][i] IN
          \/ /\ f.text # Blank
             /\ skillRows' = Upsert(f.name, f.text)
             /\ toSave' = [toSave EXCEPT ![h][i] = NoSkill]
             /\ fresh' = fresh \intersect {h}
             /\ UNCHANGED loading
          \/ /\ f.text = Blank
             /\ loading' = [loading EXCEPT ![h] = "idle"]
             /\ toSave' = [toSave EXCEPT ![h] = NoSkills]
             /\ fresh' = fresh \ {h}
             /\ UNCHANGED skillRows
  /\ UNCHANGED <<skillFiles, index, doomed, skillWrites, deleted, raced>>
ListSkills(h) ==
  /\ loading[h] = "save" /\ Filled(toSave[h]) = {}
  /\ loading' = [loading EXCEPT ![h] = "idle"]
  /\ index' = [index EXCEPT ![h] = skillRows]
  /\ UNCHANGED <<skillFiles, skillRows, toSave, doomed, skillWrites, fresh, deleted, raced>>

HubEnds(h) ==
  /\ loading[h] # "off" /\ loading' = [loading EXCEPT ![h] = "off"]
  /\ index' = [index EXCEPT ![h] = NoTexts]
  /\ toSave' = [toSave EXCEPT ![h] = NoSkills]
  /\ fresh' = fresh \ {h}
  /\ UNCHANGED <<skillFiles, skillRows, doomed, skillWrites, deleted, raced>>

-----------------------------------------------------------------------------
(* A file is written: by the user, anywhere and with any name, or by the    *)
(* command or the tool, nested and under its own.                           *)
Put(place, s, n, t) ==
  /\ skillWrites < MaxSkillWrites /\ skillWrites' = skillWrites + 1
  /\ skillFiles' = [skillFiles EXCEPT ![place][s] = [name |-> n, text |-> t]]
  /\ fresh' = {} /\ deleted' = deleted \ {n}
  /\ raced' = IF \E g \in Hubs : loading[g] = "drop" /\ doomed[g] = n
              THEN raced \union {n} ELSE raced
UserWrites(f, t) ==
  /\ Put(f.place, f.stem, f.name, t)
  /\ UNCHANGED <<skillRows, index, loading, toSave, doomed>>

(* `skill create` looks for the name in its index, create_skill for a file, *)
(* unless told to overwrite.                                                *)
MakesSkill(h, n) ==
  /\ loading[h] = "idle"
  /\ Put("nested", n, n, skillWrites + 1)
  /\ loading' = [loading EXCEPT ![h] = "reload"]
  /\ UNCHANGED <<skillRows, index, toSave, doomed>>
CommandCreatesSkill(h, n, force) ==
  (force \/ index[h][n] = NoText) /\ MakesSkill(h, n)
AgentCreatesSkill(h, n, force) ==
  /\ force \/ \A place \in {"nested", "flat"} : skillFiles[place][n] = NoSkill
  /\ MakesSkill(h, n)

(* Mutant: only the nested file goes. *)
WithoutNested(n) == [skillFiles EXCEPT !["nested"][n] = NoSkill]
(* `skill delete`: both files of that stem, errors ignored, then the row.   *)
Without(n) == [skillFiles EXCEPT !["nested"][n] = NoSkill, !["flat"][n] = NoSkill]
RemoveFiles(h, n) ==
  /\ loading[h] = "idle" /\ index[h][n] # NoText
  /\ \/ skillFiles' = Without(n) /\ UNCHANGED raced
     \/ UNCHANGED skillFiles /\ raced' = raced \union {n}
  /\ loading' = [loading EXCEPT ![h] = "drop"]
  /\ doomed' = [doomed EXCEPT ![h] = n]
  /\ fresh' = {}
  /\ UNCHANGED <<skillRows, index, toSave, skillWrites, deleted>>

(* A file under another stem may bear the name too: it brings it back.      *)
Namesakes(n) == \E place \in {"nested", "flat"}, s \in SkillNames \ {n} :
                  skillFiles[place][s] # NoSkill /\ skillFiles[place][s].name = n
(* The row goes, or an error of the database is ignored and it stays; the   *)
(* command reloads and reports success either way.                          *)
DeleteRow(h) ==
  LET n == doomed[h] IN
  /\ loading[h] = "drop" /\ loading' = [loading EXCEPT ![h] = "reload"]
  /\ \/ /\ skillRows' = [skillRows EXCEPT ![n] = NoText]
        /\ raced' = IF \E g \in Hubs : \E i \in Filled(toSave[g]) :
                         toSave[g][i].name = n
                    THEN raced \union {n} ELSE raced
     \/ UNCHANGED skillRows /\ raced' = raced \union {n}
  /\ doomed' = [doomed EXCEPT ![h] = NoName]
  /\ fresh' = {}
  /\ deleted' = IF Namesakes(n) THEN deleted ELSE deleted \union {n}
  /\ UNCHANGED <<skillFiles, index, toSave, skillWrites>>

(* Creator.Extract at the end of a session, by a process that then ends.    *)
ExtractSkill(h, n) ==
  /\ loading[h] = "idle" /\ skillWrites < MaxSkillWrites /\ skillWrites' = skillWrites + 1
  /\ skillRows' = Upsert(n, skillWrites + 1)
  /\ loading' = [loading EXCEPT ![h] = "off"]
  /\ index' = [index EXCEPT ![h] = NoTexts]
  /\ fresh' = {} /\ deleted' = deleted \ {n}
  /\ UNCHANGED <<skillFiles, toSave, doomed, raced>>

SkillNext ==
  \/ \E h \in Hubs :
       \/ ReadSkills(h) \/ SaveNext(h) \/ ListSkills(h) \/ HubEnds(h)
       \/ DeleteRow(h)
       \/ \E n \in SkillNames :
            \/ RemoveFiles(h, n) \/ ExtractSkill(h, n)
            \/ \E force \in BOOLEAN :
                 AgentCreatesSkill(h, n, force) \/ CommandCreatesSkill(h, n, force)
  \/ \E f \in UserFiles, t \in {Blank, skillWrites + 1} : UserWrites(f, t)

SkillSpec == SkillInit /\ [][SkillNext]_skillVars

-----------------------------------------------------------------------------
(* A process that has loaded knows each skill as the last file that bears   *)
(* its name says it, so long as nothing happened beside it (hub.go:60-88).  *)
LastOfItsName(i) ==
  \A k \in Filled(Listing) : Listing[k].name = Listing[i].name => k <= i
IndexFollowsFiles ==
  \A h \in fresh : loading[h] = "idle" =>
    \A i \in Filled(Listing) :
      LastOfItsName(i) => index[h][Listing[i].name] = Listing[i].text

(* What `skill delete` deleted stays deleted, loads that follow and other   *)
(* processes' included: it is still there, or comes back, only where a file *)
(* or the row could not be removed, which the command does not say, where a *)
(* file was written again meanwhile, or was read before by a load that goes *)
(* on (skill.go:457-467).                                                   *)
DeletedStaysDeleted ==
  \A n \in deleted \ raced : skillRows[n] = NoText

(* What the skills of a directory and a database keep. *)
SkillsKept == IndexFollowsFiles /\ DeletedStaysDeleted
=============================================================================
