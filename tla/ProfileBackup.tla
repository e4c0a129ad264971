---------------------------- MODULE ProfileBackup ----------------------------
(***************************************************************************)
(* Backup and restore of a profile (internal/backup).  Create goes over the *)
(* files twice, without a lock, while the agent may be writing them: it     *)
(* hashes every file for the manifest and then reads every file again for   *)
(* the archive.  Restore unpacks into a staging directory, compares every   *)
(* file with the manifest, and then writes the target's files in place, one *)
(* after the other.  Either may fail at any step or be killed.              *)
(*                                                                          *)
(* What a file holds is a number, and every write of the agent gives it one *)
(* of its own: numbers agree when hashes do, and a file does not return to  *)
(* what it held before.  The target is a profile that nobody else uses.     *)
(***************************************************************************)
EXTENDS Integers, FiniteSets

CONSTANTS
  Files,        (* the files of a profile                                    *)
  Guarded,      (* config.yaml and agis.db: what makes a profile exist       *)
  NoFile,       (* a value that is no file                                   *)
  MaxWrites,    (* bound: the agent's writes to the profile                  *)
  MaxRestores   (* bound: restores of the archive                            *)

ASSUME BackupAssumption ==
  /\ Guarded \subseteq Files /\ NoFile \notin Files
  /\ MaxWrites \in Nat /\ MaxRestores \in Nat

Absent == 0
Torn == -1   (* truncated, and not written yet                               *)

VARIABLES
  live,        (* the files of the profile                                   *)
  writes,      (* how often the agent wrote them                             *)
  creating,    (* Create: "off", "hashing", "packing", "done", "failed", or  *)
               (* "truncated" for an archive that ends too early             *)
  pending,     (* the files Create has not come to                           *)
  manifest,    (* what it saw in them                                        *)
  archive,     (* what it put into the archive                               *)
  moment,      (* history: the profile when the last file had been hashed    *)
  restoring,   (* Restore: "off", "staging", "committing", "done",           *)
               (* "rejected", "failed", "dead"                               *)
  force,       (* its option                                                 *)
  target,      (* the files of the target profile                            *)
  before,      (* history: what they were when Restore began                 *)
  todo,        (* the files Restore has still to write                       *)
  writing,     (* the one it is writing, or NoFile                           *)
  restores     (* how many restores there were                               *)

createVars == <<creating, pending, manifest, archive, moment>>
restoreVars == <<restoring, force, target, before, todo, writing, restores>>
backupVars == <<live, writes, createVars, restoreVars>>

Contents == 0 .. MaxWrites + 1
BackupTypeOK ==
  /\ writes \in 0 .. MaxWrites
  /\ creating \in {"off", "hashing", "packing", "done", "failed", "truncated"}
  /\ pending \subseteq Files
  /\ {live, manifest, archive, moment} \subseteq [Files -> Contents]
  /\ restoring \in {"off", "staging", "committing", "done",
                    "rejected", "failed", "dead"}
  /\ force \in BOOLEAN
  /\ {target, before} \subseteq [Files -> Contents \union {Torn}]
  /\ todo \subseteq Files /\ writing \in todo \union {NoFile}
  /\ restores \in 0 .. MaxRestores

Nothing == [f \in Files |-> Absent]
Collected == {f \in Files : manifest[f] # Absent}

BackupInit ==
  /\ live \in [Files -> {Absent, 1}] /\ writes = 0
  /\ creating = "off" /\ pending = {}
  /\ manifest = Nothing /\ archive = Nothing /\ moment = Nothing
  /\ restoring = "off" /\ force = FALSE
  /\ target \in [Files -> {Absent, 1}] /\ before = target
  /\ todo = {} /\ writing = NoFile /\ restores = 0

-----------------------------------------------------------------------------
(* The agent: it writes a file, or removes one, as SQLite does with its     *)
(* write-ahead log.                                                         *)
WriteLive(f) ==
  /\ writes < MaxWrites
  /\ writes' = writes + 1
  /\ \/ live' = [live EXCEPT ![f] = writes + 2]
     \/ live[f] # Absent /\ live' = [live EXCEPT ![f] = Absent]
  /\ UNCHANGED <<createVars, restoreVars>>

StartBackup ==
  /\ creating = "off"
  /\ creating' = "hashing" /\ pending' = Files
  /\ UNCHANGED <<live, writes, manifest, archive, moment, restoreVars>>

(* A file that is not there is not in the manifest.                         *)
HashOne(f) ==
  /\ creating = "hashing" /\ f \in pending
  /\ pending' = pending \ {f}
  /\ manifest' = [manifest EXCEPT ![f] = live[f]]
  /\ UNCHANGED <<live, writes, creating, archive, moment, restoreVars>>

(* All is hashed; a profile without files is refused. *)
BeginArchive ==
  /\ creating = "hashing" /\ pending = {}
  /\ creating' = IF Collected = {} THEN "failed" ELSE "packing"
  /\ pending' = Collected
  /\ moment' = live
  /\ UNCHANGED <<live, writes, manifest, archive, restoreVars>>

(* Mutant: the manifest is brought up to date with what is packed. *)
PackOneRehashed(f) ==
  /\ creating = "packing" /\ f \in pending /\ live[f] # Absent
  /\ pending' = pending \ {f}
  /\ archive' = [archive EXCEPT ![f] = live[f]]
  /\ manifest' = [manifest EXCEPT ![f] = live[f]]
  /\ UNCHANGED <<live, writes, creating, moment, restoreVars>>

PackOne(f) ==
  /\ creating = "packing" /\ f \in pending /\ live[f] # Absent
  /\ pending' = pending \ {f}
  /\ archive' = [archive EXCEPT ![f] = live[f]]
  /\ UNCHANGED <<live, writes, creating, manifest, moment, restoreVars>>

(* Create returns.  The errors of the deferred Close calls, which flush the *)
(* rest of the archive, are dropped.                                        *)
EndBackup ==
  /\ creating = "packing" /\ pending = {}
  /\ creating' \in {"done", "truncated"}
  /\ UNCHANGED <<live, writes, pending, manifest, archive, moment, restoreVars>>

(* A file is gone or cannot be read, and the command removes the archive;   *)
(* or the process is killed, and what is written of it stays.               *)
BackupFails ==
  /\ creating \in {"hashing", "packing"}
  /\ creating' \in {"failed", "truncated"}
  /\ UNCHANGED <<live, writes, pending, manifest, archive, moment, restoreVars>>

-----------------------------------------------------------------------------
StartRestore ==
  /\ creating \in {"done", "truncated"}
  /\ restoring \notin {"staging", "committing"} /\ restores < MaxRestores
  /\ restoring' = "staging" /\ restores' = restores + 1
  /\ force' \in BOOLEAN
  /\ before' = target
  /\ UNCHANGED <<live, writes, createVars, target, todo, writing>>

Occupied == \E f \in Guarded : target[f] # Absent

(* Mutants: the checksums are not compared; the option is not asked for.    *)
IntactAnyway == creating = "done"
AllowedAnyway == TRUE

Intact == creating = "done" /\ \A f \in Collected : archive[f] = manifest[f]
Allowed == force \/ ~Occupied

(* Everything is checked in the staging directory before the target is      *)
(* touched; the staging may fail by itself.                                 *)
Reject ==
  /\ restoring = "staging"
  /\ restoring' = "rejected"
  /\ UNCHANGED <<live, writes, createVars, force, target, before,
                 todo, writing, restores>>

Accept ==
  /\ restoring = "staging"
  /\ Intact /\ Allowed
  /\ restoring' = "committing" /\ todo' = Collected
  /\ UNCHANGED <<live, writes, createVars, force, target, before,
                 writing, restores>>

(* os.WriteFile truncates the file and then writes it. *)
BeginWrite(f) ==
  /\ restoring = "committing" /\ writing = NoFile /\ f \in todo
  /\ writing' = f
  /\ target' = [target EXCEPT ![f] = Torn]
  /\ UNCHANGED <<live, writes, createVars, restoring, force, before,
                 todo, restores>>

EndWrite ==
  /\ restoring = "committing" /\ writing # NoFile
  /\ target' = [target EXCEPT ![writing] = archive[writing]]
  /\ todo' = todo \ {writing} /\ writing' = NoFile
  /\ UNCHANGED <<live, writes, createVars, restoring, force, before, restores>>

EndRestore ==
  /\ restoring = "committing" /\ todo = {}
  /\ restoring' = "done"
  /\ UNCHANGED <<live, writes, createVars, force, target, before,
                 todo, writing, restores>>

(* An error while it writes the target, or its death at any moment.         *)
RestoreBreaks ==
  /\ \/ restoring = "committing" /\ restoring' = "failed"
     \/ restoring \in {"staging", "committing"} /\ restoring' = "dead"
  /\ todo' = {} /\ writing' = NoFile
  /\ UNCHANGED <<live, writes, createVars, force, target, before, restores>>

BackupNext ==
  \/ \E f \in Files : WriteLive(f) \/ HashOne(f) \/ PackOne(f) \/ BeginWrite(f)
  \/ StartBackup \/ BeginArchive \/ EndBackup \/ BackupFails
  \/ StartRestore \/ Reject \/ Accept \/ EndWrite \/ EndRestore
  \/ RestoreBreaks

BackupSpec == BackupInit /\ [][BackupNext]_backupVars

-----------------------------------------------------------------------------
(* What is restored is the profile as it was at one moment, though Create   *)
(* took no lock: a file that is hashed before that moment and read after it *)
(* with the same hash held the same in between.  That goes for the files    *)
(* of the manifest.  One that appeared after Create had looked for it is    *)
(* not among them, nor is one that the target had and the archive has not   *)
(* (backup.go:80-187, restore.go:152-199).                                  *)
RestoredIsSnapshot ==
  restoring = "done" => \A f \in Collected : target[f] = moment[f]

(* A restore that is refused has not touched the target, and without -force *)
(* no existing profile is touched (restore.go:138-167; cli.md:482,          *)
(* "Existing profiles are never silently overwritten").                     *)
RefusalsAreHarmless ==
  /\ restoring \in {"staging", "rejected"} => target = before
  /\ (~force /\ \E f \in Guarded : before[f] # Absent) => target = before

ProfileSurvives == RestoredIsSnapshot /\ RefusalsAreHarmless

(* What the specification of profiles says: a restore that does not end     *)
(* leaves the target as it was (profile-portability/spec.md:47,             *)
(* "all-or-nothing atomicity").                                             *)
RestoreIsAtomic ==
  restoring \in {"failed", "dead"} =>
    target = before \/ \A f \in Collected : target[f] = archive[f]
=============================================================================
