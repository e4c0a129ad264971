-------------------------------- MODULE Updater --------------------------------
(***************************************************************************)
(* `agis update` (cmd/agis/update.go, internal/updater): the release is     *)
(* fetched, the state backed up if asked, an asset of the platform chosen,  *)
(* downloaded, checked against checksums.txt and put in the place of the    *)
(* running executable, by one rename or, on Windows, by the dance over      *)
(* <exe>.old.  Any call may fail, a run may be killed between two, and two  *)
(* runs may go on at the same time.                                         *)
(*                                                                         *)
(* A file is a version and what it is: "agis", from an archive of the       *)
(* release; "package", a .deb, .rpm or .apk that matches the platform and   *)
(* is no archive the updater knows; or "wrong", bytes that are no asset.    *)
(***************************************************************************)
EXTENDS Integers

CONSTANTS
  Updaters,    (* runs of the command                                        *)
  MaxVersion   (* bound: releases                                            *)

ASSUME UpdaterAssumption == MaxVersion \in Nat \ {0}

Versions == 1 .. MaxVersion
Dev == 0       (* the version of a build that was given none                 *)
Gone == [version |-> Dev, what |-> "gone"]
FileOf(v, w) == [version |-> v, what |-> w]
Binaries == [version : Versions, what : {"agis", "package", "wrong"}] \union {Gone}

VARIABLES
  windows,     (* the platform: can a running executable not be replaced     *)
  stamped,     (* whether builds know their version; the releases' do not    *)
  published,   (* releases so far                                            *)
  chosen,      (* version -> what FindAssetForPlatform takes: the last match *)
  exe, oldExe, (* the executable, and <exe>.old                              *)
  archived,    (* whether backups/ holds an archive said to be made          *)
  upd,         (* run -> [at, target, free, backup, file]: where it stands,   *)
               (* the version, whether no version was compared (it is forced,*)
               (* or of a build without one), and what it has downloaded     *)
  highest,     (* history: the highest version put in place                  *)
  pardoned,    (* history: one compared nothing or was overtaken by another  *)
  late,        (* history: runs under way when another one installed         *)
  stranded     (* history: a run ended between the two renames               *)

updVars == <<windows, stamped, published, chosen, exe, oldExe, archived, upd,
             highest, pardoned, late, stranded>>
updWorld == <<windows, stamped, published, chosen>>

AtRest == [at |-> "off", target |-> 1, free |-> FALSE, backup |-> FALSE,
           file |-> Gone]

UpdaterTypeOK ==
  /\ {windows, stamped, archived, pardoned, stranded} \subseteq BOOLEAN
  /\ published \in 0 .. MaxVersion /\ highest \in Versions
  /\ chosen \in [Versions -> {"agis", "package"}]
  /\ {exe, oldExe} \subseteq Binaries /\ late \subseteq Updaters
  /\ upd \in [Updaters ->
       [at : {"off", "fetched", "ready", "downloaded", "temp", "retry", "clear",
              "aside", "moved", "restore"},
        target : Versions, free : BOOLEAN, backup : BOOLEAN, file : Binaries]]

UpdaterInit ==
  /\ windows \in BOOLEAN /\ stamped \in BOOLEAN
  /\ published = 1 /\ highest = 1 /\ archived = FALSE
  /\ chosen \in [Versions -> {"agis", "package"}]
  /\ exe = FileOf(1, "agis") /\ oldExe = Gone
  /\ upd = [u \in Updaters |-> AtRest]
  /\ pardoned = FALSE /\ late = {} /\ stranded = FALSE

Publish ==
  /\ published < MaxVersion /\ published' = published + 1
  /\ UNCHANGED <<windows, stamped, chosen, exe, oldExe, archived, upd, highest,
                 pardoned, late, stranded>>

GoesTo(u, s) == upd' = [upd EXCEPT ![u].at = s]
Rests(u) == upd' = [upd EXCEPT ![u] = AtRest] /\ late' = late \ {u}

(* Mutant: the same version counts as newer, and so does an older one. *)
IsNewerAlways(target, running) == TRUE
(* version.IsNewer: anything is newer than a build without a version.  *)
IsNewer(target, running) == running = Dev \/ target > running

(* The release of a tag, or the latest.  Only a file that is an agis runs.  *)
FetchRelease(u, v, force, backup) ==
  LET running == IF stamped THEN exe.version ELSE Dev IN
  /\ upd[u].at = "off" /\ exe.what = "agis" /\ v <= published
  /\ IsNewer(v, running) \/ force
  /\ upd' = [upd EXCEPT ![u] = [at |-> "fetched", target |-> v,
                                free |-> force \/ running = Dev,
                                backup |-> backup, file |-> Gone]]
  /\ UNCHANGED <<updWorld, exe, oldExe, archived, highest, pardoned, late, stranded>>

(* Mutant: a backup that failed is passed over. *)
BackUpOrNot(u) ==
  /\ upd[u].at = "fetched" /\ GoesTo(u, "ready")
  /\ UNCHANGED <<updWorld, exe, oldExe, archived, highest, pardoned, late, stranded>>
(* CreateBackup; without one there is no update.                            *)
BackUp(u) ==
  /\ upd[u].at = "fetched" /\ GoesTo(u, "ready")
  /\ archived' = (archived \/ upd[u].backup)
  /\ UNCHANGED <<updWorld, exe, oldExe, highest, pardoned, late, stranded>>

DownloadAsset(u) ==
  /\ upd[u].at = "ready"
  /\ \E w \in {chosen[upd[u].target], "wrong"} :
       upd' = [upd EXCEPT ![u].at = "downloaded",
                          ![u].file = FileOf(upd[u].target, w)]
  /\ UNCHANGED <<updWorld, exe, oldExe, archived, highest, pardoned, late, stranded>>

(* Mutant: an asset that checksums.txt does not list is let through. *)
VerifiedAnyhow(f) == TRUE
(* VerifyChecksum, ExtractBinaryFromAsset (what is no .tar.gz or .zip is    *)
(* taken for the binary itself), and the temporary file of ApplyBinary,     *)
(* written and closed, in the executable's directory.                       *)
Verified(f) == f.what # "wrong"
WriteTemp(u) ==
  /\ upd[u].at = "downloaded" /\ Verified(upd[u].file) /\ GoesTo(u, "temp")
  /\ UNCHANGED <<updWorld, exe, oldExe, archived, highest, pardoned, late, stranded>>

(* Any of these fails: nothing was touched.  *)
UpdateFails(u) ==
  /\ upd[u].at \in {"fetched", "ready", "downloaded"} /\ Rests(u)
  /\ UNCHANGED <<updWorld, exe, oldExe, archived, highest, pardoned, stranded>>

(* os.Rename of the temporary file onto the executable.  *)
PutInPlace(u) ==
  LET others == {w \in Updaters \ {u} : upd[w].at # "off"} IN
  /\ exe' = upd[u].file /\ stranded' = FALSE
  /\ upd' = [upd EXCEPT ![u] = AtRest]
  /\ highest' = IF exe'.version > highest THEN exe'.version ELSE highest
  /\ pardoned' = (pardoned \/ upd[u].free \/ u \in late)
  /\ late' = (late \ {u}) \union others
RenameOver(u) ==
  /\ upd[u].at = "temp" /\ PutInPlace(u)
  /\ UNCHANGED <<updWorld, oldExe, archived>>
RenameFails(u) ==
  /\ upd[u].at = "temp" /\ GoesTo(u, IF windows THEN "clear" ELSE "retry")
  /\ UNCHANGED <<updWorld, exe, oldExe, archived, highest, pardoned, late, stranded>>

(* The report of the failure tries the rename once more: it may succeed.    *)
RetriesInReport(u) ==
  /\ upd[u].at = "retry"
  /\ \/ PutInPlace(u)
     \/ Rests(u) /\ UNCHANGED <<exe, highest, pardoned, stranded>>
  /\ UNCHANGED <<updWorld, oldExe, archived>>

(* Windows: the .old of an earlier update is removed, if it can be; the     *)
(* executable is moved there; the new one is moved in; if it cannot be, the *)
(* old one is moved back, if that can be.                                   *)
RemoveOld(u) ==
  /\ upd[u].at = "clear" /\ GoesTo(u, "aside") /\ oldExe' \in {oldExe, Gone}
  /\ UNCHANGED <<updWorld, exe, archived, highest, pardoned, late, stranded>>
MoveAside(u) ==
  /\ upd[u].at = "aside" /\ GoesTo(u, "moved")
  /\ exe' = Gone /\ oldExe' = IF exe = Gone THEN oldExe ELSE exe
  /\ UNCHANGED <<updWorld, archived, highest, pardoned, late, stranded>>
MoveAsideFails(u) ==
  /\ upd[u].at = "aside" /\ exe # Gone /\ Rests(u)
  /\ UNCHANGED <<updWorld, exe, oldExe, archived, highest, pardoned, stranded>>
MoveIn(u) ==
  /\ upd[u].at = "moved" /\ PutInPlace(u)
  /\ UNCHANGED <<updWorld, oldExe, archived>>
(* Mutant: the old executable is left where it is.  *)
MoveInGivesUp(u) ==
  /\ upd[u].at = "moved" /\ Rests(u)
  /\ UNCHANGED <<updWorld, exe, oldExe, archived, highest, pardoned, stranded>>
MoveInFails(u) ==
  /\ upd[u].at = "moved" /\ GoesTo(u, "restore")
  /\ UNCHANGED <<updWorld, exe, oldExe, archived, highest, pardoned, late, stranded>>
MoveBack(u) ==
  /\ upd[u].at = "restore" /\ oldExe # Gone /\ Rests(u)
  /\ exe' = oldExe /\ oldExe' = Gone /\ stranded' = FALSE
  /\ pardoned' = (pardoned \/ u \in late)
  /\ UNCHANGED <<updWorld, archived, highest>>
MoveBackFails(u) ==
  /\ upd[u].at = "restore" /\ Rests(u)
  /\ stranded' = (stranded \/ exe = Gone)
  /\ UNCHANGED <<updWorld, exe, oldExe, archived, highest, pardoned>>

UpdateKilled(u) ==
  /\ upd[u].at # "off" /\ Rests(u)
  /\ stranded' = (stranded \/ exe = Gone)
  /\ UNCHANGED <<updWorld, exe, oldExe, archived, highest, pardoned>>

UpdaterNext ==
  \/ Publish
  \/ \E u \in Updaters :
       \/ \E v \in Versions, force, backup \in BOOLEAN :
            FetchRelease(u, v, force, backup)
       \/ BackUp(u) \/ DownloadAsset(u) \/ WriteTemp(u) \/ UpdateFails(u)
       \/ RenameOver(u) \/ RenameFails(u) \/ RetriesInReport(u)
       \/ RemoveOld(u) \/ MoveAside(u) \/ MoveAsideFails(u)
       \/ MoveIn(u) \/ MoveInFails(u) \/ MoveBack(u) \/ MoveBackFails(u)
       \/ UpdateKilled(u)

UpdaterSpec == UpdaterInit /\ [][UpdaterNext]_updVars

-----------------------------------------------------------------------------
(* There is an executable all the time, but on Windows, between the two     *)
(* renames or where a run ended there (apply.go:64-72).                     *)
ExecutableStays ==
  exe = Gone => windows /\ (stranded \/ \E u \in Updaters :
                                          upd[u].at \in {"moved", "restore"})
(* Nothing is put in place, or set aside, that checksums.txt did not list.  *)
OnlyVerified == exe.what # "wrong" /\ oldExe.what # "wrong"
(* A version is followed by a lower one only where a run was forced, did    *)
(* not know its own version or was overtaken by another one.                *)
NeverLower == exe # Gone /\ exe.version < highest => pardoned
(* What is asked to be backed up is, before anything is replaced.           *)
BackedUpFirst ==
  \A u \in Updaters : upd[u].at \notin {"off", "fetched"} /\ upd[u].backup => archived

(* What an update keeps, however it ends. *)
UpdateKept == ExecutableStays /\ OnlyVerified /\ NeverLower /\ BackedUpFirst

(* README.md:47-50 and .goreleaser.yaml publish packages beside the archives;*)
(* FindAssetForPlatform is to match "the platform binary archive"           *)
(* (client.go:165): what is in place is an agis.                            *)
ExecutableIsAgis == exe.what \in {"agis", "gone"}
=============================================================================
