---------------------------- MODULE Stores_proofs ----------------------------
(***************************************************************************)
(* What lasts longer than a turn and has no lock around all who use it:    *)
(* the executable and its update (Updater), the profiles and the pointer   *)
(* to the active one (Profiles), the plugins' state file (PluginStore),    *)
(* the skills' files and rows (SkillStore), the archive a profile is       *)
(* backed up to (ProfileBackup), the policy file (PolicyStore) and the     *)
(* keys of a provider (CredentialPool), for any number of commands,        *)
(* processes, files, keys and calls; and the search for a schedule's next  *)
(* run (CronSchedule), for any calendar.                                   *)
(* What one of them has read or decided may be untrue when it acts on it;  *)
(* where that can do harm the models note it in a history variable.  The   *)
(* invariants say what whoever was left alone still has right at each of   *)
(* its stages, and that is what its last step writes.                      *)
(***************************************************************************)
EXTENDS MCStores, Conversations_proofs, FiniteSetTheorems,
        WellFoundedInduction, TLAPS

-----------------------------------------------------------------------------
(* The updater (internal/updater).  *)

RunStates ==
  [at : {"off", "fetched", "ready", "downloaded", "temp", "retry", "clear",
         "aside", "moved", "restore"},
   target : Versions, free : BOOLEAN, backup : BOOLEAN, file : Binaries]

(* From the temporary file on, a run holds a file that was verified.        *)
Downloaded(u) == upd[u].at \notin {"off", "fetched", "ready", "downloaded"}
HoldsVerified ==
  \A u \in Updaters :
    /\ Downloaded(u) => upd[u].file.what \in {"agis", "package"}
    /\ upd[u].at = "downloaded" => upd[u].file.what # "gone"
    /\ upd[u].at \in {"downloaded"} \/ Downloaded(u)
         => upd[u].file.version = upd[u].target

(* Only Windows moves the executable aside.  *)
AsideOnWindows ==
  \A u \in Updaters :
    upd[u].at \in {"clear", "aside", "moved", "restore"} => windows

(* A run that nobody overtook, and that compared versions, is about to      *)
(* install one above all that were installed; what it may have to move back *)
(* is none below.                                                           *)
NoLower(f) == f # Gone => f.version >= highest
GoesUp ==
  ~pardoned =>
    /\ exe = Gone => NoLower(oldExe)
    /\ \A u \in Updaters \ late :
         /\ upd[u].at # "off" /\ ~upd[u].free => upd[u].target > highest
         /\ upd[u].at \in {"moved", "restore"} => NoLower(oldExe)

UpdaterInv ==
  UpdaterTypeOK /\ HoldsVerified /\ AsideOnWindows /\ GoesUp /\ UpdateKept

-----------------------------------------------------------------------------
(* Nothing runs at first, and the first executable is the program's. *)
LEMMA UpdaterStarts == UpdaterInit => UpdaterInv
<1> SUFFICES ASSUME UpdaterInit PROVE UpdaterInv
  OBVIOUS
<1> USE UpdaterAssumption DEF UpdaterInit, AtRest, FileOf, Gone, Versions, Dev
<1>1. UpdaterTypeOK
  <2>1. {exe, oldExe} \subseteq Binaries /\ AtRest.file \in Binaries
    BY DEF Binaries
  <2>2. 1 \in Versions
    OBVIOUS
  <2>3. upd \in [Updaters -> RunStates]
    BY <2>1, <2>2 DEF RunStates
  <2>4. {windows, stamped, archived, pardoned, stranded} \subseteq BOOLEAN
    OBVIOUS
  <2>5. published \in 0 .. MaxVersion /\ highest \in Versions
    BY <2>2
  <2> QED
    BY <2>1, <2>2, <2>3, <2>4, <2>5 DEF UpdaterTypeOK
<1>2. HoldsVerified /\ AsideOnWindows /\ GoesUp
  BY DEF HoldsVerified, Downloaded, AsideOnWindows, GoesUp, NoLower
<1>3. UpdateKept
  BY DEF UpdateKept, ExecutableStays, OnlyVerified, NeverLower, BackedUpFirst
<1> QED
  BY <1>1, <1>2, <1>3 DEF UpdaterInv

-----------------------------------------------------------------------------
(* An installation from a verified file, wherever a run comes to it.  *)
LEMMA InstallKeeps ==
  ASSUME UpdaterInv, NEW u \in Updaters, Downloaded(u), PutInPlace(u),
         UNCHANGED <<updWorld, oldExe, archived>>
  PROVE  UpdaterInv'
<1> USE DEF UpdaterInv, PutInPlace, updWorld
<1>1. /\ exe' = upd[u].file /\ upd[u].file \in Binaries
      /\ upd[u].target \in Versions
  BY DEF UpdaterTypeOK
<1>2. /\ upd[u].file.what \in {"agis", "package"}
      /\ upd[u].file.version = upd[u].target
  BY DEF HoldsVerified
<1>3. exe' # Gone /\ exe'.version = upd[u].target
  BY <1>1, <1>2 DEF Gone
<1>4. /\ highest \in Int /\ highest' \in Versions
      /\ highest' = IF upd[u].target > highest THEN upd[u].target ELSE highest
  BY <1>1, <1>3, UpdaterAssumption DEF UpdaterTypeOK, Versions
<1>5. upd' \in [Updaters -> RunStates]
  <2>1. Gone \in Binaries /\ 1 \in Versions
    BY UpdaterAssumption DEF Binaries, Versions
  <2> QED
    BY <2>1 DEF UpdaterTypeOK, AtRest, RunStates
<1>6. \A w \in Updaters : upd'[w] = IF w = u THEN AtRest ELSE upd[w]
  BY DEF UpdaterTypeOK
<1>7. UpdaterTypeOK'
  <2>1. pardoned' \in BOOLEAN /\ stranded' \in BOOLEAN
    BY DEF UpdaterTypeOK
  <2>2. late' \subseteq Updaters
    BY DEF UpdaterTypeOK
  <2> QED
    BY <1>1, <1>4, <1>5, <2>1, <2>2 DEF UpdaterTypeOK, RunStates
<1>8. HoldsVerified' /\ AsideOnWindows' /\ BackedUpFirst'
  BY <1>6 DEF HoldsVerified, Downloaded, AsideOnWindows, BackedUpFirst,
              UpdateKept, AtRest
<1>9. ExecutableStays' /\ OnlyVerified'
  BY <1>1, <1>2, <1>3 DEF ExecutableStays, OnlyVerified, UpdateKept
<1>10. ~pardoned' => exe'.version = highest'
  <2>1. ~pardoned' => ~pardoned /\ ~upd[u].free /\ u \notin late
    BY DEF UpdaterTypeOK
  <2>2. upd[u].at # "off"
    BY DEF Downloaded
  <2> QED
    BY <1>3, <1>4, <2>1, <2>2 DEF GoesUp
<1>11. NeverLower'
  BY <1>4, <1>10, UpdaterAssumption DEF NeverLower, Versions
<1>12. GoesUp'
  <2>1. \A w \in Updaters \ late' : upd'[w].at = "off"
    BY <1>6 DEF AtRest
  <2> QED
    BY <1>3, <2>1 DEF GoesUp
<1> QED
  BY <1>7, <1>8, <1>9, <1>11, <1>12 DEF UpdateKept

(* The steps of an update keep the types. *)
LEMMA UpdaterTypeKept == UpdaterInv /\ [UpdaterNext]_updVars => UpdaterTypeOK'
<1> SUFFICES ASSUME UpdaterInv, [UpdaterNext]_updVars
             PROVE  UpdaterTypeOK'
  OBVIOUS
<1> USE UpdaterAssumption
    DEF UpdaterInv, UpdaterTypeOK, RunStates, updWorld, Binaries, Gone, Versions,
        Dev, GoesTo, Rests, AtRest
<1>1. CASE Publish
  BY <1>1 DEF Publish
<1>2. ASSUME NEW u \in Updaters, NEW v \in Versions,
             NEW forced \in BOOLEAN, NEW backup \in BOOLEAN,
             FetchRelease(u, v, forced, backup)
      PROVE  UpdaterTypeOK'
  <2> DEFINE free == forced \/ (IF stamped THEN exe.version ELSE Dev) = Dev
  <2>1. free \in BOOLEAN
    OBVIOUS
  <2>2. upd' = [upd EXCEPT ![u] = [at |-> "fetched", target |-> v,
                                   free |-> free, backup |-> backup,
                                   file |-> Gone]]
    BY <1>2 DEF FetchRelease
  <2> HIDE DEF free
  <2> QED
    BY <1>2, <2>1, <2>2 DEF FetchRelease
<1>3. ASSUME NEW u \in Updaters, BackUp(u)
      PROVE  UpdaterTypeOK'
  <2>1. archived' \in BOOLEAN
    BY <1>3 DEF BackUp
  <2> QED
    BY <1>3, <2>1, ZenonT(40) DEF BackUp
<1>4. ASSUME NEW u \in Updaters, DownloadAsset(u)
      PROVE  UpdaterTypeOK'
  <2>1. PICK w \in {chosen[upd[u].target], "wrong"} :
          upd' = [upd EXCEPT ![u].at = "downloaded",
                             ![u].file = FileOf(upd[u].target, w)]
    BY <1>4 DEF DownloadAsset
  <2>2. w \in {"agis", "package", "wrong"}
    OBVIOUS
  <2>3. FileOf(upd[u].target, w) \in Binaries
    BY <2>2 DEF FileOf
  <2> DEFINE f == FileOf(upd[u].target, w)
  <2> HIDE DEF Binaries, Gone, Versions, f
  <2>4. f \in Binaries
    BY <2>3 DEF f
  <2>5. upd' = [upd EXCEPT ![u].at = "downloaded", ![u].file = f]
    BY <2>1 DEF f
  <2>6. upd' \in [Updaters -> RunStates]
    BY <2>4, <2>5, ZenonT(40)
  <2> QED
    BY <1>4, <2>6 DEF DownloadAsset
<1>5. ASSUME NEW u \in Updaters, WriteTemp(u)
      PROVE  UpdaterTypeOK'
  BY <1>5, ZenonT(40) DEF WriteTemp
<1>6. ASSUME NEW u \in Updaters, UpdateFails(u)
      PROVE  UpdaterTypeOK'
  BY <1>6 DEF UpdateFails
<1>7. ASSUME NEW u \in Updaters, RenameOver(u)
      PROVE  UpdaterTypeOK'
  BY <1>7, InstallKeeps DEF RenameOver, Downloaded
<1>8. ASSUME NEW u \in Updaters, RenameFails(u)
      PROVE  UpdaterTypeOK'
  <2> DEFINE s == IF windows THEN "clear" ELSE "retry"
  <2>1. s \in {"clear", "retry"}
    OBVIOUS
  <2>2. upd' = [upd EXCEPT ![u].at = s]
    BY <1>8 DEF RenameFails
  <2> HIDE DEF s, Binaries, Gone, Versions
  <2>3. upd' \in [Updaters -> RunStates]
    BY <2>1, <2>2 DEF RunStates
  <2>4. UNCHANGED <<updWorld, exe, oldExe, archived, highest, pardoned, late,
                    stranded>>
    BY <1>8 DEF RenameFails
  <2> QED
    BY <2>3, <2>4 DEF RunStates
<1>9. ASSUME NEW u \in Updaters, RetriesInReport(u)
      PROVE  UpdaterTypeOK'
  <2>1. CASE PutInPlace(u)
    BY <1>9, <2>1, InstallKeeps DEF RetriesInReport, Downloaded
  <2>2. CASE Rests(u) /\ UNCHANGED <<exe, highest, pardoned, stranded>>
    BY <1>9, <2>2 DEF RetriesInReport
  <2> QED
    BY <1>9, <2>1, <2>2 DEF RetriesInReport
<1>10. ASSUME NEW u \in Updaters, RemoveOld(u)
       PROVE  UpdaterTypeOK'
  <2>1. upd' = [upd EXCEPT ![u].at = "aside"] /\ oldExe' \in {oldExe, Gone}
    BY <1>10 DEF RemoveOld, GoesTo
  <2>4. oldExe' \in Binaries
    BY <2>1
  <2> HIDE DEF Binaries, Gone, Versions
  <2>2. upd' \in [Updaters -> RunStates]
    BY <2>1 DEF RunStates
  <2>3. UNCHANGED <<updWorld, exe, archived, highest, pardoned, late, stranded>>
    BY <1>10 DEF RemoveOld
  <2> QED
    BY <2>2, <2>3, <2>4
<1>11. ASSUME NEW u \in Updaters, MoveAside(u)
       PROVE  UpdaterTypeOK'
  BY <1>11, ZenonT(40) DEF MoveAside
<1>12. ASSUME NEW u \in Updaters, MoveAsideFails(u)
       PROVE  UpdaterTypeOK'
  BY <1>12 DEF MoveAsideFails
<1>13. ASSUME NEW u \in Updaters, MoveIn(u)
       PROVE  UpdaterTypeOK'
  BY <1>13, InstallKeeps DEF MoveIn, Downloaded
<1>14. ASSUME NEW u \in Updaters, MoveInFails(u)
       PROVE  UpdaterTypeOK'
  <2>1. upd' = [upd EXCEPT ![u].at = "restore"]
    BY <1>14 DEF MoveInFails, GoesTo
  <2> HIDE DEF Binaries, Gone, Versions
  <2>2. upd' \in [Updaters -> RunStates]
    BY <2>1 DEF RunStates
  <2>3. UNCHANGED <<updWorld, exe, oldExe, archived, highest, pardoned, late,
                    stranded>>
    BY <1>14 DEF MoveInFails
  <2> QED
    BY <2>2, <2>3
<1>15. ASSUME NEW u \in Updaters, MoveBack(u)
       PROVE  UpdaterTypeOK'
  <2>1. pardoned' \in BOOLEAN /\ stranded' \in BOOLEAN
    BY <1>15 DEF MoveBack
  <2>2. {exe', oldExe'} \subseteq Binaries /\ late' \subseteq Updaters
    BY <1>15 DEF MoveBack
  <2>3. upd' \in [Updaters -> RunStates]
    BY <1>15 DEF MoveBack
  <2> QED
    BY <1>15, <2>1, <2>2, <2>3 DEF MoveBack
<1>16. ASSUME NEW u \in Updaters, MoveBackFails(u)
       PROVE  UpdaterTypeOK'
  BY <1>16 DEF MoveBackFails
<1>17. ASSUME NEW u \in Updaters, UpdateKilled(u)
       PROVE  UpdaterTypeOK'
  BY <1>17 DEF UpdateKilled
<1>18. CASE UNCHANGED updVars
  BY <1>18 DEF updVars
<1> QED
  BY <1>1, <1>2, <1>3, <1>4, <1>5, <1>6, <1>7, <1>8, <1>9, <1>10, <1>11,
     <1>12, <1>13, <1>14, <1>15, <1>16, <1>17, <1>18
  DEF UpdaterNext

(* No run changes the place of another one. *)
LEMMA UpdaterInvKept == UpdaterInv /\ [UpdaterNext]_updVars => UpdaterInv'
<1> SUFFICES ASSUME UpdaterInv, [UpdaterNext]_updVars, UpdaterTypeOK'
             PROVE  UpdaterInv'
  BY UpdaterTypeKept
<1>0. highest \in Int /\ exe.version \in Int /\ oldExe.version \in Int
  BY UpdaterAssumption DEF UpdaterInv, UpdaterTypeOK, Binaries, Gone, Versions, Dev
<1> DEFINE Rest == HoldsVerified /\ AsideOnWindows /\ GoesUp /\ UpdateKept
<1> USE UpdaterAssumption
    DEF UpdaterInv, UpdaterTypeOK, RunStates, updWorld, Gone, FileOf, Versions,
        Dev, GoesTo, Rests, AtRest,
        HoldsVerified, Downloaded, AsideOnWindows, GoesUp, NoLower,
        UpdateKept, ExecutableStays, OnlyVerified, NeverLower, BackedUpFirst
<1>1. CASE Publish
  BY <1>1 DEF Publish
<1>2. ASSUME NEW u \in Updaters, NEW v \in Versions,
             NEW forced \in BOOLEAN, NEW backup \in BOOLEAN,
             FetchRelease(u, v, forced, backup)
      PROVE  Rest'
  <2>1. exe.what = "agis" /\ exe.version \in Int /\ exe # Gone
    BY <1>2 DEF FetchRelease, Binaries
  <2>2. ~upd'[u].free => v > exe.version
    BY <1>2, <2>1 DEF FetchRelease, IsNewer
  <2>3. \A w \in Updaters \ {u} : upd'[w] = upd[w]
    BY <1>2 DEF FetchRelease
  <2>4. upd[u].at = "off" /\ upd'[u].at = "fetched" /\ upd'[u].target = v
    BY <1>2 DEF FetchRelease
  <2>5. UNCHANGED <<updWorld, exe, oldExe, archived, highest, pardoned, late, stranded>>
    BY <1>2 DEF FetchRelease
  <2> HIDE DEF UpdaterTypeOK
  <2>6. HoldsVerified' /\ AsideOnWindows' /\ BackedUpFirst'
    BY <2>3, <2>4, <2>5
  <2>7. ExecutableStays' /\ OnlyVerified' /\ NeverLower'
    BY <2>1, <2>5
  <2>8. ~pardoned => v > highest \/ upd'[u].free
    BY <2>1, <2>2 DEF UpdaterTypeOK
  <2>9. GoesUp'
    BY <2>1, <2>3, <2>4, <2>5, <2>8
  <2> QED
    BY <2>6, <2>7, <2>9
<1>3. ASSUME NEW u \in Updaters, BackUp(u)
      PROVE  Rest'
  BY <1>3 DEF BackUp
<1>4. ASSUME NEW u \in Updaters, DownloadAsset(u)
      PROVE  Rest'
  <2>1. PICK w \in {chosen[upd[u].target], "wrong"} :
          upd' = [upd EXCEPT ![u].at = "downloaded",
                             ![u].file = FileOf(upd[u].target, w)]
    BY <1>4 DEF DownloadAsset
  <2>2. w \in {"agis", "package", "wrong"}
    OBVIOUS
  <2>3. \A x \in Updaters : x # u => upd'[x] = upd[x]
    BY <2>1
  <2>4. /\ upd'[u].at = "downloaded" /\ upd'[u].file.what # "gone"
        /\ upd'[u].file.version = upd'[u].target
        /\ upd'[u].target = upd[u].target /\ upd'[u].free = upd[u].free
        /\ upd'[u].backup = upd[u].backup
    BY <2>1, <2>2
  <2>5. UNCHANGED <<updWorld, exe, oldExe, archived, highest, pardoned, late, stranded>>
    BY <1>4 DEF DownloadAsset
  <2>6. upd[u].at = "ready"
    BY <1>4 DEF DownloadAsset
  <2> HIDE DEF UpdaterTypeOK
  <2>7. HoldsVerified' /\ AsideOnWindows'
    BY <2>3, <2>4, <2>5, <2>6
  <2>8. GoesUp'
    BY <2>3, <2>4, <2>5, <2>6
  <2>9. UpdateKept'
    BY <2>3, <2>4, <2>5, <2>6
  <2> QED
    BY <2>7, <2>8, <2>9
<1>5. ASSUME NEW u \in Updaters, WriteTemp(u)
      PROVE  Rest'
  BY <1>5 DEF WriteTemp, Verified, Binaries
<1>6. ASSUME NEW u \in Updaters, UpdateFails(u)
      PROVE  Rest'
  BY <1>6 DEF UpdateFails
<1>7. ASSUME NEW u \in Updaters, RenameOver(u)
      PROVE  Rest'
  BY <1>7, InstallKeeps DEF RenameOver
<1>8. ASSUME NEW u \in Updaters, RenameFails(u)
      PROVE  Rest'
  BY <1>8 DEF RenameFails
<1>9. ASSUME NEW u \in Updaters, RetriesInReport(u)
      PROVE  Rest'
  <2>1. CASE PutInPlace(u)
    BY <1>9, <2>1, InstallKeeps DEF RetriesInReport
  <2>2. CASE Rests(u) /\ UNCHANGED <<exe, highest, pardoned, stranded>>
    BY <1>9, <2>2 DEF RetriesInReport
  <2> QED
    BY <1>9, <2>1, <2>2 DEF RetriesInReport
<1>10. ASSUME NEW u \in Updaters, RemoveOld(u)
       PROVE  Rest'
  BY <1>10 DEF RemoveOld
<1>11. ASSUME NEW u \in Updaters, MoveAside(u)
       PROVE  Rest'
  <2>1. /\ exe' = Gone /\ oldExe' = IF exe = Gone THEN oldExe ELSE exe
        /\ upd[u].at = "aside" /\ windows
        /\ UNCHANGED <<updWorld, archived, highest, pardoned, late, stranded>>
    BY <1>11 DEF MoveAside
  <2>2. /\ \A w \in Updaters \ {u} : upd'[w] = upd[w]
        /\ upd'[u] = [upd[u] EXCEPT !.at = "moved"]
        /\ upd[u] \in RunStates
    BY <1>11 DEF MoveAside
  <2> HIDE DEF UpdaterTypeOK
  <2>3. /\ upd'[u].at = "moved" /\ upd'[u].target = upd[u].target
        /\ upd'[u].free = upd[u].free /\ upd'[u].backup = upd[u].backup
        /\ upd'[u].file = upd[u].file
    BY <2>2
  <2>4. HoldsVerified' /\ AsideOnWindows' /\ BackedUpFirst'
    BY <2>1, <2>2, <2>3
  <2>5. ExecutableStays' /\ OnlyVerified' /\ NeverLower'
    BY <2>1, <2>3
  <2>6. ~pardoned => NoLower(oldExe')
    BY <1>0, <2>1
  <2>7. GoesUp'
    BY <2>1, <2>2, <2>3, <2>6
  <2> QED
    BY <2>4, <2>5, <2>7
<1>12. ASSUME NEW u \in Updaters, MoveAsideFails(u)
       PROVE  Rest'
  BY <1>12 DEF MoveAsideFails
<1>13. ASSUME NEW u \in Updaters, MoveIn(u)
       PROVE  Rest'
  BY <1>13, InstallKeeps DEF MoveIn
<1>14. ASSUME NEW u \in Updaters, MoveInFails(u)
       PROVE  Rest'
  BY <1>14 DEF MoveInFails
<1>15. ASSUME NEW u \in Updaters, MoveBack(u)
       PROVE  Rest'
  <2>1. exe' # Gone /\ oldExe' = Gone /\ exe'.what # "wrong"
    BY <1>15 DEF MoveBack
  <2>2. ~pardoned' => exe'.version >= highest'
    BY <1>15 DEF MoveBack
  <2>3. \A x \in Updaters : upd'[x] = IF x = u THEN AtRest ELSE upd[x]
    BY <1>15 DEF MoveBack
  <2>4. late' = late \ {u} /\ UNCHANGED <<updWorld, archived, highest>>
    BY <1>15 DEF MoveBack
  <2> HIDE DEF UpdaterTypeOK
  <2>5. HoldsVerified' /\ AsideOnWindows'
    BY <2>3, <2>4
  <2>6. GoesUp'
    <3>1. pardoned' = (pardoned \/ u \in late)
      BY <1>15 DEF MoveBack
    <3>2. \A w \in Updaters \ late' : upd'[w].at # "off" => w \notin late /\ upd'[w] = upd[w]
      BY <2>3, <2>4
    <3> QED
      BY <2>1, <2>4, <3>1, <3>2
  <2>7. ExecutableStays' /\ OnlyVerified'
    BY <2>1
  <2>8. NeverLower'
    BY <1>0, <1>15, <2>2, <2>4 DEF MoveBack
  <2>9. BackedUpFirst'
    BY <2>3, <2>4
  <2> QED
    BY <2>5, <2>6, <2>7, <2>8, <2>9
<1>16. ASSUME NEW u \in Updaters, MoveBackFails(u)
       PROVE  Rest'
  BY <1>16 DEF MoveBackFails
<1>17. ASSUME NEW u \in Updaters, UpdateKilled(u)
       PROVE  Rest'
  BY <1>17 DEF UpdateKilled
<1>18. CASE UNCHANGED updVars
  BY <1>18 DEF updVars
<1>19. Rest' => UpdaterInv'
  OBVIOUS
<1> HIDE UpdaterAssumption
    DEF UpdaterInv, UpdaterTypeOK, RunStates, updWorld, Gone, FileOf, Versions,
        Dev, GoesTo, Rests, AtRest, Rest,
        HoldsVerified, Downloaded, AsideOnWindows, GoesUp, NoLower,
        UpdateKept, ExecutableStays, OnlyVerified, NeverLower, BackedUpFirst
<1>20. ASSUME NEW u \in Updaters,
              \/ BackUp(u) \/ DownloadAsset(u) \/ WriteTemp(u) \/ UpdateFails(u)
              \/ RenameOver(u) \/ RenameFails(u) \/ RetriesInReport(u)
       PROVE  Rest'
  BY <1>3, <1>4, <1>5, <1>6, <1>7, <1>8, <1>9, <1>20
<1>21. ASSUME NEW u \in Updaters,
              \/ RemoveOld(u) \/ MoveAside(u) \/ MoveAsideFails(u)
              \/ MoveIn(u) \/ MoveInFails(u) \/ MoveBack(u)
              \/ MoveBackFails(u) \/ UpdateKilled(u)
       PROVE  Rest'
  BY <1>10, <1>11, <1>12, <1>13, <1>14, <1>15, <1>16, <1>17, <1>21
<1> QED
  BY <1>1, <1>2, <1>18, <1>19, <1>20, <1>21 DEF UpdaterNext

(* An update keeps the executable there, verified and no lower, for every   *)
(* number of runs and releases, whatever fails and wherever a run is killed *)
(* (internal/updater/apply.go, verify.go).                                  *)
THEOREM UpdatesKeepTheExecutable == UpdaterSpec => []UpdateKept
<1>1. UpdaterInv => UpdateKept
  BY DEF UpdaterInv
<1> QED
  BY UpdaterStarts, UpdaterInvKept, <1>1, PTL DEF UpdaterSpec

-----------------------------------------------------------------------------
(* The profiles (cmd/agis/profile_manager.go).  *)

(* What a command under way has established, provided nothing ran beside   *)
(* it.                                                                     *)
Deciding == {"use", "judge", "reset", "remove", "mkdir", "config", "soul"}
AboutNamed == \A c \in Commands : step[c] \in Deciding => name[c] \in Named
AboutHome == \A c \in Commands :
  /\ step[c] \in {"load", "save"} => name[c] \in Homes
  /\ step[c] \in {"soul", "save"} => option[c] \in Homes
OneCommand == ~excused => \A c, d \in Busy : c = d
UsesWhatIsThere == ~excused => \A c \in Commands :
  step[c] = "use" => name[c] \in exists
RemovesUnpointed == ~excused => \A c \in Commands :
  step[c] = "remove" => pointer # name[c]
ReadsWhereItSaves == ~excused => \A c \in Commands :
  step[c] = "load" => Resolved(env[c]) = name[c]
RootSavesItsOwn == ~excused => \A c \in Commands :
  step[c] = "save" /\ name[c] = Default => option[c] = Default

ProfilesInv ==
  /\ ProfilesTypeOK /\ AboutNamed /\ AboutHome /\ OneCommand /\ UsesWhatIsThere
  /\ RemovesUnpointed /\ ReadsWhereItSaves /\ RootSavesItsOwn
  /\ PointerHolds /\ RootKeepsItsOwn

-----------------------------------------------------------------------------
(* A step is one command's; it may write down where that command stands,    *)
(* and nothing of the others.                                               *)
Moves(c) ==
  \/ PointTo(c) \/ Judge(c) \/ Reset(c) \/ RemoveDir(c) \/ MakeDir(c)
  \/ MakeConfig(c) \/ CopyPersona(c) \/ LoadConfig(c) \/ SaveConfig(c)
  \/ Abandon(c)
Begins(c) ==
  \/ \E n \in Named : Use(c, n)
  \/ \E given \in Homes \union {Unset} :
       \/ SetConfig(c, given) \/ RunSetup(c, given)
       \/ \E n \in Named : \/ \E o \in {Unset, "force"} : Delete(c, given, n, o)
                           \/ \E from \in Homes \union {Unset} :
                                Create(c, given, n, from)

(* A step is of `profile use default`, or one of a command. *)
LEMMA ProfileSteps ==
  ProfilesNext <=> UseDefault \/ \E c \in Commands : Moves(c) \/ Begins(c)
BY DEF ProfilesNext, Moves, Begins

(* Where a command may begin, and what it then has settled.  *)
LEMMA CommandsBegin ==
  ASSUME ProfilesTypeOK, NEW c \in Commands, Begins(c)
  PROVE  /\ UNCHANGED <<files, pointer>> /\ step[c] = "idle"
         /\ excused' = (excused \/ Busy # {})
         /\ begun' \in 0 .. MaxCommands
         /\ \E given \in Homes \union {Unset}, n \in Homes,
               s \in {"use", "judge", "mkdir", "load"},
               o \in Homes \union {Unset, "force", "set", "setup"} :
              /\ env' = [env EXCEPT ![c] = given]
              /\ step' = [step EXCEPT ![c] = s]
              /\ name' = [name EXCEPT ![c] = n]
              /\ option' = [option EXCEPT ![c] = o]
              /\ s # "load" => n \in Named
              /\ s = "use" => n \in exists
              /\ s = "load" => n = Resolved(given)
<1> USE ProfilesAssumption
<1>1. Named \subseteq Homes /\ begun \in Nat
  BY DEF Homes, ProfilesTypeOK
<1>2. begun < MaxCommands => begun + 1 \in 0 .. MaxCommands
  BY <1>1
<1>3. \A given \in Homes \union {Unset} : Resolved(given) \in Homes
  BY DEF Resolved, Homes, ProfilesTypeOK
<1> DEFINE Settled(given, n, s, o) ==
      /\ env' = [env EXCEPT ![c] = given]
      /\ step' = [step EXCEPT ![c] = s]
      /\ name' = [name EXCEPT ![c] = n]
      /\ option' = [option EXCEPT ![c] = o]
      /\ s # "load" => n \in Named
      /\ s = "use" => n \in exists
      /\ s = "load" => n = Resolved(given)
<1>4. SUFFICES \E given \in Homes \union {Unset}, n \in Homes,
                  s \in {"use", "judge", "mkdir", "load"},
                  o \in Homes \union {Unset, "force", "set", "setup"} :
                 /\ Starts(c, given, s, n, o) /\ UNCHANGED <<files, pointer>>
                 /\ Settled(given, n, s, o)
  BY <1>1, <1>2, ZenonT(40) DEF Starts
<1>5. ASSUME NEW n \in Named, Use(c, n)
      PROVE  /\ Starts(c, Unset, "use", n, Unset) /\ UNCHANGED <<files, pointer>>
             /\ Settled(Unset, n, "use", Unset)
  BY <1>5 DEF Use, Starts
<1>6. ASSUME NEW given \in Homes \union {Unset},
             SetConfig(c, given) \/ RunSetup(c, given)
      PROVE  \E o \in {"set", "setup"} :
               /\ Starts(c, given, "load", Resolved(given), o)
               /\ UNCHANGED <<files, pointer>>
               /\ Settled(given, Resolved(given), "load", o)
  BY <1>6 DEF SetConfig, RunSetup, Starts
<1>7. ASSUME NEW given \in Homes \union {Unset}, NEW n \in Named,
             NEW o \in {Unset, "force"}, Delete(c, given, n, o)
      PROVE  /\ Starts(c, given, "judge", n, o) /\ UNCHANGED <<files, pointer>>
             /\ Settled(given, n, "judge", o)
  BY <1>7 DEF Delete, Starts
<1>8. ASSUME NEW given \in Homes \union {Unset}, NEW n \in Named,
             NEW from \in Homes \union {Unset}, Create(c, given, n, from)
      PROVE  /\ Starts(c, given, "mkdir", n, from) /\ UNCHANGED <<files, pointer>>
             /\ Settled(given, n, "mkdir", from)
  BY <1>8 DEF Create, Starts
<1> HIDE DEF Settled
<1> QED
  BY <1>1, <1>3, <1>5, <1>6, <1>7, <1>8 DEF Begins

(* The steps of the commands keep the types. *)
LEMMA ProfileTypesStay ==
  ASSUME ProfilesTypeOK, AboutNamed, AboutHome, [ProfilesNext]_profileVars
  PROVE  ProfilesTypeOK' /\ AboutNamed' /\ AboutHome'
<1> USE ProfilesAssumption
<1>1. /\ exists \subseteq Named /\ pointer \in Named \union {Unset}
      /\ conf \in [Homes -> Homes \union {Unset}]
      /\ persona \in [Homes -> Homes \union {Unset}]
      /\ env \in [Commands -> Homes \union {Unset}]
      /\ step \in [Commands -> Steps]
      /\ name \in [Commands -> Homes \union {Unset}]
      /\ option \in [Commands -> Homes \union {Unset, "force", "set", "setup"}]
      /\ begun \in 0 .. MaxCommands /\ excused \in BOOLEAN
  BY DEF ProfilesTypeOK
<1>2. CASE UNCHANGED profileVars
  BY <1>2 DEF profileVars, files, command, ProfilesTypeOK, AboutNamed, AboutHome
<1>3. CASE UseDefault
  <2>1. begun' \in 0 .. MaxCommands /\ excused' \in BOOLEAN
    BY <1>1, <1>3 DEF UseDefault
  <2> QED
    BY <1>3, <2>1 DEF UseDefault, files, ProfilesTypeOK, AboutNamed, AboutHome
<1>4. ASSUME NEW c \in Commands, Begins(c)
      PROVE  ProfilesTypeOK' /\ AboutNamed' /\ AboutHome'
  <2>1. PICK given \in Homes \union {Unset}, n \in Homes,
             s \in {"use", "judge", "mkdir", "load"},
             o \in Homes \union {Unset, "force", "set", "setup"} :
              /\ env' = [env EXCEPT ![c] = given]
              /\ step' = [step EXCEPT ![c] = s]
              /\ name' = [name EXCEPT ![c] = n]
              /\ option' = [option EXCEPT ![c] = o]
              /\ s # "load" => n \in Named
    BY <1>4, CommandsBegin
  <2>2. /\ UNCHANGED <<exists, conf, persona, pointer>>
        /\ begun' \in 0 .. MaxCommands /\ excused' \in BOOLEAN
    BY <1>1, <1>4, CommandsBegin DEF files
  <2>3. step' \in [Commands -> Steps]
    BY <1>1, <2>1 DEF Steps
  <2>4. \A d \in Commands : /\ step'[d] = IF d = c THEN s ELSE step[d]
                            /\ name'[d] = IF d = c THEN n ELSE name[d]
                            /\ d # c => option'[d] = option[d]
    BY <1>1, <2>1
  <2>5. AboutNamed' /\ AboutHome'
    BY <2>1, <2>4 DEF AboutNamed, AboutHome, Deciding
  <2> QED
    BY <1>1, <2>1, <2>2, <2>3, <2>5 DEF ProfilesTypeOK
<1>5. ASSUME NEW c \in Commands, Moves(c)
      PROVE  ProfilesTypeOK' /\ AboutNamed' /\ AboutHome'
  <2>1. /\ step[c] \in Deciding => name[c] \in Named
        /\ step[c] \in {"load", "save"} => name[c] \in Homes
        /\ step[c] \in {"soul", "save"} => option[c] \in Homes
    BY DEF AboutNamed, AboutHome
  <2>2. Resolved(env[c]) \in Homes /\ Named \subseteq Homes /\ Default \in Homes
    BY <1>1 DEF Resolved, Homes
  <2>3. step[c] # "idle"
    BY <1>5 DEF Moves, PointTo, Judge, Reset, RemoveDir, MakeDir, MakeConfig,
                CopyPersona, LoadConfig, SaveConfig, Abandon, Goes, Busy
  <2>4. /\ \/ Ends(c)
           \/ /\ UNCHANGED <<env, name, begun>>
              /\ \/ /\ step[c] \in Deciding
                    /\ \E to \in Deciding :
                         /\ step' = [step EXCEPT ![c] = to]
                         /\ to = "soul" => option[c] \in Homes
                    /\ option' = option
                 \/ /\ step[c] = "load" /\ step' = [step EXCEPT ![c] = "save"]
                    /\ \E x \in Homes : option' = [option EXCEPT ![c] = x]
    <3>1. CASE PointTo(c) \/ RemoveDir(c) \/ CopyPersona(c) \/ SaveConfig(c)
               \/ Abandon(c)
      BY <3>1 DEF PointTo, RemoveDir, CopyPersona, SaveConfig, Abandon
    <3>2. CASE Judge(c)
      BY <3>2 DEF Judge, Goes, Deciding
    <3>3. CASE Reset(c)
      BY <3>3 DEF Reset, Goes, Deciding
    <3>4. CASE MakeDir(c)
      BY <3>4 DEF MakeDir, Goes, Deciding
    <3>5. CASE MakeConfig(c)
      <4>1. step[c] = "config"
        BY <3>5 DEF MakeConfig, Goes
      <4>2. There(option[c]) => option[c] \in Homes
        BY <1>1 DEF There, Homes
      <4> QED
        BY <3>5, <4>1, <4>2 DEF MakeConfig, Goes, Deciding
    <3>6. CASE LoadConfig(c)
      <4> DEFINE from == IF option[c] = "setup" THEN name[c] ELSE Resolved(env[c])
                 x == IF conf[from] # Unset THEN conf[from] ELSE Resolved(env[c])
      <4>1. /\ step[c] = "load" /\ step' = [step EXCEPT ![c] = "save"]
            /\ UNCHANGED <<env, name, begun>> /\ option' = [option EXCEPT ![c] = x]
        BY <3>6 DEF LoadConfig, Goes
      <4>2. from \in Homes
        BY <2>1, <2>2, <4>1
      <4> HIDE DEF from
      <4>3. x \in Homes
        BY <1>1, <2>2, <4>2
      <4> HIDE DEF x
      <4> QED
        BY <4>1, <4>3
    <3> QED
      BY <1>5, <3>1, <3>2, <3>3, <3>4, <3>5, <3>6 DEF Moves
  <2>5. /\ env' \in [Commands -> Homes \union {Unset}]
        /\ step' \in [Commands -> Steps]
        /\ name' \in [Commands -> Homes \union {Unset}]
        /\ option' \in [Commands -> Homes \union {Unset, "force", "set", "setup"}]
        /\ begun' \in 0 .. MaxCommands
    <3>1. CASE Ends(c)
      <4>1. step' \in [Commands -> Steps]
        BY <1>1, <3>1 DEF Ends, Steps
      <4> QED
        BY <1>1, <3>1, <4>1 DEF Ends
    <3>2. CASE ~Ends(c)
      <4>1. step' \in [Commands -> Steps]
        BY <1>1, <2>4, <3>2 DEF Deciding, Steps
      <4>2. option' \in [Commands -> Homes \union {Unset, "force", "set", "setup"}]
        BY <1>1, <2>4, <3>2
      <4> QED
        BY <1>1, <2>4, <3>2, <4>1, <4>2
    <3> QED
      BY <3>1, <3>2
  <2>6. AboutNamed' /\ AboutHome'
    <3>1. CASE Ends(c)
      <4>1. \A d \in Commands : /\ step'[d] = IF d = c THEN "idle" ELSE step[d]
                                /\ d # c => /\ name'[d] = name[d]
                                            /\ option'[d] = option[d]
        BY <1>1, <3>1 DEF Ends
      <4> QED
        BY <4>1 DEF AboutNamed, AboutHome, Deciding
    <3>2. CASE ~Ends(c)
      <4>1. \A d \in Commands : /\ d # c => /\ step'[d] = step[d]
                                            /\ option'[d] = option[d]
                                /\ name'[d] = name[d]
        BY <1>1, <2>4, <3>2
      <4>2. \/ /\ step[c] \in Deciding /\ step'[c] \in Deciding
               /\ step'[c] = "soul" => option'[c] \in Homes
            \/ step[c] = "load" /\ step'[c] = "save" /\ option'[c] \in Homes
        BY <1>1, <2>4, <3>2
      <4> QED
        BY <4>1, <4>2 DEF AboutNamed, AboutHome, Deciding
    <3> QED
      BY <3>1, <3>2
  <2>7. /\ exists' \subseteq Named
        /\ conf' \in [Homes -> Homes \union {Unset}]
        /\ persona' \in [Homes -> Homes \union {Unset}]
        /\ pointer' \in Named \union {Unset} /\ excused' \in BOOLEAN
    <3>1. CASE PointTo(c)
      BY <1>1, <2>1, <3>1 DEF PointTo, files, Deciding
    <3>2. CASE Judge(c) \/ LoadConfig(c) \/ Abandon(c)
      BY <1>1, <3>2 DEF Judge, LoadConfig, Abandon, files
    <3>3. CASE Reset(c)
      BY <1>1, <3>3 DEF Reset, files
    <3>4. CASE RemoveDir(c)
      BY <1>1, <3>4 DEF RemoveDir
    <3>5. CASE MakeDir(c)
      BY <1>1, <2>1, <3>5 DEF MakeDir, Goes, Deciding
    <3>6. CASE MakeConfig(c)
      <4> DEFINE from == option[c]
                 x == IF from # Unset /\ conf[from] # Unset THEN conf[from]
                      ELSE Resolved(env[c])
      <4>1. /\ step[c] = "config" /\ conf' = [conf EXCEPT ![name[c]] = x]
            /\ exists' = exists \union {name[c]}
            /\ UNCHANGED <<persona, pointer, excused>>
            /\ from # Unset => There(from)
        BY <3>6 DEF MakeConfig, Goes
      <4>2. x \in Homes \union {Unset}
        <5>1. from # Unset => from \in Homes
          BY <1>1, <4>1 DEF There, Homes
        <5> QED
          BY <1>1, <2>2, <5>1
      <4> HIDE DEF x
      <4> QED
        BY <1>1, <2>1, <4>1, <4>2 DEF Deciding
    <3>7. CASE CopyPersona(c)
      <4>1. /\ step[c] = "soul" /\ UNCHANGED <<conf, pointer, excused>>
            /\ exists' \subseteq exists \union {name[c]}
            /\ \/ persona' = persona
               \/ /\ persona[option[c]] # Unset
                  /\ persona' = [persona EXCEPT ![name[c]] = persona[option[c]]]
        BY <3>7 DEF CopyPersona
      <4> QED
        BY <1>1, <2>1, <4>1 DEF Deciding
    <3>8. CASE SaveConfig(c)
      BY <1>1, <2>1, <3>8 DEF SaveConfig, Homes
    <3> QED
      BY <1>5, <3>1, <3>2, <3>3, <3>4, <3>5, <3>6, <3>7, <3>8 DEF Moves
  <2> QED
    BY <2>5, <2>6, <2>7 DEF ProfilesTypeOK
<1> QED
  BY <1>2, <1>3, <1>4, <1>5, ProfileSteps

(* What voids the promises stays on record.  *)
LEMMA ExcuseStays ==
  ASSUME ProfilesTypeOK, [ProfilesNext]_profileVars, ~excused'
  PROVE  ~excused
<1>1. UNCHANGED profileVars \/ UseDefault => excused' = excused \/ (excused => excused')
  BY DEF profileVars, UseDefault
<1>2. ASSUME NEW c \in Commands, Begins(c)
      PROVE  ~excused
  BY <1>2, CommandsBegin
<1>3. ASSUME NEW c \in Commands, Moves(c)
      PROVE  ~excused
  BY <1>3 DEF Moves, PointTo, Judge, Reset, RemoveDir, MakeDir, MakeConfig,
              CopyPersona, LoadConfig, SaveConfig, Abandon
<1> QED
  BY <1>1, <1>2, <1>3, ProfileSteps

(* While a command runs by itself the others rest.  *)
LEMMA OthersRest ==
  ASSUME ProfilesTypeOK, OneCommand, ~excused, ~excused', NEW c \in Commands,
         Moves(c) \/ Begins(c)
  PROVE  \A d \in Commands : d # c =>
           step[d] = "idle" /\ step'[d] = "idle"
<1>1. /\ step \in [Commands -> Steps] /\ env \in [Commands -> Homes \union {Unset}]
      /\ name \in [Commands -> Homes \union {Unset}]
  BY DEF ProfilesTypeOK
<1>2. \E to \in Steps : step' = [step EXCEPT ![c] = to]
  <2>1. CASE Moves(c)
    BY <2>1 DEF Moves, PointTo, Judge, Reset, RemoveDir, MakeDir, MakeConfig,
         CopyPersona, LoadConfig, SaveConfig, Abandon, Goes, Ends, Steps
  <2>2. CASE Begins(c)
    BY <2>2, CommandsBegin DEF Steps
  <2> QED
    BY <2>1, <2>2
<1>3. \A d \in Commands : d # c => step[d] = "idle"
  <2>1. CASE Moves(c)
    <3>1. c \in Busy
      BY <2>1 DEF Moves, PointTo, Judge, Reset, RemoveDir, MakeDir, MakeConfig,
           CopyPersona, LoadConfig, SaveConfig, Abandon, Goes, Busy
    <3> QED
      BY <3>1 DEF OneCommand, Busy
  <2>2. CASE Begins(c)
    <3>1. Busy = {}
      BY <2>2, CommandsBegin
    <3> QED
      BY <3>1 DEF Busy
  <2> QED
    BY <2>1, <2>2
<1> QED
  BY <1>1, <1>2, <1>3

(* Every step keeps the invariant: a command that runs alone finds what it  *)
(* decided on as it left it.                                                *)
LEMMA ProfilesGoOn ==
  ASSUME ProfilesInv, [ProfilesNext]_profileVars
  PROVE  ProfilesInv'
<1> USE ProfilesAssumption
<1>1. /\ ProfilesTypeOK /\ AboutNamed /\ AboutHome /\ OneCommand
  BY DEF ProfilesInv
<1>2. ProfilesTypeOK' /\ AboutNamed' /\ AboutHome'
  BY <1>1, ProfileTypesStay
<1> DEFINE Settled ==
      /\ \A c, d \in Busy : c = d
      /\ \A c \in Commands :
           /\ step[c] = "use" => name[c] \in exists
           /\ step[c] = "remove" => pointer # name[c]
           /\ step[c] = "load" => Resolved(env[c]) = name[c]
           /\ step[c] = "save" /\ name[c] = Default => option[c] = Default
      /\ pointer = Unset \/ pointer \in exists
      /\ Database(Default) = Default
<1>3. SUFFICES ASSUME ~excused'
               PROVE  Settled'
  BY <1>2 DEF ProfilesInv, OneCommand, UsesWhatIsThere, RemovesUnpointed,
     ReadsWhereItSaves, RootSavesItsOwn, PointerHolds, RootKeepsItsOwn
<1>4. ~excused
  BY <1>1, <1>3, ExcuseStays
<1>5. Settled
  BY <1>4 DEF ProfilesInv, OneCommand, UsesWhatIsThere, RemovesUnpointed,
     ReadsWhereItSaves, RootSavesItsOwn, PointerHolds, RootKeepsItsOwn
<1>6. CASE UNCHANGED profileVars
  BY <1>5, <1>6 DEF profileVars, files, command, Busy, Resolved, Database
<1>7. CASE UseDefault
  <2>1. Busy = {} /\ pointer' = Unset /\ UNCHANGED <<exists, conf, env, step, name, option>>
    BY <1>3, <1>7 DEF UseDefault, files
  <2>2. \A c \in Commands : step[c] = "idle"
    BY <2>1 DEF Busy
  <2> QED
    BY <1>5, <2>1, <2>2 DEF Busy, Database
<1>8. /\ exists \subseteq Named
      /\ conf \in [Homes -> Homes \union {Unset}]
      /\ env \in [Commands -> Homes \union {Unset}]
      /\ step \in [Commands -> Steps]
      /\ name \in [Commands -> Homes \union {Unset}]
      /\ option \in [Commands -> Homes \union {Unset, "force", "set", "setup"}]
      /\ Default \in Homes
  BY <1>1 DEF ProfilesTypeOK, Homes
<1> DEFINE Own(c) ==
      /\ step[c] = "use" => name[c] \in exists
      /\ step[c] = "remove" => pointer # name[c]
      /\ step[c] = "load" => Resolved(env[c]) = name[c]
      /\ step[c] = "save" /\ name[c] = Default => option[c] = Default
<1>9. ASSUME NEW c \in Commands, Moves(c) \/ Begins(c), Own(c)',
             pointer' = Unset \/ pointer' \in exists',
             Database(Default)' = Default
      PROVE  Settled'
  <2>1. \A d \in Commands : d # c => step'[d] = "idle"
    BY <1>1, <1>3, <1>4, <1>9, OthersRest
  <2>2. \A d \in Commands : d # c => Own(d)'
    BY <2>1
  <2> HIDE DEF Own
  <2>3. \A d \in Commands : Own(d)'
    BY <1>9, <2>2
  <2>4. \A d \in Busy' : d = c
    BY <2>1 DEF Busy
  <2> QED
    BY <1>9, <2>3, <2>4 DEF Own
<1>10. ASSUME NEW c \in Commands, Begins(c)
       PROVE  Settled'
  <2>1. PICK given \in Homes \union {Unset}, n \in Homes,
             s \in {"use", "judge", "mkdir", "load"} :
              /\ env' = [env EXCEPT ![c] = given]
              /\ step' = [step EXCEPT ![c] = s]
              /\ name' = [name EXCEPT ![c] = n]
              /\ s = "use" => n \in exists
              /\ s = "load" => n = Resolved(given)
    BY <1>1, <1>10, CommandsBegin
  <2>2. UNCHANGED <<exists, conf, pointer>>
    BY <1>1, <1>10, CommandsBegin DEF files
  <2>3. step'[c] = s /\ name'[c] = n /\ env'[c] = given
    BY <1>8, <2>1
  <2>4. Own(c)'
    BY <2>1, <2>2, <2>3 DEF Resolved
  <2>5. (pointer' = Unset \/ pointer' \in exists') /\ Database(Default)' = Default
    BY <1>5, <2>2 DEF Database
  <2> HIDE DEF Own, Settled
  <2> QED
    BY <1>9, <1>10, <2>4, <2>5
<1>11. ASSUME NEW c \in Commands, Moves(c)
       PROVE  Settled'
  <2> DEFINE Kept == /\ pointer' = Unset \/ pointer' \in exists'
                     /\ Database(Default)' = Default
  <2>1. SUFFICES Own(c)' /\ Kept
    <3> HIDE DEF Own, Settled
    <3> QED
      BY <1>9, <1>11
  <2>2. /\ step[c] \in Deciding => name[c] \in Named
        /\ step[c] \in {"load", "save"} => name[c] \in Homes
        /\ step[c] \in {"soul", "save"} => option[c] \in Homes
    BY <1>1 DEF AboutNamed, AboutHome
  <2>3. Own(c) /\ Database(Default) = Default /\ (pointer = Unset \/ pointer \in exists)
    BY <1>5
  <2>4. Ends(c) => Own(c)'
    BY <1>8 DEF Ends
  <2>5. UNCHANGED <<exists, conf, pointer>> => Kept
    BY <2>3 DEF Database
  <2>6. CASE PointTo(c)
    <3>1. step[c] = "use" /\ pointer' = name[c] /\ UNCHANGED <<exists, conf>>
      BY <2>6 DEF PointTo, files
    <3>2. Kept
      BY <2>3, <3>1 DEF Database
    <3> QED
      BY <2>4, <2>6, <3>2 DEF PointTo
  <2>7. CASE Judge(c)
    <3>1. UNCHANGED <<exists, conf, pointer>>
      BY <2>7 DEF Judge, files
    <3>2. Own(c)'
      <4>1. CASE ~Active(c)
        <5>1. pointer # name[c]
          BY <1>3, <2>7, <4>1 DEF Judge
        <5>2. step'[c] = "remove" /\ name' = name
          BY <1>8, <2>7, <4>1 DEF Judge, Goes
        <5> QED
          BY <3>1, <5>1, <5>2
      <4>2. CASE Active(c) /\ Ends(c)
        BY <2>4, <4>2
      <4>3. CASE Active(c) /\ ~Ends(c)
        <5>1. step'[c] = "reset"
          BY <1>8, <2>7, <4>3 DEF Judge, Goes
        <5> QED
          BY <5>1
      <4> QED
        BY <4>1, <4>2, <4>3
    <3> QED
      BY <2>5, <3>1, <3>2
  <2>8. CASE Reset(c)
    <3>1. /\ step[c] = "reset" /\ step'[c] = "remove" /\ name' = name
          /\ pointer' = Unset /\ UNCHANGED <<exists, conf>>
      BY <1>3, <1>8, <2>8 DEF Reset, Goes, files
    <3>2. name[c] \in Named /\ Unset \notin Named
      BY <2>2, <3>1 DEF Deciding, Homes
    <3> QED
      BY <2>3, <3>1, <3>2 DEF Database
  <2>9. CASE RemoveDir(c)
    <3>1. /\ step[c] = "remove" /\ pointer' = pointer
          /\ conf' = [conf EXCEPT ![name[c]] = Unset]
          /\ exists' = exists \/ exists' = exists \ {name[c]}
      BY <2>9 DEF RemoveDir
    <3>2. pointer # name[c] /\ name[c] # Default
      BY <2>2, <2>3, <3>1 DEF Deciding
    <3>3. conf'[Default] = conf[Default]
      BY <1>8, <3>1, <3>2
    <3>4. Kept
      BY <2>3, <3>1, <3>2, <3>3 DEF Database
    <3> QED
      BY <2>4, <2>9, <3>4 DEF RemoveDir
  <2>10. CASE MakeDir(c)
    <3>1. /\ step'[c] = "config" /\ exists' = exists \union {name[c]}
          /\ UNCHANGED <<conf, pointer>>
      BY <1>8, <2>10 DEF MakeDir, Goes
    <3> QED
      BY <2>3, <3>1 DEF Database
  <2>11. CASE MakeConfig(c)
    <3>1. /\ step[c] = "config" /\ exists' = exists \union {name[c]}
          /\ \E x : conf' = [conf EXCEPT ![name[c]] = x]
          /\ pointer' = pointer /\ (Ends(c) \/ step'[c] = "soul")
      BY <1>8, <2>11 DEF MakeConfig, Goes
    <3>2. name[c] # Default
      BY <2>2, <3>1 DEF Deciding
    <3>3. conf'[Default] = conf[Default]
      BY <1>8, <3>1, <3>2
    <3>4. pointer' = pointer
      BY <2>11 DEF MakeConfig
    <3> QED
      BY <2>3, <2>4, <3>1, <3>3, <3>4 DEF Database
  <2>12. CASE CopyPersona(c)
    <3>1. exists \subseteq exists' /\ UNCHANGED <<conf, pointer>> /\ Ends(c)
      BY <2>12 DEF CopyPersona
    <3>2. Kept
      BY <2>3, <3>1 DEF Database
    <3> QED
      BY <2>4, <3>1, <3>2
  <2>13. CASE LoadConfig(c)
    <3> DEFINE from == IF option[c] = "setup" THEN name[c] ELSE Resolved(env[c])
               x == IF conf[from] # Unset THEN conf[from] ELSE Resolved(env[c])
    <3>1. /\ step[c] = "load" /\ step' = [step EXCEPT ![c] = "save"]
          /\ name' = name /\ option' = [option EXCEPT ![c] = x]
          /\ UNCHANGED <<exists, conf, pointer>>
      BY <2>13 DEF LoadConfig, Goes, files
    <3>2. Resolved(env[c]) = name[c]
      BY <2>3, <3>1
    <3>3. name[c] = Default => x = Default
      BY <2>3, <3>2 DEF Database
    <3> HIDE DEF x
    <3>4. step'[c] = "save" /\ option'[c] = x
      BY <1>8, <3>1
    <3> QED
      BY <2>5, <3>1, <3>3, <3>4
  <2>14. CASE SaveConfig(c)
    <3>1. /\ step[c] = "save" /\ conf' = [conf EXCEPT ![name[c]] = option[c]]
          /\ exists \subseteq exists' /\ pointer' = pointer /\ Ends(c)
      BY <2>14 DEF SaveConfig
    <3>2. conf'[Default] = IF name[c] = Default THEN option[c] ELSE conf[Default]
      BY <1>8, <3>1
    <3>3. Kept
      BY <2>3, <3>1, <3>2 DEF Database
    <3> QED
      BY <2>4, <3>1, <3>3
  <2>15. CASE Abandon(c)
    BY <2>4, <2>5, <2>15 DEF Abandon, files
  <2> HIDE DEF Own, Kept
  <2> QED
    BY <1>11, <2>6, <2>7, <2>8, <2>9, <2>10, <2>11, <2>12, <2>13, <2>14, <2>15
       DEF Moves
<1> HIDE DEF Settled
<1> QED
  BY <1>6, <1>7, <1>10, <1>11, ProfileSteps

(* At first no command runs, the pointer is unset and every file is its     *)
(* own.                                                                     *)
LEMMA ProfilesStart ==
  ASSUME ProfilesInit
  PROVE  ProfilesInv
<1> USE ProfilesAssumption DEF ProfilesInit
<1>1. conf[Default] \in {Unset, Default} /\ Default \in Homes
  BY DEF Homes
<1>2. ProfilesTypeOK
  <2>1. {conf, persona} \subseteq [Homes -> Homes \union {Unset}]
    BY DEF Homes
  <2>2. begun \in 0 .. MaxCommands
    OBVIOUS
  <2>3. excused \in BOOLEAN
    OBVIOUS
  <2> QED
    BY <2>1, <2>2, <2>3 DEF ProfilesTypeOK, Steps
<1> QED
  BY <1>1, <1>2 DEF ProfilesInv, AboutNamed, AboutHome, Deciding, OneCommand,
     UsesWhatIsThere, RemovesUnpointed, ReadsWhereItSaves, RootSavesItsOwn,
     PointerHolds, RootKeepsItsOwn, Busy, Database

(* profile_manager.go: the pointer to the active profile never names one    *)
(* that is not there, and the root never works on a profile's database, as  *)
(* long as commands run one at a time and delete profiles that are theirs.  *)
THEOREM ProfilesStayInOrder == ProfilesSpec => []ProfilesHold
<1>1. ProfilesInit => ProfilesInv
  BY ProfilesStart
<1>2. ProfilesInv /\ [ProfilesNext]_profileVars => ProfilesInv'
  BY ProfilesGoOn
<1>3. ProfilesInv => ProfilesHold
  BY DEF ProfilesInv, ProfilesHold
<1> QED
  BY <1>1, <1>2, <1>3, PTL DEF ProfilesSpec

-----------------------------------------------------------------------------
(* The plugins (internal/plugins/manager.go).  *)

(* What a run holds enabled is what was last said of the plugins it has,   *)
(* except for those others have settled since it read, or that the file    *)
(* was already wrong about; when it has changed the one it was asked for,  *)
(* it holds that as it was told.                                           *)
SettledFor(r) == stale \union missed[r] \union
              (IF turn[r] = "wiped" THEN {job[r].plugin} ELSE {})
HoldsNoMore ==
  \A r \in Runs : turn[r] # "free" => enabled[r] \ SettledFor(r) \subseteq word
HoldsNoLess ==
  \A r \in Runs : turn[r] # "free" =>
    (word \intersect known[r]) \ (SettledFor(r) \union dropped) \subseteq enabled[r]
HoldsWhatItWasTold ==
  \A r \in Runs : turn[r] = "wiped" =>
    (job[r].plugin \in enabled[r]) = job[r].on

PluginInv ==
  /\ PluginTypeOK /\ HoldsNoMore /\ HoldsNoLess /\ HoldsWhatItWasTold
  /\ PluginsKept

(* The steps of the plugin commands keep the types. *)
LEMMA PluginTypesStay ==
  ASSUME PluginTypeOK, [PluginNext]_pluginVars
  PROVE  PluginTypeOK'
<1> USE PluginAssumption
<1>1. /\ stateFile \subseteq Plugins /\ word \subseteq Plugins
      /\ stale \subseteq Plugins /\ dropped \subseteq Plugins
      /\ turn \in [Runs -> {"free", "ready", "wiped"}] /\ job \in [Runs -> Orders]
      /\ known \in [Runs -> SUBSET Plugins] /\ enabled \in [Runs -> SUBSET Plugins]
      /\ missed \in [Runs -> SUBSET Plugins] /\ crossed \subseteq Runs
  BY DEF PluginTypeOK
<1>2. AnyJob \in Orders
  BY DEF AnyJob
<1>3. \A j \in Orders : j.plugin \in Plugins
  OBVIOUS
<1>4. CASE UNCHANGED pluginVars
  BY <1>1, <1>4 DEF pluginVars, PluginTypeOK
<1>5. ASSUME NEW r \in Runs, NEW j \in Orders, NEW found \in SUBSET Plugins,
             LoadPlugins(r, j, found)
      PROVE  PluginTypeOK'
  <2>1. turn' \in [Runs -> {"free", "ready", "wiped"}] /\ job' \in [Runs -> Orders]
    BY <1>1, <1>5 DEF LoadPlugins
  <2>2. /\ known' \in [Runs -> SUBSET Plugins] /\ enabled' \in [Runs -> SUBSET Plugins]
        /\ missed' \in [Runs -> SUBSET Plugins]
    BY <1>1, <1>5 DEF LoadPlugins
  <2> QED
    BY <1>1, <1>5, <2>1, <2>2 DEF LoadPlugins, PluginTypeOK
<1>6. ASSUME NEW r \in Runs, Over(r)
      PROVE  /\ turn' \in [Runs -> {"free", "ready", "wiped"}]
             /\ job' \in [Runs -> Orders]
             /\ known' \in [Runs -> SUBSET Plugins]
             /\ enabled' \in [Runs -> SUBSET Plugins]
  BY <1>1, <1>2, <1>6 DEF Over
<1>7. ASSUME NEW r \in Runs, Change(r)
      PROVE  PluginTypeOK'
  <2>1. job[r].plugin \in Plugins
    BY <1>1, <1>3
  <2>2. enabled' \in [Runs -> SUBSET Plugins]
    BY <1>1, <1>7, <2>1 DEF Change
  <2>3. turn' \in [Runs -> {"free", "ready", "wiped"}]
    BY <1>1, <1>7 DEF Change
  <2> QED
    BY <1>1, <1>7, <2>2, <2>3 DEF Change, PluginTypeOK
<1>8. ASSUME NEW r \in Runs, Refused(r)
      PROVE  PluginTypeOK'
  <2>1. missed' \in [Runs -> SUBSET Plugins]
    BY <1>1, <1>8 DEF Refused
  <2> QED
    BY <1>1, <1>6, <1>8, <2>1 DEF Refused, PluginTypeOK
<1>9. ASSUME NEW r \in Runs, Written(r)
      PROVE  PluginTypeOK'
  <2>1. job[r].plugin \in Plugins /\ Over(r)
    BY <1>1, <1>3, <1>9 DEF Written
  <2>2. word' \subseteq Plugins /\ stale' \subseteq Plugins
    BY <1>1, <1>9, <2>1 DEF Written
  <2>3. stateFile' \subseteq Plugins /\ dropped' \subseteq Plugins
    BY <1>1, <1>9 DEF Written, Content
  <2>4. missed' \in [Runs -> SUBSET Plugins]
    BY <1>1, <1>9, <2>1 DEF Written
  <2>5. crossed' \subseteq Runs
    BY <1>1, <1>9 DEF Written, Writing
  <2> QED
    BY <1>6, <2>1, <2>2, <2>3, <2>4, <2>5 DEF PluginTypeOK
<1>10. ASSUME NEW r \in Runs, WriteLost(r)
       PROVE  PluginTypeOK'
  <2>1. missed' \in [Runs -> SUBSET Plugins] /\ crossed' \subseteq Runs
    BY <1>1, <1>10 DEF WriteLost, Writing
  <2>2. Over(r) /\ stateFile' \subseteq Plugins /\ dropped' \subseteq Plugins
    BY <1>1, <1>10 DEF WriteLost
  <2> QED
    BY <1>1, <1>6, <1>10, <2>1, <2>2 DEF WriteLost, PluginTypeOK
<1> QED
  BY <1>4, <1>5, <1>7, <1>8, <1>9, <1>10 DEF PluginNext

(* Every step keeps the invariant: what a run reads, changes and writes     *)
(* back stays what was said.                                                *)
LEMMA PluginsGoOn ==
  ASSUME PluginInv, [PluginNext]_pluginVars
  PROVE  PluginInv'
<1> USE PluginAssumption
<1>1. PluginTypeOK'
  BY PluginTypesStay DEF PluginInv
<1>2. /\ stateFile \subseteq Plugins /\ word \subseteq Plugins
      /\ turn \in [Runs -> {"free", "ready", "wiped"}] /\ job \in [Runs -> Orders]
      /\ known \in [Runs -> SUBSET Plugins] /\ enabled \in [Runs -> SUBSET Plugins]
      /\ missed \in [Runs -> SUBSET Plugins] /\ crossed \subseteq Runs
  BY DEF PluginInv, PluginTypeOK
<1> DEFINE Fits(r) ==
      turn[r] # "free" =>
        /\ enabled[r] \ SettledFor(r) \subseteq word
        /\ (word \intersect known[r]) \ (SettledFor(r) \union dropped) \subseteq enabled[r]
        /\ turn[r] = "wiped" => (job[r].plugin \in enabled[r]) = job[r].on
<1>3. (\A r \in Runs : Fits(r)) /\ PluginsKept
  BY DEF PluginInv, HoldsNoMore, HoldsNoLess, HoldsWhatItWasTold
<1>4. SUFFICES (\A r \in Runs : Fits(r)') /\ PluginsKept'
  BY <1>1 DEF PluginInv, HoldsNoMore, HoldsNoLess, HoldsWhatItWasTold
<1>5. CASE UNCHANGED pluginVars
  BY <1>3, <1>5 DEF pluginVars, PluginsKept, Writing, SettledFor
<1>6. ASSUME NEW r \in Runs, NEW j \in Orders, NEW found \in SUBSET Plugins,
             LoadPlugins(r, j, found)
      PROVE  (\A s \in Runs : Fits(s)') /\ PluginsKept'
  <2>1. /\ turn[r] = "free" /\ turn'[r] = "ready" /\ known'[r] = found
        /\ enabled'[r] = stateFile \intersect found
        /\ missed'[r] = IF Writing = {} THEN {} ELSE Plugins
        /\ UNCHANGED <<stateFile, crossed, word, stale, dropped>>
    BY <1>2, <1>6 DEF LoadPlugins
  <2>2. \A s \in Runs : s # r => /\ turn'[s] = turn[s] /\ job'[s] = job[s]
                                 /\ known'[s] = known[s] /\ enabled'[s] = enabled[s]
                                 /\ missed'[s] = missed[s]
    BY <1>2, <1>6 DEF LoadPlugins
  <2>3. Writing' = Writing
    BY <2>1, <2>2 DEF Writing
  <2>4. PluginsKept'
    BY <1>3, <2>1, <2>3 DEF PluginsKept
  <2>5. Fits(r)'
    BY <1>2, <1>3, <2>1 DEF PluginsKept, SettledFor
  <2>6. \A s \in Runs : s # r => Fits(s)'
    BY <1>3, <2>1, <2>2 DEF SettledFor
  <2> QED
    BY <2>4, <2>5, <2>6
<1>7. ASSUME NEW r \in Runs, Change(r)
      PROVE  (\A s \in Runs : Fits(s)') /\ PluginsKept'
  <2> DEFINE p == job[r].plugin
  <2>1. /\ turn[r] = "ready" /\ turn'[r] = "wiped" /\ stateFile' = {}
        /\ enabled'[r] = IF job[r].on THEN enabled[r] \union {p} ELSE enabled[r] \ {p}
        /\ UNCHANGED <<job, known, missed, word, stale, dropped>>
    BY <1>2, <1>7 DEF Change
  <2>2. \A s \in Runs : s # r => turn'[s] = turn[s] /\ enabled'[s] = enabled[s]
    BY <1>2, <1>7 DEF Change
  <2>3. r \in Writing'
    BY <2>1 DEF Writing
  <2>4. PluginsKept'
    BY <2>1, <2>3 DEF PluginsKept
  <2>5. job[r].on \in BOOLEAN
    BY <1>2
  <2>6. Fits(r)'
    BY <1>3, <2>1, <2>5 DEF SettledFor
  <2>7. \A s \in Runs : s # r => Fits(s)'
    BY <1>3, <2>1, <2>2 DEF SettledFor
  <2> QED
    BY <2>4, <2>6, <2>7
<1>8. ASSUME NEW r \in Runs, Over(r)
      PROVE  /\ turn'[r] = "free"
             /\ \A s \in Runs : s # r => /\ turn'[s] = turn[s] /\ job'[s] = job[s]
                                         /\ known'[s] = known[s]
                                         /\ enabled'[s] = enabled[s]
             /\ Writing' = Writing \ {r}
  <2>1. /\ turn'[r] = "free"
        /\ \A s \in Runs : s # r => /\ turn'[s] = turn[s] /\ job'[s] = job[s]
                                    /\ known'[s] = known[s]
                                    /\ enabled'[s] = enabled[s]
    BY <1>2, <1>8 DEF Over
  <2> QED
    BY <2>1 DEF Writing
<1>9. ASSUME NEW r \in Runs, Refused(r)
      PROVE  (\A s \in Runs : Fits(s)') /\ PluginsKept'
  <2>1. /\ Over(r) /\ turn[r] = "ready" /\ UNCHANGED <<stateFile, word, stale, dropped>>
        /\ \A s \in Runs : s # r => missed'[s] = missed[s]
    BY <1>2, <1>9 DEF Refused
  <2>2. Writing' = Writing
    BY <1>8, <2>1 DEF Writing
  <2>3. PluginsKept'
    BY <1>3, <2>1, <2>2 DEF PluginsKept
  <2> QED
    BY <1>3, <1>8, <2>1, <2>3 DEF SettledFor
<1>10. ASSUME NEW r \in Runs, Written(r)
       PROVE  (\A s \in Runs : Fits(s)') /\ PluginsKept'
  <2> DEFINE p == job[r].plugin
  <2>1. /\ Over(r) /\ turn[r] = "wiped" /\ Fits(r)
        /\ word' = IF job[r].on THEN word \union {p} ELSE word \ {p}
        /\ stale' = (stale \union missed[r]) \ {p}
        /\ \/ /\ stateFile' = enabled[r]
              /\ dropped' = (dropped \union (word \ known[r])) \ {p}
           \/ stateFile' = {} /\ dropped' = Plugins
        /\ \A s \in Runs : s # r /\ turn[s] # "free" =>
             missed'[s] = missed[s] \union {p}
    BY <1>2, <1>3, <1>10 DEF Written, Content
  <2>2. job[r].on \in BOOLEAN /\ p \in Plugins
    BY <1>2
  <2>3. /\ enabled[r] \ (stale \union missed[r] \union {p}) \subseteq word
        /\ (word \intersect known[r]) \ (stale \union missed[r] \union {p} \union dropped)
             \subseteq enabled[r]
        /\ (p \in enabled[r]) = job[r].on
    BY <2>1 DEF SettledFor
  <2> HIDE DEF p
  <2>4. PluginsKept'
    <3>1. CASE stateFile' = {} /\ dropped' = Plugins
      <4>1. word' \subseteq Plugins
        BY <1>1 DEF PluginTypeOK
      <4> QED
        BY <3>1, <4>1 DEF PluginsKept
    <3>2. CASE /\ stateFile' = enabled[r]
               /\ dropped' = (dropped \union (word \ known[r])) \ {p}
      <4>1. stateFile' \ stale' \subseteq word'
        BY <2>1, <2>2, <2>3, <3>2
      <4>2. word' \ (stale' \union dropped') \subseteq stateFile'
        BY <2>1, <2>2, <2>3, <3>2
      <4> QED
        BY <4>1, <4>2 DEF PluginsKept
    <3> QED
      BY <2>1, <3>1, <3>2 DEF p
  <2>5. ASSUME NEW s \in Runs, s # r, turn[s] # "free"
        PROVE  Fits(s)'
    <3>1. /\ turn'[s] = turn[s] /\ job'[s] = job[s] /\ known'[s] = known[s]
          /\ enabled'[s] = enabled[s] /\ missed'[s] = missed[s] \union {p}
      BY <1>8, <2>1, <2>5 DEF p
    <3>2. /\ stale \subseteq stale' \union {p}
          /\ word' \subseteq word \union {p} /\ word \subseteq word' \union {p}
      BY <2>1 DEF p
    <3>3. word' \ dropped' \subseteq (word \ dropped) \union {p}
      <4>1. word' \subseteq Plugins
        BY <1>1 DEF PluginTypeOK
      <4> QED
        BY <2>1, <3>2, <4>1 DEF p
    <3>4. Fits(s)
      BY <1>3
    <3> QED
      BY <2>5, <3>1, <3>2, <3>3, <3>4 DEF SettledFor
  <2> QED
    BY <1>8, <2>1, <2>4, <2>5
<1>11. ASSUME NEW r \in Runs, WriteLost(r)
       PROVE  (\A s \in Runs : Fits(s)') /\ PluginsKept'
  <2>1. /\ Over(r) /\ stateFile' \subseteq stateFile /\ dropped' = Plugins
        /\ UNCHANGED <<word, stale>>
        /\ \A s \in Runs : s # r => missed'[s] = missed[s]
    BY <1>2, <1>11 DEF WriteLost
  <2>2. PluginsKept'
    BY <1>2, <1>3, <2>1 DEF PluginsKept
  <2> QED
    BY <1>2, <1>3, <1>8, <2>1, <2>2 DEF SettledFor
<1> HIDE DEF Fits
<1> QED
  BY <1>5, <1>6, <1>7, <1>9, <1>10, <1>11 DEF PluginNext

LEMMA PluginsStart == PluginInit => PluginInv
<1> SUFFICES ASSUME PluginInit
             PROVE  PluginInv
  OBVIOUS
<1>1. AnyJob \in Orders
  BY PluginAssumption DEF AnyJob
<1>2. PluginTypeOK
  BY <1>1 DEF PluginInit, PluginTypeOK
<1> QED
  BY <1>2 DEF PluginInit, PluginInv, HoldsNoMore, HoldsNoLess,
              HoldsWhatItWasTold, PluginsKept

(* manager.go:166 and 291: the state file says of every plugin what the     *)
(* last command that succeeded said of it, for any number of commands and   *)
(* plugins; except where two overlapped, a write stopped in the middle or a *)
(* manifest was invalid.                                                    *)
THEOREM PluginStateIsKept == PluginSpec => []PluginsKept
<1>1. PluginInit => PluginInv
  BY PluginsStart
<1>2. PluginInv /\ [PluginNext]_pluginVars => PluginInv'
  BY PluginsGoOn
<1>3. PluginInv => PluginsKept
  BY DEF PluginInv
<1> QED
  BY <1>1, <1>2, <1>3, PTL DEF PluginSpec

-----------------------------------------------------------------------------
(* The skills (internal/skills, cmd/agis/skill.go).                        *)

(* A load that nothing happened beside has saved the front of the listing,  *)
(* and what it saved last of a name is that name's row.                     *)
Saved(h) == Filled(Listing) \ Filled(toSave[h])
LastSaved(h, i) ==
  \A k \in Saved(h) : Listing[k].name = Listing[i].name => k <= i
SavesInOrder ==
  \A h \in fresh : loading[h] = "save" =>
    /\ \A i \in Filled(toSave[h]) : toSave[h][i] = Listing[i]
    /\ \A i \in Saved(h), k \in Filled(toSave[h]) : i < k
    /\ \A i \in Saved(h) :
         LastSaved(h, i) => skillRows[Listing[i].name] = Listing[i].text
FreshAreLoaded == \A h \in fresh : loading[h] \in {"save", "idle"}

(* A name that is gone for good has no row, no file and no load that would  *)
(* bring it back; one whose row is about to go has no file of its own stem. *)
GoneEverywhere ==
  \A n \in deleted \ raced :
    /\ skillRows[n] = NoText
    /\ \A e \in SkillEntries : skillFiles[e.place][e.stem].name # n
    /\ \A h \in Hubs : \A i \in DOMAIN DirOrder : toSave[h][i].name # n
DroppedHasNoFile ==
  \A h \in Hubs : loading[h] = "drop" =>
    /\ doomed[h] \in SkillNames
    /\ doomed[h] \notin raced =>
         \A p \in {"nested", "flat"} :
           skillFiles[p][doomed[h]].name # doomed[h]

SkillInv ==
  /\ SkillTypeOK /\ SavesInOrder /\ FreshAreLoaded /\ IndexFollowsFiles
  /\ GoneEverywhere /\ DroppedHasNoFile

(* What there is instead of a skill, and where the entries stand.           *)
LEMMA SkillFacts ==
  /\ NoText \notin Texts /\ Blank \in Texts /\ NoSkill \notin Skills
  /\ NoSkill.name = NoName /\ NoName \notin SkillNames
  /\ \A f \in Skills : f.name \in SkillNames /\ f.text \in Texts
  /\ \A n \in SkillNames, w \in Texts :
       /\ [name |-> n, text |-> w] \in Skills
       /\ [name |-> n, text |-> w].name = n
  /\ DOMAIN DirOrder \subseteq Nat
  /\ \A i \in DOMAIN DirOrder :
       /\ DirOrder[i] \in SkillEntries
       /\ DirOrder[i].place \in {"nested", "flat"} /\ DirOrder[i].stem \in SkillNames
  /\ \A n \in SkillNames, p \in {"nested", "flat"} :
       \E e \in SkillEntries : e.place = p /\ e.stem = n
<1>0. /\ DirOrder \in Seq(SkillEntries) /\ ToSet(DirOrder) = SkillEntries
      /\ NoName \notin SkillNames /\ MaxSkillWrites \in Nat
  BY SkillAssumption DEF SkillAssumption
<1>1. /\ NoText \notin Texts /\ Blank \in Texts /\ NoSkill \notin Skills
      /\ NoSkill.name = NoName /\ NoName \notin SkillNames
  <2>1. NoText \notin Texts /\ Blank \in Texts
    BY <1>0 DEF NoText, Texts, Blank
  <2>2. NoSkill.name = NoName /\ NoSkill.text = NoText
    BY DEF NoSkill
  <2>3. \A f \in Skills : f.text \in Texts
    BY DEF Skills
  <2> QED
    BY <1>0, <2>1, <2>2, <2>3
<1>2. \A f \in Skills : f.name \in SkillNames /\ f.text \in Texts
  BY DEF Skills
<1>3. \A n \in SkillNames, w \in Texts :
        /\ [name |-> n, text |-> w] \in Skills
        /\ [name |-> n, text |-> w].name = n
  BY DEF Skills
<1>4. /\ DOMAIN DirOrder \subseteq Nat
      /\ \A i \in DOMAIN DirOrder : DirOrder[i] \in SkillEntries
  BY <1>0
<1>5. \A e \in SkillEntries : e.place \in {"nested", "flat"} /\ e.stem \in SkillNames
  BY DEF SkillEntries
<1>6. ASSUME NEW n \in SkillNames, NEW p \in {"nested", "flat"}
      PROVE  \E e \in SkillEntries : e.place = p /\ e.stem = n
  <2>1. [place |-> p, stem |-> n] \in SkillEntries
    BY DEF SkillEntries
  <2> QED
    BY <2>1
<1> QED
  BY <1>1, <1>2, <1>3, <1>4, <1>5, <1>6

LEMMA ListingIs ==
  ASSUME SkillTypeOK
  PROVE  /\ Listing \in [DOMAIN DirOrder -> Skills \union {NoSkill}]
         /\ \A i \in DOMAIN DirOrder :
              Listing[i] = skillFiles[DirOrder[i].place][DirOrder[i].stem]
         /\ Filled(Listing) \subseteq DOMAIN DirOrder
         /\ \A i \in Filled(Listing) : Listing[i] \in Skills
<1>1. \A i \in DOMAIN DirOrder :
        skillFiles[DirOrder[i].place][DirOrder[i].stem] \in Skills \union {NoSkill}
  <2>1. \A i \in DOMAIN DirOrder :
          DirOrder[i].place \in {"nested", "flat"} /\ DirOrder[i].stem \in SkillNames
    BY SkillFacts
  <2>2. skillFiles \in [{"nested", "flat"} -> [SkillNames -> Skills \union {NoSkill}]]
    BY DEF SkillTypeOK
  <2> QED
    BY <2>1, <2>2
<1> QED
  BY <1>1 DEF Listing, Filled

(* The steps keep the types. *)
LEMMA SkillTypesStay ==
  ASSUME SkillTypeOK, DroppedHasNoFile, [SkillNext]_skillVars
  PROVE  SkillTypeOK'
<1>1. /\ skillFiles \in [{"nested", "flat"} -> [SkillNames -> Skills \union {NoSkill}]]
      /\ skillRows \in [SkillNames -> Texts \union {NoText}]
      /\ index \in [Hubs -> [SkillNames -> Texts \union {NoText}]]
      /\ loading \in [Hubs -> {"off", "save", "idle", "drop", "reload"}]
      /\ toSave \in [Hubs -> [DOMAIN DirOrder -> Skills \union {NoSkill}]]
      /\ doomed \in [Hubs -> SkillNames \union {NoName}] /\ skillWrites \in Texts
      /\ fresh \subseteq Hubs /\ deleted \subseteq SkillNames /\ raced \subseteq SkillNames
  BY DEF SkillTypeOK
<1>2. /\ NoTexts \in [SkillNames -> Texts \union {NoText}]
      /\ NoSkills \in [DOMAIN DirOrder -> Skills \union {NoSkill}]
  BY DEF NoTexts, NoSkills
<1>3. skillWrites < MaxSkillWrites => skillWrites + 1 \in Texts
  <2>1. MaxSkillWrites \in Nat
    BY SkillAssumption DEF SkillAssumption
  <2> QED
    BY <1>1, <2>1 DEF Texts
<1>4. CASE UNCHANGED skillVars
  BY <1>1, <1>4 DEF skillVars, SkillTypeOK
<1>5. ASSUME NEW h \in Hubs, ReadSkills(h) PROVE SkillTypeOK'
  <2>1. Listing \in [DOMAIN DirOrder -> Skills \union {NoSkill}]
    BY ListingIs
  <2>2. /\ toSave' \in [Hubs -> [DOMAIN DirOrder -> Skills \union {NoSkill}]]
        /\ loading' \in [Hubs -> {"off", "save", "idle", "drop", "reload"}]
    BY <1>1, <1>5, <2>1 DEF ReadSkills
  <2>3. fresh' \subseteq Hubs
    BY <1>1, <1>5 DEF ReadSkills
  <2> QED
    BY <1>1, <1>5, <2>2, <2>3 DEF ReadSkills, SkillTypeOK
<1>6. ASSUME NEW n \in SkillNames, NEW w \in Texts
      PROVE  Upsert(n, w) \in [SkillNames -> Texts \union {NoText}]
  BY <1>1 DEF Upsert
<1>7. ASSUME NEW h \in Hubs, SaveNext(h) PROVE SkillTypeOK'
  <2>1. PICK i \in Filled(toSave[h]) : SaveNext(h)!2!(i)
    BY <1>7 DEF SaveNext
  <2>2. i \in DOMAIN DirOrder /\ toSave[h][i] \in Skills
    BY <1>1 DEF Filled
  <2>3. skillRows' \in [SkillNames -> Texts \union {NoText}]
    BY <1>1, <1>6, <2>1, <2>2, SkillFacts
  <2>4. /\ toSave' \in [Hubs -> [DOMAIN DirOrder -> Skills \union {NoSkill}]]
        /\ loading' \in [Hubs -> {"off", "save", "idle", "drop", "reload"}]
    <3>1. CASE toSave[h][i].text # Blank
      <4>1. [toSave[h] EXCEPT ![i] = NoSkill]
              \in [DOMAIN DirOrder -> Skills \union {NoSkill}]
        BY <1>1
      <4> QED
        BY <1>1, <2>1, <3>1, <4>1, ZenonT(40)
    <3>2. CASE toSave[h][i].text = Blank
      BY <1>1, <1>2, <2>1, <3>2, ZenonT(40)
    <3> QED
      BY <3>1, <3>2
  <2>5. fresh' \subseteq Hubs
    BY <1>1, <2>1
  <2> QED
    BY <1>1, <1>7, <2>3, <2>4, <2>5 DEF SaveNext, SkillTypeOK
<1>8. ASSUME NEW h \in Hubs, ListSkills(h) PROVE SkillTypeOK'
  BY <1>1, <1>8 DEF ListSkills, SkillTypeOK
<1>9. ASSUME NEW h \in Hubs, HubEnds(h) PROVE SkillTypeOK'
  <2>1. /\ toSave' \in [Hubs -> [DOMAIN DirOrder -> Skills \union {NoSkill}]]
        /\ index' \in [Hubs -> [SkillNames -> Texts \union {NoText}]]
        /\ loading' \in [Hubs -> {"off", "save", "idle", "drop", "reload"}]
    BY <1>1, <1>2, <1>9 DEF HubEnds
  <2>2. fresh' \subseteq Hubs
    BY <1>1, <1>9 DEF HubEnds
  <2> QED
    BY <1>1, <1>9, <2>1, <2>2 DEF HubEnds, SkillTypeOK
<1>10. ASSUME NEW p \in {"nested", "flat"}, NEW s \in SkillNames,
              NEW n \in SkillNames, NEW w \in {Blank, skillWrites + 1},
              Put(p, s, n, w)
       PROVE  /\ skillFiles' \in [{"nested", "flat"} -> [SkillNames -> Skills \union {NoSkill}]]
              /\ skillWrites' \in Texts /\ fresh' \subseteq Hubs
              /\ deleted' \subseteq SkillNames /\ raced' \subseteq SkillNames
  <2>1. w \in Texts
    BY <1>3, <1>10, SkillFacts DEF Put
  <2>2. [name |-> n, text |-> w] \in Skills
    BY <2>1, SkillFacts
  <2>3. skillFiles' \in [{"nested", "flat"} -> [SkillNames -> Skills \union {NoSkill}]]
    BY <1>1, <1>10, <2>2 DEF Put
  <2> QED
    BY <1>1, <1>3, <1>10, <2>3 DEF Put
<1>11. ASSUME NEW f \in UserFiles, NEW w \in {Blank, skillWrites + 1}, UserWrites(f, w)
       PROVE  SkillTypeOK'
  <2>1. f.place \in {"nested", "flat"} /\ f.stem \in SkillNames /\ f.name \in SkillNames
    BY SkillAssumption DEF SkillAssumption
  <2> QED
    BY <1>1, <1>10, <1>11, <2>1 DEF UserWrites, SkillTypeOK
<1>12. ASSUME NEW h \in Hubs, NEW n \in SkillNames, MakesSkill(h, n)
       PROVE  SkillTypeOK'
  <2>1. loading' \in [Hubs -> {"off", "save", "idle", "drop", "reload"}]
    BY <1>1, <1>12 DEF MakesSkill
  <2> QED
    BY <1>1, <1>10, <1>12, <2>1 DEF MakesSkill, SkillTypeOK
<1>13. ASSUME NEW h \in Hubs, NEW n \in SkillNames, RemoveFiles(h, n)
       PROVE  SkillTypeOK'
  <2>0. Without(n) \in [{"nested", "flat"} -> [SkillNames -> Skills \union {NoSkill}]]
    BY <1>1 DEF Without
  <2>1. skillFiles' \in [{"nested", "flat"} -> [SkillNames -> Skills \union {NoSkill}]]
    BY <1>1, <1>13, <2>0 DEF RemoveFiles
  <2>2. /\ loading' \in [Hubs -> {"off", "save", "idle", "drop", "reload"}]
        /\ doomed' \in [Hubs -> SkillNames \union {NoName}]
    BY <1>1, <1>13 DEF RemoveFiles
  <2>3. raced' \subseteq SkillNames
    BY <1>1, <1>13 DEF RemoveFiles
  <2> QED
    BY <1>1, <1>13, <2>1, <2>2, <2>3 DEF RemoveFiles, SkillTypeOK
<1>14. ASSUME NEW h \in Hubs, DeleteRow(h)
       PROVE  SkillTypeOK'
  <2>0. doomed[h] \in SkillNames
    BY <1>14 DEF DeleteRow, DroppedHasNoFile
  <2>1. /\ skillRows' \in [SkillNames -> Texts \union {NoText}]
        /\ loading' \in [Hubs -> {"off", "save", "idle", "drop", "reload"}]
        /\ doomed' \in [Hubs -> SkillNames \union {NoName}]
    BY <1>1, <1>14 DEF DeleteRow
  <2>2. deleted' \subseteq SkillNames /\ raced' \subseteq SkillNames
    BY <1>1, <1>14, <2>0 DEF DeleteRow
  <2> QED
    BY <1>1, <1>14, <2>1, <2>2 DEF DeleteRow, SkillTypeOK
<1>15. ASSUME NEW h \in Hubs, NEW n \in SkillNames, ExtractSkill(h, n)
       PROVE  SkillTypeOK'
  <2>1. skillRows' \in [SkillNames -> Texts \union {NoText}] /\ skillWrites' \in Texts
    BY <1>3, <1>6, <1>15 DEF ExtractSkill
  <2>2. /\ index' \in [Hubs -> [SkillNames -> Texts \union {NoText}]]
        /\ loading' \in [Hubs -> {"off", "save", "idle", "drop", "reload"}]
    BY <1>1, <1>2, <1>15 DEF ExtractSkill
  <2> QED
    BY <1>1, <1>15, <2>1, <2>2 DEF ExtractSkill, SkillTypeOK
<1> QED
  BY <1>4, <1>5, <1>7, <1>8, <1>9, <1>11, <1>12, <1>13, <1>14, <1>15
     DEF SkillNext, CommandCreatesSkill, AgentCreatesSkill

(* While the files stay as they are so does the listing, and what does not  *)
(* touch a hub's load leaves what it saved.                                 *)
LEMMA ListingStays ==
  ASSUME UNCHANGED skillFiles
  PROVE  Listing' = Listing
  BY DEF Listing

(* Writing a file, and taking the files of a name away, spoils what every   *)
(* process has loaded; the other steps take only a hub's own load on.       *)
LEMMA LoadsGoOn ==
  ASSUME SkillInv, [SkillNext]_skillVars
  PROVE  SavesInOrder' /\ FreshAreLoaded' /\ IndexFollowsFiles'
<1>1. /\ loading \in [Hubs -> {"off", "save", "idle", "drop", "reload"}]
      /\ toSave \in [Hubs -> [DOMAIN DirOrder -> Skills \union {NoSkill}]]
      /\ index \in [Hubs -> [SkillNames -> Texts \union {NoText}]]
      /\ skillRows \in [SkillNames -> Texts \union {NoText}]
      /\ fresh \subseteq Hubs
  BY DEF SkillInv, SkillTypeOK
<1>2. SavesInOrder /\ FreshAreLoaded /\ IndexFollowsFiles
  BY DEF SkillInv
<1>3. ASSUME fresh' = {}
      PROVE  SavesInOrder' /\ FreshAreLoaded' /\ IndexFollowsFiles'
  BY <1>3 DEF SavesInOrder, FreshAreLoaded, IndexFollowsFiles
(* A hub that a step leaves alone and that stays fresh stays right.         *)
<1> DEFINE Right(h) ==
      /\ loading[h] \in {"save", "idle"}
      /\ loading[h] = "save" =>
           /\ \A i \in Filled(toSave[h]) : toSave[h][i] = Listing[i]
           /\ \A i \in Saved(h), k \in Filled(toSave[h]) : i < k
           /\ \A i \in Saved(h) :
                LastSaved(h, i) => skillRows[Listing[i].name] = Listing[i].text
      /\ loading[h] = "idle" =>
           \A i \in Filled(Listing) :
             LastOfItsName(i) => index[h][Listing[i].name] = Listing[i].text
<1>4. \A h \in fresh : Right(h)
  BY <1>2 DEF SavesInOrder, FreshAreLoaded, IndexFollowsFiles
<1>5. (\A h \in fresh' : Right(h)') =>
        SavesInOrder' /\ FreshAreLoaded' /\ IndexFollowsFiles'
  BY DEF SavesInOrder, FreshAreLoaded, IndexFollowsFiles
<1>6. ASSUME UNCHANGED skillFiles, NEW g \in fresh,
             loading'[g] = loading[g], toSave'[g] = toSave[g],
             index'[g] = index[g], loading[g] = "idle" \/ skillRows' = skillRows
      PROVE  Right(g)'
  <2>1. Listing' = Listing
    BY <1>6, ListingStays
  <2>2. Right(g)
    BY <1>4
  <2> QED
    BY <1>6, <2>1, <2>2 DEF Saved, LastSaved, LastOfItsName
<1> HIDE DEF Right
<1>7. CASE UNCHANGED skillVars
  BY <1>5, <1>6, <1>7 DEF skillVars
<1>8. ASSUME NEW h \in Hubs, ReadSkills(h)
      PROVE  \A g \in fresh' : Right(g)'
  <2>1. UNCHANGED <<skillFiles, skillRows, index>> /\ fresh' = fresh \union {h}
    BY <1>8 DEF ReadSkills
  <2>2. loading'[h] = "save" /\ toSave'[h] = Listing
    BY <1>1, <1>8 DEF ReadSkills
  <2>3. \A g \in Hubs \ {h} : loading'[g] = loading[g] /\ toSave'[g] = toSave[g]
    BY <1>1, <1>8 DEF ReadSkills
  <2>4. Right(h)'
    <3>1. Listing' = Listing
      BY <2>1, ListingStays
    <3>2. Saved(h)' = {}
      BY <2>2, <3>1 DEF Saved
    <3> QED
      BY <2>2, <3>1, <3>2 DEF Right
  <2> QED
    BY <1>1, <1>6, <2>1, <2>3, <2>4
<1>9. ASSUME NEW h \in Hubs, SaveNext(h)
      PROVE  \A g \in fresh' : Right(g)'
  <2>1. PICK i \in Filled(toSave[h]) : SaveNext(h)!2!(i)
    BY <1>9 DEF SaveNext
  <2>2. CASE toSave[h][i].text = Blank
    <3>1. UNCHANGED <<skillFiles, skillRows, index>> /\ fresh' = fresh \ {h}
      BY <1>9, <2>1, <2>2 DEF SaveNext
    <3>2. \A g \in Hubs \ {h} : loading'[g] = loading[g] /\ toSave'[g] = toSave[g]
      BY <1>1, <2>1, <2>2
    <3> QED
      BY <1>1, <1>6, <3>1, <3>2
  <2>3. CASE toSave[h][i].text # Blank
    <3>1. /\ UNCHANGED <<skillFiles, index, loading>>
          /\ fresh' = fresh \intersect {h}
          /\ skillRows' = Upsert(toSave[h][i].name, toSave[h][i].text)
          /\ toSave' = [toSave EXCEPT ![h][i] = NoSkill]
      BY <1>9, <2>1, <2>3 DEF SaveNext
    <3>2. SUFFICES ASSUME h \in fresh PROVE Right(h)'
      BY <3>1
    <3>3. loading[h] = "save" /\ Right(h)
      BY <1>4, <1>9, <3>2 DEF SaveNext
    <3>4. Listing' = Listing
      BY <3>1, ListingStays
    <3>5. /\ DOMAIN DirOrder \subseteq Nat /\ NoSkill \notin Skills
          /\ Filled(Listing) \subseteq DOMAIN DirOrder
          /\ \A k \in Filled(Listing) : Listing[k].name \in SkillNames
      BY ListingIs, SkillFacts DEF SkillInv
    <3>6. /\ i \in DOMAIN DirOrder /\ toSave[h][i] = Listing[i]
          /\ Listing[i] # NoSkill /\ i \in Filled(Listing)
      BY <1>1, <3>3, ListingIs DEF Right, Filled, SkillInv
    <3>7. Filled(toSave'[h]) = Filled(toSave[h]) \ {i}
      <4>1. toSave'[h] = [toSave[h] EXCEPT ![i] = NoSkill]
        BY <1>1, <3>1
      <4>2. DOMAIN toSave[h] = DOMAIN DirOrder
        BY <1>1
      <4> QED
        BY <4>1, <4>2, <3>6 DEF Filled
    <3>8. \A k \in Filled(toSave'[h]) : toSave'[h][k] = toSave[h][k]
      BY <1>1, <3>1, <3>6, <3>7 DEF Filled
    <3>9. Saved(h)' = Saved(h) \union {i}
      BY <3>4, <3>6, <3>7 DEF Saved
    <3>10. \A k \in Saved(h) : k < i /\ k \in Filled(Listing)
      BY <3>3 DEF Right, Saved
    <3>11. \A k \in Filled(toSave'[h]) : i < k
      <4> TAKE k \in Filled(toSave'[h])
      <4>1. k \in Filled(toSave[h]) /\ k # i /\ i <= k
        BY <2>1, <3>7
      <4>2. k \in Nat /\ i \in Nat
        BY <1>1, <3>5, <3>6, <4>1 DEF Filled
      <4> QED
        BY <4>1, <4>2
    <3>12. ASSUME NEW k \in Saved(h)', LastSaved(h, k)'
           PROVE  skillRows'[Listing[k].name] = Listing[k].text
      <4>1. Listing[i].name \in SkillNames
        BY <3>5, <3>6
      <4>2. CASE k = i
        BY <1>1, <3>1, <3>6, <4>1, <4>2 DEF Upsert
      <4>3. CASE k # i
        <5>1. k \in Saved(h) /\ k < i /\ k \in Nat /\ i \in Nat
          BY <3>5, <3>6, <3>9, <3>10, <3>12, <4>3
        <5>2. Listing[i].name # Listing[k].name
          BY <3>4, <3>9, <3>12, <5>1 DEF LastSaved
        <5>3. LastSaved(h, k)
          BY <3>4, <3>9, <3>12 DEF LastSaved
        <5>4. skillRows[Listing[k].name] = Listing[k].text
          BY <3>3, <5>1, <5>3 DEF Right
        <5> QED
          BY <1>1, <3>1, <3>6, <4>1, <5>2, <5>4 DEF Upsert
      <4> QED
        BY <4>2, <4>3
    <3>13. \A k \in Saved(h)', l \in Filled(toSave'[h]) : k < l
      BY <3>3, <3>7, <3>9, <3>11 DEF Right
    <3>14. \A k \in Filled(toSave'[h]) : toSave'[h][k] = Listing[k]
      BY <3>3, <3>7, <3>8 DEF Right
    <3>15. loading'[h] = "save"
      BY <3>1, <3>3
    <3> QED
      BY <3>4, <3>12, <3>13, <3>14, <3>15 DEF Right
  <2> QED
    BY <2>2, <2>3
<1>10. ASSUME NEW h \in Hubs, ListSkills(h)
       PROVE  \A g \in fresh' : Right(g)'
  <2>1. /\ UNCHANGED <<skillFiles, skillRows, toSave, fresh>>
        /\ loading[h] = "save" /\ Filled(toSave[h]) = {}
    BY <1>10 DEF ListSkills
  <2>2. loading'[h] = "idle" /\ index'[h] = skillRows
    BY <1>1, <1>10 DEF ListSkills
  <2>3. \A g \in Hubs \ {h} : loading'[g] = loading[g] /\ index'[g] = index[g]
    BY <1>1, <1>10 DEF ListSkills
  <2>4. ASSUME h \in fresh PROVE Right(h)'
    <3>1. Listing' = Listing
      BY <2>1, ListingStays
    <3>2. Saved(h) = Filled(Listing) /\ Right(h)
      BY <1>4, <2>1, <2>4 DEF Saved
    <3>3. \A i \in Filled(Listing) : LastOfItsName(i) => LastSaved(h, i)
      BY <3>2 DEF LastOfItsName, LastSaved
    <3>4. \A i \in Filled(Listing) :
            LastOfItsName(i) => skillRows[Listing[i].name] = Listing[i].text
      BY <2>1, <3>2, <3>3 DEF Right
    <3> QED
      BY <2>2, <3>1, <3>4 DEF Right, LastOfItsName
  <2> QED
    BY <1>1, <1>6, <2>1, <2>3, <2>4
<1>11. ASSUME NEW h \in Hubs, HubEnds(h)
       PROVE  \A g \in fresh' : Right(g)'
  <2>1. UNCHANGED <<skillFiles, skillRows>> /\ fresh' = fresh \ {h}
    BY <1>11 DEF HubEnds
  <2>2. \A g \in Hubs \ {h} : /\ loading'[g] = loading[g] /\ index'[g] = index[g]
                              /\ toSave'[g] = toSave[g]
    BY <1>1, <1>11 DEF HubEnds
  <2> QED
    BY <1>1, <1>6, <2>1, <2>2
<1>12. ASSUME NEW h \in Hubs, NEW n \in SkillNames,
              RemoveFiles(h, n) \/ MakesSkill(h, n) \/ ExtractSkill(h, n)
       PROVE  fresh' = {}
  BY <1>12 DEF RemoveFiles, MakesSkill, Put, ExtractSkill
<1>13. ASSUME NEW h \in Hubs, DeleteRow(h) PROVE fresh' = {}
  BY <1>13 DEF DeleteRow
<1>14. ASSUME NEW f \in UserFiles, NEW w, UserWrites(f, w) PROVE fresh' = {}
  BY <1>14 DEF UserWrites, Put
<1> QED
  BY <1>3, <1>5, <1>7, <1>8, <1>9, <1>10, <1>11, <1>12, <1>13, <1>14
     DEF SkillNext, CommandCreatesSkill, AgentCreatesSkill

(* What is gone stays out of the rows, the files and the loads.             *)
LEMMA GoneStaysGone ==
  ASSUME SkillInv, [SkillNext]_skillVars
  PROVE  GoneEverywhere' /\ DroppedHasNoFile'
<1>1. /\ skillFiles \in [{"nested", "flat"} -> [SkillNames -> Skills \union {NoSkill}]]
      /\ skillRows \in [SkillNames -> Texts \union {NoText}]
      /\ loading \in [Hubs -> {"off", "save", "idle", "drop", "reload"}]
      /\ toSave \in [Hubs -> [DOMAIN DirOrder -> Skills \union {NoSkill}]]
      /\ doomed \in [Hubs -> SkillNames \union {NoName}]
      /\ deleted \subseteq SkillNames /\ raced \subseteq SkillNames
  BY DEF SkillInv, SkillTypeOK
<1> DEFINE NoRowOf(n) == skillRows[n] = NoText
           NoFileOf(n) == \A p \in {"nested", "flat"}, s \in SkillNames :
                          skillFiles[p][s].name # n
           NoLoadOf(n) == \A h \in Hubs : \A i \in DOMAIN DirOrder :
                          toSave[h][i].name # n
           Dropped(h) == loading[h] = "drop" =>
                           /\ doomed[h] \in SkillNames
                           /\ doomed[h] \notin raced =>
                                \A p \in {"nested", "flat"} :
                                  skillFiles[p][doomed[h]].name # doomed[h]
<1>2. /\ \A n \in deleted \ raced : NoRowOf(n) /\ NoFileOf(n) /\ NoLoadOf(n)
      /\ \A h \in Hubs : Dropped(h)
  <2>1. ASSUME NEW n \in deleted \ raced, NEW p \in {"nested", "flat"},
               NEW s \in SkillNames
        PROVE  skillFiles[p][s].name # n
    <3>1. PICK e \in SkillEntries : e.place = p /\ e.stem = s
      BY SkillFacts
    <3> QED
      BY <3>1 DEF SkillInv, GoneEverywhere
  <2> QED
    BY <2>1 DEF SkillInv, GoneEverywhere, DroppedHasNoFile
<1>3. SUFFICES /\ \A n \in deleted' \ raced' : NoRowOf(n)' /\ NoFileOf(n)' /\ NoLoadOf(n)'
               /\ \A h \in Hubs : Dropped(h)'
  <2>1. \A e \in SkillEntries : e.place \in {"nested", "flat"} /\ e.stem \in SkillNames
    BY DEF SkillEntries
  <2> QED
    BY <1>3, <2>1 DEF GoneEverywhere, DroppedHasNoFile
<1> DEFINE Goal == /\ \A n \in deleted' \ raced' : NoRowOf(n)' /\ NoFileOf(n)' /\ NoLoadOf(n)'
                   /\ \A h \in Hubs : Dropped(h)'
<1>4. CASE UNCHANGED skillVars
  BY <1>2, <1>4 DEF skillVars
<1>5. ASSUME NEW h \in Hubs, ReadSkills(h) PROVE Goal
  <2>1. /\ UNCHANGED <<skillFiles, skillRows, doomed, deleted, raced>>
        /\ loading' = [loading EXCEPT ![h] = "save"]
        /\ toSave' = [toSave EXCEPT ![h] = Listing]
    BY <1>5 DEF ReadSkills
  <2>2. \A n \in deleted \ raced, i \in DOMAIN DirOrder : Listing[i].name # n
    BY <1>2, ListingIs, SkillFacts DEF SkillInv
  <2>3. \A n \in deleted \ raced : NoLoadOf(n)'
    BY <1>1, <1>2, <2>1, <2>2
  <2> QED
    BY <1>1, <1>2, <2>1, <2>3
<1>6. ASSUME NEW h \in Hubs, SaveNext(h) PROVE Goal
  <2>1. PICK i \in Filled(toSave[h]) : SaveNext(h)!2!(i)
    BY <1>6 DEF SaveNext
  <2>2. i \in DOMAIN DirOrder /\ toSave[h][i].name \in SkillNames
    BY <1>1, SkillFacts DEF Filled
  <2>3. /\ UNCHANGED <<skillFiles, doomed, deleted, raced>>
        /\ loading[h] = "save" /\ \A g \in Hubs : loading'[g] = "drop" => loading[g] = "drop"
    BY <1>1, <1>6, <2>1 DEF SaveNext
  <2>4. ASSUME NEW n \in deleted \ raced PROVE NoRowOf(n)'
    <3>1. toSave[h][i].name # n /\ NoRowOf(n) /\ n \in SkillNames
      BY <1>1, <1>2, <2>2
    <3> QED
      BY <1>1, <2>1, <2>2, <3>1 DEF Upsert
  <2>5. NoSkill.name = NoName /\ NoName \notin SkillNames
    BY SkillFacts
  <2>6. \A g \in Hubs, k \in DOMAIN DirOrder :
          toSave'[g][k] = toSave[g][k] \/ toSave'[g][k] = NoSkill
    <3>1. CASE toSave[h][i].text # Blank
      BY <1>1, <2>1, <2>2, <3>1
    <3>2. CASE toSave[h][i].text = Blank
      BY <1>1, <2>1, <3>2 DEF NoSkills
    <3> QED
      BY <3>1, <3>2
  <2>7. \A n \in deleted \ raced : NoLoadOf(n)'
    BY <1>1, <1>2, <2>5, <2>6
  <2> QED
    BY <1>2, <2>3, <2>4, <2>7
<1>7. ASSUME NEW h \in Hubs, ListSkills(h) PROVE Goal
  BY <1>1, <1>2, <1>7 DEF ListSkills
<1>8. ASSUME NEW h \in Hubs, HubEnds(h) PROVE Goal
  <2>1. /\ UNCHANGED <<skillFiles, skillRows, doomed, deleted, raced>>
        /\ \A g \in Hubs : loading'[g] = "drop" => loading[g] = "drop"
    BY <1>1, <1>8 DEF HubEnds
  <2>2. \A g \in Hubs, k \in DOMAIN DirOrder :
          toSave'[g][k] = toSave[g][k] \/ toSave'[g][k] = NoSkill
    BY <1>1, <1>8 DEF HubEnds, NoSkills
  <2>3. \A n \in deleted \ raced : NoLoadOf(n)'
    BY <1>1, <1>2, <2>2, SkillFacts, SMTT(30)
  <2> QED
    BY <1>2, <2>1, <2>3
<1>9. ASSUME NEW q \in {"nested", "flat"}, NEW s \in SkillNames,
             NEW n \in SkillNames, NEW w, Put(q, s, n, w),
             UNCHANGED <<skillRows, toSave, doomed>>,
             \A g \in Hubs : loading'[g] = "drop" => loading[g] = "drop"
      PROVE  Goal
  <2>1. /\ skillFiles' = [skillFiles EXCEPT ![q][s] = [name |-> n, text |-> w]]
        /\ deleted' = deleted \ {n}
    BY <1>9 DEF Put
  <2>2. [name |-> n, text |-> w].name = n
    OBVIOUS
  <2>3. \A p \in {"nested", "flat"}, m \in SkillNames :
          skillFiles'[p][m].name = skillFiles[p][m].name \/ skillFiles'[p][m].name = n
    BY <1>1, <2>1, <2>2
  <2>4. raced \subseteq raced'
    BY <1>9 DEF Put
  <2>5. \A m \in deleted' \ raced' : m \in deleted \ raced /\ m # n
    BY <2>1, <2>4
  <2>6. \A m \in deleted' \ raced' : NoRowOf(m)' /\ NoFileOf(m)' /\ NoLoadOf(m)'
    BY <1>2, <1>9, <2>3, <2>5
  <2>7. ASSUME NEW g \in Hubs PROVE Dropped(g)'
    <3>1. SUFFICES ASSUME loading'[g] = "drop"
                   PROVE  /\ doomed[g] \in SkillNames
                          /\ doomed[g] \notin raced' =>
                               \A p \in {"nested", "flat"} :
                                 skillFiles'[p][doomed[g]].name # doomed[g]
      BY <1>9
    <3>2. loading[g] = "drop" /\ Dropped(g)
      BY <1>2, <1>9, <3>1
    <3>3. doomed[g] \notin raced' => doomed[g] # n
      BY <1>9, <3>2 DEF Put
    <3> QED
      BY <2>3, <2>4, <3>2, <3>3
  <2> QED
    BY <2>6, <2>7
<1>10. ASSUME NEW f \in UserFiles, NEW w, UserWrites(f, w) PROVE Goal
  <2>1. f.place \in {"nested", "flat"} /\ f.stem \in SkillNames /\ f.name \in SkillNames
    BY SkillAssumption DEF SkillAssumption
  <2>2. /\ Put(f.place, f.stem, f.name, w) /\ UNCHANGED <<skillRows, toSave, doomed>>
        /\ \A g \in Hubs : loading'[g] = "drop" => loading[g] = "drop"
    BY <1>10 DEF UserWrites
  <2> QED
    BY <1>9, <2>1, <2>2
<1>11. ASSUME NEW h \in Hubs, NEW n \in SkillNames, MakesSkill(h, n) PROVE Goal
  <2>1. /\ Put("nested", n, n, skillWrites + 1)
        /\ UNCHANGED <<skillRows, toSave, doomed>>
        /\ \A g \in Hubs : loading'[g] = "drop" => loading[g] = "drop"
    BY <1>1, <1>11 DEF MakesSkill
  <2> QED
    BY <1>9, <2>1
<1>12. ASSUME NEW h \in Hubs, NEW n \in SkillNames, RemoveFiles(h, n) PROVE Goal
  <2>1. /\ UNCHANGED <<skillRows, toSave, deleted>> /\ raced \subseteq raced'
        /\ loading' = [loading EXCEPT ![h] = "drop"]
        /\ doomed' = [doomed EXCEPT ![h] = n]
    BY <1>12 DEF RemoveFiles
  <2>2. NoSkill.name = NoName /\ NoName \notin SkillNames
    BY SkillFacts
  <2>3. \A p \in {"nested", "flat"}, s \in SkillNames :
          Without(n)[p][s] = IF s = n THEN NoSkill ELSE skillFiles[p][s]
    BY <1>1 DEF Without
  <2>4. \A p \in {"nested", "flat"}, m \in SkillNames :
          skillFiles'[p][m] = skillFiles[p][m] \/ skillFiles'[p][m] = NoSkill
    BY <1>12, <2>3 DEF RemoveFiles
  <2>5. n \notin raced' => \A p \in {"nested", "flat"} : skillFiles'[p][n] = NoSkill
    BY <1>12, <2>3 DEF RemoveFiles
  <2>6. ASSUME NEW m \in deleted' \ raced'
        PROVE  NoRowOf(m)' /\ NoFileOf(m)' /\ NoLoadOf(m)'
    <3>1. m \in deleted \ raced /\ m \in SkillNames
      BY <1>1, <2>1
    <3>2. NoRowOf(m) /\ NoFileOf(m) /\ NoLoadOf(m)
      BY <1>2, <3>1
    <3> QED
      BY <2>1, <2>2, <2>4, <3>1, <3>2
  <2>7. ASSUME NEW g \in Hubs PROVE Dropped(g)'
    <3>1. CASE g = h
      BY <1>1, <2>1, <2>2, <2>5, <3>1
    <3>2. CASE g # h
      <4>1. loading'[g] = loading[g] /\ doomed'[g] = doomed[g] /\ Dropped(g)
        BY <1>1, <1>2, <2>1, <3>2
      <4> QED
        BY <2>1, <2>2, <2>4, <4>1
    <3> QED
      BY <3>1, <3>2
  <2> QED
    BY <2>6, <2>7
<1>13. ASSUME NEW h \in Hubs, DeleteRow(h) PROVE Goal
  <2> PICK n : n = doomed[h]
    OBVIOUS
  <2>1. /\ UNCHANGED <<skillFiles, toSave>> /\ raced \subseteq raced'
        /\ loading[h] = "drop"
        /\ skillRows' = skillRows \/ skillRows' = [skillRows EXCEPT ![n] = NoText]
        /\ n \notin raced' => skillRows' = [skillRows EXCEPT ![n] = NoText]
        /\ \A g \in Hubs \ {h} : loading'[g] = loading[g] /\ doomed'[g] = doomed[g]
        /\ loading'[h] = "reload"
    BY <1>1, <1>13 DEF DeleteRow
  <2>2. n \in SkillNames /\ Dropped(h)
    BY <1>2, <2>1
  <2>3. \A g \in Hubs : Dropped(g)'
    BY <1>2, <2>1
  <2>4. \A m \in SkillNames : NoRowOf(m) => NoRowOf(m)'
    BY <1>1, <2>1
  <2>5. ASSUME NEW m \in deleted' \ raced', m # n
        PROVE  NoRowOf(m)' /\ NoFileOf(m)' /\ NoLoadOf(m)'
    <3>1. m \in deleted \ raced
      BY <1>13, <2>1, <2>5 DEF DeleteRow
    <3> QED
      BY <1>1, <1>2, <2>1, <2>4, <3>1
  <2>6. ASSUME n \in deleted' \ raced'
        PROVE  NoRowOf(n)' /\ NoFileOf(n)' /\ NoLoadOf(n)'
    <3>1. NoRowOf(n)'
      BY <1>1, <2>1, <2>2, <2>6
    <3>2. NoLoadOf(n)'
      <4>1. ASSUME NEW g \in Hubs, NEW i \in DOMAIN DirOrder, toSave[g][i].name = n
            PROVE  FALSE
        <5>1. i \in Filled(toSave[g])
          BY <1>1, <2>2, <4>1, SkillFacts DEF Filled
        <5>2. n \in raced'
          BY <1>13, <4>1, <5>1 DEF DeleteRow
        <5> QED
          BY <2>6, <5>2
      <4> QED
        BY <2>1, <4>1
    <3>3. NoFileOf(n)'
      <4>1. CASE n \in deleted
        BY <1>2, <2>1, <2>6, <4>1
      <4>2. CASE n \notin deleted
        <5>1. ~Namesakes(n)
          BY <1>13, <2>6, <4>2 DEF DeleteRow
        <5>2. \A p \in {"nested", "flat"}, s \in SkillNames \ {n} :
                skillFiles[p][s].name # n
          BY <1>1, <2>2, <5>1, SkillFacts DEF Namesakes
        <5>3. \A p \in {"nested", "flat"} : skillFiles[p][n].name # n
          BY <2>1, <2>2, <2>6
        <5> QED
          BY <2>1, <5>2, <5>3
      <4> QED
        BY <4>1, <4>2
    <3> QED
      BY <3>1, <3>2, <3>3
  <2> QED
    BY <2>3, <2>5, <2>6
<1>14. ASSUME NEW h \in Hubs, NEW n \in SkillNames, ExtractSkill(h, n) PROVE Goal
  <2>1. /\ UNCHANGED <<skillFiles, toSave, doomed, raced>> /\ deleted' = deleted \ {n}
        /\ skillRows' = Upsert(n, skillWrites + 1)
        /\ \A g \in Hubs : loading'[g] = "drop" => loading[g] = "drop"
    BY <1>1, <1>14 DEF ExtractSkill
  <2>2. \A m \in SkillNames \ {n} : skillRows'[m] = skillRows[m]
    BY <1>1, <2>1 DEF Upsert
  <2> QED
    BY <1>1, <1>2, <2>1, <2>2
<1> QED
  BY <1>4, <1>5, <1>6, <1>7, <1>8, <1>10, <1>11, <1>12, <1>13, <1>14
     DEF SkillNext, CommandCreatesSkill, AgentCreatesSkill

LEMMA SkillsStart == SkillInit => SkillInv
<1> SUFFICES ASSUME SkillInit PROVE SkillInv
  OBVIOUS
<1>1. SkillTypeOK
  BY SkillFacts DEF SkillInit, SkillTypeOK, NoTexts, NoSkills, Texts, Blank
<1> QED
  BY <1>1 DEF SkillInit, SkillInv, SavesInOrder, FreshAreLoaded,
              IndexFollowsFiles, GoneEverywhere, DroppedHasNoFile

LEMMA SkillsGoOn == SkillInv /\ [SkillNext]_skillVars => SkillInv'
  BY SkillTypesStay, LoadsGoOn, GoneStaysGone DEF SkillInv

(* A process that has loaded with nothing beside it knows each skill as the *)
(* last file of its name says it (hub.go:60-88), and what `skill delete`    *)
(* deleted is there again only where a file or the row could not be         *)
(* removed, or a file was written again or being loaded (skill.go:457-467), *)
(* for any directory and number of processes.                               *)
THEOREM SkillsAreKept == SkillSpec => []SkillsKept
<1>1. SkillInv => SkillsKept
  BY DEF SkillInv, SkillsKept, DeletedStaysDeleted, GoneEverywhere
<1> QED
  BY <1>1, SkillsStart, SkillsGoOn, PTL DEF SkillSpec

(* What the plugins and the skills keep, in the specification of the run,   *)
(* which has one of them or another component (manager.go:139-175 of the    *)
(* plugins, hub.go:60-88, skill.go:457-467).                                *)
THEOREM ExtensionsStayKept == StoresSpec => []ExtensionsKept
<1> DEFINE I == PluginInv /\ SkillInv
<1>1. StoresInit => I
  BY PluginsStart, SkillsStart DEF StoresInit
<1>2. ASSUME I, [StoresNext]_storesVars PROVE I'
  <2>1. [PluginNext]_pluginVars /\ [SkillNext]_skillVars
    BY <1>2 DEF StoresNext, TheRestStays, storesVars
  <2> QED
    BY <1>2, <2>1, PluginsGoOn, SkillsGoOn
<1>3. I => ExtensionsKept
  BY DEF PluginInv, SkillInv, ExtensionsKept, SkillsKept, DeletedStaysDeleted,
         GoneEverywhere
<1> HIDE DEF I
<1> QED
  BY <1>1, <1>2, <1>3, PTL DEF StoresSpec

-----------------------------------------------------------------------------
(* Backup and restore (cmd/agis/backup.go, restore.go).  *)

(* What has been seen of a file is no newer than the file's last write, so  *)
(* the next write differs from it.                                          *)
Seen ==
  /\ writes \in Nat
  /\ live \in [Files -> Nat] /\ manifest \in [Files -> Nat]
  /\ moment \in [Files -> Nat] /\ archive \in [Files -> Nat]
  /\ \A f \in Files : live[f] <= writes + 1 /\ manifest[f] <= writes + 1
  /\ creating \in {"off", "hashing"} => archive = Nothing

(* A file that was written between its hash and the moment all were hashed  *)
(* has lost the hashed content for good, and so has its copy.               *)
Diverged(f) == live[f] # manifest[f] /\ archive[f] # manifest[f]
CopiesTell ==
  creating \in {"packing", "done"} =>
    \A f \in Collected : moment[f] = manifest[f] \/ Diverged(f)

(* While Restore writes, the archive is known to be good, and what is done  *)
(* is what it holds.                                                        *)
Exact == creating = "done" /\ \A f \in Collected : archive[f] = manifest[f]
CommitIsExact ==
  /\ target \in [Files -> Int]
  /\ restoring \in {"committing", "done"} =>
       /\ Exact
       /\ \A f \in Collected \ todo : target[f] = archive[f]
  /\ restoring # "committing" => todo = {} /\ writing = NoFile
  /\ todo \subseteq Files
  /\ writing # NoFile => writing \in todo

(* Before the commit the target is what it was; the commit has leave.       *)
TouchedWithLeave ==
  /\ restoring \in {"staging", "rejected"} => target = before
  /\ target = before \/ force \/ \A f \in Guarded : before[f] = Absent
  /\ restoring = "committing" =>
       force \/ \A f \in Guarded : before[f] = Absent

BackupInv == Seen /\ CopiesTell /\ CommitIsExact /\ TouchedWithLeave

-----------------------------------------------------------------------------
LEMMA BackupStarts == BackupInit => BackupInv
  <1> SUFFICES ASSUME BackupInit PROVE BackupInv
    OBVIOUS
  <1>1. Seen
    BY DEF BackupInit, Seen, Nothing, Absent
  <1>2. CopiesTell
    BY DEF BackupInit, CopiesTell
  <1>3. CommitIsExact
    BY DEF BackupInit, CommitIsExact, Absent
  <1>4. TouchedWithLeave
    BY DEF BackupInit, TouchedWithLeave
  <1> QED BY <1>1, <1>2, <1>3, <1>4 DEF BackupInv

(* The agent's writes are what the copies are up against. *)
LEMMA WriteKeepsBackup ==
  ASSUME BackupInv, NEW f \in Files, WriteLive(f)
  PROVE  BackupInv'
  <1> USE DEF WriteLive, createVars, restoreVars
  <1>1. Seen'
    <2>1. writes' \in Nat /\ live' \in [Files -> Nat]
      BY DEF BackupInv, Seen, Absent
    <2>2. \A g \in Files : live'[g] <= writes' + 1 /\ manifest[g] <= writes' + 1
      BY DEF BackupInv, Seen, Absent
    <2> QED BY <2>1, <2>2 DEF BackupInv, Seen, Nothing
  <1>2. CopiesTell'
    <2> SUFFICES ASSUME creating \in {"packing", "done"}, NEW g \in Collected
                 PROVE  moment[g] = manifest[g] \/ Diverged(g)'
      BY DEF CopiesTell, Collected
    <2>1. moment[g] = manifest[g] \/ Diverged(g)
      BY DEF BackupInv, CopiesTell
    <2>2. g \in Files /\ manifest[g] # Absent /\ manifest[g] <= writes + 1
      BY DEF BackupInv, Seen, Collected
    <2>3. live'[g] = live[g] \/ live'[g] = writes + 2 \/ live'[g] = Absent
      BY <2>2 DEF BackupInv, Seen
    <2>4. live[g] # manifest[g] => live'[g] # manifest[g]
      BY <2>2, <2>3 DEF BackupInv, Seen
    <2> QED BY <2>1, <2>4 DEF Diverged
  <1>3. CommitIsExact'
    BY DEF BackupInv, CommitIsExact, Exact, Collected
  <1>4. TouchedWithLeave'
    BY DEF BackupInv, TouchedWithLeave
  <1> QED BY <1>1, <1>2, <1>3, <1>4 DEF BackupInv

(* Create.  Nothing is restored before it is done. *)
CreateStep ==
  \/ StartBackup \/ BeginArchive \/ EndBackup \/ BackupFails
  \/ \E f \in Files : HashOne(f) \/ PackOne(f)

LEMMA CreateKeepsBackup ==
  ASSUME BackupInv, CreateStep
  PROVE  BackupInv'
  <1> USE DEF restoreVars
  <1>a. creating # "done" /\ UNCHANGED <<writes, live, restoreVars>>
    BY DEF CreateStep, StartBackup, BeginArchive, EndBackup, BackupFails,
           HashOne, PackOne
  <1>1. CommitIsExact' /\ TouchedWithLeave'
    <2>1. restoring \notin {"committing", "done"}
      BY <1>a DEF BackupInv, CommitIsExact, Exact
    <2> QED BY <1>a, <2>1 DEF BackupInv, CommitIsExact, TouchedWithLeave
  <1>2. CASE StartBackup
    BY <1>1, <1>2 DEF StartBackup, BackupInv, Seen, CopiesTell, Nothing
  <1>3. ASSUME NEW f \in Files, HashOne(f) PROVE BackupInv'
    <2>1. Seen'
      BY <1>3 DEF HashOne, BackupInv, Seen, Nothing
    <2>2. CopiesTell'
      BY <1>3 DEF HashOne, CopiesTell
    <2> QED BY <1>1, <2>1, <2>2 DEF BackupInv
  <1>4. CASE BeginArchive
    <2>1. Seen'
      BY <1>4 DEF BeginArchive, BackupInv, Seen
    <2>2. \A f \in Collected : archive[f] # manifest[f]
      BY <1>4 DEF BeginArchive, BackupInv, Seen, Nothing, Collected
    <2>3. CopiesTell'
      BY <1>4, <2>2 DEF BeginArchive, CopiesTell, Collected, Diverged
    <2> QED BY <1>1, <2>1, <2>3 DEF BackupInv
  <1>5. ASSUME NEW f \in Files, PackOne(f) PROVE BackupInv'
    <2>1. Seen'
      BY <1>5 DEF PackOne, BackupInv, Seen
    <2>2. CopiesTell'
      <3> SUFFICES ASSUME NEW g \in Collected
                   PROVE  moment[g] = manifest[g] \/ Diverged(g)'
        BY <1>5 DEF PackOne, CopiesTell, Collected
      <3>1. moment[g] = manifest[g] \/ Diverged(g)
        BY <1>5 DEF PackOne, BackupInv, CopiesTell
      <3>2. archive'[g] = IF g = f THEN live[g] ELSE archive[g]
        BY <1>5 DEF PackOne, BackupInv, Seen, Collected
      <3> QED BY <1>5, <3>1, <3>2 DEF PackOne, Diverged
    <2> QED BY <1>1, <2>1, <2>2 DEF BackupInv
  <1>6. CASE EndBackup
    BY <1>1, <1>6 DEF EndBackup, BackupInv, Seen, CopiesTell, Collected, Diverged
  <1>7. CASE BackupFails
    BY <1>1, <1>7 DEF BackupFails, BackupInv, Seen, CopiesTell
  <1> QED BY <1>2, <1>3, <1>4, <1>5, <1>6, <1>7 DEF CreateStep

(* Restore.  It leaves the profile and the archive alone. *)
RestoreStep ==
  \/ StartRestore \/ Reject \/ Accept \/ EndWrite \/ EndRestore
  \/ RestoreBreaks \/ \E f \in Files : BeginWrite(f)

LEMMA RestoreKeepsBackup ==
  ASSUME BackupInv, RestoreStep
  PROVE  BackupInv'
  <1> USE DEF createVars
  <1>a. UNCHANGED <<live, writes, createVars>>
    BY DEF RestoreStep, StartRestore, Reject, Accept, EndWrite, EndRestore,
           RestoreBreaks, BeginWrite
  <1>1. Seen' /\ CopiesTell'
    BY <1>a DEF BackupInv, Seen, CopiesTell, Collected, Diverged
  <1>2. CASE StartRestore
    <2>1. CommitIsExact'
      BY <1>2 DEF StartRestore, BackupInv, CommitIsExact
    <2>2. TouchedWithLeave'
      BY <1>2 DEF StartRestore, TouchedWithLeave
    <2> QED BY <1>1, <2>1, <2>2 DEF BackupInv
  <1>3. CASE Reject
    BY <1>1, <1>3 DEF Reject, BackupInv, CommitIsExact, TouchedWithLeave
  <1>4. CASE Accept
    <2>1. CommitIsExact'
      BY <1>4 DEF Accept, Intact, BackupInv, CommitIsExact, Exact, Collected
    <2>2. TouchedWithLeave'
      BY <1>4 DEF Accept, Allowed, Occupied, BackupInv, TouchedWithLeave
    <2> QED BY <1>1, <2>1, <2>2 DEF BackupInv
  <1>5. ASSUME NEW f \in Files, BeginWrite(f) PROVE BackupInv'
    <2>1. CommitIsExact'
      BY <1>5 DEF BeginWrite, BackupInv, CommitIsExact, Exact, Collected, Torn
    <2>2. TouchedWithLeave'
      BY <1>5 DEF BeginWrite, BackupInv, TouchedWithLeave
    <2> QED BY <1>1, <2>1, <2>2 DEF BackupInv
  <1>6. CASE EndWrite
    <2>1. writing \in Files /\ archive[writing] \in Int
      BY <1>6 DEF EndWrite, BackupInv, CommitIsExact, Seen
    <2>2. CommitIsExact'
      BY <1>6, <2>1 DEF EndWrite, BackupInv, CommitIsExact, Exact, Collected
    <2>3. TouchedWithLeave'
      BY <1>6 DEF EndWrite, BackupInv, TouchedWithLeave
    <2> QED BY <1>1, <2>2, <2>3 DEF BackupInv
  <1>7. CASE EndRestore
    BY <1>1, <1>7 DEF EndRestore, BackupInv, CommitIsExact, TouchedWithLeave,
                      Exact, Collected
  <1>8. CASE RestoreBreaks
    BY <1>1, <1>8 DEF RestoreBreaks, BackupInv, CommitIsExact, TouchedWithLeave
  <1> QED BY <1>2, <1>3, <1>4, <1>5, <1>6, <1>7, <1>8 DEF RestoreStep

LEMMA BackupGoesOn == BackupInv /\ [BackupNext]_backupVars => BackupInv'
  <1> SUFFICES ASSUME BackupInv, [BackupNext]_backupVars PROVE BackupInv'
    OBVIOUS
  <1>1. ASSUME NEW f \in Files, WriteLive(f) PROVE BackupInv'
    BY <1>1, WriteKeepsBackup
  <1>2. CASE CreateStep
    BY <1>2, CreateKeepsBackup
  <1>3. CASE RestoreStep
    BY <1>3, RestoreKeepsBackup
  <1>4. CASE UNCHANGED backupVars
    BY <1>4 DEF backupVars, createVars, restoreVars, BackupInv, Seen, CopiesTell,
      CommitIsExact, TouchedWithLeave, Diverged, Exact, Collected
  <1> QED BY <1>1, <1>2, <1>3, <1>4 DEF BackupNext, CreateStep, RestoreStep

(* The types of the backup. *)
LEMMA BackupTypesStart == BackupInit => BackupTypeOK
<1> SUFFICES ASSUME BackupInit PROVE BackupTypeOK
  OBVIOUS
<1>1. {Absent, 1} \subseteq Contents /\ MaxWrites \in Nat /\ MaxRestores \in Nat
  BY BackupAssumption DEF Contents, Absent
<1>2. /\ live \in [Files -> Contents] /\ Nothing \in [Files -> Contents]
      /\ target \in [Files -> Contents \union {Torn}]
  BY <1>1 DEF BackupInit, Nothing
<1>3. writes \in 0 .. MaxWrites /\ restores \in 0 .. MaxRestores
  BY <1>1 DEF BackupInit
<1> QED
  BY <1>2, <1>3 DEF BackupInit, BackupTypeOK

LEMMA BackupTypesStay ==
  BackupTypeOK /\ BackupInv /\ [BackupNext]_backupVars => BackupTypeOK'
<1> SUFFICES ASSUME BackupTypeOK, BackupInv, [BackupNext]_backupVars
             PROVE  BackupTypeOK'
  OBVIOUS
<1>1. MaxWrites \in Nat /\ MaxRestores \in Nat
  BY BackupAssumption
<1> DEFINE Copies == [Files -> Contents]
           Targets == [Files -> Contents \union {Torn}]
<1>2. /\ writes \in 0 .. MaxWrites /\ restores \in 0 .. MaxRestores
      /\ live \in Copies /\ manifest \in Copies /\ archive \in Copies
      /\ moment \in Copies /\ target \in Targets /\ before \in Targets
  BY DEF BackupTypeOK
<1>3. 0 \in Contents /\ (writes < MaxWrites => writes + 2 \in Contents)
  BY <1>1, <1>2 DEF Contents
<1>4. ASSUME NEW f \in Files, WriteLive(f) PROVE BackupTypeOK'
  <2>1. live' \in Copies
    BY <1>2, <1>3, <1>4 DEF WriteLive, Absent
  <2>2. writes' \in 0 .. MaxWrites
    BY <1>1, <1>2, <1>4 DEF WriteLive
  <2> QED
    BY <1>4, <2>1, <2>2 DEF WriteLive, createVars, restoreVars, BackupTypeOK, Contents
<1>5. ASSUME NEW f \in Files, HashOne(f) \/ PackOne(f) PROVE BackupTypeOK'
  <2>1. manifest' \in Copies /\ archive' \in Copies
    BY <1>2, <1>5 DEF HashOne, PackOne
  <2>2. pending' \subseteq Files
    BY <1>5 DEF HashOne, PackOne, BackupTypeOK
  <2> QED
    BY <1>5, <2>1, <2>2 DEF HashOne, PackOne, restoreVars, BackupTypeOK, Contents
<1>6. ASSUME NEW f \in Files, BeginWrite(f) PROVE BackupTypeOK'
  <2>1. target' \in Targets
    BY <1>2, <1>6 DEF BeginWrite
  <2>2. writing' \in todo' \union {NoFile}
    BY <1>6 DEF BeginWrite
  <2> QED
    BY <1>6, <2>1, <2>2 DEF BeginWrite, createVars, BackupTypeOK, Contents
<1>7. CASE EndWrite
  <2>1. target' \in Targets
    BY <1>2, <1>7 DEF EndWrite, BackupTypeOK
  <2> QED
    BY <1>7, <2>1 DEF EndWrite, createVars, BackupTypeOK, Contents
<1>8. CASE BeginArchive
  BY <1>8 DEF BeginArchive, restoreVars, Collected, BackupTypeOK, Contents
<1>9. CASE StartBackup \/ EndBackup \/ BackupFails
  BY <1>9 DEF StartBackup, EndBackup, BackupFails, restoreVars, BackupTypeOK, Contents
<1>10. CASE StartRestore
  <2>1. restores' \in 0 .. MaxRestores
    BY <1>1, <1>2, <1>10 DEF StartRestore
  <2> QED
    BY <1>10, <2>1 DEF StartRestore, createVars, BackupTypeOK, Contents
<1>11. CASE Accept
  <2>1. writing = NoFile
    BY <1>11 DEF Accept, BackupInv, CommitIsExact
  <2> QED
    BY <1>11, <2>1 DEF Accept, Collected, createVars, BackupTypeOK, Contents
<1>12. CASE Reject \/ EndRestore \/ RestoreBreaks \/ UNCHANGED backupVars
  BY <1>12 DEF Reject, EndRestore, RestoreBreaks, backupVars, createVars, restoreVars,
               BackupTypeOK, Contents
<1> QED
  BY <1>4, <1>5, <1>6, <1>7, <1>8, <1>9, <1>10, <1>11, <1>12 DEF BackupNext

(* What is restored is the profile of one moment, and only with leave is an *)
(* existing profile touched, whatever the files, the agent's writes and the *)
(* failures.                                                                *)
THEOREM BackupsAreSafe == BackupSpec => []ProfileSurvives
  <1>1. BackupInv => RestoredIsSnapshot
    BY DEF BackupInv, CopiesTell, CommitIsExact, Exact, Collected, Diverged,
           RestoredIsSnapshot
  <1>2. BackupInv => RefusalsAreHarmless
    BY DEF BackupInv, TouchedWithLeave, RefusalsAreHarmless
  <1>3. BackupInv => ProfileSurvives
    BY <1>1, <1>2 DEF ProfileSurvives
  <1> QED BY BackupStarts, BackupGoesOn, <1>3, PTL DEF BackupSpec

-----------------------------------------------------------------------------
(* The policy file (internal/policy). As long as no two saves overlapped     *)
(* there is at most one; it writes the temporary file alone, so the file     *)
(* that rename puts in place holds what its process decided.                 *)

(* As long as no two saves overlapped there is at most one, it writes the   *)
(* file that "tmp" names, and once it has written that holds what its       *)
(* process has in memory.                                                   *)
OneSave == ~overlap => \A p, q \in SavingProcs : p = q
SaveOwnsTmp ==
  ~overlap => \A p \in SavingProcs :
    /\ fd[p] = linked["tmp"] /\ fd[p] # NoInode
    /\ saving[p] = "written" => content[fd[p]] = Whole(mem[p])

PolicyInv == PolicyTypeOK /\ OneSave /\ SaveOwnsTmp /\ PolicyFileKept

(* There is an inode for the first file, and none is the one that stands    *)
(* for no file.                                                             *)
LEMMA InodesThere == 1 \in Inodes /\ NoInode \notin Inodes
<1>1. Cardinality(Procs) \in Nat
  BY PolicyAssumption, FS_CardinalityType
<1> QED
  BY <1>1 DEF Inodes, NoInode

(* The file on disk at the start is a whole one. *)
LEMMA PolicyStarts == PolicyInit => PolicyInv
<1> SUFFICES ASSUME PolicyInit PROVE PolicyInv
  OBVIOUS
<1>1. PolicyTypeOK
  <2>1. linked \in [{"policy", "tmp"} -> Inodes \union {NoInode}]
    BY InodesThere DEF PolicyInit
  <2>2. linked["policy"] = NoInode \/ linked["policy"] # linked["tmp"]
    BY DEF PolicyInit
  <2>3. DOMAIN content = Inodes /\ DOMAIN mem = Procs
    BY DEF PolicyInit
  <2>4. /\ broken \in [Procs -> BOOLEAN] /\ inStep \in [Procs -> BOOLEAN]
        /\ grants \in [Procs -> SUBSET Requests]
    BY DEF PolicyInit
  <2>5. /\ saving \in [Procs -> {"down", "idle", "opened", "written"}]
        /\ fd \in [Procs -> Inodes \union {NoInode}]
    BY DEF PolicyInit
  <2>6. edits \in 0 .. MaxEdits
    <3>1. edits = 0 /\ MaxEdits \in Nat
      BY PolicyAssumption DEF PolicyInit
    <3> QED
      BY <3>1
  <2>7. overlap \in BOOLEAN
    BY DEF PolicyInit
  <2> QED
    BY <2>1, <2>2, <2>3, <2>4, <2>5, <2>6, <2>7 DEF PolicyTypeOK
<1>2. SavingProcs = {}
  BY DEF PolicyInit, SavingProcs
<1>3. PolicyFile.form # "truncated"
  BY InodesThere, PolicyAssumption DEF PolicyInit, PolicyFile, Whole
<1>4. PolicyFileKept
  BY <1>3 DEF PolicyFileKept, PolicyInit
<1> QED
  BY <1>1, <1>2, <1>4 DEF PolicyInv, OneSave, SaveOwnsTmp

-----------------------------------------------------------------------------
(* A save opens an inode that the policy's name does not lead to.  *)
LEMMA SaveBegins ==
  ASSUME PolicyInv, NEW p \in Procs, NEW policy, BeginSave(p, policy),
         broken' \in [Procs -> BOOLEAN],
         \A q \in Procs \ {p} : broken'[q] = broken[q]
  PROVE  PolicyInv'
<1> USE DEF PolicyInv
<1>1. PICK i \in IF linked["tmp"] = NoInode THEN Free ELSE {linked["tmp"]} :
        /\ linked' = [linked EXCEPT !["tmp"] = i]
        /\ content' = [content EXCEPT ![i] = Truncated]
        /\ fd' = [fd EXCEPT ![p] = i]
  BY DEF BeginSave
<1>2. i \in Inodes /\ i # NoInode /\ i # linked["policy"]
  BY InodesThere DEF PolicyTypeOK, Free
<1>3. /\ linked'["policy"] = linked["policy"] /\ linked'["tmp"] = i
      /\ linked' \in [{"policy", "tmp"} -> Inodes \union {NoInode}]
  BY <1>1, <1>2 DEF PolicyTypeOK
<1>4. /\ DOMAIN content' = Inodes
      /\ \A j \in Inodes : content'[j] = IF j = i THEN Truncated ELSE content[j]
  BY <1>1, <1>2 DEF PolicyTypeOK
<1>5. /\ DOMAIN mem' = Procs
      /\ \A q \in Procs : mem'[q] = IF q = p THEN policy ELSE mem[q]
  BY DEF BeginSave, PolicyTypeOK
<1>6. /\ saving[p] = "idle"
      /\ saving' \in [Procs -> {"down", "idle", "opened", "written"}]
      /\ \A q \in Procs : saving'[q] = IF q = p THEN "opened" ELSE saving[q]
  BY DEF BeginSave, PolicyTypeOK
<1>7. /\ fd' \in [Procs -> Inodes \union {NoInode}]
      /\ \A q \in Procs : fd'[q] = IF q = p THEN i ELSE fd[q]
  BY <1>1, <1>2 DEF PolicyTypeOK
<1>8. edits' \in 0 .. MaxEdits
  BY PolicyAssumption DEF BeginSave, PolicyTypeOK
<1>9. overlap' \in BOOLEAN /\ (~overlap' => ~overlap /\ SavingProcs = {})
  BY DEF BeginSave, PolicyTypeOK
<1>10. PolicyTypeOK'
  <2>1. inStep' = inStep /\ grants' = grants
    BY DEF BeginSave
  <2> QED
    BY <1>2, <1>3, <1>4, <1>5, <1>6, <1>7, <1>8, <1>9, <2>1 DEF PolicyTypeOK
<1>11. ~overlap' => SavingProcs' = {p}
  BY <1>6, <1>9 DEF SavingProcs
<1>12. OneSave' /\ SaveOwnsTmp'
  BY <1>2, <1>3, <1>6, <1>7, <1>11 DEF OneSave, SaveOwnsTmp
<1>13. PolicyFile' = PolicyFile
  BY <1>2, <1>3, <1>4 DEF PolicyTypeOK, PolicyFile
<1>14. PolicyFileKept'
  <2>1. inStep' = inStep
    BY DEF BeginSave
  <2> QED
    BY <1>5, <1>6, <1>9, <1>13, <2>1 DEF PolicyFileKept
<1> QED
  BY <1>10, <1>12, <1>14

(* The steps of the processes keep the types. *)
LEMMA PolicyTypeKept == PolicyInv /\ [PolicyNext]_policyVars => PolicyTypeOK'
<1> SUFFICES ASSUME PolicyInv, [PolicyNext]_policyVars
             PROVE  PolicyTypeOK'
  OBVIOUS
<1> USE DEF PolicyInv
<1>1. ASSUME NEW p \in Procs, Load(p)
      PROVE  PolicyTypeOK'
  <2>1. (PolicyFile.form = "corrupt") \in BOOLEAN
    OBVIOUS
  <2>2. broken' \in [Procs -> BOOLEAN] /\ inStep' \in [Procs -> BOOLEAN]
    BY <1>1, <2>1 DEF Load, PolicyTypeOK
  <2> QED
    BY <1>1, <2>2 DEF Load, PolicyTypeOK
<1>2. ASSUME NEW p \in Procs, Die(p)
      PROVE  PolicyTypeOK'
  BY <1>2 DEF Die, PolicyTypeOK
<1>3. ASSUME NEW p \in Procs, WriteTmp(p)
      PROVE  PolicyTypeOK'
  BY <1>3 DEF WriteTmp, PolicyTypeOK
<1>4. ASSUME NEW p \in Procs, Rename(p)
      PROVE  PolicyTypeOK'
  <2>1. inStep' \in [Procs -> BOOLEAN]
    BY <1>4 DEF Rename
  <2>2. /\ linked' \in [{"policy", "tmp"} -> Inodes \union {NoInode}]
        /\ linked'["policy"] # NoInode /\ linked'["tmp"] = NoInode
    BY <1>4 DEF Rename, PolicyTypeOK
  <2> QED
    BY <1>4, <2>1, <2>2 DEF Rename, PolicyTypeOK
<1>5. ASSUME NEW p \in Procs, SaveFails(p)
      PROVE  PolicyTypeOK'
  BY <1>5 DEF SaveFails, PolicyTypeOK
<1>6. ASSUME NEW p \in Procs, NEW req \in Requests, GrantSession(p, req)
      PROVE  PolicyTypeOK'
  BY <1>6 DEF GrantSession, PolicyTypeOK
<1>7. CASE UNCHANGED policyVars
  BY <1>7 DEF policyVars, PolicyTypeOK
<1>8. ASSUME NEW p \in Procs, NEW policy, BeginSave(p, policy), UNCHANGED broken
      PROVE  PolicyTypeOK'
  BY <1>8, SaveBegins DEF PolicyTypeOK
<1>9. ASSUME NEW p \in Procs, InitForce(p)
      PROVE  PolicyTypeOK'
  BY <1>9, SaveBegins DEF InitForce, PolicyTypeOK
<1> QED
  BY <1>1, <1>2, <1>3, <1>4, <1>5, <1>6, <1>7, <1>8, <1>9
  DEF PolicyNext, SetRule, RemoveRule, SetTier

(* Every step keeps the invariant: a save that runs alone renames the file  *)
(* it wrote.                                                                *)
LEMMA PolicyInvKept == PolicyInv /\ [PolicyNext]_policyVars => PolicyInv'
<1> SUFFICES ASSUME PolicyInv, [PolicyNext]_policyVars, PolicyTypeOK'
             PROVE  PolicyInv'
  BY PolicyTypeKept
<1> DEFINE Rest == OneSave /\ SaveOwnsTmp /\ PolicyFileKept
<1> USE DEF PolicyInv
<1>1. ASSUME NEW p \in Procs, Load(p)
      PROVE  Rest'
  <2>1. SavingProcs' = SavingProcs
    BY <1>1 DEF Load, SavingProcs, PolicyTypeOK
  <2>2. PolicyFile' = PolicyFile
    BY <1>1 DEF Load, PolicyFile
  <2>3. \A q \in SavingProcs : mem'[q] = mem[q] /\ saving'[q] = saving[q]
    BY <1>1 DEF Load, SavingProcs, PolicyTypeOK
  <2>4. OneSave' /\ SaveOwnsTmp'
    BY <1>1, <2>1, <2>3 DEF Load, OneSave, SaveOwnsTmp
  <2>5. PolicyFileKept'
    BY <1>1, <2>2 DEF Load, PolicyFileKept, PolicyTypeOK
  <2> QED
    BY <2>4, <2>5
<1>2. ASSUME NEW p \in Procs, Die(p)
      PROVE  Rest'
  <2>1. SavingProcs' = SavingProcs \ {p}
    BY <1>2 DEF Die, SavingProcs, PolicyTypeOK
  <2>2. PolicyFile' = PolicyFile
    BY <1>2 DEF Die, PolicyFile
  <2>3. \A q \in Procs \ {p} : /\ mem'[q] = mem[q] /\ saving'[q] = saving[q]
                               /\ fd'[q] = fd[q]
    BY <1>2 DEF Die, PolicyTypeOK
  <2>4. OneSave' /\ SaveOwnsTmp'
    BY <1>2, <2>1, <2>3 DEF Die, OneSave, SaveOwnsTmp, SavingProcs
  <2>5. PolicyFileKept'
    BY <1>2, <2>2 DEF Die, PolicyFileKept, PolicyTypeOK
  <2> QED
    BY <2>4, <2>5
<1>3. ASSUME NEW p \in Procs, WriteTmp(p)
      PROVE  Rest'
  <2>1. SavingProcs' = SavingProcs /\ p \in SavingProcs
    BY <1>3 DEF WriteTmp, SavingProcs, PolicyTypeOK
  <2>2. UNCHANGED <<linked, mem, broken, fd, overlap, inStep>>
    BY <1>3 DEF WriteTmp
  <2>3. ~overlap => \A q \in SavingProcs : q = p
    BY <2>1 DEF OneSave
  <2>4. ~overlap => fd[p] = linked["tmp"] /\ fd[p] # NoInode /\ fd[p] \in Inodes
    BY <2>1 DEF SaveOwnsTmp, PolicyTypeOK
  <2>5. ~overlap => content'[fd[p]] = Whole(mem[p])
    BY <1>3, <2>4 DEF WriteTmp, PolicyTypeOK
  <2>6. OneSave' /\ SaveOwnsTmp'
    BY <2>1, <2>2, <2>3, <2>4, <2>5 DEF OneSave, SaveOwnsTmp
  <2>7. ~overlap => PolicyFile' = PolicyFile
    BY <1>3, <2>2, <2>4 DEF WriteTmp, PolicyFile, PolicyTypeOK
  <2>8. PolicyFileKept'
    BY <1>3, <2>2, <2>7 DEF WriteTmp, PolicyFileKept, PolicyTypeOK
  <2> QED
    BY <2>6, <2>8
<1>4. ASSUME NEW p \in Procs, Rename(p)
      PROVE  Rest'
  <2>1. SavingProcs' = SavingProcs \ {p} /\ p \in SavingProcs
    BY <1>4 DEF Rename, SavingProcs, PolicyTypeOK
  <2>2. ~overlap => SavingProcs' = {}
    BY <2>1 DEF OneSave
  <2>3. ~overlap => PolicyFile' = Whole(mem[p])
    BY <1>4, <2>1 DEF Rename, PolicyFile, SaveOwnsTmp
  <2>4. PolicyFileKept'
    BY <1>4, <2>3 DEF Rename, PolicyFileKept, Whole, PolicyTypeOK
  <2> QED
    BY <1>4, <2>2, <2>4 DEF Rename, OneSave, SaveOwnsTmp
<1>5. ASSUME NEW p \in Procs, SaveFails(p)
      PROVE  Rest'
  <2>1. SavingProcs' = SavingProcs \ {p}
    BY <1>5 DEF SaveFails, SavingProcs, PolicyTypeOK
  <2>2. PolicyFile' = PolicyFile
    BY <1>5 DEF SaveFails, PolicyFile
  <2>3. \A q \in Procs \ {p} : saving'[q] = saving[q] /\ fd'[q] = fd[q]
    BY <1>5 DEF SaveFails, PolicyTypeOK
  <2>4. OneSave' /\ SaveOwnsTmp'
    BY <1>5, <2>1, <2>3 DEF SaveFails, OneSave, SaveOwnsTmp, SavingProcs
  <2>5. PolicyFileKept'
    BY <1>5, <2>2 DEF SaveFails, PolicyFileKept, PolicyTypeOK
  <2> QED
    BY <2>4, <2>5
<1>6. ASSUME NEW p \in Procs, NEW req \in Requests, GrantSession(p, req)
      PROVE  Rest'
  BY <1>6 DEF GrantSession, OneSave, SaveOwnsTmp, SavingProcs, PolicyFileKept,
              PolicyFile
<1>7. CASE UNCHANGED policyVars
  BY <1>7 DEF policyVars, OneSave, SaveOwnsTmp, SavingProcs, PolicyFileKept,
              PolicyFile
<1>8. ASSUME NEW p \in Procs, NEW policy, BeginSave(p, policy), UNCHANGED broken
      PROVE  Rest'
  BY <1>8, SaveBegins DEF PolicyTypeOK
<1>9. ASSUME NEW p \in Procs, InitForce(p)
      PROVE  Rest'
  BY <1>9, SaveBegins DEF InitForce, PolicyTypeOK
<1> QED
  BY <1>1, <1>2, <1>3, <1>4, <1>5, <1>6, <1>7, <1>8, <1>9
  DEF PolicyNext, SetRule, RemoveRule, SetTier

-----------------------------------------------------------------------------
(* Of the decision itself, whatever a policy holds.  *)
LEMMA DecisionsFollow == DecisionsAreSafe
<1> SUFFICES ASSUME NEW p \in Procs, NEW req \in Requests,
                    Evaluate(p, req) = "allow", req \notin grants[p]
             PROVE  /\ ~broken[p]
                    /\ ~DenyMatched(mem[p], req)
                    /\ AllowMatched(mem[p], req) \/ mem[p].tiers[req.backend] = "full"
                    /\ (/\ mem[p].tiers[req.backend] = "sandbox"
                        /\ req.backend \notin Exempt) => ReadOnlySubject(req)
  BY DEF DecisionsAreSafe, Evaluate
<1>1. ~broken[p] /\ ~DenyMatched(mem[p], req)
  BY DEF Evaluate, Denied
<1>2. CASE mem[p].tiers[req.backend] = "full"
  BY <1>1, <1>2
<1>3. CASE mem[p].tiers[req.backend] = "standard"
  BY <1>1, <1>3 DEF Evaluate, Denied
<1>4. CASE mem[p].tiers[req.backend] \notin {"full", "standard"}
  <2>1. SandboxAllows(mem[p], req)
    BY <1>1, <1>4 DEF Evaluate, Denied
  <2> QED
    BY <1>1, <1>4, <2>1 DEF SandboxAllows, Exempt
<1> QED
  BY <1>2, <1>3, <1>4

(* However many processes and changes there are, wherever one fails or dies:*)
(* as long as no two saves overlap the file is whole and memory agrees with *)
(* it, and no decision goes past the deny rules or the posture              *)
(* (internal/policy/store.go:107-140, guard.go:43-120).                     *)
THEOREM PolicyStaysKept == PolicySpec => []PolicyKept
<1>1. PolicyInv => PolicyKept
  BY DecisionsFollow DEF PolicyInv, PolicyKept
<1> QED
  BY PolicyStarts, PolicyInvKept, <1>1, PTL DEF PolicySpec

-----------------------------------------------------------------------------
(* The keys of a provider (internal/adapters/llm/pool.go, client.go). Only a *)
(* limited key is ever left, so the index never passes a free one, and every *)
(* attempt of a call either moves the index one step or finds it moved.      *)

(* Steps from index i forward to key g.                                     *)
Ahead(i, g) == IF i <= g THEN g - i ELSE (g - i) + KeyCount

FreeKeys == KeyIndex \ limited

(* While calm, whoever is in flight has seen the present limits, and a 429  *)
(* in hand is about a key that is limited now.                              *)
CurrentView ==
  calm => \A r \in PoolCalls :
            /\ r \in InFlight => begunAt[r] = moved
            /\ phase[r] = "limited" => keyUsed[r] \in limited

(* The attempts a call has made and the way still to go are fewer than the  *)
(* keys, and the index has moved on from its key only in the way's direction.*)
WithinReach ==
  calm => \A r \in PoolCalls : \A g \in FreeKeys :
    /\ phase[r] = "trying" => Ahead(idx, g) + attempt[r] < KeyCount
    /\ phase[r] \in {"sent", "limited"} =>
         /\ Ahead(keyUsed[r], g) + attempt[r] < KeyCount
         /\ idx # keyUsed[r] => Ahead(idx, g) < Ahead(keyUsed[r], g)
    /\ phase[r] = "refused" => begunAt[r] # moved

Bookkeeping ==
  \A r \in PoolCalls : /\ begunAt[r] <= moved
                       /\ phase[r] = "idle" => attempt[r] = 0

PoolInv == PoolTypeOK /\ Bookkeeping /\ CurrentView /\ WithinReach

-----------------------------------------------------------------------------
(* What a rotation off key i does, with the remainder written out.          *)
LEMMA NextIndex ==
  ASSUME NEW i \in KeyIndex
  PROVE  (i + 1) % KeyCount = IF i = KeyCount - 1 THEN 0 ELSE i + 1
BY PoolAssumption DEF KeyIndex

LEMMA AheadBounds ==
  ASSUME NEW i \in KeyIndex, NEW g \in KeyIndex
  PROVE  /\ Ahead(i, g) \in KeyIndex
         /\ i # g => Ahead(i, g) > 0
         /\ i = g => Ahead(i, g) = 0
BY PoolAssumption DEF KeyIndex, Ahead

(* Leaving a key that is not g brings the index one step nearer to g.       *)
LEMMA StepNearer ==
  ASSUME NEW i \in KeyIndex, NEW g \in KeyIndex, i # g
  PROVE  /\ (i + 1) % KeyCount \in KeyIndex
         /\ Ahead((i + 1) % KeyCount, g) = Ahead(i, g) - 1
BY PoolAssumption, NextIndex DEF KeyIndex, Ahead

-----------------------------------------------------------------------------
LEMMA InitReached == PoolInit => PoolInv
<1> SUFFICES ASSUME PoolInit PROVE PoolInv
  OBVIOUS
<1>1. PoolTypeOK
  BY PoolAssumption DEF PoolInit, PoolTypeOK, KeyIndex
<1>2. Bookkeeping /\ CurrentView /\ WithinReach
  BY DEF PoolInit, Bookkeeping, CurrentView, WithinReach, InFlight
<1> QED
  BY <1>1, <1>2 DEF PoolInv

(* Types and bookkeeping do not need the argument about the way. *)
LEMMA TypeKept == PoolInv /\ [PoolNext]_poolVars => PoolTypeOK' /\ Bookkeeping'
<1> SUFFICES ASSUME PoolInv, [PoolNext]_poolVars
             PROVE  PoolTypeOK' /\ Bookkeeping'
  OBVIOUS
<1> USE DEF PoolInv, PoolTypeOK, Bookkeeping
<1>1. ASSUME NEW r \in PoolCalls, PickKey(r)
      PROVE  PoolTypeOK' /\ Bookkeeping'
  BY <1>1 DEF PickKey
<1>2. ASSUME NEW r \in PoolCalls, Response(r)
      PROVE  PoolTypeOK' /\ Bookkeeping'
  BY <1>2 DEF Response
<1>3. ASSUME NEW r \in PoolCalls, OtherFailure(r)
      PROVE  PoolTypeOK' /\ Bookkeeping'
  BY <1>3 DEF OtherFailure
<1>4. ASSUME NEW r \in PoolCalls, Rotate(r)
      PROVE  PoolTypeOK' /\ Bookkeeping'
  <2>1. idx' \in KeyIndex
    BY <1>4, NextIndex, PoolAssumption DEF Rotate, Rotated, KeyIndex
  <2>2. attempt' \in [PoolCalls -> KeyIndex]
    BY <1>4, PoolAssumption DEF Rotate, KeyIndex
  <2> QED
    BY <1>4, <2>1, <2>2 DEF Rotate
<1>5. CASE LimitsChange
  <2>1. calm' \in BOOLEAN
    BY <1>5 DEF LimitsChange
  <2>2. limited' \subseteq KeyIndex
    BY <1>5 DEF LimitsChange
  <2>3. /\ moved' = moved + 1 /\ moved' \in 0 .. LimitsMove
        /\ UNCHANGED <<idx, phase, attempt, keyUsed, begunAt>>
    BY <1>5, PoolAssumption DEF LimitsChange, call
  <2>4. Bookkeeping'
    BY <2>3
  <2> QED
    BY <2>1, <2>2, <2>3, <2>4
<1>6. CASE UNCHANGED poolVars
  BY <1>6 DEF poolVars, call
<1> QED
  BY <1>1, <1>2, <1>3, <1>4, <1>5, <1>6 DEF PoolNext

LEMMA ViewKept == PoolInv /\ [PoolNext]_poolVars => CurrentView'
<1> SUFFICES ASSUME PoolInv, [PoolNext]_poolVars, calm',
                    NEW q \in PoolCalls
             PROVE  /\ q \in InFlight' => begunAt'[q] = moved'
                    /\ phase'[q] = "limited" => keyUsed'[q] \in limited'
  BY DEF CurrentView
<1> USE DEF PoolInv, PoolTypeOK, CurrentView, InFlight
<1>1. ASSUME NEW r \in PoolCalls, PickKey(r) \/ Response(r) \/ OtherFailure(r)
                                  \/ Rotate(r)
      PROVE  /\ q \in InFlight' => begunAt'[q] = moved'
             /\ phase'[q] = "limited" => keyUsed'[q] \in limited'
  BY <1>1 DEF PickKey, Response, OtherFailure, Rotate
<1>2. CASE LimitsChange
  BY <1>2 DEF LimitsChange, call
<1>3. CASE UNCHANGED poolVars
  BY <1>3 DEF poolVars, call
<1> QED
  BY <1>1, <1>2, <1>3 DEF PoolNext

LEMMA ReachKept == PoolInv /\ [PoolNext]_poolVars => WithinReach'
<1> SUFFICES ASSUME PoolInv, [PoolNext]_poolVars, calm',
                    NEW q \in PoolCalls, NEW g \in FreeKeys'
             PROVE  /\ phase'[q] = "trying" => Ahead(idx', g) + attempt'[q] < KeyCount
                    /\ phase'[q] \in {"sent", "limited"} =>
                         /\ Ahead(keyUsed'[q], g) + attempt'[q] < KeyCount
                         /\ idx' # keyUsed'[q] =>
                              Ahead(idx', g) < Ahead(keyUsed'[q], g)
                    /\ phase'[q] = "refused" => begunAt'[q] # moved'
  BY DEF WithinReach, Ahead
<1> DEFINE Goal ==
      /\ phase'[q] = "trying" => Ahead(idx', g) + attempt'[q] < KeyCount
      /\ phase'[q] \in {"sent", "limited"} =>
           /\ Ahead(keyUsed'[q], g) + attempt'[q] < KeyCount
           /\ idx' # keyUsed'[q] => Ahead(idx', g) < Ahead(keyUsed'[q], g)
      /\ phase'[q] = "refused" => begunAt'[q] # moved'
<1> USE DEF PoolInv, PoolTypeOK
<1>1. g \in KeyIndex
  BY DEF FreeKeys
<1>2. Ahead(idx, g) \in KeyIndex /\ Ahead(keyUsed[q], g) \in KeyIndex
  BY <1>1, AheadBounds
<1>3. ASSUME UNCHANGED <<limited, moved, calm>>
      PROVE  /\ g \in FreeKeys
             /\ phase[q] = "trying" => Ahead(idx, g) + attempt[q] < KeyCount
             /\ phase[q] \in {"sent", "limited"} =>
                  /\ Ahead(keyUsed[q], g) + attempt[q] < KeyCount
                  /\ idx # keyUsed[q] => Ahead(idx, g) < Ahead(keyUsed[q], g)
             /\ phase[q] = "refused" => begunAt[q] # moved
  BY <1>3 DEF WithinReach, FreeKeys
<1>4. ASSUME NEW r \in PoolCalls, PickKey(r)
      PROVE  Goal
  <2>1. CASE q # r
    BY <1>3, <1>4, <2>1 DEF PickKey
  <2>2. CASE q = r
    <3>1. /\ phase'[q] = "sent" /\ keyUsed'[q] = idx
          /\ idx' = idx /\ attempt'[q] = attempt[q]
      BY <1>4, <2>2 DEF PickKey
    <3>2. Ahead(idx, g) + attempt[q] < KeyCount
      <4>1. CASE phase[q] = "trying"
        BY <1>3, <1>4, <4>1 DEF PickKey
      <4>2. CASE phase[q] = "idle"
        <5>1. attempt[q] = 0
          BY <4>2 DEF Bookkeeping
        <5> QED
          BY <1>2, <5>1, PoolAssumption DEF KeyIndex
      <4> QED
        BY <1>4, <2>2, <4>1, <4>2 DEF PickKey
    <3> QED
      BY <3>1, <3>2
  <2> QED
    BY <2>1, <2>2
<1>5. ASSUME NEW r \in PoolCalls, Response(r)
      PROVE  Goal
  BY <1>3, <1>5 DEF Response
<1>6. ASSUME NEW r \in PoolCalls, OtherFailure(r)
      PROVE  Goal
  BY <1>3, <1>6 DEF OtherFailure
<1>7. ASSUME NEW r \in PoolCalls, Rotate(r)
      PROVE  Goal
  <2>1. g \in FreeKeys /\ UNCHANGED <<limited, moved, calm, keyUsed, begunAt>>
    BY <1>3, <1>7 DEF Rotate
  <2>2. keyUsed[r] \in limited /\ keyUsed[r] # g
    BY <1>7, <2>1 DEF Rotate, CurrentView, FreeKeys
  <2>3. /\ idx = keyUsed[r] => Ahead(idx', g) = Ahead(idx, g) - 1
        /\ idx # keyUsed[r] => idx' = idx
    BY <1>1, <1>7, <2>2, StepNearer DEF Rotate, Rotated
  <2>4. /\ Ahead(keyUsed[r], g) + attempt[r] < KeyCount
        /\ idx # keyUsed[r] => Ahead(idx, g) < Ahead(keyUsed[r], g)
    BY <1>7, <2>1 DEF Rotate, WithinReach
  <2>5. Ahead(keyUsed[r], g) \in KeyIndex /\ Ahead(keyUsed[r], g) > 0
    BY <1>1, <2>2, AheadBounds
  <2>6. Ahead(idx', g) < Ahead(keyUsed[r], g)
    BY <1>2, <2>3, <2>4, <2>5, PoolAssumption DEF KeyIndex
  <2>7. CASE q # r
    <3>1. phase'[q] = phase[q] /\ attempt'[q] = attempt[q]
      BY <1>7, <2>7 DEF Rotate
    <3>2. Ahead(idx', g) <= Ahead(idx, g)
      BY <1>2, <2>3, PoolAssumption DEF KeyIndex
    <3>3. idx' \in KeyIndex /\ Ahead(idx', g) \in KeyIndex
      BY <1>1, TypeKept, AheadBounds
    <3>4. ASSUME phase[q] = "trying"
          PROVE  Ahead(idx', g) + attempt[q] < KeyCount
      <4>1. Ahead(idx, g) + attempt[q] < KeyCount
        BY <1>3, <2>1, <3>4
      <4>2. attempt[q] \in KeyIndex
        OBVIOUS
      <4> QED
        BY <1>2, <3>2, <3>3, <4>1, <4>2, PoolAssumption DEF KeyIndex
    <3>5. ASSUME phase[q] \in {"sent", "limited"}, idx' # keyUsed[q]
          PROVE  Ahead(idx', g) < Ahead(keyUsed[q], g)
      <4>1. idx # keyUsed[q] => Ahead(idx, g) < Ahead(keyUsed[q], g)
        BY <1>3, <2>1, <3>5
      <4>2. CASE idx = keyUsed[r] /\ idx = keyUsed[q]
        BY <1>2, <2>3, <3>3, <4>2, PoolAssumption DEF KeyIndex
      <4>3. CASE idx # keyUsed[q]
        BY <1>2, <3>2, <3>3, <4>1, <4>3, PoolAssumption DEF KeyIndex
      <4>4. CASE idx # keyUsed[r]
        BY <2>3, <3>5, <4>1, <4>4
      <4> QED
        BY <4>2, <4>3, <4>4
    <3> QED
      BY <1>3, <2>1, <3>1, <3>4, <3>5
  <2>8. CASE q = r
    <3>1. CASE attempt[r] < KeyCount - 1
      <4>1. phase'[r] = "trying" /\ attempt'[r] = attempt[r] + 1
        BY <1>7, <3>1 DEF Rotate, KeyIndex
      <4>2. Ahead(idx', g) \in KeyIndex
        BY <1>1, TypeKept, AheadBounds
      <4> QED
        BY <2>4, <2>5, <2>6, <2>8, <4>1, <4>2, PoolAssumption DEF KeyIndex
    <3>2. CASE attempt[r] = KeyCount - 1
      BY <2>4, <2>5, <3>2, PoolAssumption DEF KeyIndex
    <3> QED
      BY <1>7, <3>1, <3>2 DEF Rotate
  <2> QED
    BY <2>7, <2>8
<1>8. CASE LimitsChange
  <2>1. InFlight = {} /\ moved' = moved + 1 /\ UNCHANGED <<phase, begunAt>>
    BY <1>8 DEF LimitsChange, call
  <2>2. phase'[q] \notin {"trying", "sent", "limited"}
    BY <2>1 DEF InFlight
  <2>3. begunAt'[q] # moved'
    BY <2>1 DEF Bookkeeping
  <2> QED
    BY <2>2, <2>3
<1>9. CASE UNCHANGED poolVars
  BY <1>3, <1>9 DEF poolVars, call
<1> QED
  BY <1>4, <1>5, <1>6, <1>7, <1>8, <1>9 DEF PoolNext

THEOREM PoolInvariant == PoolSpec => []PoolInv
<1>1. PoolInv /\ [PoolNext]_poolVars => PoolInv'
  BY TypeKept, ViewKept, ReachKept DEF PoolInv
<1> QED
  BY InitReached, <1>1, PTL DEF PoolSpec

(* The pool's index stays inside the list of keys, and a call never counts  *)
(* more attempts than there are keys.                                       *)
THEOREM PoolTypesKept == PoolSpec => []PoolTypeOK
<1>1. PoolInv => PoolTypeOK
  BY DEF PoolInv
<1> QED
  BY PoolInvariant, <1>1, PTL

(* A call is refused for its rate limit only if every key was limited.      *)
THEOREM NoCallRefusedWhileAKeyIsFree == PoolSpec => []GoodKeyIsFound
<1>1. PoolInv => GoodKeyIsFound
  <2> SUFFICES ASSUME PoolInv, NEW r \in PoolCalls, phase[r] = "refused",
                      begunAt[r] = moved, calm
               PROVE  limited = KeyIndex
    BY DEF GoodKeyIsFound
  <2>1. FreeKeys = {}
    BY DEF PoolInv, WithinReach
  <2> QED
    BY <2>1 DEF PoolInv, PoolTypeOK, FreeKeys
<1> QED
  BY PoolInvariant, <1>1, PTL
-----------------------------------------------------------------------------
(* The search for the next run (internal/cron/scheduler.go).  Months, days  *)
(* and hours are periods of the local clock that begin with a whole hour,   *)
(* and the clock's coarser fields are the same in all of one; a jump leads  *)
(* to what Date makes of the end of the period, and a kind zone has no      *)
(* instant of another period on the way there.                              *)

(* Quotients and remainders.                                               *)
LEMMA Divided ==
  ASSUME NEW x \in Int, NEW b \in Nat \ {0}
  PROVE  /\ x \div b \in Int /\ x % b \in 0 .. b - 1
         /\ x = b * (x \div b) + (x % b)
<1>1. x \div b \in Int
  OBVIOUS
<1>2. x % b \in Int /\ x % b >= 0 /\ x % b < b
  OBVIOUS
<1>3. x = b * (x \div b) + (x % b)
  OBVIOUS
<1> QED
  BY <1>1, <1>2, <1>3

LEMMA Times ==
  ASSUME NEW m \in Int, NEW n \in Int, NEW b \in Nat, m <= n
  PROVE  m * b <= n * b
<1>1. (n - m) * b >= 0
  OBVIOUS
<1>2. (n - m) * b = n * b - m * b
  OBVIOUS
<1>3. n * b \in Int /\ m * b \in Int
  OBVIOUS
<1> QED
  BY <1>1, <1>2, <1>3

(* The multiple of b below a number tells its quotient and its remainder.   *)
LEMMA DivIs ==
  ASSUME NEW x \in Int, NEW b \in Nat \ {0}, NEW q \in Int,
         q * b <= x, x < q * b + b
  PROVE  x \div b = q /\ x % b = x - q * b
<1>1. PICK d \in Int : d = x \div b
  BY Divided
<1>2. PICK r \in 0 .. b - 1 : r = x % b
  BY Divided
<1>3. x = d * b + r
  <2>1. x = b * d + r
    BY <1>1, <1>2, Divided
  <2> QED
    BY <2>1
<1>4. ~(d < q)
  <2> SUFFICES ASSUME d + 1 <= q PROVE FALSE
    BY <1>1
  <2>1. (d + 1) * b <= q * b
    BY Times
  <2>2. (d + 1) * b = d * b + b
    OBVIOUS
  <2>3. d * b \in Int /\ q * b \in Int
    OBVIOUS
  <2> QED
    BY <1>3, <2>1, <2>2, <2>3
<1>5. ~(q < d)
  <2> SUFFICES ASSUME q + 1 <= d PROVE FALSE
    BY <1>1
  <2>1. (q + 1) * b <= d * b
    BY Times
  <2>2. (q + 1) * b = q * b + b
    OBVIOUS
  <2>3. d * b \in Int /\ q * b \in Int
    OBVIOUS
  <2> QED
    BY <1>3, <2>1, <2>2, <2>3
<1>6. d = q
  BY <1>4, <1>5
<1> QED
  BY <1>1, <1>2, <1>3, <1>6
(* What a quotient is at least and at most.                                 *)
LEMMA AtMost ==
  ASSUME NEW x \in Int, NEW b \in Nat \ {0}, NEW q \in Int
  PROVE  /\ q * b \in Int
         /\ q * b <= x => q <= x \div b
         /\ x < q * b => x \div b < q
         /\ (x \div b) * b <= x
         /\ x < ((x \div b) + 1) * b
<1>1. PICK d \in Int : d = x \div b
  BY Divided
<1>2. PICK r \in 0 .. b - 1 : r = x % b
  BY Divided
<1>3. x = d * b + r
  <2>1. x = b * d + r
    BY <1>1, <1>2, Divided
  <2> QED
    BY <2>1
<1>4. q * b \in Int /\ d * b \in Int /\ (d + 1) * b = d * b + b
  OBVIOUS
<1>5. q * b <= x => q <= d
  <2> SUFFICES ASSUME d + 1 <= q PROVE ~(q * b <= x)
    OBVIOUS
  <2>1. (d + 1) * b <= q * b
    BY Times
  <2> QED
    BY <1>3, <1>4, <2>1
<1>6. x < q * b => d < q
  <2> SUFFICES ASSUME q <= d PROVE ~(x < q * b)
    OBVIOUS
  <2>1. q * b <= d * b
    BY Times
  <2> QED
    BY <1>3, <1>4, <2>1
<1>7. d * b <= x /\ x < (d + 1) * b
  BY <1>3, <1>4
<1> QED
  BY <1>1, <1>4, <1>5, <1>6, <1>7

LEMMA Product ==
  ASSUME NEW b \in Nat \ {0}, NEW c \in Nat \ {0}
  PROVE  b * c \in Nat \ {0}
OBVIOUS

-----------------------------------------------------------------------------
(* What the local clock shows, and what Date makes of it.                   *)
Local(u) == u + OffsetAt(u)
Instant(x) ==
  LET guess == x - OffsetAt(x)
  IN IF (x < zone.at) <=> (guess < zone.at) THEN guess
     ELSE x - OffsetAt(guess)

(* Where a period of the local clock runs from P to L, whole hours both, no  *)
(* instant between one of the period and what Date makes of L is of another. *)
LEMMA InstantIs ==
  ASSUME NEW at \in Int, NEW b \in Int, NEW a \in Int, NEW L \in Int, NEW P \in Int,
         ~(at + b < L /\ L < at + a), ~(at + a < L /\ L < at + b),
         ~(at + a < P /\ P < at + b), a < b => a < 0,
         NEW u \in Int, NEW v \in Int, NEW D \in Int, NEW x \in Int, NEW y \in Int,
         NEW o \in Int, NEW g \in Int,
         o = IF L < at THEN b ELSE a,
         g = L - o,
         D = IF (L < at) <=> (g < at) THEN g
             ELSE L - (IF g < at THEN b ELSE a),
         x = u + IF u < at THEN b ELSE a,
         y = v + IF v < at THEN b ELSE a,
         P <= x, x < L, u <= v, v < D
  PROVE  P <= y /\ y < L
  OBVIOUS

LEMMA ZoneTyped ==
  ASSUME zone \in Zones
  PROVE  /\ zone.at \in Int /\ zone.before \in Int /\ zone.after \in Int
         /\ \A u \in Int : OffsetAt(u) \in Int /\ Local(u) \in Int /\ Instant(u) \in Int
<1>1. zone.at \in Int /\ zone.before \in Int /\ zone.after \in Int
  BY CalendarAssumption DEF CalendarAssumption
<1>2. \A u \in Int : OffsetAt(u) \in Int
  BY <1>1 DEF OffsetAt
<1>3. \A u \in Int : Local(u) \in Int /\ Instant(u) \in Int
  BY <1>1, <1>2 DEF Local, Instant
<1> QED
  BY <1>1, <1>2, <1>3

LEMMA NothingBefore ==
  ASSUME zone \in Zones, KindZone(zone),
         NEW P \in Int, NEW L \in Int,
         P % MinutesPerHour = 0, L % MinutesPerHour = 0,
         NEW u \in Int, NEW v \in Int,
         P <= Local(u), Local(u) < L, u <= v, v < Instant(L)
  PROVE  P <= Local(v) /\ Local(v) < L
<1>1. /\ zone.at \in Int /\ zone.before \in Int /\ zone.after \in Int
      /\ OffsetAt(L) \in Int
      /\ Local(u) \in Int /\ Local(v) \in Int /\ Instant(L) \in Int
  BY ZoneTyped
<1>2. /\ ~(zone.at + zone.before < L /\ L < zone.at + zone.after)
      /\ ~(zone.at + zone.after < L /\ L < zone.at + zone.before)
      /\ ~(zone.at + zone.after < P /\ P < zone.at + zone.before)
      /\ zone.after < zone.before => zone.after < 0
  BY <1>1 DEF KindZone
<1>3. L - OffsetAt(L) \in Int
  BY <1>1
<1>4. OffsetAt(L) = IF L < zone.at THEN zone.before ELSE zone.after
  BY DEF OffsetAt
<1>5. Instant(L) = IF (L < zone.at) <=> (L - OffsetAt(L) < zone.at)
                   THEN L - OffsetAt(L)
                   ELSE L - (IF L - OffsetAt(L) < zone.at THEN zone.before
                             ELSE zone.after)
  BY DEF Instant, OffsetAt
<1>6. /\ Local(u) = u + IF u < zone.at THEN zone.before ELSE zone.after
      /\ Local(v) = v + IF v < zone.at THEN zone.before ELSE zone.after
  BY DEF Local, OffsetAt
<1> QED
  BY <1>1, <1>2, <1>3, <1>4, <1>5, <1>6, InstantIs

-----------------------------------------------------------------------------
(* The calendar has months of some days each, which make up its year.      *)
LEMMA CalendarFacts ==
  /\ MinutesPerHour \in Nat \ {0} /\ HoursPerDay \in Nat \ {0}
  /\ DaysPerWeek \in Nat \ {0}
  /\ MinutesPerDay \in Nat \ {0}
  /\ Len(DaysBefore) \in Nat /\ Len(DaysBefore) > 1
  /\ DOMAIN DaysBefore = 1 .. Len(DaysBefore)
  /\ DaysBefore[1] = 0 /\ \A m \in 1 .. Len(DaysBefore) : DaysBefore[m] \in Nat
  /\ \A m, n \in 1 .. Len(DaysBefore) : m < n => DaysBefore[m] < DaysBefore[n]
  /\ DaysPerYear \in Nat \ {0}
  /\ Afters \subseteq Int
<1>1. /\ MinutesPerHour \in Nat \ {0} /\ HoursPerDay \in Nat \ {0}
      /\ DaysPerWeek \in Nat \ {0}
      /\ DaysBefore \in Seq(Nat) /\ Len(DaysBefore) > 1 /\ DaysBefore[1] = 0
      /\ \A m, n \in DOMAIN DaysBefore : m < n => DaysBefore[m] < DaysBefore[n]
  BY CalendarAssumption DEF CalendarAssumption
<1>6. Afters \subseteq Nat
  BY CalendarAssumption DEF CalendarAssumption
<1>2. MinutesPerDay \in Nat \ {0}
  BY <1>1, Product DEF MinutesPerDay
<1>3. /\ Len(DaysBefore) \in Nat /\ DOMAIN DaysBefore = 1 .. Len(DaysBefore)
      /\ \A m \in 1 .. Len(DaysBefore) : DaysBefore[m] \in Nat
  BY <1>1
<1>4. 1 \in 1 .. Len(DaysBefore) /\ Len(DaysBefore) \in 1 .. Len(DaysBefore)
  BY <1>1, <1>3
<1>5. DaysPerYear \in Nat \ {0}
  <2>1. DaysBefore[1] < DaysBefore[Len(DaysBefore)]
    BY <1>1, <1>3, <1>4
  <2> QED
    BY <1>1, <1>3, <1>4, <2>1 DEF DaysPerYear
<1> QED
  BY <1>1, <1>2, <1>3, <1>5, <1>6

(* Every day of a year is in one month.                                     *)
LEMMA InOneMonth ==
  ASSUME NEW d \in Int, 0 <= d, d < DaysPerYear
  PROVE  \E m \in Months : DaysBefore[m] <= d /\ d < DaysBefore[m + 1]
<1> DEFINE T == {n \in 1 .. Len(DaysBefore) : d < DaysBefore[n]}
<1>1. T \subseteq Nat /\ Len(DaysBefore) \in T
  BY CalendarFacts DEF DaysPerYear
<1>2. PICK n \in T : \A k \in T : ~(<<k, n>> \in OpToRel(<, Nat))
  BY <1>1, WFMin, NatLessThanWellFounded
<1>3. n \in 1 .. Len(DaysBefore) /\ d < DaysBefore[n]
  OBVIOUS
<1>4. n # 1
  BY <1>3, CalendarFacts
<1>5. n - 1 \in 1 .. Len(DaysBefore) /\ n - 1 \in Nat /\ n \in Nat /\ n - 1 < n
  BY <1>3, <1>4, CalendarFacts
<1>6. n - 1 \notin T
  BY <1>2, <1>5 DEF OpToRel
<1>7. DaysBefore[n - 1] <= d
  BY <1>5, <1>6, CalendarFacts
<1>8. n - 1 \in Months /\ (n - 1) + 1 = n
  BY <1>3, <1>4, CalendarFacts DEF Months
<1> QED
  BY <1>3, <1>7, <1>8

LEMMA OnlyMonth ==
  ASSUME NEW d \in Int, NEW m \in Months, NEW k \in Months,
         DaysBefore[m] <= d, d < DaysBefore[m + 1],
         DaysBefore[k] <= d, d < DaysBefore[k + 1]
  PROVE  k = m
<1>1. /\ m \in 1 .. Len(DaysBefore) /\ m + 1 \in 1 .. Len(DaysBefore)
      /\ k \in 1 .. Len(DaysBefore) /\ k + 1 \in 1 .. Len(DaysBefore)
  BY CalendarFacts DEF Months
<1>2. ~(m + 1 <= k)
  <2> SUFFICES ASSUME m + 1 <= k PROVE FALSE
    OBVIOUS
  <2>1. DaysBefore[m + 1] <= DaysBefore[k]
    BY <1>1, CalendarFacts
  <2> QED
    BY <1>1, <2>1, CalendarFacts
<1>3. ~(k + 1 <= m)
  <2> SUFFICES ASSUME k + 1 <= m PROVE FALSE
    OBVIOUS
  <2>1. DaysBefore[k + 1] <= DaysBefore[m]
    BY <1>1, CalendarFacts
  <2> QED
    BY <1>1, <2>1, CalendarFacts
<1> QED
  BY <1>1, <1>2, <1>3

(* A whole number of days is a whole number of hours.                       *)
LEMMA WholeHours ==
  ASSUME NEW q \in Int
  PROVE  /\ q * MinutesPerHour \in Int /\ (q * MinutesPerHour) % MinutesPerHour = 0
         /\ q * MinutesPerDay \in Int /\ (q * MinutesPerDay) % MinutesPerHour = 0
         /\ q * MinutesPerDay = (q * HoursPerDay) * MinutesPerHour
<1>1. \A k \in Int : k * MinutesPerHour \in Int /\ (k * MinutesPerHour) % MinutesPerHour = 0
  <2> TAKE k \in Int
  <2>1. MinutesPerHour \in Nat \ {0} /\ k * MinutesPerHour \in Int
    BY CalendarFacts
  <2>2. k * MinutesPerHour < k * MinutesPerHour + MinutesPerHour
    BY <2>1
  <2>3. (k * MinutesPerHour) % MinutesPerHour = k * MinutesPerHour - k * MinutesPerHour
    BY <2>1, <2>2, DivIs
  <2> QED
    BY <2>1, <2>3
<1>2. q * HoursPerDay \in Int /\ q * MinutesPerDay \in Int
  BY CalendarFacts
<1>3. q * MinutesPerDay = (q * HoursPerDay) * MinutesPerHour
  BY CalendarFacts DEF MinutesPerDay
<1> QED
  BY <1>1, <1>2, <1>3

(* The day of an instant is the day of its hour.                            *)
LEMMA DayOfHour ==
  ASSUME NEW x \in Int, NEW h \in Int, NEW d \in Int,
         h = x \div MinutesPerHour, d = h \div HoursPerDay
  PROVE  x \div MinutesPerDay = d
<1>1. /\ MinutesPerHour \in Nat \ {0} /\ HoursPerDay \in Nat \ {0}
      /\ MinutesPerDay \in Nat \ {0}
  BY CalendarFacts
<1>2. h * MinutesPerHour <= x /\ x < (h + 1) * MinutesPerHour
  BY <1>1, AtMost
<1>3. PICK m \in Int : m = d * HoursPerDay
  BY <1>1
<1>4. PICK n \in Int : n = (d + 1) * HoursPerDay
  BY <1>1
<1>5. m <= h /\ h + 1 <= n
  BY <1>1, <1>3, <1>4, AtMost
<1>6. /\ m * MinutesPerHour <= h * MinutesPerHour
      /\ (h + 1) * MinutesPerHour <= n * MinutesPerHour
  BY <1>1, <1>5, Times
<1>7. d * MinutesPerDay = m * MinutesPerHour
  BY <1>3, WholeHours
<1>8. (d + 1) * MinutesPerDay = n * MinutesPerHour
  BY <1>4, WholeHours
<1>9. (d + 1) * MinutesPerDay = d * MinutesPerDay + MinutesPerDay
  BY <1>1
<1>10. /\ m * MinutesPerHour \in Int /\ n * MinutesPerHour \in Int
       /\ h * MinutesPerHour \in Int /\ (h + 1) * MinutesPerHour \in Int
  BY <1>1
<1>11. d * MinutesPerDay <= x
  BY <1>2, <1>6, <1>7, <1>10
<1>12. x < d * MinutesPerDay + MinutesPerDay
  BY <1>2, <1>6, <1>8, <1>9, <1>10
<1> QED
  BY <1>1, <1>11, <1>12, DivIs

(* What the clock reads: the day the instant is in, and the rest of it.     *)
LEMMA ClockReads ==
  ASSUME zone \in Zones, NEW u \in Int, NEW l \in Int, NEW d \in Int,
         l = Local(u), d = l \div MinutesPerDay
  PROVE  /\ d \div DaysPerYear \in Int /\ d % DaysPerYear \in Int
         /\ \E m \in Months :
              /\ DaysBefore[m] <= d % DaysPerYear
              /\ d % DaysPerYear < DaysBefore[m + 1]
              /\ Clock(u) = [year    |-> d \div DaysPerYear,
                             month   |-> m,
                             day     |-> (d % DaysPerYear) - DaysBefore[m] + 1,
                             weekday |-> d % DaysPerWeek,
                             hour    |-> (l \div MinutesPerHour) % HoursPerDay,
                             minute  |-> l % MinutesPerHour]
<1>0. DaysPerYear \in Nat \ {0} /\ MinutesPerDay \in Nat \ {0}
  BY CalendarFacts
<1>1. PICK i \in 0 .. DaysPerYear - 1 : i = d % DaysPerYear
  BY <1>0, Divided
<1>2. i \in Int /\ 0 <= i /\ i < DaysPerYear
  BY <1>0
<1> DEFINE m == CHOOSE n \in Months : DaysBefore[n] <= i /\ i < DaysBefore[n + 1]
<1>3. m \in Months /\ DaysBefore[m] <= i /\ i < DaysBefore[m + 1]
  BY <1>2, InOneMonth
<1>4. Clock(u) = [year |-> d \div DaysPerYear, month |-> m,
                  day |-> i - DaysBefore[m] + 1, weekday |-> d % DaysPerWeek,
                  hour |-> (l \div MinutesPerHour) % HoursPerDay,
                  minute |-> l % MinutesPerHour]
  BY <1>1 DEF Clock, Local
<1>5. d \div DaysPerYear \in Int
  BY <1>0, Divided
<1> HIDE DEF m
<1> QED
  BY <1>1, <1>2, <1>3, <1>4, <1>5

(* Date counts the days of its arguments and the minutes of the last.       *)
LEMMA DateIs ==
  ASSUME NEW year \in Int, NEW month \in 1 .. Len(DaysBefore), NEW day \in Int,
         NEW hour \in Int, NEW minute \in Int, NEW days \in Int, NEW x \in Int,
         days = year * DaysPerYear + DaysBefore[month] + day - 1,
         x = days * MinutesPerDay + hour * MinutesPerHour + minute
  PROVE  Date(year, month, day, hour, minute) = Instant(x)
BY DEF Date, Instant

(* An instant between one of the period from P to L and what Date makes of  *)
(* L: it is of the period too.                                              *)
LEMMA Backwards ==
  ASSUME NEW at \in Int, NEW b \in Int, NEW a \in Int, NEW L \in Int, NEW P \in Int,
         NEW h \in Nat \ {0},
         ~(at + b < L /\ L < at + a), ~(at + a < L /\ L < at + b),
         ~(at + b < L + h /\ L + h < at + a),
         P + h <= L, a < b => a < 0,
         NEW u \in Int, NEW v \in Int, NEW D \in Int, NEW x \in Int, NEW y \in Int,
         NEW o \in Int, NEW g \in Int,
         o = IF L < at THEN b ELSE a,
         g = L - o,
         D = IF (L < at) <=> (g < at) THEN g
             ELSE L - (IF g < at THEN b ELSE a),
         x = u + IF u < at THEN b ELSE a,
         y = v + IF v < at THEN b ELSE a,
         P <= x, x < L, D <= v, v <= u
  PROVE  P <= y /\ y < L
  OBVIOUS

LEMMA SamePeriod ==
  ASSUME zone \in Zones, KindZone(zone),
         NEW P \in Int, NEW L \in Int, P + MinutesPerHour <= L,
         P % MinutesPerHour = 0, L % MinutesPerHour = 0,
         NEW u \in Int, NEW v \in Int,
         P <= Local(u), Local(u) < L,
         \/ u <= v /\ v < Instant(L)
         \/ Instant(L) <= v /\ v <= u
  PROVE  P <= Local(v) /\ Local(v) < L
<1>1. /\ zone.at \in Int /\ zone.before \in Int /\ zone.after \in Int
      /\ OffsetAt(L) \in Int /\ MinutesPerHour \in Nat \ {0}
      /\ Local(u) \in Int /\ Local(v) \in Int /\ Instant(L) \in Int
  BY ZoneTyped, CalendarFacts
<1>2. (L + MinutesPerHour) % MinutesPerHour = 0
  <2>1. PICK q \in Int : L = MinutesPerHour * q + (L % MinutesPerHour)
    BY <1>1, Divided
  <2>2. L + MinutesPerHour = (q + 1) * MinutesPerHour
    BY <1>1, <2>1
  <2> QED
    BY <2>2, WholeHours
<1>3. /\ ~(zone.at + zone.before < L /\ L < zone.at + zone.after)
      /\ ~(zone.at + zone.after < L /\ L < zone.at + zone.before)
      /\ zone.after < zone.before => zone.after < 0
  BY <1>1 DEF KindZone
<1>4. ~(/\ zone.at + zone.before < L + MinutesPerHour
        /\ L + MinutesPerHour < zone.at + zone.after)
  <2> DEFINE from == zone.at + zone.before
             to == zone.at + zone.after
             next == L + MinutesPerHour
  <2>1. from \in Int /\ to \in Int /\ next \in Int
    BY <1>1
  <2>2. next \in from + 1 .. to - 1 => next % MinutesPerHour # 0
    BY DEF KindZone
  <2>3. next % MinutesPerHour = 0
    BY <1>2
  <2> HIDE DEF from, to, next
  <2>4. ~(from < next /\ next < to)
    BY <2>1, <2>2, <2>3
  <2> QED
    BY <2>4 DEF from, to, next
<1>5. L - OffsetAt(L) \in Int
  BY <1>1
<1>6. OffsetAt(L) = IF L < zone.at THEN zone.before ELSE zone.after
  BY DEF OffsetAt
<1>7. Instant(L) = IF (L < zone.at) <=> (L - OffsetAt(L) < zone.at)
                   THEN L - OffsetAt(L)
                   ELSE L - (IF L - OffsetAt(L) < zone.at THEN zone.before
                             ELSE zone.after)
  BY DEF Instant, OffsetAt
<1>8. /\ Local(u) = u + IF u < zone.at THEN zone.before ELSE zone.after
      /\ Local(v) = v + IF v < zone.at THEN zone.before ELSE zone.after
  BY DEF Local, OffsetAt
<1>9. CASE u <= v /\ v < Instant(L)
  BY <1>9, NothingBefore
<1>10. CASE Instant(L) <= v /\ v <= u
  BY <1>1, <1>3, <1>4, <1>5, <1>6, <1>7, <1>8, <1>10, Backwards
<1> QED
  BY <1>9, <1>10

-----------------------------------------------------------------------------
(* The periods the search jumps over: each ends where Date says the next     *)
(* one begins, and the clock reads the same in all of it.                    *)
LEMMA HourAhead ==
  ASSUME zone \in Zones, NEW u \in Int
  PROVE  \E P, L \in Int :
           /\ P + MinutesPerHour <= L
           /\ P % MinutesPerHour = 0 /\ L % MinutesPerHour = 0
           /\ P <= Local(u) /\ Local(u) < L
           /\ NextHour(Clock(u)) = Instant(L)
           /\ \A v \in Int : P <= Local(v) /\ Local(v) < L =>
                /\ Clock(v).month = Clock(u).month
                /\ Clock(v).day = Clock(u).day
                /\ Clock(v).weekday = Clock(u).weekday
                /\ Clock(v).hour = Clock(u).hour
<1>0. /\ MinutesPerHour \in Nat \ {0} /\ HoursPerDay \in Nat \ {0}
      /\ DaysPerYear \in Nat \ {0} /\ MinutesPerDay \in Nat \ {0}
  BY CalendarFacts
<1>1. PICK l \in Int : l = Local(u)
  BY ZoneTyped
<1>2. PICK h \in Int : h = l \div MinutesPerHour
  BY <1>0, Divided
<1>3. PICK d \in Int : d = h \div HoursPerDay
  BY <1>0, Divided
<1>4. d = l \div MinutesPerDay
  BY <1>2, <1>3, DayOfHour
<1>5. /\ h * MinutesPerHour \in Int /\ (h + 1) * MinutesPerHour \in Int
      /\ (h * MinutesPerHour) % MinutesPerHour = 0
      /\ ((h + 1) * MinutesPerHour) % MinutesPerHour = 0
  BY WholeHours
<1>6. (h + 1) * MinutesPerHour = h * MinutesPerHour + MinutesPerHour
  BY <1>0
<1>7. h * MinutesPerHour <= l /\ l < (h + 1) * MinutesPerHour
  BY <1>0, <1>2, AtMost
<1>8. PICK m \in Months :
        /\ DaysBefore[m] <= d % DaysPerYear /\ d % DaysPerYear < DaysBefore[m + 1]
        /\ Clock(u) = [year |-> d \div DaysPerYear, month |-> m,
                       day |-> (d % DaysPerYear) - DaysBefore[m] + 1,
                       weekday |-> d % DaysPerWeek,
                       hour |-> h % HoursPerDay, minute |-> l % MinutesPerHour]
  BY <1>1, <1>2, <1>4, ClockReads
<1>9. ASSUME NEW v \in Int, h * MinutesPerHour <= Local(v),
             Local(v) < (h + 1) * MinutesPerHour
      PROVE  /\ Clock(v).month = Clock(u).month /\ Clock(v).day = Clock(u).day
             /\ Clock(v).weekday = Clock(u).weekday /\ Clock(v).hour = Clock(u).hour
  <2>1. PICK k \in Int : k = Local(v)
    BY ZoneTyped
  <2>2. k \div MinutesPerHour = h
    <3>1. h * MinutesPerHour <= k /\ k < h * MinutesPerHour + MinutesPerHour
      BY <1>6, <1>9, <2>1
    <3> QED
      BY <1>0, <3>1, DivIs
  <2>3. d = k \div MinutesPerDay
    BY <1>3, <2>1, <2>2, DayOfHour
  <2>4. PICK n \in Months :
          /\ DaysBefore[n] <= d % DaysPerYear /\ d % DaysPerYear < DaysBefore[n + 1]
          /\ Clock(v) = [year |-> d \div DaysPerYear, month |-> n,
                         day |-> (d % DaysPerYear) - DaysBefore[n] + 1,
                         weekday |-> d % DaysPerWeek,
                         hour |-> h % HoursPerDay, minute |-> k % MinutesPerHour]
    BY <2>1, <2>2, <2>3, ClockReads
  <2>5. d % DaysPerYear \in Int
    BY <1>0, Divided
  <2>6. n = m
    BY <1>8, <2>4, <2>5, OnlyMonth
  <2> QED
    BY <1>8, <2>4, <2>6
<1>10. NextHour(Clock(u)) = Instant((h + 1) * MinutesPerHour)
  <2>1. PICK y \in Int : y = d \div DaysPerYear
    BY <1>0, Divided
  <2>2. PICK i \in Int : i = d % DaysPerYear
    BY <1>0, Divided
  <2>3. PICK r \in Int : r = h % HoursPerDay
    BY <1>0, Divided
  <2>4. m \in 1 .. Len(DaysBefore) /\ DaysBefore[m] \in Int
    BY <1>8, CalendarFacts DEF Months
  <2>5. d = y * DaysPerYear + DaysBefore[m] + (i - DaysBefore[m] + 1) - 1
    <3>1. d = DaysPerYear * y + i
      BY <1>0, <2>1, <2>2, Divided
    <3>2. DaysPerYear * y = y * DaysPerYear /\ y * DaysPerYear \in Int
      BY <1>0
    <3> QED
      BY <2>4, <3>1, <3>2
  <2>6. (h + 1) * MinutesPerHour = d * MinutesPerDay + (r + 1) * MinutesPerHour + 0
    <3>1. h = HoursPerDay * d + r
      BY <1>0, <1>3, <2>3, Divided
    <3>2. d * MinutesPerDay = (d * HoursPerDay) * MinutesPerHour
      BY WholeHours
    <3>3. h + 1 = d * HoursPerDay + (r + 1)
      BY <1>0, <3>1
    <3> DEFINE e == d * HoursPerDay
    <3>4. e \in Int /\ h + 1 = e + (r + 1)
      BY <1>0, <3>3
    <3> HIDE DEF e
    <3>5. (e + (r + 1)) * MinutesPerHour = e * MinutesPerHour + (r + 1) * MinutesPerHour
      BY <1>0, <3>4
    <3> QED
      BY <3>2, <3>4, <3>5, <1>5 DEF e
  <2>7. /\ Clock(u).year = y /\ Clock(u).month = m
        /\ Clock(u).day = i - DaysBefore[m] + 1 /\ Clock(u).hour = r
    BY <1>8, <2>1, <2>2, <2>3
  <2>8. i - DaysBefore[m] + 1 \in Int
    BY <2>4
  <2>9. Date(y, m, i - DaysBefore[m] + 1, r + 1, 0) = Instant((h + 1) * MinutesPerHour)
    BY <1>5, <2>4, <2>5, <2>6, <2>8, DateIs
  <2> QED
    BY <2>7, <2>9 DEF NextHour
<1>11. h * MinutesPerHour + MinutesPerHour <= (h + 1) * MinutesPerHour
  BY <1>0, <1>5, <1>6
<1> QED
  BY <1>1, <1>5, <1>7, <1>9, <1>10, <1>11

LEMMA DayAhead ==
  ASSUME zone \in Zones, NEW u \in Int
  PROVE  \E P, L \in Int :
           /\ P + MinutesPerHour <= L
           /\ P % MinutesPerHour = 0 /\ L % MinutesPerHour = 0
           /\ P <= Local(u) /\ Local(u) < L
           /\ NextDay(Clock(u)) = Instant(L)
           /\ \A v \in Int : P <= Local(v) /\ Local(v) < L =>
                /\ Clock(v).month = Clock(u).month
                /\ Clock(v).day = Clock(u).day
                /\ Clock(v).weekday = Clock(u).weekday
<1>0. /\ MinutesPerHour \in Nat \ {0} /\ HoursPerDay \in Nat \ {0}
      /\ DaysPerYear \in Nat \ {0} /\ MinutesPerDay \in Nat \ {0}
  BY CalendarFacts
<1>1. PICK l \in Int : l = Local(u)
  BY ZoneTyped
<1>2. PICK d \in Int : d = l \div MinutesPerDay
  BY <1>0, Divided
<1>3. /\ d * MinutesPerDay \in Int /\ (d + 1) * MinutesPerDay \in Int
      /\ (d * MinutesPerDay) % MinutesPerHour = 0
      /\ ((d + 1) * MinutesPerDay) % MinutesPerHour = 0
  BY WholeHours
<1>4. (d + 1) * MinutesPerDay = d * MinutesPerDay + MinutesPerDay
  BY <1>0
<1>5. MinutesPerHour <= MinutesPerDay
  <2>1. 1 * MinutesPerHour <= HoursPerDay * MinutesPerHour
    BY <1>0, Times
  <2> QED
    BY <1>0, <2>1 DEF MinutesPerDay
<1>6. d * MinutesPerDay <= l /\ l < (d + 1) * MinutesPerDay
  BY <1>0, <1>2, AtMost
<1>7. PICK m \in Months :
        /\ DaysBefore[m] <= d % DaysPerYear /\ d % DaysPerYear < DaysBefore[m + 1]
        /\ Clock(u).year = d \div DaysPerYear /\ Clock(u).month = m
        /\ Clock(u).day = (d % DaysPerYear) - DaysBefore[m] + 1
        /\ Clock(u).weekday = d % DaysPerWeek
  BY <1>1, <1>2, ClockReads
<1>8. ASSUME NEW v \in Int, d * MinutesPerDay <= Local(v),
             Local(v) < (d + 1) * MinutesPerDay
      PROVE  /\ Clock(v).month = Clock(u).month /\ Clock(v).day = Clock(u).day
             /\ Clock(v).weekday = Clock(u).weekday
  <2>1. PICK k \in Int : k = Local(v)
    BY ZoneTyped
  <2>2. d = k \div MinutesPerDay
    <3>1. d * MinutesPerDay <= k /\ k < d * MinutesPerDay + MinutesPerDay
      BY <1>4, <1>8, <2>1
    <3> QED
      BY <1>0, <3>1, DivIs
  <2>3. PICK n \in Months :
          /\ DaysBefore[n] <= d % DaysPerYear /\ d % DaysPerYear < DaysBefore[n + 1]
          /\ Clock(v).month = n
          /\ Clock(v).day = (d % DaysPerYear) - DaysBefore[n] + 1
          /\ Clock(v).weekday = d % DaysPerWeek
    BY <2>1, <2>2, ClockReads
  <2>4. d % DaysPerYear \in Int
    BY <1>0, Divided
  <2>5. n = m
    BY <1>7, <2>3, <2>4, OnlyMonth
  <2> QED
    BY <1>7, <2>3, <2>5
<1>9. NextDay(Clock(u)) = Instant((d + 1) * MinutesPerDay)
  <2>1. PICK y \in Int : y = d \div DaysPerYear
    BY <1>0, Divided
  <2>2. PICK i \in Int : i = d % DaysPerYear
    BY <1>0, Divided
  <2>3. m \in 1 .. Len(DaysBefore) /\ DaysBefore[m] \in Int
    BY <1>7, CalendarFacts DEF Months
  <2>4. d + 1 = y * DaysPerYear + DaysBefore[m] + ((i - DaysBefore[m] + 1) + 1) - 1
    <3>1. d = DaysPerYear * y + i
      BY <1>0, <2>1, <2>2, Divided
    <3>2. DaysPerYear * y = y * DaysPerYear /\ y * DaysPerYear \in Int
      BY <1>0
    <3> QED
      BY <2>3, <3>1, <3>2
  <2>5. (d + 1) * MinutesPerDay = (d + 1) * MinutesPerDay + 0 * MinutesPerHour + 0
    BY <1>0, <1>3
  <2>6. (i - DaysBefore[m] + 1) + 1 \in Int /\ d + 1 \in Int
    BY <2>3
  <2>7. Date(y, m, (i - DaysBefore[m] + 1) + 1, 0, 0) = Instant((d + 1) * MinutesPerDay)
    BY <1>3, <2>3, <2>4, <2>5, <2>6, DateIs
  <2> QED
    BY <1>7, <2>1, <2>2, <2>7 DEF NextDay
<1>10. d * MinutesPerDay + MinutesPerHour <= (d + 1) * MinutesPerDay
  BY <1>0, <1>3, <1>4, <1>5
<1> QED
  BY <1>1, <1>3, <1>6, <1>8, <1>9, <1>10

LEMMA MonthAhead ==
  ASSUME zone \in Zones, NEW u \in Int
  PROVE  \E P, L \in Int :
           /\ P + MinutesPerHour <= L
           /\ P % MinutesPerHour = 0 /\ L % MinutesPerHour = 0
           /\ P <= Local(u) /\ Local(u) < L
           /\ NextMonth(Clock(u)) = Instant(L)
           /\ \A v \in Int : P <= Local(v) /\ Local(v) < L =>
                Clock(v).month = Clock(u).month
<1>0. /\ MinutesPerHour \in Nat \ {0} /\ HoursPerDay \in Nat \ {0}
      /\ DaysPerYear \in Nat \ {0} /\ MinutesPerDay \in Nat \ {0}
  BY CalendarFacts
<1>1. PICK l \in Int : l = Local(u)
  BY ZoneTyped
<1>2. PICK d \in Int : d = l \div MinutesPerDay
  BY <1>0, Divided
<1>3. PICK y \in Int : y = d \div DaysPerYear
  BY <1>0, Divided
<1>4. PICK i \in Int : i = d % DaysPerYear
  BY <1>0, Divided
<1>5. PICK z \in Int : z = y * DaysPerYear
  BY <1>0
<1>6. d = z + i
  <2>1. d = DaysPerYear * y + i
    BY <1>0, <1>3, <1>4, Divided
  <2> QED
    BY <1>0, <1>5, <2>1
<1>7. PICK m \in Months :
        /\ DaysBefore[m] <= i /\ i < DaysBefore[m + 1]
        /\ Clock(u).year = y /\ Clock(u).month = m
  BY <1>1, <1>2, <1>3, <1>4, ClockReads
<1>8. /\ m \in 1 .. Len(DaysBefore) /\ m + 1 \in 1 .. Len(DaysBefore)
      /\ DaysBefore[m] \in Nat /\ DaysBefore[m + 1] \in Nat
      /\ DaysBefore[m] < DaysBefore[m + 1] /\ DaysBefore[m + 1] <= DaysPerYear
  <2>1. m \in 1 .. Len(DaysBefore) /\ m + 1 \in 1 .. Len(DaysBefore) /\ m < m + 1
    BY <1>7, CalendarFacts DEF Months
  <2>2. Len(DaysBefore) \in 1 .. Len(DaysBefore) /\ m + 1 <= Len(DaysBefore)
    BY <2>1, CalendarFacts
  <2>3. m + 1 = Len(DaysBefore) \/ m + 1 < Len(DaysBefore)
    BY <2>1, <2>2
  <2>4. DaysBefore[m + 1] <= DaysBefore[Len(DaysBefore)]
    <3>1. CASE m + 1 = Len(DaysBefore)
      BY <2>1, <3>1, CalendarFacts
    <3>2. CASE m + 1 < Len(DaysBefore)
      <4>1. DaysBefore[m + 1] < DaysBefore[Len(DaysBefore)]
        BY <2>1, <2>2, <3>2, CalendarFacts
      <4> QED
        BY <2>1, <2>2, <4>1, CalendarFacts
    <3> QED
      BY <2>3, <3>1, <3>2
  <2> QED
    BY <2>1, <2>4, CalendarFacts DEF DaysPerYear
<1>9. PICK p \in Int : p = z + DaysBefore[m]
  BY <1>8
<1>10. PICK q \in Int : q = z + DaysBefore[m + 1]
  BY <1>8
<1>11. p <= d /\ d + 1 <= q /\ p + 1 <= q
  <2>1. PICK bm \in Nat : bm = DaysBefore[m]
    BY <1>8
  <2>2. PICK bn \in Nat : bn = DaysBefore[m + 1]
    BY <1>8
  <2>3. bm <= i /\ i < bn /\ bm < bn /\ p = z + bm /\ q = z + bn
    BY <1>7, <1>8, <1>9, <1>10, <2>1, <2>2
  <2> QED
    BY <1>6, <2>3
<1>12. /\ p * MinutesPerDay \in Int /\ q * MinutesPerDay \in Int
       /\ (p * MinutesPerDay) % MinutesPerHour = 0
       /\ (q * MinutesPerDay) % MinutesPerHour = 0
  BY WholeHours
<1>13. p * MinutesPerDay <= l /\ l < q * MinutesPerDay
  <2>1. p * MinutesPerDay <= d * MinutesPerDay
    BY <1>0, <1>11, Times
  <2>2. (d + 1) * MinutesPerDay <= q * MinutesPerDay
    BY <1>0, <1>11, Times
  <2>3. d * MinutesPerDay <= l /\ l < (d + 1) * MinutesPerDay
    BY <1>0, <1>2, AtMost
  <2>4. d * MinutesPerDay \in Int /\ (d + 1) * MinutesPerDay \in Int
    BY <1>0
  <2> QED
    BY <1>12, <2>1, <2>2, <2>3, <2>4
<1>14. p * MinutesPerDay + MinutesPerHour <= q * MinutesPerDay
  <2>1. (p + 1) * MinutesPerDay <= q * MinutesPerDay
    BY <1>0, <1>11, Times
  <2>2. 1 * MinutesPerHour <= HoursPerDay * MinutesPerHour
    BY <1>0, Times
  <2>3. MinutesPerHour <= MinutesPerDay
    BY <1>0, <2>2 DEF MinutesPerDay
  <2>4. (p + 1) * MinutesPerDay = p * MinutesPerDay + MinutesPerDay
    BY <1>0
  <2> QED
    BY <1>0, <1>12, <2>1, <2>3, <2>4
<1>15. ASSUME NEW v \in Int, p * MinutesPerDay <= Local(v), Local(v) < q * MinutesPerDay
       PROVE  Clock(v).month = Clock(u).month
  <2>1. PICK k \in Int : k = Local(v)
    BY ZoneTyped
  <2>2. PICK e \in Int : e = k \div MinutesPerDay
    BY <1>0, Divided
  <2>3. p <= e /\ e < q
    BY <1>0, <1>15, <2>1, <2>2, AtMost
  <2>4. z <= e /\ e < z + DaysPerYear
    <3>1. z <= p
      BY <1>8, <1>9
    <3>2. q <= z + DaysPerYear
      BY <1>0, <1>8, <1>10
    <3> QED
      BY <1>0, <2>3, <3>1, <3>2
  <2>5. e \div DaysPerYear = y /\ e % DaysPerYear = e - z
    <3>1. y * DaysPerYear <= e /\ e < y * DaysPerYear + DaysPerYear
      BY <1>5, <2>4
    <3> QED
      BY <1>0, <1>5, <3>1, DivIs
  <2>6. PICK n \in Months :
          /\ DaysBefore[n] <= e % DaysPerYear /\ e % DaysPerYear < DaysBefore[n + 1]
          /\ Clock(v).month = n
    BY <2>1, <2>2, ClockReads
  <2>7. e - z \in Int /\ DaysBefore[m] <= e - z /\ e - z < DaysBefore[m + 1]
    <3>1. PICK bm \in Nat : bm = DaysBefore[m]
      BY <1>8
    <3>2. PICK bn \in Nat : bn = DaysBefore[m + 1]
      BY <1>8
    <3>3. p = z + bm /\ q = z + bn
      BY <1>9, <1>10, <3>1, <3>2
    <3>4. bm <= e - z /\ e - z < bn
      BY <2>3, <3>3
    <3> QED
      BY <3>1, <3>2, <3>4
  <2>8. n = m
    BY <2>5, <2>6, <2>7, OnlyMonth
  <2> QED
    BY <1>7, <2>6, <2>8
<1>16. NextMonth(Clock(u)) = Instant(q * MinutesPerDay)
  <2>1. q = y * DaysPerYear + DaysBefore[m + 1] + 1 - 1
    BY <1>5, <1>8, <1>10
  <2>2. q * MinutesPerDay = q * MinutesPerDay + 0 * MinutesPerHour + 0
    BY <1>0, <1>12
  <2>3. Date(y, m + 1, 1, 0, 0) = Instant(q * MinutesPerDay)
    BY <1>8, <1>12, <2>1, <2>2, DateIs
  <2> QED
    BY <1>7, <2>3 DEF NextMonth
<1> QED
  BY <1>1, <1>12, <1>13, <1>14, <1>15, <1>16

(* A jump leaves out no minute that matches: neither where it moves forward *)
(* nor where it falls back.                                                 *)
LEMMA JumpsTo ==
  ASSUME Jump
  PROVE  \/ t' = NextMonth(Clock(t)) /\ Clock(t).month \notin schedule.months
         \/ t' = NextDay(Clock(t)) /\ ~DayMatches(Clock(t))
         \/ t' = NextHour(Clock(t)) /\ Clock(t).hour \notin schedule.hours
         \/ t' = t + 1 /\ ~Matches(t)
BY DEF Jump

LEMMA JumpLands ==
  ASSUME Jump, zone \in Zones, t \in Int
  PROVE  t' \in Int
<1>1. CASE t' = NextMonth(Clock(t))
  BY <1>1, MonthAhead, ZoneTyped
<1>2. CASE t' = NextDay(Clock(t))
  BY <1>2, DayAhead, ZoneTyped
<1>3. CASE t' = NextHour(Clock(t))
  BY <1>3, HourAhead, ZoneTyped
<1> QED
  BY <1>1, <1>2, <1>3, JumpsTo

LEMMA JumpsOverNothing ==
  ASSUME Jump, zone \in Zones, KindZone(zone), t \in Int, NEW v \in Int,
         (t <= v /\ v < t') \/ (t' <= v /\ v <= t)
  PROVE  ~Matches(v)
<1>1. CASE t' = NextMonth(Clock(t)) /\ Clock(t).month \notin schedule.months
  <2>1. PICK P, L \in Int :
          /\ P + MinutesPerHour <= L
          /\ P % MinutesPerHour = 0 /\ L % MinutesPerHour = 0
          /\ P <= Local(t) /\ Local(t) < L
          /\ NextMonth(Clock(t)) = Instant(L)
          /\ \A u \in Int : P <= Local(u) /\ Local(u) < L =>
               Clock(u).month = Clock(t).month
    BY MonthAhead
  <2>2. P <= Local(v) /\ Local(v) < L
    BY <1>1, <2>1, SamePeriod
  <2> QED
    BY <1>1, <2>1, <2>2 DEF Matches
<1>2. CASE t' = NextDay(Clock(t)) /\ ~DayMatches(Clock(t))
  <2>1. PICK P, L \in Int :
          /\ P + MinutesPerHour <= L
          /\ P % MinutesPerHour = 0 /\ L % MinutesPerHour = 0
          /\ P <= Local(t) /\ Local(t) < L
          /\ NextDay(Clock(t)) = Instant(L)
          /\ \A u \in Int : P <= Local(u) /\ Local(u) < L =>
               /\ Clock(u).month = Clock(t).month
               /\ Clock(u).day = Clock(t).day
               /\ Clock(u).weekday = Clock(t).weekday
    BY DayAhead
  <2>2. P <= Local(v) /\ Local(v) < L
    BY <1>2, <2>1, SamePeriod
  <2> QED
    BY <1>2, <2>1, <2>2 DEF Matches, DayMatches
<1>3. CASE t' = NextHour(Clock(t)) /\ Clock(t).hour \notin schedule.hours
  <2>1. PICK P, L \in Int :
          /\ P + MinutesPerHour <= L
          /\ P % MinutesPerHour = 0 /\ L % MinutesPerHour = 0
          /\ P <= Local(t) /\ Local(t) < L
          /\ NextHour(Clock(t)) = Instant(L)
          /\ \A u \in Int : P <= Local(u) /\ Local(u) < L =>
               /\ Clock(u).month = Clock(t).month
               /\ Clock(u).day = Clock(t).day
               /\ Clock(u).weekday = Clock(t).weekday
               /\ Clock(u).hour = Clock(t).hour
    BY HourAhead
  <2>2. P <= Local(v) /\ Local(v) < L
    BY <1>3, <2>1, SamePeriod
  <2> QED
    BY <1>3, <2>1, <2>2 DEF Matches
<1>4. CASE t' = t + 1 /\ ~Matches(t)
  <2>1. v = t
    BY <1>4
  <2> QED
    BY <1>4, <2>1
<1> QED
  BY <1>1, <1>2, <1>3, <1>4, JumpsTo

-----------------------------------------------------------------------------
(* What was parsed is what was written.                                     *)
LEMMA ValuesAsked ==
  ASSUME NEW items \in SUBSET Items, NEW v \in Int
  PROVE  v \in Values(items) <=> Asks(items, v)
BY DEF Values, Asks, Items

LEMMA ValuesWithin ==
  ASSUME NEW items \in SUBSET Items, NEW min \in Int, NEW max \in Int,
         InBounds(items, min, max)
  PROVE  Values(items) \subseteq min .. max
BY DEF Values, InBounds, Items

LEMMA SpecTyped ==
  ASSUME spec \in Specs
  PROVE  {spec.minutes, spec.hours, spec.doms, spec.months, spec.dows}
           \subseteq SUBSET Items
BY CalendarAssumption DEF CalendarAssumption

LEMMA ClockTyped ==
  ASSUME zone \in Zones, NEW u \in Int
  PROVE  /\ Clock(u).month \in Int /\ Clock(u).day \in Int
         /\ Clock(u).hour \in Int /\ Clock(u).minute \in Int
         /\ Clock(u).weekday \in 0 .. DaysPerWeek - 1
<1>1. PICK l \in Int : l = Local(u)
  BY ZoneTyped
<1>2. PICK d \in Int : d = l \div MinutesPerDay
  BY Divided, CalendarFacts
<1>3. PICK m \in Months :
        Clock(u) = [year |-> d \div DaysPerYear, month |-> m,
                    day |-> (d % DaysPerYear) - DaysBefore[m] + 1,
                    weekday |-> d % DaysPerWeek,
                    hour |-> (l \div MinutesPerHour) % HoursPerDay,
                    minute |-> l % MinutesPerHour]
  BY <1>1, <1>2, ClockReads
<1>4. d % DaysPerYear \in Int
  BY Divided, CalendarFacts
<1>5. d % DaysPerWeek \in 0 .. DaysPerWeek - 1
  BY Divided, CalendarFacts
<1>6. l \div MinutesPerHour \in Int /\ l % MinutesPerHour \in Int
  BY Divided, CalendarFacts
<1>7. (l \div MinutesPerHour) % HoursPerDay \in Int
  BY <1>6, Divided, CalendarFacts
<1>8. m \in Int /\ m \in 1 .. Len(DaysBefore)
  BY CalendarFacts DEF Months
<1>9. DaysBefore[m] \in Int
  BY <1>8, CalendarFacts
<1> QED
  BY <1>3, <1>4, <1>5, <1>6, <1>7, <1>8, <1>9

LEMMA MatchesWhatIsWanted ==
  ASSUME zone \in Zones, spec \in Specs, schedule = Parsed(spec), NEW u \in Int
  PROVE  Matches(u) <=> Wanted(u)
<1>1. /\ Clock(u).month \in Int /\ Clock(u).day \in Int
      /\ Clock(u).hour \in Int /\ Clock(u).minute \in Int
      /\ Clock(u).weekday \in 0 .. DaysPerWeek - 1
      /\ DaysPerWeek \in Nat \ {0}
  BY ClockTyped, CalendarFacts
<1>2. /\ spec.minutes \in SUBSET Items /\ spec.hours \in SUBSET Items
      /\ spec.doms \in SUBSET Items /\ spec.months \in SUBSET Items
      /\ spec.dows \in SUBSET Items
  BY SpecTyped
<1>3. /\ schedule.minutes = Values(spec.minutes) /\ schedule.hours = Values(spec.hours)
      /\ schedule.doms = Values(spec.doms) /\ schedule.months = Values(spec.months)
      /\ schedule.dows = Weekdays(Values(spec.dows))
  BY DEF Parsed
<1>4. /\ Clock(u).month \in schedule.months <=> Asks(spec.months, Clock(u).month)
      /\ Clock(u).day \in schedule.doms <=> Asks(spec.doms, Clock(u).day)
      /\ Clock(u).hour \in schedule.hours <=> Asks(spec.hours, Clock(u).hour)
      /\ Clock(u).minute \in schedule.minutes <=> Asks(spec.minutes, Clock(u).minute)
  BY <1>1, <1>2, <1>3, ValuesAsked
<1>5. Clock(u).weekday \in schedule.dows <=>
        \/ Asks(spec.dows, Clock(u).weekday)
        \/ Clock(u).weekday = 0 /\ Asks(spec.dows, DaysPerWeek)
  <2>1. Clock(u).weekday # DaysPerWeek /\ DaysPerWeek # 0 /\ DaysPerWeek \in Int
        /\ Clock(u).weekday \in Int
    BY <1>1
  <2>2. /\ Clock(u).weekday \in Values(spec.dows) <=> Asks(spec.dows, Clock(u).weekday)
        /\ DaysPerWeek \in Values(spec.dows) <=> Asks(spec.dows, DaysPerWeek)
    BY <1>2, <2>1, ValuesAsked
  <2>3. Clock(u).weekday \in Weekdays(Values(spec.dows)) <=>
          \/ Clock(u).weekday \in Values(spec.dows)
          \/ Clock(u).weekday = 0 /\ DaysPerWeek \in Values(spec.dows)
    BY <2>1 DEF Weekdays
  <2> QED
    BY <1>3, <2>2, <2>3
<1> QED
  BY <1>4, <1>5 DEF Matches, Wanted, DayMatches

-----------------------------------------------------------------------------
(* Between the minute the search was asked to go beyond and the candidate,  *)
(* on whichever side of it, no minute is wanted.                            *)
NoneBetween ==
  \A v \in Int : (after < v /\ v < t) \/ (t <= v /\ v <= after) => ~Wanted(v)
SearchHolds ==
  /\ zone \in Zones /\ spec \in Specs /\ after \in Afters
  /\ Accepted(spec) /\ schedule = Parsed(spec)
  /\ t \in Int /\ answer \in {"none yet", "t", "zero"}
SearchInv ==
  SearchHolds /\ (KindZone(zone) => NoneBetween /\ (answer = "t" => Wanted(t)))

LEMMA SearchTyped ==
  ASSUME SearchHolds
  PROVE  ScheduleTypeOK
<1>1. /\ spec.months \in SUBSET Items /\ spec.dows \in SUBSET Items
  BY SpecTyped DEF SearchHolds
<1>2. Len(DaysBefore) - 1 \in Int /\ DaysPerWeek \in Nat \ {0}
  BY CalendarFacts
<1>3. Values(spec.months) \subseteq Months
  <2>1. InBounds(spec.months, 1, Len(DaysBefore) - 1)
    BY DEF SearchHolds, Accepted
  <2> QED
    BY <1>1, <1>2, <2>1, ValuesWithin DEF Months
<1>4. Values(spec.dows) \subseteq 0 .. DaysPerWeek
  <2>1. InBounds(spec.dows, 0, DaysPerWeek)
    BY DEF SearchHolds, Accepted
  <2> QED
    BY <1>1, <1>2, <2>1, ValuesWithin
<1>5. Weekdays(Values(spec.dows)) \subseteq 0 .. DaysPerWeek - 1
  BY <1>2, <1>4 DEF Weekdays
<1> QED
  BY <1>3, <1>5 DEF SearchHolds, ScheduleTypeOK, Parsed

LEMMA SearchStarts == ScheduleInit => SearchInv
<1> SUFFICES ASSUME ScheduleInit PROVE SearchInv
  OBVIOUS
<1>1. after \in Int
  BY CalendarFacts DEF ScheduleInit
<1>2. t = after + 1
  BY DEF ScheduleInit, FirstMinute
<1>3. SearchHolds
  <2>1. t \in Int
    BY <1>1, <1>2
  <2> QED
    BY <2>1, Zenon DEF ScheduleInit, SearchHolds
<1>4. NoneBetween
  BY <1>1, <1>2 DEF NoneBetween
<1>5. answer # "t"
  BY DEF ScheduleInit
<1> QED
  BY <1>3, <1>4, <1>5 DEF SearchInv

LEMMA SearchGoesOn == SearchInv /\ [ScheduleNext]_scheduleVars => SearchInv'
<1> SUFFICES ASSUME SearchInv, [ScheduleNext]_scheduleVars PROVE SearchInv'
  OBVIOUS
<1>1. /\ zone \in Zones /\ spec \in Specs /\ schedule = Parsed(spec) /\ t \in Int
      /\ after \in Int
  BY CalendarFacts DEF SearchInv, SearchHolds
<1>2. UNCHANGED <<zone, spec, after, schedule>>
  BY DEF ScheduleNext, Jump, Found, GiveUpSearch, scheduleVars
<1>3. \A u \in Int : Wanted(u)' <=> Wanted(u)
  BY <1>2 DEF Wanted, Clock, OffsetAt
<1>4. CASE Jump
  <2>1. t' \in Int
    BY <1>1, <1>4, JumpLands
  <2>2. SearchHolds'
    BY <1>2, <1>4, <2>1, Zenon DEF SearchInv, SearchHolds, Jump
  <2>3. KindZone(zone) => NoneBetween'
    <3> SUFFICES ASSUME KindZone(zone), NEW v \in Int,
                        (after < v /\ v < t') \/ (t' <= v /\ v <= after)
                 PROVE  ~Wanted(v)
      BY <1>2, <1>3 DEF NoneBetween
    <3>1. CASE (t <= v /\ v < t') \/ (t' <= v /\ v <= t)
      BY <1>1, <1>4, <3>1, JumpsOverNothing, MatchesWhatIsWanted
    <3>2. CASE (after < v /\ v < t) \/ (t <= v /\ v <= after)
      BY <3>2 DEF SearchInv, NoneBetween
    <3> QED
      BY <1>1, <2>1, <3>1, <3>2
  <2>4. answer' # "t"
    BY <1>4 DEF Jump, Searching
  <2> QED
    BY <1>2, <2>2, <2>3, <2>4 DEF SearchInv
<1>5. CASE Found
  <2>1. t' = t /\ answer' = "t" /\ Matches(t)
    BY <1>5 DEF Found
  <2>2. Wanted(t)
    BY <1>1, <2>1, MatchesWhatIsWanted
  <2>3. SearchHolds'
    BY <1>2, <2>1 DEF SearchInv, SearchHolds
  <2>4. NoneBetween => NoneBetween'
    BY <1>2, <1>3, <2>1 DEF NoneBetween
  <2>5. Wanted(t)'
    BY <1>2, <2>1, <2>2 DEF Wanted, Clock, OffsetAt
  <2> QED
    BY <1>2, <2>3, <2>4, <2>5 DEF SearchInv
<1>6. CASE GiveUpSearch \/ UNCHANGED scheduleVars
  <2>1. t' = t /\ (answer' = "zero" \/ answer' = answer)
    BY <1>6 DEF GiveUpSearch, scheduleVars
  <2>2. SearchHolds'
    BY <1>2, <2>1 DEF SearchInv, SearchHolds
  <2>3. NoneBetween => NoneBetween'
    BY <1>2, <1>3, <2>1 DEF NoneBetween
  <2>4. answer' = "t" => answer = "t"
    BY <2>1
  <2>5. Wanted(t)' <=> Wanted(t)
    BY <1>2, <2>1 DEF Wanted, Clock, OffsetAt
  <2> QED
    BY <1>2, <2>2, <2>3, <2>4, <2>5 DEF SearchInv
<1> QED
  BY <1>4, <1>5, <1>6 DEF ScheduleNext

LEMMA NothingIsSkipped == SearchInv /\ KindZone(zone) => NothingSkipped
<1> SUFFICES ASSUME SearchInv, KindZone(zone) PROVE NothingSkipped
  OBVIOUS
<1>1. after \in Int /\ t \in Int
  BY CalendarFacts DEF SearchInv, SearchHolds
<1>2. \A u \in after + 1 .. t - 1 : ~Wanted(u)
  BY <1>1 DEF SearchInv, NoneBetween
<1>3. answer = "t" => Wanted(t) /\ t > after
  BY <1>1 DEF SearchInv, NoneBetween
<1> QED
  BY <1>2, <1>3 DEF NothingSkipped

(* scheduler.go:245-288: in kind zones, what the search finds is the first   *)
(* minute after the one it was given that the schedule asks for, whatever   *)
(* the calendar, the schedule and the horizon.                              *)
THEOREM NextIsTheNext ==
  (\A z \in Zones : KindZone(z)) => (ScheduleSpec => []NothingSkipped)
<1> SUFFICES ASSUME \A z \in Zones : KindZone(z)
             PROVE  ScheduleSpec => []NothingSkipped
  OBVIOUS
<1>1. SearchInv => NothingSkipped
  BY NothingIsSkipped DEF SearchInv, SearchHolds
<1> QED
  BY SearchStarts, SearchGoesOn, <1>1, PTL DEF ScheduleSpec

(* The same in the specification of the run, whose zones are kind.           *)
THEOREM NextSkipsNothing == StoresSpec => []SearchSkipsNothing
<1> DEFINE I == part = "search" => SearchInv
<1>1. StoresInit => I
  BY SearchStarts DEF StoresInit
<1>2. I /\ [StoresNext]_storesVars => I'
  BY SearchGoesOn DEF StoresNext, TheRestStays, storesVars
<1>3. I => SearchSkipsNothing
  BY ZonesAreKind, NothingIsSkipped DEF SearchSkipsNothing, SearchInv, SearchHolds
<1> HIDE DEF I
<1> QED
  BY <1>1, <1>2, <1>3, PTL DEF StoresSpec

-----------------------------------------------------------------------------
(* What each component's variables hold, in the specification of the run:   *)
(* each has its invariant, the conversations' is that of their own module.  *)
THEOREM StoresKeepTypes == StoresSpec => []StoresTypeOK
<1> DEFINE OfFiles == PoolInv /\ PolicyInv /\ BackupInv /\ BackupTypeOK
           OfCommands == ApiInv /\ ProfilesInv /\ PluginInv /\ UpdaterInv
           OfTheRest == SkillInv /\ BookInv /\ (part = "search" => SearchInv)
           Parts == {"pool", "policy", "backup", "api", "profiles", "plugins",
                     "update", "skills", "book", "search"}
           I == OfFiles /\ OfCommands /\ OfTheRest /\ part \in Parts
<1>1. StoresInit => I
  <2>1. StoresInit => OfFiles
    BY InitReached, PolicyStarts, BackupStarts, BackupTypesStart DEF StoresInit
  <2>2. StoresInit => OfCommands
    BY ApiStarts, ProfilesStart, PluginsStart, UpdaterStarts DEF StoresInit
  <2>3. StoresInit => OfTheRest /\ part \in Parts
    BY SkillsStart, BookStarts, SearchStarts DEF StoresInit
  <2> QED
    BY <2>1, <2>2, <2>3
<1>2. ASSUME I, [StoresNext]_storesVars PROVE I'
  <2>1. /\ [PoolNext]_poolVars /\ [PolicyNext]_policyVars /\ [BackupNext]_backupVars
        /\ [ApiNext]_apiVars /\ [ProfilesNext]_profileVars /\ [PluginNext]_pluginVars
        /\ [UpdaterNext]_updVars /\ [SkillNext]_skillVars /\ [BookNext]_bookVars
        /\ part = "search" => [ScheduleNext]_scheduleVars
        /\ part' = part
    BY <1>2 DEF StoresNext, TheRestStays, storesVars
  <2>2. OfFiles'
    BY <1>2, <2>1, TypeKept, ViewKept, ReachKept, PolicyInvKept, BackupGoesOn,
       BackupTypesStay DEF PoolInv
  <2>3. OfCommands'
    BY <1>2, <2>1, ApiGoesOn, ProfilesGoOn, PluginsGoOn, UpdaterInvKept
  <2>4. OfTheRest' /\ part' \in Parts
    BY <1>2, <2>1, SkillsGoOn, BookGoesOn, SearchGoesOn
  <2> QED
    BY <2>2, <2>3, <2>4
<1>3. I => StoresTypeOK
  <2>1. I => /\ PoolTypeOK /\ PolicyTypeOK /\ BackupTypeOK /\ ApiTypeOK
             /\ ProfilesTypeOK /\ PluginTypeOK /\ UpdaterTypeOK /\ SkillTypeOK
             /\ BookTypeOK /\ (part = "search" => ScheduleTypeOK) /\ part \in Parts
    BY SearchTyped DEF PoolInv, PolicyInv, ApiInv, ProfilesInv, PluginInv, UpdaterInv,
                       SkillInv, BookInv, SearchInv
  <2> HIDE DEF I
  <2> QED
    BY <2>1 DEF StoresTypeOK
<1> HIDE DEF I
<1> QED
  BY <1>1, <1>2, <1>3, PTL DEF StoresSpec

(* The parts keep beside each other what each keeps for itself, as the run  *)
(* has them: a free key is found, the policy, a profile, conversations,     *)
(* plugins, skills, sessions and the executable are kept whatever process   *)
(* wrote last.                                                              *)
THEOREM StoresHold ==
  StoresSpec =>
    [](/\ GoodKeyIsFound /\ PolicyKept /\ ProfileSurvives /\ ApiKeepsItsWord
       /\ ProfilesHold /\ ExtensionsKept /\ UpdateKept /\ SearchSkipsNothing)
    /\ BookHolds
<1>1. StoresInit => /\ PoolInit /\ PolicyInit /\ BackupInit /\ ApiInit
                    /\ ProfilesInit /\ UpdaterInit /\ BookInit
  BY DEF StoresInit
<1>2. [StoresNext]_storesVars =>
        /\ [PoolNext]_poolVars /\ [PolicyNext]_policyVars /\ [BackupNext]_backupVars
        /\ [ApiNext]_apiVars /\ [ProfilesNext]_profileVars
        /\ [UpdaterNext]_updVars /\ [BookNext]_bookVars
  BY DEF StoresNext, TheRestStays, storesVars
<1>3. StoresSpec => /\ PoolSpec /\ PolicySpec /\ BackupSpec /\ ApiSpec
                    /\ ProfilesSpec /\ UpdaterSpec /\ BookSpec
  BY <1>1, <1>2, PTL
     DEF StoresSpec, PoolSpec, PolicySpec, BackupSpec, ApiSpec, ProfilesSpec,
         UpdaterSpec, BookSpec
<1> QED
  BY <1>3, NoCallRefusedWhileAKeyIsFree, PolicyStaysKept, BackupsAreSafe,
     AnswersAreKept, ProfilesStayInOrder, ExtensionsStayKept,
     UpdatesKeepTheExecutable, BooksAreKept, NextSkipsNothing, PTL
=============================================================================
