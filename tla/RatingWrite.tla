----------------------------- MODULE RatingWrite -----------------------------
(***************************************************************************)
(* write_rating: the guarded transaction that puts a rating into the photo *)
(* it was read from.  The accepted photo is the object "old", retained by  *)
(* a handle since it was decoded; the rewritten copy is the object "new".  *)
(*                                                                         *)
(* Each action is one group of calls between which another program may     *)
(* act.  The Unix build links the original to a private name, renames the  *)
(* copy over it and verifies; the Windows build asks ReplaceFileW to do    *)
(* both, and has a restore of its own.  What the bytes mean is abstracted  *)
(* to whether they are still the ones that were accepted.                  *)
(***************************************************************************)
EXTENDS FileStore, FiniteSets

Rating == operation = "rate"

(* ImageSource::matches_path: the same object with the accepted bytes.       *)
SourceIsAtTarget == names["target"] = "old" /\ content["old"] = "whole"

(* accepted_matches_snapshot, by the retained handle.                        *)
SnapshotIsCurrent == content["old"] = held.snapshot

(* same_object_at_path(&backup): identity alone, not the version.            *)
BackupIsSource == names["backup"] = "old"

RatingKeeps == UNCHANGED <<held, others>>

-----------------------------------------------------------------------------
(* Preparation: everything up to here is undone by dropping two temporaries. *)

(* Unix refuses a photo with a second link: a rename would change one name.  *)
AcceptSource ==
    /\ Rating /\ at = "accept"
    /\ \/ /\ SourceIsAtTarget
          /\ platform = "unix" => ~Links("target")
          /\ Go("snapshot")
       \/ /\ \/ ~SourceIsAtTarget
             \/ platform = "unix" /\ Links("target")
          /\ Return("SourceChanged")
       \/ Return("Refused")
    /\ UNCHANGED <<disk, seen>> /\ RatingKeeps

(* copy_accepted_source into the pristine file, and rewrite_header: a photo  *)
(* whose metadata the writer does not know is refused here.                  *)
TakeSnapshot ==
    /\ Rating /\ at = "snapshot"
    /\ \/ held' = [held EXCEPT !.snapshot = content["old"]] /\ Go("stage")
       \/ Return("Refused") /\ UNCHANGED held
    /\ UNCHANGED <<disk, seen, others>>

StageCopy ==
    /\ Rating /\ at = "stage"
    /\ \/ Go("write") /\ names' = Bound("work", "new")
       \/ Return("Refused") /\ UNCHANGED names
    /\ UNCHANGED <<content, phase, seen>> /\ RatingKeeps

(* Header, tail, sync_all, and verify_candidate of the staged copy.          *)
WriteCopy ==
    /\ Rating /\ at = "write"
    /\ \/ /\ Go("recheck")
          /\ content' = Written("new", "whole")
          /\ UNCHANGED <<names, phase>>
       \/ ReturnAndDropWork("Refused")
    /\ UNCHANGED seen /\ RatingKeeps

(* Wrong on purpose: the check before the replacement is left out.           *)
RecheckNothing ==
    /\ Rating /\ at = "recheck"
    /\ Go(IF platform = "unix" THEN "link" ELSE "replace")
    /\ UNCHANGED <<disk, seen>> /\ RatingKeeps

(* The last look at the photo before it is replaced.                         *)
RecheckSource ==
    /\ Rating /\ at = "recheck"
    /\ \/ /\ SourceIsAtTarget /\ SnapshotIsCurrent
          /\ Go(IF platform = "unix" THEN "link" ELSE "replace")
          /\ seen' = TRUE
          /\ UNCHANGED disk
       \/ /\ ~(SourceIsAtTarget /\ SnapshotIsCurrent)
          /\ ReturnAndDropWork("SourceChanged")
          /\ UNCHANGED seen
       \/ ReturnAndDropWork("Refused") /\ UNCHANGED seen
    /\ RatingKeeps

-----------------------------------------------------------------------------
(* write_rating_unix.                                                        *)

(* std::fs::remove_file(&backup) whose result is ignored.                    *)
ReturnAndDropBackup(v) ==
    /\ Return(v)
    /\ \E removed \in BOOLEAN :
         names' = IF removed THEN [names EXCEPT !["work"] = NoObject, !["backup"] = NoObject]
                             ELSE Unlinked("work")
    /\ UNCHANGED <<content, phase>>

(* unix_backup_path: a hard link of whatever the target holds now.           *)
LinkBackup ==
    /\ Rating /\ at = "link"
    /\ \/ /\ names["target"] # NoObject
          /\ Go("checkBackup")
          /\ names' = Bound("backup", names["target"])
          /\ UNCHANGED <<content, phase>>
       \/ ReturnAndDropWork("Refused")
    /\ UNCHANGED seen /\ RatingKeeps

UnixCheckBackup ==
    /\ Rating /\ platform = "unix" /\ at = "checkBackup"
    /\ \/ /\ BackupIsSource /\ SnapshotIsCurrent
          /\ Go("install")
          /\ UNCHANGED disk
       \/ ReturnAndDropBackup("SourceChanged")
    /\ UNCHANGED seen /\ RatingKeeps

(* work.persist(path): a rename over whatever the target holds now.          *)
UnixInstall ==
    /\ Rating /\ platform = "unix" /\ at = "install"
    /\ \/ /\ Go("open")
          /\ names' = Renamed("work", "target")
          /\ phase' = "installed"
          /\ UNCHANGED content
       \/ ReturnAndDropBackup("Refused")
    /\ UNCHANGED seen /\ RatingKeeps

(* rollback_unix_rating: it asks neither what the target holds nor what the  *)
(* backup does.                                                              *)
UnixRollback ==
    /\ Rating /\ platform = "unix" /\ at = "rollback"
    /\ \/ /\ names["backup"] # NoObject
          /\ Return("VerificationRestored")
          /\ names' = Renamed("backup", "target")
          /\ phase' = "restored"
          /\ UNCHANGED content
       \/ Return("RecoveryFailed") /\ UNCHANGED disk
    /\ UNCHANGED seen /\ RatingKeeps

-----------------------------------------------------------------------------
(* write_rating_windows.                                                     *)

(* ReplaceFileW.  It fails having done nothing, or having set the original   *)
(* aside without installing the copy.                                        *)
WindowsReplace ==
    /\ Rating /\ at = "replace"
    /\ \/ /\ names["target"] # NoObject
          /\ Go("checkBackup")
          /\ names' = [names EXCEPT !["backup"] = names["target"],
                                    !["target"] = names["work"],
                                    !["work"]   = NoObject]
          /\ phase' = "installed"
       \/ /\ names["target"] # NoObject
          /\ Go("reconcile")
          /\ names' = Renamed("target", "backup")
          /\ phase' = "apart"
       \/ Go("reconcile") /\ UNCHANGED <<names, phase>>
    /\ UNCHANGED <<content, seen>> /\ RatingKeeps

(* After a failure that proved the original, the staged copy is dropped;     *)
(* after one that did not it is kept for the user.                           *)
Reconciled(v) == Return(v) /\ names' = WorkDropped

(* Wrong on purpose: a call that failed is taken to have done nothing.       *)
TrustTheFailure ==
    /\ Rating /\ at = "reconcile"
    /\ Reconciled("Refused")
    /\ UNCHANGED <<content, phase, seen>> /\ RatingKeeps

(* reconcile_failed_replace.                                                 *)
Reconcile ==
    /\ Rating /\ at = "reconcile"
    /\ \/ /\ names["target"] = "old"
          /\ Reconciled(IF SnapshotIsCurrent THEN "Refused" ELSE "SourceChanged")
       \/ names["target"] = "old" /\ Return("RecoveryFailed") /\ UNCHANGED names
       \/ names["target"] # "old" /\ Go("restore") /\ UNCHANGED names
    /\ UNCHANGED <<content, phase, seen>> /\ RatingKeeps

WindowsCheckBackup ==
    /\ Rating /\ platform = "windows" /\ at = "checkBackup"
    /\ \/ BackupIsSource /\ SnapshotIsCurrent /\ Go("open")
       \/ Go("restore")
    /\ UNCHANGED <<disk, seen>> /\ RatingKeeps

(* candidate_binding_error, after the original is gone.                      *)
WindowsBind ==
    /\ Rating /\ at = "bind"
    /\ \/ /\ names["target"] = held.opened /\ content[held.opened] = "whole"
          /\ Return("Ok")
       \/ /\ ~(names["target"] = held.opened /\ content[held.opened] = "whole")
          /\ Return("SourceChanged")
       \/ Return("RecoveryFailed")
    /\ seen' = TRUE
    /\ UNCHANGED disk /\ RatingKeeps

-----------------------------------------------------------------------------
(* Both builds: look at what is installed, and only then let the original    *)
(* go.  A failure rolls back, each build in its own way.                     *)

Undo == IF platform = "unix" THEN "rollback" ELSE "restore"

(* ImageSource::open(path).                                                  *)
OpenInstalled ==
    /\ Rating /\ at = "open"
    /\ \/ /\ names["target"] # NoObject
          /\ held' = [held EXCEPT !.opened = names["target"]]
          /\ Go("verify")
       \/ UNCHANGED held /\ Go(Undo)
    /\ UNCHANGED <<disk, seen, others>>

(* verify_candidate of what was opened, its binding to the path, and the     *)
(* original's binding to the backup.                                         *)
InstalledIsVerified ==
    /\ held.opened = "new"
    /\ content["new"] = "whole"
    /\ names["target"] = held.opened
    /\ BackupIsSource
    /\ SnapshotIsCurrent

VerifyInstalled ==
    /\ Rating /\ at = "verify"
    /\ \/ InstalledIsVerified /\ Go("cleanup")
       \/ Go(Undo)
    /\ seen' = TRUE
    /\ UNCHANGED disk /\ RatingKeeps

(* std::fs::remove_file(&backup): the commit.  Windows still checks the      *)
(* candidate's binding once more.                                            *)
RemoveBackup ==
    /\ Rating /\ at = "cleanup"
    /\ \/ /\ names' = Unlinked("backup")
          /\ IF platform = "unix" THEN Return("Ok") ELSE Go("bind")
       \/ Go(Undo) /\ UNCHANGED names
    /\ UNCHANGED <<content, phase, seen>> /\ RatingKeeps

-----------------------------------------------------------------------------
(* restore_retained_source.                                                  *)

Restoring(call) == Rating /\ at = call

(* Not proven: the backup and the staged copy stay where they are.           *)
GiveUp == Return("RecoveryFailed")

(* It moves aside only the object it opened itself.                          *)
MayRestore ==
    /\ BackupIsSource
    /\ names["target"] \in {NoObject, held.opened}

(* Wrong on purpose: whatever is at the target may be moved aside.           *)
RestoreOverAnything ==
    /\ Restoring("restore")
    /\ \/ BackupIsSource /\ Go("moveBack")
       \/ GiveUp
    /\ seen' = TRUE
    /\ UNCHANGED disk /\ RatingKeeps

CheckRestore ==
    /\ Restoring("restore")
    /\ \/ /\ MayRestore
          /\ Go(IF names["target"] = NoObject THEN "moveBack" ELSE "displace")
       \/ GiveUp
    /\ seen' = TRUE
    /\ UNCHANGED disk /\ RatingKeeps

Displace ==
    /\ Restoring("displace")
    /\ \/ /\ names["target"] # NoObject
          /\ Go("checkDisplaced")
          /\ names' = Renamed("target", "displaced")
          /\ phase' = "apart"
       \/ GiveUp /\ UNCHANGED <<names, phase>>
    /\ UNCHANGED <<content, seen>> /\ RatingKeeps

(* Putting it back is tried, and its result ignored.                         *)
PutBack ==
    \/ names["displaced"] # NoObject /\ names' = Renamed("displaced", "target")
    \/ UNCHANGED names

CheckDisplaced ==
    /\ Restoring("checkDisplaced")
    /\ \/ names["displaced"] = held.opened /\ Go("moveBack") /\ UNCHANGED names
       \/ names["displaced"] # held.opened /\ GiveUp /\ PutBack
    /\ UNCHANGED <<content, phase, seen>> /\ RatingKeeps

MoveBack ==
    /\ Restoring("moveBack")
    /\ \/ /\ names["backup"] # NoObject
          /\ names' = Renamed("backup", "target")
          /\ phase' = "restored"
          /\ Go(IF names["displaced"] = NoObject THEN "confirm" ELSE "dropDisplaced")
       \/ GiveUp /\ PutBack /\ UNCHANGED phase
    /\ UNCHANGED <<content, seen>> /\ RatingKeeps

DropDisplaced ==
    /\ Restoring("dropDisplaced")
    /\ \/ names' = Unlinked("displaced") /\ Go("confirm")
       \/ GiveUp /\ UNCHANGED names
    /\ UNCHANGED <<content, phase, seen>> /\ RatingKeeps

(* RestoredExact, RestoredChanged, or neither.                               *)
ConfirmRestored ==
    /\ Restoring("confirm")
    /\ \/ /\ names["target"] = "old"
          /\ Reconciled(IF SnapshotIsCurrent THEN "VerificationRestored" ELSE "SourceChanged")
       \/ GiveUp /\ UNCHANGED names
    /\ UNCHANGED <<content, phase, seen>> /\ RatingKeeps

-----------------------------------------------------------------------------
RatingStep ==
    \/ AcceptSource
    \/ TakeSnapshot
    \/ StageCopy
    \/ WriteCopy
    \/ RecheckSource
    \/ LinkBackup
    \/ UnixCheckBackup
    \/ UnixInstall
    \/ UnixRollback
    \/ WindowsReplace
    \/ Reconcile
    \/ WindowsCheckBackup
    \/ OpenInstalled
    \/ VerifyInstalled
    \/ RemoveBackup
    \/ WindowsBind
    \/ CheckRestore
    \/ Displace
    \/ CheckDisplaced
    \/ MoveBack
    \/ DropDisplaced
    \/ ConfirmRestored
=============================================================================
