------------------------ MODULE FileTransactionsProofs ------------------------
(***************************************************************************)
(* What a guarded replacement promises, however often other programs act.  *)
(*                                                                         *)
(* None of the properties is inductive: what a call may do depends on what *)
(* the calls before it have left under the private names.  TransactionInv  *)
(* says, for each call the transaction may be about to make, what it has   *)
(* done to the target, what the private names hold, and what is true if    *)
(* nobody touched the target since it was last looked at.                  *)
(***************************************************************************)
EXTENDS FileTransactions, TLAPS

Staging     == {"write", "recheck", "encode", "check", "commit"}
SaveOnly    == {"capture", "consent", "aliases", "metadata", "read", "recheckSource",
                "encode", "check", "commit"}
Unstaged    == {"accept", "snapshot", "stage", "capture", "consent", "aliases", "metadata",
                "read", "recheckSource"}
UnixOnly    == {"link", "install", "rollback"}
Restoration == {"restore", "displace", "checkDisplaced", "moveBack", "dropDisplaced", "confirm"}
WindowsOnly == {"replace", "reconcile", "bind"} \cup Restoration
BothBuilds  == {"checkBackup", "open", "verify", "cleanup"}
RateOnly    == {"accept", "snapshot", "write", "recheck"} \cup BothBuilds
                 \cup UnixOnly \cup WindowsOnly
Calls       == {"stage", "returned"} \cup SaveOnly \cup RateOnly

TypeOK ==
    /\ names \in [Names -> Objects \cup {NoObject}]
    /\ content \in [Objects -> Bytes]
    /\ operation \in {"rate", "save"}
    /\ platform \in {"unix", "windows"}
    /\ at \in Calls
    /\ phase \in Phases
    /\ verdict \in Verdicts
    /\ held \in [snapshot : Bytes, opened : Objects \cup {NoObject},
                 captured : Objects \cup {NoObject}, capturedBytes : Bytes]
    /\ parentHeld \in BOOLEAN
    /\ seen \in BOOLEAN
    /\ taken \subseteq Objects
    /\ meddling \in Nat

(* Which transaction, and which build of it, makes the call; it has returned *)
(* when it has a verdict.                                                    *)
CallInv ==
    /\ at = "returned" <=> verdict # "running"
    /\ Rating => at \notin SaveOnly /\ parentHeld
    /\ Saving => at \notin RateOnly
    /\ at \in UnixOnly => platform = "unix"
    /\ at \in WindowsOnly => platform = "windows"

(* What has been done to the target before each call.                        *)
PhaseInv ==
    /\ at \in Unstaged \cup Staging \cup {"link", "install", "replace"} => phase = "untouched"
    /\ at = "checkBackup" => phase = IF platform = "unix" THEN "untouched" ELSE "installed"
    /\ at = "reconcile" => phase \in {"untouched", "apart"}
    /\ at \in {"open", "verify", "cleanup", "bind", "rollback", "displace"} =>
         phase = "installed"
    /\ at = "restore" => phase \in {"untouched", "installed", "apart"}
    /\ at = "restore" /\ held.opened # NoObject => phase = "installed"
    /\ at = "checkDisplaced" => phase = "apart"
    /\ at = "moveBack" => phase \in {"installed", "apart"}
    /\ at = "moveBack" /\ names["displaced"] # NoObject => phase = "apart"
    /\ at \in {"dropDisplaced", "confirm"} => phase = "restored"

(* What the names hold.  The accepted photo comes back to the target only by *)
(* a restore, and the private names hold what the transaction put there.     *)
NamesInv ==
    /\ names["photo"] \in {NoObject, IF Rating THEN "old" ELSE "source"}
    /\ names["work"] \in {NoObject, "new", "other"}
    /\ names["displaced"] \in {NoObject, "new", "other"}
    /\ held.opened \in {NoObject, "new", "other"}
    /\ Rating => names["target"] # "source" /\ held.captured = NoObject
    /\ Rating => names["backup"] \in {NoObject, "old", "other"}
    /\ Saving => names["backup"] = NoObject /\ names["displaced"] = NoObject
    /\ phase = "untouched" => names["target"] # "new"
    /\ Rating /\ phase \in {"installed", "apart"} => names["target"] # "old"
    /\ at \in Unstaged \cup {"open", "verify", "cleanup", "bind", "rollback", "displace"} =>
         names["work"] = NoObject
    /\ at = "checkBackup" /\ platform = "windows" => names["work"] = NoObject
    /\ at = "restore" /\ held.opened # NoObject => names["work"] = NoObject
    /\ held.opened # NoObject =>
         at \in {"verify", "cleanup", "bind", "rollback", "returned"} \cup Restoration
    /\ at \notin {"checkDisplaced", "moveBack", "dropDisplaced", "returned"} =>
         names["displaced"] = NoObject
    /\ at \in Unstaged \cup Staging
               \cup {"link", "replace", "bind", "dropDisplaced", "confirm"} =>
         names["backup"] = NoObject
    /\ at \in {"reconcile", "restore"} /\ phase = "untouched" => names["backup"] = NoObject
    /\ at \in {"install", "open", "verify", "cleanup", "rollback", "displace",
               "checkDisplaced", "moveBack"} => names["backup"] = "old"

(* What the bytes are: nothing unwritten is installed, and the copy and the  *)
(* EXIF are made from the bytes that were accepted.                          *)
BytesInv ==
    /\ content["new"] = "nothing" =>
         at \in Unstaged \cup {"write", "encode", "returned"} /\ names["target"] # "new"
    /\ \A o \in {"old", "source"} : content[o] # "nothing"
    /\ Rating /\ at \notin {"accept", "snapshot", "stage", "write", "recheck", "returned"} =>
         held.snapshot = "whole"
    /\ Saving /\ at # "recheckSource" /\ (at = "returned" => phase = "installed") =>
         held.snapshot \in {"nothing", "whole"}
    /\ at = "recheckSource" /\ content["source"] = "whole" => held.snapshot = "whole"

(* Where the accepted photo is, or the file the user agreed to replace.      *)
KeptInv ==
    /\ Rating /\ "old" \notin taken =>
         \/ phase \in {"untouched", "restored"} /\ names["target"] = "old"
         \/ phase \in {"installed", "apart"} /\ names["backup"] = "old"
         \/ Committed /\ held.snapshot = "whole" /\ (Linked("new") \/ "new" \in taken)
    /\ Rating /\ at \in {"cleanup", "bind"} => names["target"] = "new" \/ "new" \in taken
    /\ Saving /\ held.captured = "old" /\ "old" \notin taken =>
         names["target"] = "old" \/ (phase = "installed" /\ verdict = "Ok")

(* What is true if nobody touched the target since the last look.            *)
SeenInv ==
    seen =>
    /\ at \in {"link", "install", "replace"} => names["target"] = "old"
    /\ at = "checkBackup" /\ platform = "unix" => names["target"] = "old"
    /\ at \in {"checkDisplaced", "moveBack"} => names["target"] = NoObject
    /\ at = "commit" => names["target"] = held.captured

(* What a verdict says of the private names.                                 *)
CleanInv ==
    verdict \notin {"running", "crashed", "RecoveryFailed"} /\ parentHeld =>
         /\ names["work"] = NoObject
         /\ names["displaced"] = NoObject
         /\ names["backup"] # NoObject => platform = "unix" /\ phase = "untouched"

TransactionInv ==
    /\ TypeOK
    /\ CallInv
    /\ PhaseInv
    /\ NamesInv
    /\ BytesInv
    /\ KeptInv
    /\ SeenInv
    /\ CleanInv

-----------------------------------------------------------------------------
(* One step per call.                                                        *)

USE DEF TransactionInv, TypeOK, CallInv, PhaseInv, NamesInv, BytesInv, KeptInv, SeenInv,
        CleanInv, Committed, Linked, Rating, Saving, NoObject
USE DEF Names, Objects, Bytes, Phases, Verdicts
USE DEF Calls, Unstaged, Staging, SaveOnly, RateOnly, UnixOnly, WindowsOnly, BothBuilds,
        Restoration

(* Nothing is done at first, and the target holds a whole file or none.      *)
LEMMA InvInitially == Init => TransactionInv
<1> SUFFICES ASSUME Init PROVE TransactionInv
  OBVIOUS
<1>1. PICK t \in {NoObject, "old", "source"}, p \in {NoObject, "old", "source"} :
        /\ names = [n \in Names |-> CASE n = "target" -> t
                                      [] n = "photo"  -> p
                                      [] OTHER        -> NoObject]
        /\ IF Rating THEN t = "old" /\ p # "source" ELSE p = "source"
  BY DEF Init
<1>2. /\ names["target"] = t /\ names["photo"] = p
      /\ names["work"] = NoObject /\ names["backup"] = NoObject
      /\ names["displaced"] = NoObject
      /\ names \in [Names -> Objects \cup {NoObject}]
  BY <1>1
<1> QED BY <1>1, <1>2 DEF Init

(* write_rating, call by call.                                               *)
LEMMA RatingStepKeeps == TransactionInv /\ RatingStep => TransactionInv'
<1> SUFFICES ASSUME TransactionInv, RatingStep PROVE TransactionInv'
  OBVIOUS
<1>1. CASE AcceptSource
  BY <1>1 DEF AcceptSource, SourceIsAtTarget, Links, Go, Return, RatingKeeps, disk, others
<1>2. CASE TakeSnapshot
  BY <1>2 DEF TakeSnapshot, Go, Return, disk, others
<1>3. CASE StageCopy
  BY <1>3 DEF StageCopy, Go, Return, Bound, RatingKeeps, others
<1>4. CASE WriteCopy
  BY <1>4 DEF WriteCopy, Go, Return, Written, ReturnAndDropWork, WorkDropped, Unlinked,
     RatingKeeps, others
<1>5. CASE RecheckSource
  <2>1. seen' \in BOOLEAN /\ parentHeld' \in BOOLEAN
    BY <1>5 DEF RecheckSource, RatingKeeps, others
  <2> QED BY <2>1, <1>5 DEF RecheckSource, SourceIsAtTarget, SnapshotIsCurrent, Go, Return,
     ReturnAndDropWork, WorkDropped, Unlinked, RatingKeeps, disk, others
<1>6. CASE LinkBackup
  BY <1>6 DEF LinkBackup, Go, Return, ReturnAndDropWork, WorkDropped, Unlinked, Bound,
     RatingKeeps, others
<1>7. CASE UnixCheckBackup
  BY <1>7 DEF UnixCheckBackup, BackupIsSource, SnapshotIsCurrent, Go, Return,
     ReturnAndDropBackup, Unlinked, RatingKeeps, disk, others
<1>8. CASE UnixInstall
  BY <1>8 DEF UnixInstall, Go, Return, ReturnAndDropBackup, Unlinked, Renamed,
     RatingKeeps, others
<1>9. CASE UnixRollback
  BY <1>9 DEF UnixRollback, Return, Renamed, RatingKeeps, disk, others
<1>10. CASE WindowsReplace
  BY <1>10 DEF WindowsReplace, Go, Renamed, RatingKeeps, others
<1>11. CASE Reconcile
  BY <1>11 DEF Reconcile, Reconciled, SnapshotIsCurrent, Go, Return, WorkDropped,
     Unlinked, RatingKeeps, others
<1>12. CASE WindowsCheckBackup
  BY <1>12 DEF WindowsCheckBackup, BackupIsSource, SnapshotIsCurrent, Go, RatingKeeps,
     disk, others
<1>13. CASE OpenInstalled
  BY <1>13 DEF OpenInstalled, Undo, Go, disk, others
<1>14. CASE VerifyInstalled
  BY <1>14 DEF VerifyInstalled, InstalledIsVerified, BackupIsSource, SnapshotIsCurrent,
     Undo, Go, RatingKeeps, disk, others
<1>15. CASE RemoveBackup
  BY <1>15 DEF RemoveBackup, Undo, Go, Return, Unlinked, RatingKeeps, others
<1>16. CASE WindowsBind
  BY <1>16 DEF WindowsBind, Return, RatingKeeps, disk, others
<1>17. CASE CheckRestore
  BY <1>17 DEF CheckRestore, Restoring, GiveUp, MayRestore, BackupIsSource, Go, Return,
     RatingKeeps, disk, others
<1>18. CASE Displace
  BY <1>18 DEF Displace, Restoring, GiveUp, Go, Return, Renamed, RatingKeeps, others
<1>19. CASE CheckDisplaced
  BY <1>19 DEF CheckDisplaced, Restoring, GiveUp, PutBack, Go, Return, Renamed,
     RatingKeeps, others
<1>20. CASE MoveBack
  BY <1>20 DEF MoveBack, Restoring, GiveUp, PutBack, Go, Return, Renamed, RatingKeeps,
     others
<1>21. CASE DropDisplaced
  BY <1>21 DEF DropDisplaced, Restoring, GiveUp, Go, Return, Unlinked, RatingKeeps, others
<1>22. CASE ConfirmRestored
  BY <1>22 DEF ConfirmRestored, Restoring, GiveUp, Reconciled, SnapshotIsCurrent, Go,
     Return, WorkDropped, Unlinked, RatingKeeps, others
<1> QED BY <1>1, <1>2, <1>3, <1>4, <1>5, <1>6, <1>7, <1>8, <1>9, <1>10, <1>11, <1>12,
     <1>13, <1>14, <1>15, <1>16, <1>17, <1>18, <1>19, <1>20, <1>21, <1>22 DEF RatingStep

(* Save As, call by call.                                                    *)
LEMMA SaveStepKeeps == TransactionInv /\ SaveStep => TransactionInv'
<1> SUFFICES ASSUME TransactionInv, SaveStep PROVE TransactionInv'
  OBVIOUS
<1>1. CASE CaptureDestination
  <2>1. names["target"] # NoObject => content[names["target"]] \in Bytes
    OBVIOUS
  <2>2. /\ held' \in [snapshot : Bytes, opened : Objects \cup {NoObject},
                      captured : Objects \cup {NoObject}, capturedBytes : Bytes]
        /\ held'.snapshot = held.snapshot /\ held'.opened = held.opened
        /\ held'.captured \in {held.captured, names["target"]}
        /\ seen' \in BOOLEAN
    <3>1. CASE held' = held /\ seen' = seen
      BY <3>1
    <3>2. CASE /\ held' = [held EXCEPT
                            !.captured = names["target"],
                            !.capturedBytes = IF names["target"] = NoObject THEN "nothing"
                                              ELSE content[names["target"]]]
               /\ seen' = TRUE
      BY <2>1, <3>2
    <3> QED BY <1>1, <3>1, <3>2, Zenon DEF CaptureDestination
  <2> QED BY <2>2, <1>1 DEF CaptureDestination, Go, Return, disk, others
<1>2. CASE ConfirmOverwrite
  <2>1. seen' \in BOOLEAN /\ parentHeld' \in BOOLEAN
    BY <1>2 DEF ConfirmOverwrite, SaveKeeps, others
  <2> QED BY <2>1, <1>2 DEF ConfirmOverwrite, DestinationIsUnchanged, Go, Return, SaveKeeps, disk,
     others
<1>3. CASE RefuseAlias
  BY <1>3 DEF RefuseAlias, Go, Return, SaveKeeps, disk, others
<1>4. CASE CheckSourceVersion
  BY <1>4 DEF CheckSourceVersion, Go, Return, SaveKeeps, disk, others
<1>5. CASE ReadMetadata
  BY <1>5 DEF ReadMetadata, Go, disk, others
<1>6. CASE RecheckSourceVersion
  BY <1>6 DEF RecheckSourceVersion, Go, Return, SaveKeeps, disk, others
<1>7. CASE StageExport
  BY <1>7 DEF StageExport, Go, Return, Bound, SaveKeeps, others
<1>8. CASE EncodeExport
  BY <1>8 DEF EncodeExport, Go, Return, Written, ReturnAndDropWork, WorkDropped, Unlinked,
     SaveKeeps, others
<1>9. CASE CheckDestination
  <2>1. seen' \in BOOLEAN /\ parentHeld' \in BOOLEAN
    BY <1>9 DEF CheckDestination, SaveKeeps, others
  <2> QED BY <2>1, <1>9 DEF CheckDestination, DestinationIsUnchanged, Go, Return,
     ReturnAndDropWork, WorkDropped, Unlinked, SaveKeeps, disk, others
<1>10. CASE InstallExport
  BY <1>10 DEF InstallExport, MayInstall, Go, Return, ReturnAndDropWork, WorkDropped,
     Unlinked, Renamed, SaveKeeps, others
<1> QED BY <1>1, <1>2, <1>3, <1>4, <1>5, <1>6, <1>7, <1>8, <1>9, <1>10 DEF SaveStep

(* Other programs, act by act.                                               *)
LEMMA OthersKeep == TransactionInv /\ Others => TransactionInv'
<1> SUFFICES ASSUME TransactionInv, Others PROVE TransactionInv'
  OBVIOUS
<1>1. CASE OthersReplace
  <2>1. seen' \in BOOLEAN /\ ~seen'
    BY <1>1 DEF OthersReplace
  <2>2. /\ taken' \subseteq Objects
        /\ \A o \in Objects : o \in taken' <=> o \in taken \/ o = names["target"]
    BY <1>1 DEF OthersReplace, TakeTarget
  <2> QED BY <2>1, <2>2, <1>1 DEF OthersReplace, Meddle, Bound
<1>2. CASE OthersRemove
  <2>1. seen' \in BOOLEAN /\ ~seen'
    BY <1>2 DEF OthersRemove
  <2>2. /\ taken' \subseteq Objects
        /\ \A o \in Objects : o \in taken' <=> o \in taken \/ o = names["target"]
    BY <1>2 DEF OthersRemove, TakeTarget
  <2> QED BY <2>1, <2>2, <1>2 DEF OthersRemove, Meddle, Unlinked
<1>3. CASE OthersEdit
  BY <1>3 DEF OthersEdit, Meddle, Written
<1>4. CASE OthersSubstitute
  BY <1>4 DEF OthersSubstitute, Meddle, Bound
<1>5. CASE OthersMovePhoto
  <2>1. seen' \in BOOLEAN /\ ~seen'
    BY <1>5 DEF OthersMovePhoto
  <2>2. /\ taken' \subseteq Objects
        /\ \A o \in Objects : o \in taken' <=> o \in taken \/ o = names["target"]
    BY <1>5 DEF OthersMovePhoto
  <2> QED BY <2>1, <2>2, <1>5 DEF OthersMovePhoto, Meddle, Renamed
<1>6. CASE OthersMoveParent
  <2>1. seen' \in BOOLEAN /\ parentHeld' \in BOOLEAN
    BY <1>6 DEF OthersMoveParent
  <2> QED BY <2>1, <1>6 DEF OthersMoveParent, Meddle
<1> QED BY <1>1, <1>2, <1>3, <1>4, <1>5, <1>6 DEF Others

HIDE DEF TransactionInv

(* The transaction's invariant, through every call, act and crash.           *)
THEOREM TransactionIsInvariant == Spec => []TransactionInv
<1>1. ASSUME TransactionInv, Crash PROVE TransactionInv'
  BY <1>1 DEF TransactionInv, Crash, Return, disk, others
<1>2. ASSUME TransactionInv, UNCHANGED vars PROVE TransactionInv'
  BY <1>2 DEF TransactionInv, vars
<1>3. TransactionInv /\ [Next]_vars => TransactionInv'
  BY <1>1, <1>2, RatingStepKeeps, SaveStepKeeps, OthersKeep DEF Next
<1> QED BY <1>3, InvInitially, PTL DEF Spec

(* The photo is never lost and nothing unwritten is ever installed, whenever *)
(* the process dies.                                                         *)
THEOREM PictureIsAlwaysKept == Spec => []PictureIsKept
<1>1. TransactionInv => PictureIsKept
  BY DEF TransactionInv, PictureIsKept
<1> QED BY <1>1, TransactionIsInvariant, PTL

(* EXIF is the decoded photo's, and no finished transaction leaves litter.   *)
THEOREM ExportIsAlwaysClean == Spec => []ExportIsClean
<1>1. TransactionInv => ExportIsClean
  BY DEF TransactionInv, ExportIsClean
<1> QED BY <1>1, TransactionIsInvariant, PTL

-----------------------------------------------------------------------------
(* The calls that leave the target and the phase alone.                      *)

QuietRating ==
    \/ AcceptSource
    \/ TakeSnapshot
    \/ StageCopy
    \/ WriteCopy
    \/ RecheckSource
    \/ LinkBackup
    \/ UnixCheckBackup
    \/ Reconcile
    \/ WindowsCheckBackup
    \/ OpenInstalled
    \/ VerifyInstalled
    \/ RemoveBackup
    \/ WindowsBind
    \/ CheckRestore
    \/ DropDisplaced
    \/ ConfirmRestored

QuietSave ==
    \/ CaptureDestination
    \/ ConfirmOverwrite
    \/ RefuseAlias
    \/ CheckSourceVersion
    \/ ReadMetadata
    \/ RecheckSourceVersion
    \/ StageExport
    \/ EncodeExport
    \/ CheckDestination

(* A rating write looks, writes its copy, or drops what is its own.          *)
LEMMA QuietRatingKeepsTarget ==
    ASSUME TransactionInv, QuietRating
    PROVE  names'["target"] = names["target"] /\ phase' = phase
<1> USE DEF TransactionInv
<1>1. CASE AcceptSource
  BY <1>1 DEF AcceptSource, SourceIsAtTarget, Links, Go, Return, RatingKeeps, disk,
     others
<1>2. CASE TakeSnapshot
  BY <1>2 DEF TakeSnapshot, Go, Return, disk, others
<1>3. CASE StageCopy
  BY <1>3 DEF StageCopy, Go, Return, Bound, RatingKeeps, others
<1>4. CASE WriteCopy
  BY <1>4 DEF WriteCopy, Go, Return, Written, ReturnAndDropWork, WorkDropped, Unlinked,
     RatingKeeps, others
<1>5. CASE RecheckSource
  BY <1>5 DEF RecheckSource, SourceIsAtTarget, SnapshotIsCurrent, Go, Return,
     ReturnAndDropWork, WorkDropped, Unlinked, RatingKeeps, disk, others
<1>6. CASE LinkBackup
  BY <1>6 DEF LinkBackup, Go, Return, ReturnAndDropWork, WorkDropped, Unlinked, Bound,
     RatingKeeps, others
<1>7. CASE UnixCheckBackup
  BY <1>7 DEF UnixCheckBackup, BackupIsSource, SnapshotIsCurrent, Go, Return,
     ReturnAndDropBackup, Unlinked, RatingKeeps, disk, others
<1>8. CASE Reconcile
  BY <1>8 DEF Reconcile, Reconciled, SnapshotIsCurrent, Go, Return, WorkDropped,
     Unlinked, RatingKeeps, others
<1>9. CASE WindowsCheckBackup
  BY <1>9 DEF WindowsCheckBackup, BackupIsSource, SnapshotIsCurrent, Go, RatingKeeps,
     disk, others
<1>10. CASE OpenInstalled
  BY <1>10 DEF OpenInstalled, Undo, Go, disk, others
<1>11. CASE VerifyInstalled
  BY <1>11 DEF VerifyInstalled, InstalledIsVerified, BackupIsSource, SnapshotIsCurrent,
     Undo, Go, RatingKeeps, disk, others
<1>12. CASE RemoveBackup
  BY <1>12 DEF RemoveBackup, Undo, Go, Return, Unlinked, RatingKeeps, others
<1>13. CASE WindowsBind
  BY <1>13 DEF WindowsBind, Return, RatingKeeps, disk, others
<1>14. CASE CheckRestore
  BY <1>14 DEF CheckRestore, Restoring, GiveUp, MayRestore, BackupIsSource, Go, Return,
     RatingKeeps, disk, others
<1>15. CASE DropDisplaced
  BY <1>15 DEF DropDisplaced, Restoring, GiveUp, Go, Return, Unlinked, RatingKeeps,
     others
<1>16. CASE ConfirmRestored
  BY <1>16 DEF ConfirmRestored, Restoring, GiveUp, Reconciled, SnapshotIsCurrent, Go,
     Return, WorkDropped, Unlinked, RatingKeeps, others
<1> QED BY <1>1, <1>2, <1>3, <1>4, <1>5, <1>6, <1>7, <1>8, <1>9, <1>10, <1>11, <1>12,
     <1>13, <1>14, <1>15, <1>16 DEF QuietRating

(* Save As asks, looks, or writes its export.                                *)
LEMMA QuietSaveKeepsTarget ==
    ASSUME TransactionInv, QuietSave
    PROVE  names'["target"] = names["target"] /\ phase' = phase
<1> USE DEF TransactionInv
<1>1. CASE CaptureDestination
  BY <1>1 DEF CaptureDestination, Go, Return, disk, others
<1>2. CASE ConfirmOverwrite
  BY <1>2 DEF ConfirmOverwrite, DestinationIsUnchanged, Go, Return, SaveKeeps, disk,
     others
<1>3. CASE RefuseAlias
  BY <1>3 DEF RefuseAlias, Go, Return, SaveKeeps, disk, others
<1>4. CASE CheckSourceVersion
  BY <1>4 DEF CheckSourceVersion, Go, Return, SaveKeeps, disk, others
<1>5. CASE ReadMetadata
  BY <1>5 DEF ReadMetadata, Go, disk, others
<1>6. CASE RecheckSourceVersion
  BY <1>6 DEF RecheckSourceVersion, Go, Return, SaveKeeps, disk, others
<1>7. CASE StageExport
  BY <1>7 DEF StageExport, Go, Return, Bound, SaveKeeps, others
<1>8. CASE EncodeExport
  BY <1>8 DEF EncodeExport, Go, Return, Written, ReturnAndDropWork, WorkDropped,
     Unlinked, SaveKeeps, others
<1>9. CASE CheckDestination
  BY <1>9 DEF CheckDestination, DestinationIsUnchanged, Go, Return, ReturnAndDropWork,
     WorkDropped, Unlinked, SaveKeeps, disk, others
<1> QED BY <1>1, <1>2, <1>3, <1>4, <1>5, <1>6, <1>7, <1>8, <1>9 DEF QuietSave

(* A rating write takes from the target only what it has not had the chance   *)
(* to see, or what it is done with.                                          *)
LEMMA RatingSpares ==
    ASSUME TransactionInv, RatingStep, Watched, NEW o \in {"old", "other", "source"},
           names["target"] = o, ~Linked(o)'
    PROVE  LetsGo(o)
<1> USE DEF TransactionInv, Watched, LetsGo
<1>1. CASE UnixInstall
  BY <1>1 DEF UnixInstall, Go, Return, ReturnAndDropBackup, Unlinked, Renamed,
     RatingKeeps, others
<1>2. CASE UnixRollback
  BY <1>2 DEF UnixRollback, Return, Renamed, RatingKeeps, disk, others
<1>3. CASE WindowsReplace
  BY <1>3 DEF WindowsReplace, Go, Renamed, RatingKeeps, others
<1>4. CASE Displace
  BY <1>4 DEF Displace, Restoring, GiveUp, Go, Return, Renamed, RatingKeeps, others
<1>5. CASE CheckDisplaced
  BY <1>5 DEF CheckDisplaced, Restoring, GiveUp, PutBack, Go, Return, Renamed,
     RatingKeeps, others
<1>6. CASE MoveBack
  BY <1>6 DEF MoveBack, Restoring, GiveUp, PutBack, Go, Return, Renamed, RatingKeeps,
     others
<1>7. CASE QuietRating
  BY <1>7, QuietRatingKeepsTarget
<1> QED BY <1>1, <1>2, <1>3, <1>4, <1>5, <1>6, <1>7 DEF RatingStep, QuietRating

(* Save As takes from the target only what the user agreed to lose.          *)
LEMMA SaveSpares ==
    ASSUME TransactionInv, SaveStep, Watched, NEW o \in {"old", "other", "source"},
           names["target"] = o, ~Linked(o)'
    PROVE  LetsGo(o)
<1> USE DEF TransactionInv, Watched, LetsGo
<1>1. CASE InstallExport
  BY <1>1 DEF InstallExport, MayInstall, Go, Return, ReturnAndDropWork, WorkDropped,
     Unlinked, Renamed, SaveKeeps, others
<1>2. CASE QuietSave
  BY <1>2, QuietSaveKeepsTarget
<1> QED BY <1>1, <1>2 DEF SaveStep, QuietSave

(* No file is destroyed that the last look could have found.                 *)
THEOREM WhatWasSeenIsSpared == Spec => SparesWhatItSaw
<1>1. ASSUME TransactionInv, Next, Watched, UNCHANGED meddling,
             NEW o \in {"old", "other", "source"}, names["target"] = o, ~Linked(o)'
      PROVE  LetsGo(o)
  <2>1. ~Others
    BY <1>1 DEF TransactionInv, Others, OthersReplace, OthersRemove, OthersEdit,
       OthersSubstitute, OthersMovePhoto, OthersMoveParent, Meddle
  <2>2. ~Crash
    BY <1>1 DEF TransactionInv, Crash, disk
  <2> QED BY <1>1, <2>1, <2>2, RatingSpares, SaveSpares DEF Next
<1>2. TransactionInv /\ [Next]_vars =>
        [Watched /\ UNCHANGED meddling =>
           \A o \in {"old", "other", "source"} :
              names["target"] = o /\ ~Linked(o)' => LetsGo(o)]_vars
  BY <1>1
<1> QED BY <1>2, TransactionIsInvariant, PTL DEF Spec, SparesWhatItSaw

-----------------------------------------------------------------------------
(* The refinement: each call installs, sets apart, restores or answers.      *)

Target == Kind[names["target"]]

(* A call that leaves target and phase alone answers, and truthfully.        *)
LEMMA QuietStepAnswers ==
    ASSUME TransactionInv, verdict = "running", Target' = Target, phase' = phase,
           \/ verdict' \in {"running", "RecoveryFailed", "crashed"}
           \/ verdict' = "Ok" /\ phase = "installed"
           \/ verdict' = "Refused" /\ phase = "untouched"
           \/ verdict' = "VerificationRestored" /\ phase = "restored" /\ names'["target"] = "old"
           \/ verdict' = "SourceChanged" /\ phase # "apart"
    PROVE  Safe!ReplaceNext
BY DEF Safe!ReplaceNext, Safe!Answer, Safe!Truthful, Target, Kind, Phases, Verdicts

(* write_rating, call by call.                                               *)
LEMMA RatingReplaces ==
    ASSUME TransactionInv, RatingStep
    PROVE  Safe!ReplaceNext
<1> USE DEF TransactionInv
<1>1. CASE AcceptSource
  BY <1>1, QuietRatingKeepsTarget, QuietStepAnswers DEF AcceptSource, SourceIsAtTarget,
     Links, Go, Return, RatingKeeps, disk, others, QuietRating, Target
<1>2. CASE TakeSnapshot
  BY <1>2, QuietRatingKeepsTarget, QuietStepAnswers DEF TakeSnapshot, Go, Return, disk,
     others, QuietRating, Target
<1>3. CASE StageCopy
  BY <1>3, QuietRatingKeepsTarget, QuietStepAnswers DEF StageCopy, Go, Return, Bound,
     RatingKeeps, others, QuietRating, Target
<1>4. CASE WriteCopy
  BY <1>4, QuietRatingKeepsTarget, QuietStepAnswers DEF WriteCopy, Go, Return, Written,
     ReturnAndDropWork, WorkDropped, Unlinked, RatingKeeps, others, QuietRating, Target
<1>5. CASE RecheckSource
  BY <1>5, QuietRatingKeepsTarget, QuietStepAnswers DEF RecheckSource, SourceIsAtTarget,
     SnapshotIsCurrent, Go, Return, ReturnAndDropWork, WorkDropped, Unlinked,
     RatingKeeps, disk, others, QuietRating, Target
<1>6. CASE LinkBackup
  BY <1>6, QuietRatingKeepsTarget, QuietStepAnswers DEF LinkBackup, Go, Return,
     ReturnAndDropWork, WorkDropped, Unlinked, Bound, RatingKeeps, others, QuietRating,
     Target
<1>7. CASE UnixCheckBackup
  BY <1>7, QuietRatingKeepsTarget, QuietStepAnswers DEF UnixCheckBackup, BackupIsSource,
     SnapshotIsCurrent, Go, Return, ReturnAndDropBackup, Unlinked, RatingKeeps, disk,
     others, QuietRating, Target
<1>8. CASE UnixInstall
  BY <1>8 DEF UnixInstall, Go, Return, ReturnAndDropBackup, Unlinked, Renamed,
     RatingKeeps, others, Safe!ReplaceNext, Safe!Change, Safe!Install, Safe!SetApart,
     Safe!Restore, Safe!GiveUpRestore, Safe!Answer, Safe!Truthful, Safe!replaceVars,
     Kind
<1>9. CASE UnixRollback
  BY <1>9 DEF UnixRollback, Return, Renamed, RatingKeeps, disk, others,
     Safe!ReplaceNext, Safe!Change, Safe!Install, Safe!SetApart, Safe!Restore,
     Safe!GiveUpRestore, Safe!Answer, Safe!Truthful, Safe!replaceVars, Kind
<1>10. CASE WindowsReplace
  BY <1>10 DEF WindowsReplace, Go, Renamed, RatingKeeps, others, Safe!ReplaceNext,
     Safe!Change, Safe!Install, Safe!SetApart, Safe!Restore, Safe!GiveUpRestore,
     Safe!Answer, Safe!Truthful, Safe!replaceVars, Kind
<1>11. CASE Reconcile
  BY <1>11, QuietRatingKeepsTarget, QuietStepAnswers DEF Reconcile, Reconciled,
     SnapshotIsCurrent, Go, Return, WorkDropped, Unlinked, RatingKeeps, others,
     QuietRating, Target
<1>12. CASE WindowsCheckBackup
  BY <1>12, QuietRatingKeepsTarget, QuietStepAnswers DEF WindowsCheckBackup,
     BackupIsSource, SnapshotIsCurrent, Go, RatingKeeps, disk, others, QuietRating,
     Target
<1>13. CASE OpenInstalled
  BY <1>13, QuietRatingKeepsTarget, QuietStepAnswers DEF OpenInstalled, Undo, Go, disk,
     others, QuietRating, Target
<1>14. CASE VerifyInstalled
  BY <1>14, QuietRatingKeepsTarget, QuietStepAnswers DEF VerifyInstalled,
     InstalledIsVerified, BackupIsSource, SnapshotIsCurrent, Undo, Go, RatingKeeps,
     disk, others, QuietRating, Target
<1>15. CASE RemoveBackup
  BY <1>15, QuietRatingKeepsTarget, QuietStepAnswers DEF RemoveBackup, Undo, Go, Return,
     Unlinked, RatingKeeps, others, QuietRating, Target
<1>16. CASE WindowsBind
  BY <1>16, QuietRatingKeepsTarget, QuietStepAnswers DEF WindowsBind, Return,
     RatingKeeps, disk, others, QuietRating, Target
<1>17. CASE CheckRestore
  BY <1>17, QuietRatingKeepsTarget, QuietStepAnswers DEF CheckRestore, Restoring,
     GiveUp, MayRestore, BackupIsSource, Go, Return, RatingKeeps, disk, others,
     QuietRating, Target
<1>18. CASE Displace
  BY <1>18 DEF Displace, Restoring, GiveUp, Go, Return, Renamed, RatingKeeps, others,
     Safe!ReplaceNext, Safe!Change, Safe!Install, Safe!SetApart, Safe!Restore,
     Safe!GiveUpRestore, Safe!Answer, Safe!Truthful, Safe!replaceVars, Kind
<1>19. CASE CheckDisplaced
  BY <1>19 DEF CheckDisplaced, Restoring, GiveUp, PutBack, Go, Return, Renamed,
     RatingKeeps, others, Safe!ReplaceNext, Safe!Change, Safe!Install, Safe!SetApart,
     Safe!Restore, Safe!GiveUpRestore, Safe!Answer, Safe!Truthful, Safe!replaceVars,
     Kind
<1>20. CASE MoveBack
  BY <1>20 DEF MoveBack, Restoring, GiveUp, PutBack, Go, Return, Renamed, RatingKeeps,
     others, Safe!ReplaceNext, Safe!Change, Safe!Install, Safe!SetApart, Safe!Restore,
     Safe!GiveUpRestore, Safe!Answer, Safe!Truthful, Safe!replaceVars, Kind
<1>21. CASE DropDisplaced
  BY <1>21, QuietRatingKeepsTarget, QuietStepAnswers DEF DropDisplaced, Restoring,
     GiveUp, Go, Return, Unlinked, RatingKeeps, others, QuietRating, Target
<1>22. CASE ConfirmRestored
  BY <1>22, QuietRatingKeepsTarget, QuietStepAnswers DEF ConfirmRestored, Restoring,
     GiveUp, Reconciled, SnapshotIsCurrent, Go, Return, WorkDropped, Unlinked,
     RatingKeeps, others, QuietRating, Target
<1> QED BY <1>1, <1>2, <1>3, <1>4, <1>5, <1>6, <1>7, <1>8, <1>9, <1>10, <1>11, <1>12,
     <1>13, <1>14, <1>15, <1>16, <1>17, <1>18, <1>19, <1>20, <1>21, <1>22 DEF RatingStep

(* Save As, call by call.                                                    *)
LEMMA SaveReplaces ==
    ASSUME TransactionInv, SaveStep
    PROVE  Safe!ReplaceNext
<1> USE DEF TransactionInv
<1>1. CASE CaptureDestination
  BY <1>1, QuietSaveKeepsTarget, QuietStepAnswers DEF CaptureDestination, Go, Return,
     disk, others, QuietSave, Target
<1>2. CASE ConfirmOverwrite
  BY <1>2, QuietSaveKeepsTarget, QuietStepAnswers DEF ConfirmOverwrite,
     DestinationIsUnchanged, Go, Return, SaveKeeps, disk, others, QuietSave, Target
<1>3. CASE RefuseAlias
  BY <1>3, QuietSaveKeepsTarget, QuietStepAnswers DEF RefuseAlias, Go, Return,
     SaveKeeps, disk, others, QuietSave, Target
<1>4. CASE CheckSourceVersion
  BY <1>4, QuietSaveKeepsTarget, QuietStepAnswers DEF CheckSourceVersion, Go, Return,
     SaveKeeps, disk, others, QuietSave, Target
<1>5. CASE ReadMetadata
  BY <1>5, QuietSaveKeepsTarget, QuietStepAnswers DEF ReadMetadata, Go, disk, others,
     QuietSave, Target
<1>6. CASE RecheckSourceVersion
  BY <1>6, QuietSaveKeepsTarget, QuietStepAnswers DEF RecheckSourceVersion, Go, Return,
     SaveKeeps, disk, others, QuietSave, Target
<1>7. CASE StageExport
  BY <1>7, QuietSaveKeepsTarget, QuietStepAnswers DEF StageExport, Go, Return, Bound,
     SaveKeeps, others, QuietSave, Target
<1>8. CASE EncodeExport
  BY <1>8, QuietSaveKeepsTarget, QuietStepAnswers DEF EncodeExport, Go, Return, Written,
     ReturnAndDropWork, WorkDropped, Unlinked, SaveKeeps, others, QuietSave, Target
<1>9. CASE CheckDestination
  BY <1>9, QuietSaveKeepsTarget, QuietStepAnswers DEF CheckDestination,
     DestinationIsUnchanged, Go, Return, ReturnAndDropWork, WorkDropped, Unlinked,
     SaveKeeps, disk, others, QuietSave, Target
<1>10. CASE InstallExport
  BY <1>10 DEF InstallExport, MayInstall, Go, Return, ReturnAndDropWork, WorkDropped,
     Unlinked, Renamed, SaveKeeps, others, Safe!ReplaceNext, Safe!Change, Safe!Install,
     Safe!SetApart, Safe!Restore, Safe!GiveUpRestore, Safe!Answer, Safe!Truthful,
     Safe!replaceVars, Kind
<1> QED BY <1>1, <1>2, <1>3, <1>4, <1>5, <1>6, <1>7, <1>8, <1>9, <1>10 DEF SaveStep

(* Another program's act on the target is a change, any other is nothing.    *)
LEMMA OthersChange ==
    ASSUME TransactionInv, Others
    PROVE  Safe!ReplaceNext \/ UNCHANGED Safe!replaceVars
<1> USE DEF TransactionInv
<1>1. CASE OthersReplace
  BY <1>1 DEF OthersReplace, Meddle, Bound, Safe!ReplaceNext, Safe!Change,
     Safe!replaceVars, Kind
<1>2. CASE OthersRemove
  BY <1>2 DEF OthersRemove, Meddle, Unlinked, Safe!ReplaceNext, Safe!Change,
     Safe!replaceVars, Kind
<1>3. CASE OthersEdit
  BY <1>3 DEF OthersEdit, Meddle, Written, Safe!ReplaceNext, Safe!Change,
     Safe!replaceVars, Kind
<1>4. CASE OthersSubstitute
  BY <1>4 DEF OthersSubstitute, Meddle, Bound, Safe!ReplaceNext, Safe!Change,
     Safe!replaceVars, Kind
<1>5. CASE OthersMovePhoto
  BY <1>5 DEF OthersMovePhoto, Meddle, Renamed, Safe!ReplaceNext, Safe!Change,
     Safe!replaceVars, Kind
<1>6. CASE OthersMoveParent
  BY <1>6 DEF OthersMoveParent, Meddle, Safe!ReplaceNext, Safe!Change, Safe!replaceVars,
     Kind
<1> QED BY <1>1, <1>2, <1>3, <1>4, <1>5, <1>6 DEF Others

(* A guarded replacement implements SafeReplace: whatever it returns, and     *)
(* whatever others do meanwhile, is what happened to the target.             *)
THEOREM ReplacementIsSafe == Spec => ReturnsWhatHappened
<1>1. Init => Safe!ReplaceInit
  <2> SUFFICES ASSUME Init PROVE Safe!ReplaceInit
    OBVIOUS
  <2>1. names["target"] \in {NoObject, "old", "source"}
    BY DEF Init
  <2> QED BY <2>1 DEF Init, Safe!ReplaceInit, Kind
<1>2. ASSUME TransactionInv, [Next]_vars
      PROVE  Safe!ReplaceNext \/ UNCHANGED Safe!replaceVars
  <2>1. CASE Crash
    BY <1>2, <2>1, QuietStepAnswers DEF TransactionInv, Crash, Return, disk, Target
  <2>2. CASE UNCHANGED vars
    BY <2>2 DEF vars, Safe!replaceVars
  <2> QED BY <1>2, <2>1, <2>2, RatingReplaces, SaveReplaces, OthersChange DEF Next
<1>3. TransactionInv /\ [Next]_vars => [Safe!ReplaceNext]_Safe!replaceVars
  BY <1>2
<1> QED BY <1>1, <1>3, TransactionIsInvariant, PTL DEF Spec, ReturnsWhatHappened, Safe!ReplaceSpec
=============================================================================
