-------------------------------- MODULE SaveAs --------------------------------
(***************************************************************************)
(* Save As: prepare_save_destination captures what the chosen name holds,  *)
(* the user is asked if it holds a file, and save_to_destination encodes   *)
(* into a staging file, checks again and installs it.                      *)
(*                                                                         *)
(* "source" is the open photo, whose EXIF may be carried over; "new" is    *)
(* the export.  Destinations are compared by identity and version without  *)
(* reading them, which tells an edited file from the captured one.         *)
(***************************************************************************)
EXTENDS FileStore

Saving == operation = "save"

(* DestinationState: what was captured, and that it is still that.           *)
DestinationIsUnchanged ==
    /\ parentHeld
    /\ names["target"] = held.captured
    /\ held.captured # NoObject => content[held.captured] = held.capturedBytes

SaveKeeps == UNCHANGED <<held, others>>

(* SaveDestination::capture.                                                 *)
CaptureDestination ==
    /\ Saving /\ at = "capture"
    /\ \/ /\ parentHeld
          /\ held' = [held EXCEPT
                        !.captured = names["target"],
                        !.capturedBytes = IF names["target"] = NoObject THEN "nothing"
                                          ELSE content[names["target"]]]
          /\ Go(IF names["target"] = NoObject THEN "aliases" ELSE "consent")
          /\ seen' = TRUE
       \/ Return("Refused") /\ UNCHANGED <<held, seen>>
    /\ UNCHANGED <<disk, others>>

(* confirm_overwrite, when the user has answered; or the user declines.      *)
ConfirmOverwrite ==
    /\ Saving /\ at = "consent"
    /\ \/ DestinationIsUnchanged /\ Go("aliases") /\ seen' = TRUE
       \/ Return("Refused") /\ UNCHANGED seen
    /\ UNCHANGED disk /\ SaveKeeps

(* The destination must not be the open photo, under this name or another.   *)
RefuseAlias ==
    /\ Saving /\ at = "aliases"
    /\ \/ /\ held.captured # "source"
          /\ names["target"] # NoObject => names["target"] # names["photo"]
          /\ \/ Go("stage")
             \/ Go("metadata")
       \/ Return("Refused")
    /\ UNCHANGED <<disk, seen>> /\ SaveKeeps

-----------------------------------------------------------------------------
(* Retaining EXIF: version, read, version again.                             *)

CheckSourceVersion ==
    /\ Saving /\ at = "metadata"
    /\ \/ content["source"] = "whole" /\ Go("read")
       \/ Return("Refused")
    /\ UNCHANGED <<disk, seen>> /\ SaveKeeps

(* load_bounded_metadata_from_source, by the retained handle.                *)
ReadMetadata ==
    /\ Saving /\ at = "read"
    /\ Go("recheckSource")
    /\ held' = [held EXCEPT !.snapshot = content["source"]]
    /\ UNCHANGED <<disk, others, seen>>

(* Wrong on purpose: the version is not asked again after the read.          *)
TrustMetadata ==
    /\ Saving /\ at = "recheckSource"
    /\ Go("stage")
    /\ UNCHANGED <<disk, seen>> /\ SaveKeeps

RecheckSourceVersion ==
    /\ Saving /\ at = "recheckSource"
    /\ \/ content["source"] = "whole" /\ Go("stage")
       \/ Return("Refused")
    /\ UNCHANGED <<disk, seen>> /\ SaveKeeps

-----------------------------------------------------------------------------
(* tempfile_in between two looks at the directory.                           *)
StageExport ==
    /\ Saving /\ at = "stage"
    /\ \/ parentHeld /\ Go("encode") /\ names' = Bound("work", "new")
       \/ Return("Refused") /\ UNCHANGED names
    /\ UNCHANGED <<content, phase, seen>> /\ SaveKeeps

(* encode_pixels_only and write_metadata_to_open_file, through the handle.   *)
EncodeExport ==
    /\ Saving /\ at = "encode"
    /\ \/ /\ Go("check")
          /\ content' = Written("new", "whole")
          /\ UNCHANGED <<names, phase>>
       \/ ReturnAndDropWork("Refused")
    /\ UNCHANGED seen /\ SaveKeeps

(* verify_unchanged, and the staging name still holds the export.            *)
CheckDestination ==
    /\ Saving /\ at = "check"
    /\ \/ /\ DestinationIsUnchanged
          /\ names["work"] = "new"
          /\ Go("commit")
          /\ seen' = TRUE
          /\ UNCHANGED disk
       \/ ReturnAndDropWork("Refused") /\ UNCHANGED seen
    /\ SaveKeeps

(* commit_temporary: persist_noclobber where nothing was captured; else a    *)
(* rename (Unix) or ReplaceFileW without a backup, which needs a target.     *)
MayInstall ==
    /\ parentHeld
    /\ held.captured = NoObject => names["target"] = NoObject
    /\ held.captured # NoObject /\ platform = "windows" => names["target"] # NoObject

InstallExport ==
    /\ Saving /\ at = "commit"
    /\ \/ /\ MayInstall
          /\ Return("Ok")
          /\ names' = Renamed("work", "target")
          /\ phase' = "installed"
          /\ UNCHANGED content
       \/ ReturnAndDropWork("Refused")
    /\ UNCHANGED seen /\ SaveKeeps

SaveStep ==
    \/ CaptureDestination
    \/ ConfirmOverwrite
    \/ RefuseAlias
    \/ CheckSourceVersion
    \/ ReadMetadata
    \/ RecheckSourceVersion
    \/ StageExport
    \/ EncodeExport
    \/ CheckDestination
    \/ InstallExport
=============================================================================
