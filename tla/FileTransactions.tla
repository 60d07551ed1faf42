--------------------------- MODULE FileTransactions ---------------------------
(***************************************************************************)
(* One guarded replacement of a file, by a rating write or by Save As,     *)
(* beside other programs that act on the same directory and a crash at any *)
(* point.  The event loop lets only one of the two run at a time           *)
(* (DeferredClose, OneFileOperation), so a behaviour holds one.            *)
(***************************************************************************)
EXTENDS RatingWrite, SaveAs

Verdicts == {"running", "Ok", "Refused", "SourceChanged", "VerificationRestored",
             "RecoveryFailed", "crashed"}

Phases == {"untouched", "installed", "apart", "restored"}

Init ==
    /\ operation \in {"rate", "save"}
    /\ platform \in {"unix", "windows"}
    /\ at = IF Rating THEN "accept" ELSE "capture"
    /\ \E t \in IF Rating THEN {"old"} ELSE {NoObject, "old", "source"},
          p \in IF Rating THEN {NoObject, "old"} ELSE {"source"} :
         names = [n \in Names |-> CASE n = "target" -> t
                                    [] n = "photo"  -> p
                                    [] OTHER        -> NoObject]
    /\ content = [o \in Objects |-> IF o = "new" THEN "nothing" ELSE "whole"]
    /\ phase = "untouched"
    /\ verdict = "running"
    /\ held = [snapshot |-> "nothing", opened |-> NoObject,
               captured |-> NoObject, capturedBytes |-> "nothing"]
    /\ parentHeld = TRUE
    /\ seen = TRUE
    /\ taken = {}
    /\ meddling = 0

Next == RatingStep \/ SaveStep \/ Others \/ Crash

Spec == Init /\ [][Next]_vars

-----------------------------------------------------------------------------
(* The target never holds a half-written file and, while a rating is         *)
(* written, the photo is never lost: until the copy has been verified in its *)
(* place it has a name, unless another program took one away.  In every      *)
(* state, so in whatever state a crash leaves.                               *)
Committed ==
    /\ phase = "installed"
    /\ \/ at = "bind"
       \/ verdict \in {"Ok", "SourceChanged", "RecoveryFailed", "crashed"}

PictureIsKept ==
    /\ names["target"] = "new" => content["new"] # "nothing"
    /\ Rating /\ ~Linked("old") /\ "old" \notin taken =>
         /\ Committed
         /\ held.snapshot = "whole"
         /\ Linked("new") \/ "new" \in taken
    /\ Saving /\ ~Linked("old") /\ held.captured = "old" /\ "old" \notin taken =>
         phase = "installed" /\ verdict = "Ok"

(* What is returned is what happened on disk: SafeReplace.                   *)
Kind == [o \in Objects \cup {NoObject} |->
            CASE o = "old"    -> "original"
              [] o = "new"    -> "replacement"
              [] o = NoObject -> "nothing"
              [] OTHER        -> "stranger"]

Safe == INSTANCE SafeReplace WITH target <- Kind[names["target"]]

ReturnsWhatHappened == Safe!ReplaceSpec

(* What the transaction has had its chance to see at its target it does not  *)
(* destroy: a file another program put there before the last look keeps a    *)
(* name, and one found where the user was told there is none keeps it even   *)
(* if it came later.  The commit lets go of the original, and Save As of the *)
(* file the user agreed to lose.  rollback_unix_rating looks at nothing, and *)
(* is the exception.                                                         *)
LetsGo(o) ==
    \/ o = "old" /\ at = "cleanup"
    \/ o = held.captured /\ at = "commit"

Watched == at # "rollback" /\ (seen \/ (at = "commit" /\ held.captured = NoObject))

SparesWhatItSaw ==
    [][Watched /\ UNCHANGED meddling =>
         \A o \in {"old", "other", "source"} :
            names["target"] = o /\ ~Linked(o)' => LetsGo(o)]_vars

(* EXIF carried into an export is that of the photo that was decoded, and a  *)
(* transaction that answers anything but RecoveryFailed leaves no staging    *)
(* file and no second copy of the photo behind, unless the directory moved   *)
(* or the removal of the Unix backup, whose result nobody asks, failed.      *)
ExportIsClean ==
    /\ Saving /\ phase = "installed" => held.snapshot \in {"nothing", "whole"}
    /\ verdict \notin {"running", "crashed", "RecoveryFailed"} /\ parentHeld =>
         /\ names["work"] = NoObject
         /\ names["displaced"] = NoObject
         /\ names["backup"] # NoObject =>
              platform = "unix" /\ phase = "untouched"
=============================================================================
