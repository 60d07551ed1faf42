---------------------------- MODULE PatchHistory -----------------------------
(***************************************************************************)
(* The edit history of Spot Heal (crates/viewr/src/heal.rs, PatchHistory,  *)
(* push_bounded, apply_patch).                                             *)
(*                                                                         *)
(* A picture is a row of pixels.  A patch is a stretch of it and the       *)
(* pixels to put there; to apply one gives the patch that takes it back.   *)
(* The history keeps such patches, the newest last, in a bounded number    *)
(* of bytes: here, of pixels.                                              *)
(***************************************************************************)
EXTENDS Naturals, Sequences

CONSTANT ByteLimit      (* PatchHistory::byte_limit                          *)

ASSUME HistoryAssumption == ByteLimit \in Nat

NewHistory == [undo |-> <<>>, redo |-> <<>>]

Size(patch) == Len(patch.rgba)

(* undo_bytes and redo_bytes.                                                *)
Bytes(patches) ==
    LET sum[n \in 0..Len(patches)] ==
            IF n = 0 THEN 0 ELSE sum[n - 1] + Size(patches[n])
    IN  sum[Len(patches)]

(* LocalRect::is_inside.                                                     *)
Fits(patch, pixels) == patch.at + Size(patch) <= Len(pixels) + 1

(* apply_patch: the pixels after it, and the patch that takes it back.       *)
Patched(pixels, patch) ==
    [i \in DOMAIN pixels |-> IF i \in patch.at..(patch.at + Size(patch) - 1)
                             THEN patch.rgba[i - patch.at + 1] ELSE pixels[i]]

InverseOf(patch, pixels) ==
    [at |-> patch.at, rgba |-> SubSeq(pixels, patch.at, patch.at + Size(patch) - 1)]

(* push_bounded: the oldest patches make room for the new one.               *)
Pushed(patches, patch) ==
    LET kept(n) == SubSeq(patches, n, Len(patches))
        room    == {n \in 1..(Len(patches) + 1) : Bytes(kept(n)) + Size(patch) <= ByteLimit}
    IN  IF Size(patch) > ByteLimit THEN <<>>
        ELSE LET first == CHOOSE n \in room : \A m \in room : n <= m
             IN  Append(kept(first), patch)

(* PatchHistory::record.                                                     *)
Recorded(history, inverse) == [undo |-> Pushed(history.undo, inverse), redo |-> <<>>]

NewestOf(patches)  == patches[Len(patches)]
WithoutNewest(patches) == SubSeq(patches, 1, Len(patches) - 1)

(* history_patch_presented, when the patch applies and is presented: the     *)
(* patch leaves one side and its inverse joins the other.                    *)
Undone(history, pixels) ==
    [undo |-> WithoutNewest(history.undo),
     redo |-> Pushed(history.redo, InverseOf(NewestOf(history.undo), pixels))]

Redone(history, pixels) ==
    [undo |-> Pushed(history.undo, InverseOf(NewestOf(history.redo), pixels)),
     redo |-> WithoutNewest(history.redo)]
=============================================================================
