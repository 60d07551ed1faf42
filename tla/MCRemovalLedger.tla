--------------------------- MODULE MCRemovalLedger ---------------------------
(* Three files: one being removed, one waiting, one that Undo offers.        *)
EXTENDS RemovalLedger, TLC

CONSTANTS a, b, c

ThreeFiles == {a, b, c}

(* No action tells one file from another.                                    *)
AnyFile == Permutations(ThreeFiles)
=============================================================================
