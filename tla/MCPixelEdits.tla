---------------------------- MODULE MCPixelEdits -----------------------------
(***************************************************************************)
(* Two names and pictures two pixels wide, for which the history has room  *)
(* of two pixels: a stroke over one pixel leaves room for another, one     *)
(* over both for none.                                                     *)
(***************************************************************************)
EXTENDS PixelEdits, TLC

Symmetry == Permutations(Names)
=============================================================================
