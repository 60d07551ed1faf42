----------------------------- MODULE MCCuration ------------------------------
(* Values for the curation engine: the smallest folder in which one removal  *)
(* runs, one waits and one file is left to select.                           *)
EXTENDS Curation

AllFaults == {"refused", "lost", "spawn", "decode"}

(* Failures that leave no outcome unknown.                                   *)
KnownFaults == {"refused", "spawn"}

(* Failures after which a thread that was asked for has still been started.  *)
StartedFaults == {"refused", "lost", "decode"}

NoFaults == {}
=============================================================================
