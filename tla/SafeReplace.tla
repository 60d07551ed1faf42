----------------------------- MODULE SafeReplace -----------------------------
(***************************************************************************)
(* What replacing a file promises, whichever way it is done.  The target   *)
(* changes because another program changes it, or because the replacement  *)
(* is installed, set apart or undone; and what is returned says which of   *)
(* these happened:                                                         *)
(*   Ok                    installed, and not undone                       *)
(*   Refused               the target was never touched                    *)
(*   VerificationRestored  undone: the target holds the original           *)
(*   SourceChanged         any of these, but nothing is left apart         *)
(*   RecoveryFailed        none of this is claimed                         *)
(***************************************************************************)
VARIABLES
    target,      (* "original", "replacement", "stranger" or "nothing"       *)
    phase,       (* "untouched", "installed", "apart" or "restored"          *)
    verdict      (* "running", or what was returned                          *)

replaceVars == <<target, phase, verdict>>

ReplaceInit ==
    /\ target \in {"original", "stranger", "nothing"}
    /\ phase = "untouched"
    /\ verdict = "running"

Truthful ==
    CASE verdict' = "Ok"                   -> phase' = "installed"
      [] verdict' = "Refused"              -> phase' = "untouched"
      [] verdict' = "VerificationRestored" -> phase' = "restored" /\ target' = "original"
      [] verdict' = "SourceChanged"        -> phase' # "apart"
      [] OTHER                             -> verdict' \in {"running", "RecoveryFailed", "crashed"}

Change ==
    /\ target' \in {"stranger", "nothing"}
    /\ UNCHANGED <<phase, verdict>>

(* The staging name holds the replacement, unless a stranger's file took it. *)
Install ==
    /\ phase = "untouched" /\ phase' = "installed"
    /\ target' \in {"replacement", "stranger", "nothing"}
    /\ Truthful

SetApart ==
    /\ phase \in {"untouched", "installed"} /\ phase' = "apart"
    /\ target' = "nothing"
    /\ Truthful

Restore ==
    /\ phase \in {"installed", "apart"} /\ phase' = "restored"
    /\ target' = "original"
    /\ Truthful

(* A restore that is given up may put back what it had moved aside.          *)
GiveUpRestore ==
    /\ phase \in {"apart", "restored"} /\ UNCHANGED phase
    /\ verdict' = "RecoveryFailed"

Answer == UNCHANGED <<target, phase>> /\ Truthful

ReplaceNext ==
    /\ verdict = "running"
    /\ Change \/ Install \/ SetApart \/ Restore \/ GiveUpRestore \/ Answer

ReplaceSpec == ReplaceInit /\ [][ReplaceNext]_replaceVars
=============================================================================
