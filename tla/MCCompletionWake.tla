-------------------------- MODULE MCCompletionWake ---------------------------
(* One request more than there are slots for owners.                         *)
EXTENDS CompletionWake

CONSTANTS r1, r2, r3

ThreeRequests == {r1, r2, r3}
=============================================================================
