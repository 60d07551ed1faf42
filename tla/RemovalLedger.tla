--------------------------- MODULE RemovalLedger ----------------------------
(***************************************************************************)
(* What the curation engine promises, without the playlist that shows it.  *)
(*                                                                         *)
(* The ledger keeps the set of files the catalog lists, the removals that  *)
(* were accepted and not yet settled, the one file Undo offers, and the    *)
(* kinds of operation whose outcome is unknown.  Catalog order, the        *)
(* selection, playlist scopes and folder scans are in Curation, which      *)
(* implements this module; a scan or an open is here only the step that    *)
(* relists the folder within the limits the code puts on it.               *)
(***************************************************************************)
EXTENDS Naturals, Sequences

CONSTANTS
    Files,       (* the images of the folder                                 *)
    NoFile,      (* no file                                                  *)
    MaxPending   (* bound of the Trash FIFO                                  *)

ASSUME LedgerAssumption ==
    /\ NoFile \notin Files
    /\ MaxPending \in Nat

VARIABLES
    place,    (* where each file really is: folder, trash or gone            *)
    listed,   (* the files the catalog lists                                 *)
    waiting,  (* accepted moves to Trash that have not started, oldest first *)
    active,   (* the operation that is running, and how it ended             *)
    offered,  (* the file Undo would restore                                 *)
    sure,     (* whether that file is known to be in the Trash               *)
    unknown   (* kinds of operation that ended with an unknown outcome       *)

ledgerVars == <<place, listed, waiting, active, offered, sure, unknown>>

Removals == {"Trash", "PermanentDelete"}
Kinds    == Removals \cup {"Restore"}
Outcomes == {"running", "moved", "unmoved", "lost"}

None == [kind |-> "none", file |-> NoFile, outcome |-> "running"]

Operation(kind, f) == [kind |-> kind, file |-> f, outcome |-> "running"]

(* Accepted for removal and not settled.                                     *)
Pending(f) ==
    \/ \E i \in DOMAIN waiting : waiting[i] = f
    \/ active.kind \in Removals /\ active.file = f

Waiting == {waiting[i] : i \in DOMAIN waiting}

(* Wrong on purpose: what is being removed may be listed ...                 *)
ListableThoughPending(f) == sure /\ f = offered => f \in listed

(* ... or what Undo still offers.                                            *)
ListableThoughOffered(f) == ~Pending(f)

(* A ledger may not list what is being removed, nor begin to list again a    *)
(* file that Undo still offers.                                              *)
Listable(f) == ~Pending(f) /\ (sure /\ f = offered => f \in listed)

LedgerTypeOK ==
    /\ place \in [Files -> {"folder", "trash", "gone"}]
    /\ listed \subseteq Files
    /\ waiting \in Seq(Files)
    /\ Len(waiting) <= MaxPending
    /\ \/ active = None
       \/ active \in [kind : Kinds, file : Files, outcome : Outcomes]
    /\ offered \in Files \cup {NoFile}
    /\ sure \in BOOLEAN
    /\ unknown \subseteq Kinds

LedgerInit ==
    /\ place = [f \in Files |-> "folder"]
    /\ listed \in SUBSET Files
    /\ waiting = <<>>
    /\ active = None
    /\ offered = NoFile
    /\ sure = FALSE
    /\ unknown = {}

-----------------------------------------------------------------------------
(* A removal is accepted: it starts, or it waits behind a move to Trash.     *)
Accept(kind, f) ==
    /\ unknown = {}
    /\ ~Pending(f)
    /\ sure => f # offered
    /\ \/ /\ active = None
          /\ active' = Operation(kind, f)
          /\ UNCHANGED waiting
       \/ /\ kind = "Trash"
          /\ active.kind = "Trash"
          /\ Len(waiting) < MaxPending
          /\ waiting' = Append(waiting, f)
          /\ UNCHANGED active
    /\ listed' = listed \ {f}
    /\ UNCHANGED <<place, offered, sure, unknown>>

(* Undo starts.                                                              *)
StartRestore ==
    /\ active = None
    /\ offered # NoFile
    /\ active' = Operation("Restore", offered)
    /\ UNCHANGED <<place, listed, waiting, offered, sure, unknown>>

(* The platform ends the running operation; only its file can move.  When    *)
(* the thread dies, it may have moved or not.                                *)
Destination(kind) ==
    IF kind = "Trash" THEN "trash" ELSE IF kind = "Restore" THEN "folder" ELSE "gone"

PlatformActs ==
    /\ active # None
    /\ active.outcome = "running"
    /\ \E outcome \in {"moved", "unmoved", "lost"} :
        /\ active' = [active EXCEPT !.outcome = outcome]
        /\ \/ /\ outcome # "unmoved"
              /\ place[active.file] = IF active.kind = "Restore" THEN "trash" ELSE "folder"
              /\ place' = [place EXCEPT ![active.file] = Destination(active.kind)]
           \/ /\ outcome # "moved"
              /\ UNCHANGED place
    /\ UNCHANGED <<listed, waiting, offered, sure, unknown>>

-----------------------------------------------------------------------------
(* What waits is abandoned: it is listed again and never starts.             *)
Abandon(relisted) ==
    /\ active' = None
    /\ waiting' = <<>>
    /\ listed' = listed \cup relisted \cup Waiting

(* A kind that has just been observed is no longer unknown.                  *)
Recover(kind) == unknown' = unknown \ {kind}

(* A removal took effect.  Undo then offers a file moved to Trash, if there  *)
(* was a receipt, and the next request starts, or none ever does.            *)
SettleMoved ==
    /\ active.kind \in Removals
    /\ active.outcome = "moved"
    /\ \/ /\ active.kind = "Trash"
          /\ offered' = active.file
          /\ sure' = TRUE
       \/ UNCHANGED <<offered, sure>>
    /\ Recover(active.kind)
    /\ \/ Abandon({})
       \/ /\ waiting # <<>>
          /\ active' = Operation("Trash", Head(waiting))
          /\ waiting' = Tail(waiting)
          /\ UNCHANGED listed
    /\ UNCHANGED place

(* A removal did not take effect: its file is listed again.                  *)
SettleUnmoved ==
    /\ active.kind \in Removals
    /\ active.outcome = "unmoved"
    /\ Abandon({active.file})
    /\ Recover(active.kind)
    /\ UNCHANGED <<place, offered, sure>>

(* A restore ended.  The file is listed if its playlist is still open; the   *)
(* offer is kept only if the restore can be tried again.                     *)
SettleRestore ==
    /\ active.kind = "Restore"
    /\ active.outcome \in {"moved", "unmoved"}
    /\ active' = None
    /\ \/ /\ offered' = NoFile
          /\ sure' = FALSE
          /\ \/ active.outcome = "moved" /\ listed' = listed \cup {active.file}
             \/ UNCHANGED listed
       \/ /\ active.outcome = "unmoved"
          /\ UNCHANGED <<offered, sure, listed>>
    /\ Recover("Restore")
    /\ UNCHANGED <<place, waiting>>

(* The thread died: the outcome of its kind is unknown from now on.          *)
SettleLost ==
    /\ active # None
    /\ active.outcome = "lost"
    /\ \/ active.kind \in Removals /\ Abandon({active.file}) /\ UNCHANGED sure
       \/ active.kind = "Restore" /\ Abandon({}) /\ sure' = FALSE
    /\ unknown' = unknown \cup {active.kind}
    /\ UNCHANGED <<place, offered>>

(* A scan, an open, or the loss of a listed file.                            *)
Relist ==
    /\ \E files \in SUBSET Files :
          /\ \A f \in files : Listable(f)
          /\ listed' = files
    /\ UNCHANGED <<place, waiting, active, offered, sure, unknown>>

Settle == SettleMoved \/ SettleUnmoved \/ SettleRestore \/ SettleLost

LedgerNext ==
    \/ \E kind \in Removals, f \in Files : Accept(kind, f)
    \/ StartRestore
    \/ PlatformActs
    \/ Settle
    \/ Relist

LedgerSpec == LedgerInit /\ [][LedgerNext]_ledgerVars

-----------------------------------------------------------------------------
(* No file is accepted twice: not while it waits, nor while it is moved.     *)
NoRequestTwice ==
    /\ \A i, j \in DOMAIN waiting : waiting[i] = waiting[j] => i = j
    /\ active.kind \in Removals => \A i \in DOMAIN waiting : waiting[i] # active.file

(* A file is not browsed while it is being removed.                          *)
NothingPendingIsListed == \A f \in listed : ~Pending(f)

(* Requests wait only behind a move to Trash, which will start them.         *)
NobodyWaitsForNothing == waiting # <<>> => active.kind = "Trash"

(* Nothing is removed while the outcome of an earlier operation is unknown.  *)
UnknownStopsRemovals == unknown # {} => waiting = <<>> /\ active.kind \notin Removals

(* Undo only offers what it can give back: while the last restore is not     *)
(* unknown, the file is in the Trash, unlisted, and in nobody's hands.       *)
OfferIsRecoverable ==
    sure /\ active.kind # "Restore" =>
        /\ offered # NoFile
        /\ place[offered] = "trash"
        /\ offered \notin listed
        /\ ~Pending(offered)

(* The inductive strengthening.  A file is offered when the poll sees that   *)
(* its move ended, so the move itself must already have put it in the Trash; *)
(* a restore works on the file that is offered, which therefore may have     *)
(* left the Trash before the poll withdraws the offer.                       *)
MovedIsMoved ==
    active.kind \in Removals /\ active.outcome = "moved" =>
        place[active.file] = Destination(active.kind)

RestoreServesTheOffer ==
    active.kind = "Restore" =>
        /\ active.file = offered
        /\ sure =>
            /\ offered \notin listed
            /\ active.outcome \in {"running", "unmoved"} => place[offered] = "trash"

LedgerInv ==
    /\ LedgerTypeOK
    /\ NoRequestTwice
    /\ NothingPendingIsListed
    /\ NobodyWaitsForNothing
    /\ UnknownStopsRemovals
    /\ OfferIsRecoverable
    /\ MovedIsMoved
    /\ RestoreServesTheOffer

(* A request leaves the ledger only when its file has moved or is listed.    *)
PendingIsAnswered ==
    [][\A f \in Files : Pending(f) /\ ~Pending(f)' /\ place[f] = "folder" => f \in listed']_ledgerVars

(* An unknown removal stays unknown, and nothing is accepted from then on.   *)
UnknownIsForGood ==
    [][/\ unknown \cap Removals \subseteq unknown'
       /\ unknown # {} => \A f \in Files : Pending(f)' => Pending(f)]_ledgerVars
=============================================================================
