------------------------- MODULE RemovalLedgerProofs -------------------------
(***************************************************************************)
(* The ledger's promises hold for every folder and every bound on the      *)
(* Trash FIFO.  LedgerInv is inductive; each action is one lemma.          *)
(***************************************************************************)
EXTENDS RemovalLedger, SequenceTheorems, TLAPS

(* What the proofs use of the FIFO's sequence operators.                     *)
LEMMA AppendFacts ==
    ASSUME NEW s \in Seq(Files), NEW f \in Files
    PROVE  /\ Append(s, f) \in Seq(Files)
           /\ Append(s, f) # <<>>
           /\ Len(Append(s, f)) = Len(s) + 1
           /\ DOMAIN s = 1..Len(s)
           /\ DOMAIN Append(s, f) = DOMAIN s \cup {Len(s) + 1}
           /\ Len(s) + 1 \notin DOMAIN s
           /\ \A i \in DOMAIN s : Append(s, f)[i] = s[i]
           /\ Append(s, f)[Len(s) + 1] = f
BY AppendProperties

LEMMA TailFacts ==
    ASSUME NEW s \in Seq(Files), s # <<>>
    PROVE  /\ Head(s) \in Files
           /\ 1 \in DOMAIN s
           /\ Head(s) = s[1]
           /\ Tail(s) \in Seq(Files)
           /\ Len(Tail(s)) <= Len(s)
           /\ \A i \in DOMAIN Tail(s) :
                i + 1 \in DOMAIN s /\ i + 1 # 1 /\ Tail(s)[i] = s[i + 1]
           /\ \A j \in DOMAIN s : j # 1 => j - 1 \in DOMAIN Tail(s) /\ Tail(s)[j - 1] = s[j]
           /\ \A i, j \in DOMAIN Tail(s) : i + 1 = j + 1 => i = j
<1>1. /\ Head(s) \in Files
      /\ Tail(s) \in Seq(Files)
      /\ Len(Tail(s)) = Len(s) - 1
      /\ \A i \in 1..Len(Tail(s)) : Tail(s)[i] = s[i + 1]
      BY HeadTailProperties
<1>2. DOMAIN s = 1..Len(s) /\ Len(s) \in Nat /\ Len(s) # 0
      BY EmptySeq
<1>3. DOMAIN Tail(s) = 1..(Len(s) - 1)
      BY <1>1
<1>4. Head(s) = s[1]
      BY <1>2
<1> QED BY <1>1, <1>2, <1>3, <1>4

-----------------------------------------------------------------------------
(* Whatever is listed must be listable, so relisting breaks nothing.         *)
LEMMA RelistPreserves == LedgerInv /\ Relist => LedgerInv'
BY DEF LedgerInv, LedgerTypeOK, NoRequestTwice, NothingPendingIsListed,
       NobodyWaitsForNothing, UnknownStopsRemovals, OfferIsRecoverable, MovedIsMoved,
       RestoreServesTheOffer, Relist, Listable, Pending

LEMMA StartRestorePreserves == LedgerInv /\ StartRestore => LedgerInv'
<1> SUFFICES ASSUME LedgerInv, StartRestore PROVE LedgerInv'
    OBVIOUS
<1> USE LedgerAssumption DEF Kinds, Removals, Outcomes, None, Operation
<1>1. /\ active = None
      /\ offered \in Files
      /\ active' = Operation("Restore", offered)
      /\ UNCHANGED <<place, listed, waiting, offered, sure, unknown>>
      BY DEF StartRestore, LedgerInv, LedgerTypeOK
<1>2. LedgerTypeOK'
      BY <1>1 DEF LedgerInv, LedgerTypeOK
<1>3. NoRequestTwice' /\ NothingPendingIsListed' /\ NobodyWaitsForNothing' /\ UnknownStopsRemovals'
      BY <1>1 DEF LedgerInv, NoRequestTwice, NothingPendingIsListed, NobodyWaitsForNothing,
                  UnknownStopsRemovals, Pending
<1>4. OfferIsRecoverable' /\ MovedIsMoved' /\ RestoreServesTheOffer'
      BY <1>1 DEF LedgerInv, OfferIsRecoverable, MovedIsMoved, RestoreServesTheOffer
<1> QED BY <1>2, <1>3, <1>4 DEF LedgerInv

(* Accepting a file that nobody else is removing, and that Undo does not     *)
(* offer.                                                                    *)
LEMMA AcceptPreserves ==
    ASSUME LedgerInv, NEW kind \in Removals, NEW f \in Files, Accept(kind, f)
    PROVE  LedgerInv'
<1> USE LedgerAssumption DEF Kinds, Removals, Outcomes, None, Operation
<1>1. /\ unknown = {} /\ ~Pending(f) /\ (sure => f # offered)
      /\ listed' = listed \ {f}
      /\ UNCHANGED <<place, offered, sure, unknown>>
      BY DEF Accept
<1>2. CASE active = None /\ active' = Operation(kind, f) /\ UNCHANGED waiting
  <2>1. LedgerTypeOK'
        BY <1>1, <1>2 DEF LedgerInv, LedgerTypeOK
  <2>2. waiting = <<>>
        BY <1>2 DEF LedgerInv, NobodyWaitsForNothing
  <2>3. \A g : Pending(g)' <=> g = f
        BY <1>2, <2>2 DEF Pending
  <2>4. NoRequestTwice' /\ NothingPendingIsListed' /\ NobodyWaitsForNothing' /\ UnknownStopsRemovals'
        BY <1>1, <1>2, <2>2, <2>3 DEF LedgerInv, NoRequestTwice, NothingPendingIsListed,
           NobodyWaitsForNothing, UnknownStopsRemovals
  <2>5. OfferIsRecoverable' /\ MovedIsMoved' /\ RestoreServesTheOffer'
        BY <1>1, <1>2, <2>3 DEF LedgerInv, OfferIsRecoverable, MovedIsMoved, RestoreServesTheOffer
  <2> QED BY <2>1, <2>4, <2>5 DEF LedgerInv
<1>3. CASE /\ active.kind = "Trash" /\ Len(waiting) < MaxPending
           /\ waiting' = Append(waiting, f) /\ UNCHANGED active
  <2>0. waiting \in Seq(Files) /\ Len(waiting) \in Nat
        BY DEF LedgerInv, LedgerTypeOK
  <2>1. LedgerTypeOK'
        BY <1>1, <1>3, <2>0, AppendFacts DEF LedgerInv, LedgerTypeOK
  <2>2. \A g : Pending(g)' <=> Pending(g) \/ g = f
        BY <1>3, <2>0, AppendFacts DEF Pending
  <2>3. NoRequestTwice'
        BY <1>1, <1>3, <2>0, AppendFacts DEF LedgerInv, NoRequestTwice, Pending
  <2>4. NothingPendingIsListed' /\ NobodyWaitsForNothing' /\ UnknownStopsRemovals'
        BY <1>1, <1>3, <2>2 DEF LedgerInv, NothingPendingIsListed, NobodyWaitsForNothing,
           UnknownStopsRemovals
  <2>5. OfferIsRecoverable' /\ MovedIsMoved' /\ RestoreServesTheOffer'
        BY <1>1, <1>3, <2>2 DEF LedgerInv, OfferIsRecoverable, MovedIsMoved, RestoreServesTheOffer
  <2> QED BY <2>1, <2>3, <2>4, <2>5 DEF LedgerInv
<1> QED BY <1>2, <1>3 DEF Accept

(* The platform moves only the file in hand.  A file that Undo offers is in  *)
(* the Trash, where no removal finds it.                                     *)
LEMMA PlatformPreserves == LedgerInv /\ PlatformActs => LedgerInv'
<1> SUFFICES ASSUME LedgerInv, PlatformActs PROVE LedgerInv'
    OBVIOUS
<1> USE LedgerAssumption DEF Kinds, Removals, Outcomes, None
<1>1. PICK outcome \in {"moved", "unmoved", "lost"} :
        /\ active' = [active EXCEPT !.outcome = outcome]
        /\ \/ /\ outcome # "unmoved"
              /\ place[active.file] = IF active.kind = "Restore" THEN "trash" ELSE "folder"
              /\ place' = [place EXCEPT ![active.file] = Destination(active.kind)]
           \/ /\ outcome # "moved"
              /\ UNCHANGED place
      BY DEF PlatformActs
<1>2. /\ active \in [kind : Kinds, file : Files, outcome : Outcomes]
      /\ active # None /\ active.outcome = "running"
      /\ UNCHANGED <<listed, waiting, offered, sure, unknown>>
      BY DEF PlatformActs, LedgerInv, LedgerTypeOK
<1>3. active'.kind = active.kind /\ active'.file = active.file /\ active'.outcome = outcome
      BY <1>1, <1>2
<1>4. LedgerTypeOK'
      BY <1>1, <1>2 DEF LedgerInv, LedgerTypeOK, Destination
<1>5. NoRequestTwice' /\ NothingPendingIsListed' /\ NobodyWaitsForNothing' /\ UnknownStopsRemovals'
      BY <1>2, <1>3 DEF LedgerInv, NoRequestTwice, NothingPendingIsListed,
         NobodyWaitsForNothing, UnknownStopsRemovals, Pending
<1>6. \A f \in Files : f # active.file => place'[f] = place[f]
      BY <1>1, <1>2 DEF LedgerInv, LedgerTypeOK
<1>7. OfferIsRecoverable'
  <2> SUFFICES ASSUME sure, active.kind # "Restore"
               PROVE  /\ offered # NoFile
                      /\ place'[offered] = "trash"
                      /\ offered \notin listed
                      /\ ~Pending(offered)'
      BY <1>2, <1>3 DEF OfferIsRecoverable
  <2>1. /\ offered \in Files /\ place[offered] = "trash"
        /\ offered \notin listed /\ ~Pending(offered)
        BY DEF LedgerInv, OfferIsRecoverable, LedgerTypeOK
  <2>2. offered # active.file
        BY <1>2, <2>1 DEF Pending
  <2> QED BY <1>2, <1>3, <1>6, <2>1, <2>2 DEF Pending
<1>8. MovedIsMoved'
      BY <1>1, <1>2, <1>3 DEF MovedIsMoved, Destination, LedgerInv, LedgerTypeOK
<1>9. RestoreServesTheOffer'
      BY <1>1, <1>2, <1>3 DEF RestoreServesTheOffer, LedgerInv, LedgerTypeOK
<1> QED BY <1>4, <1>5, <1>7, <1>8, <1>9 DEF LedgerInv

(* Abandoning what waits leaves nothing pending, and lists only files that   *)
(* Undo does not offer.                                                      *)
LEMMA AbandonPreserves ==
    ASSUME LedgerInv, NEW relisted \in SUBSET Files, Abandon(relisted),
           place' = place, offered' \in Files \cup {NoFile}, sure' \in BOOLEAN,
           unknown' \in SUBSET Kinds,
           sure' => /\ offered' # NoFile
                    /\ place[offered'] = "trash"
                    /\ offered' \notin listed \cup relisted \cup Waiting
    PROVE  LedgerInv'
<1> USE LedgerAssumption DEF Kinds, Removals, Outcomes, None
<1>1. /\ active' = None /\ waiting' = <<>>
      /\ listed' = listed \cup relisted \cup Waiting
      BY DEF Abandon
<1>2. Waiting \subseteq Files
      BY DEF Waiting, LedgerInv, LedgerTypeOK
<1>3. waiting' \in Seq(Files) /\ Len(waiting') = 0
      BY <1>1
<1>4. LedgerTypeOK'
      BY <1>1, <1>2, <1>3 DEF LedgerInv, LedgerTypeOK
<1>5. \A f : ~Pending(f)'
      BY <1>1 DEF Pending
<1>6. NoRequestTwice' /\ NothingPendingIsListed' /\ NobodyWaitsForNothing' /\ UnknownStopsRemovals'
      BY <1>1, <1>5 DEF NoRequestTwice, NothingPendingIsListed, NobodyWaitsForNothing,
                        UnknownStopsRemovals
<1>7. OfferIsRecoverable' /\ MovedIsMoved' /\ RestoreServesTheOffer'
      BY <1>1, <1>5 DEF OfferIsRecoverable, MovedIsMoved, RestoreServesTheOffer
<1> QED BY <1>4, <1>6, <1>7 DEF LedgerInv

(* A file just moved to the Trash was pending, so neither listed nor waiting *)
(* again: it can be offered.                                                 *)
LEMMA SettleMovedPreserves == LedgerInv /\ SettleMoved => LedgerInv'
<1> SUFFICES ASSUME LedgerInv, SettleMoved PROVE LedgerInv'
    OBVIOUS
<1> USE LedgerAssumption DEF Kinds, Removals, Outcomes, None, Operation
<1>1. /\ active.kind \in Removals /\ active.outcome = "moved"
      /\ active.file \in Files
      /\ place' = place
      /\ unknown' = unknown \ {active.kind}
      /\ unknown = {}
      BY DEF Recover, SettleMoved, LedgerInv, LedgerTypeOK, UnknownStopsRemovals
<1>2. \A i \in DOMAIN waiting : waiting[i] # active.file
      BY <1>1 DEF LedgerInv, NoRequestTwice
<1>3. active.file \notin listed
      BY <1>1 DEF LedgerInv, NothingPendingIsListed, Pending
<1>4. /\ offered' \in Files \cup {NoFile}
      /\ sure' \in BOOLEAN
      BY <1>1 DEF Recover, SettleMoved, LedgerInv, LedgerTypeOK
<1>5. sure' => /\ offered' # NoFile
               /\ place[offered'] = "trash"
               /\ offered' \notin listed
               /\ \A i \in DOMAIN waiting : waiting[i] # offered'
  <2>1. CASE active.kind = "Trash" /\ offered' = active.file
        BY <1>1, <1>2, <1>3, <2>1 DEF LedgerInv, MovedIsMoved, Destination
  <2>2. CASE UNCHANGED <<offered, sure>>
        BY <1>1, <2>2 DEF LedgerInv, OfferIsRecoverable, Pending
  <2> QED BY <2>1, <2>2 DEF Recover, SettleMoved
<1>6. CASE Abandon({})
  <2>1. unknown' \in SUBSET Kinds
        BY <1>1
  <2>2. sure' => offered' \notin listed \cup {} \cup Waiting
        BY <1>5 DEF Waiting
  <2>3. {} \in SUBSET Files
        OBVIOUS
  <2> QED BY <1>1, <1>4, <1>5, <1>6, <2>1, <2>2, <2>3, AbandonPreserves
<1>7. CASE /\ waiting # <<>>
           /\ active' = Operation("Trash", Head(waiting))
           /\ waiting' = Tail(waiting)
           /\ UNCHANGED listed
  <2>1. waiting \in Seq(Files) /\ Len(waiting) \in Nat
        BY DEF LedgerInv, LedgerTypeOK
  <2> DEFINE next == Head(waiting)
  <2>2. /\ next \in Files
        /\ active'.kind = "Trash" /\ active'.file = next /\ active'.outcome = "running"
        BY <1>7, <2>1, TailFacts
  <2>3. LedgerTypeOK'
        BY <1>1, <1>4, <1>7, <2>1, TailFacts DEF LedgerInv, LedgerTypeOK
  <2>4. NoRequestTwice'
        BY <1>7, <2>1, <2>2, TailFacts DEF LedgerInv, NoRequestTwice
  <2>5. \A f : Pending(f)' => \E i \in DOMAIN waiting : waiting[i] = f
        BY <1>7, <2>1, <2>2, TailFacts DEF Pending
  <2>6. NothingPendingIsListed' /\ NobodyWaitsForNothing' /\ UnknownStopsRemovals'
        BY <1>1, <1>7, <2>2, <2>5 DEF LedgerInv, NothingPendingIsListed, NobodyWaitsForNothing,
           UnknownStopsRemovals, Pending
  <2>7. OfferIsRecoverable' /\ MovedIsMoved' /\ RestoreServesTheOffer'
        BY <1>1, <1>5, <1>7, <2>2, <2>5 DEF OfferIsRecoverable, MovedIsMoved, RestoreServesTheOffer
  <2> QED BY <2>3, <2>4, <2>6, <2>7 DEF LedgerInv
<1> QED BY <1>6, <1>7 DEF Recover, SettleMoved

LEMMA SettleUnmovedPreserves == LedgerInv /\ SettleUnmoved => LedgerInv'
<1> SUFFICES ASSUME LedgerInv, SettleUnmoved PROVE LedgerInv'
    OBVIOUS
<1>1. /\ active.kind \in Removals
      /\ active.file \in Files
      /\ Abandon({active.file})
      /\ place' = place /\ offered' = offered /\ sure' = sure
      /\ unknown' \in SUBSET Kinds
      /\ offered \in Files \cup {NoFile} /\ sure \in BOOLEAN
      BY DEF Recover, SettleUnmoved, LedgerInv, LedgerTypeOK, Removals, None
<1>2. sure => /\ offered # NoFile
              /\ place[offered] = "trash"
              /\ offered \notin listed \cup {active.file} \cup Waiting
      BY <1>1 DEF LedgerInv, OfferIsRecoverable, Pending, Waiting, Removals
<1>3. {active.file} \in SUBSET Files
      BY <1>1
<1> QED BY <1>1, <1>2, <1>3, AbandonPreserves

LEMMA SettleLostPreserves == LedgerInv /\ SettleLost => LedgerInv'
<1> SUFFICES ASSUME LedgerInv, SettleLost PROVE LedgerInv'
    OBVIOUS
<1>1. /\ active.kind \in Kinds
      /\ active.file \in Files
      /\ place' = place /\ offered' = offered
      /\ unknown' \in SUBSET Kinds
      /\ offered' \in Files \cup {NoFile} /\ sure \in BOOLEAN
      BY DEF SettleLost, LedgerInv, LedgerTypeOK
<1>2. CASE active.kind \in Removals /\ Abandon({active.file}) /\ UNCHANGED sure
  <2>1. sure => /\ offered # NoFile
                /\ place[offered] = "trash"
                /\ offered \notin listed \cup {active.file} \cup Waiting
        BY <1>2 DEF LedgerInv, OfferIsRecoverable, Pending, Waiting, Removals
  <2>2. {active.file} \in SUBSET Files
        BY <1>1
  <2> QED BY <1>1, <1>2, <2>1, <2>2, AbandonPreserves
<1>3. CASE active.kind = "Restore" /\ Abandon({}) /\ sure' = FALSE
  <2>1. {} \in SUBSET Files
        OBVIOUS
  <2> QED BY <1>1, <1>3, <2>1, AbandonPreserves
<1> QED BY <1>2, <1>3 DEF SettleLost

LEMMA SettleRestorePreserves == LedgerInv /\ SettleRestore => LedgerInv'
<1> SUFFICES ASSUME LedgerInv, SettleRestore PROVE LedgerInv'
    OBVIOUS
<1> USE LedgerAssumption DEF Kinds, Removals, Outcomes, None
<1>1. /\ active.kind = "Restore" /\ active.outcome \in {"moved", "unmoved"}
      /\ active.file \in Files
      /\ active' = None
      /\ unknown' \subseteq unknown
      /\ UNCHANGED <<place, waiting>>
      /\ waiting = <<>>
      BY DEF Recover, SettleRestore, LedgerInv, LedgerTypeOK, NobodyWaitsForNothing
<1>2. LedgerTypeOK'
      BY <1>1 DEF Recover, SettleRestore, LedgerInv, LedgerTypeOK
<1>3. \A f : ~Pending(f)'
      BY <1>1 DEF Pending
<1>4. NoRequestTwice' /\ NothingPendingIsListed' /\ NobodyWaitsForNothing' /\ UnknownStopsRemovals'
      BY <1>1, <1>3 DEF NoRequestTwice, NothingPendingIsListed, NobodyWaitsForNothing,
                        UnknownStopsRemovals
<1>5. OfferIsRecoverable'
  <2>1. CASE sure' = FALSE
        BY <2>1 DEF OfferIsRecoverable
  <2>2. CASE active.outcome = "unmoved" /\ UNCHANGED <<offered, sure, listed>>
        BY <1>1, <1>3, <2>2 DEF LedgerInv, RestoreServesTheOffer, OfferIsRecoverable
  <2> QED BY <2>1, <2>2 DEF Recover, SettleRestore
<1>6. MovedIsMoved' /\ RestoreServesTheOffer'
      BY <1>1 DEF MovedIsMoved, RestoreServesTheOffer
<1> QED BY <1>2, <1>4, <1>5, <1>6 DEF LedgerInv

-----------------------------------------------------------------------------
LEMMA InitEstablishes == LedgerInit => LedgerInv
<1> SUFFICES ASSUME LedgerInit PROVE LedgerInv
    OBVIOUS
<1> USE LedgerAssumption DEF LedgerInit, Removals, None
<1>1. waiting \in Seq(Files) /\ Len(waiting) = 0 /\ DOMAIN waiting = {}
      OBVIOUS
<1>2. LedgerTypeOK
  <2>1. place \in [Files -> {"folder", "trash", "gone"}] /\ listed \subseteq Files
        OBVIOUS
  <2>2. waiting \in Seq(Files) /\ Len(waiting) <= MaxPending
        BY <1>1
  <2>3. active = None /\ offered = NoFile /\ sure \in BOOLEAN /\ unknown \subseteq Kinds
        OBVIOUS
  <2> QED BY <2>1, <2>2, <2>3 DEF LedgerTypeOK
<1>3. \A f : ~Pending(f)
      BY <1>1 DEF Pending
<1>4. NoRequestTwice /\ NothingPendingIsListed /\ NobodyWaitsForNothing /\ UnknownStopsRemovals
      BY <1>1, <1>3 DEF NoRequestTwice, NothingPendingIsListed, NobodyWaitsForNothing,
                        UnknownStopsRemovals
<1>5. OfferIsRecoverable /\ MovedIsMoved /\ RestoreServesTheOffer
      BY DEF OfferIsRecoverable, MovedIsMoved, RestoreServesTheOffer
<1> QED BY <1>2, <1>4, <1>5 DEF LedgerInv

LEMMA StutterPreserves == LedgerInv /\ UNCHANGED ledgerVars => LedgerInv'
BY DEF ledgerVars, LedgerInv, LedgerTypeOK, NoRequestTwice, NothingPendingIsListed,
   NobodyWaitsForNothing, UnknownStopsRemovals, OfferIsRecoverable, MovedIsMoved,
   RestoreServesTheOffer, Pending

LEMMA StepPreserves == LedgerInv /\ [LedgerNext]_ledgerVars => LedgerInv'
<1> SUFFICES ASSUME LedgerInv, [LedgerNext]_ledgerVars PROVE LedgerInv'
    OBVIOUS
<1>1. CASE \E kind \in Removals, f \in Files : Accept(kind, f)
      BY <1>1, AcceptPreserves
<1>2. CASE StartRestore
      BY <1>2, StartRestorePreserves
<1>3. CASE PlatformActs
      BY <1>3, PlatformPreserves
<1>4. CASE Settle
      BY <1>4, SettleMovedPreserves, SettleUnmovedPreserves, SettleRestorePreserves,
         SettleLostPreserves DEF Settle
<1>5. CASE Relist
      BY <1>5, RelistPreserves
<1>6. CASE UNCHANGED ledgerVars
      BY <1>6, StutterPreserves
<1> QED BY <1>1, <1>2, <1>3, <1>4, <1>5, <1>6 DEF LedgerNext

(* The inductive invariant holds in every state of the ledger.               *)
THEOREM LedgerIsInvariant == LedgerSpec => []LedgerInv
<1> QED BY InitEstablishes, StepPreserves, PTL DEF LedgerSpec

(* No file is browsed while it is being removed: what the optimistic commit, *)
(* the reverts and filter_committed_scan_entries are there for.              *)
THEOREM PendingIsNeverListed == LedgerSpec => []NothingPendingIsListed
<1>1. LedgerInv => NothingPendingIsListed
      BY DEF LedgerInv
<1> QED BY LedgerIsInvariant, <1>1, PTL

(* What Undo offers can be given back.                                       *)
THEOREM UndoIsAlwaysPossible == LedgerSpec => []OfferIsRecoverable
<1>1. LedgerInv => OfferIsRecoverable
      BY DEF LedgerInv
<1> QED BY LedgerIsInvariant, <1>1, PTL

-----------------------------------------------------------------------------
(* After a request is abandoned its file is listed, whoever it waited for.   *)
LEMMA AbandonedIsListed ==
    ASSUME NEW relisted, Abandon(relisted), NEW f, f \in Waiting \cup relisted
    PROVE  f \in listed'
BY DEF Abandon

LEMMA StepAnswers ==
    ASSUME LedgerInv, [LedgerNext]_ledgerVars, NEW f \in Files,
           Pending(f), ~Pending(f)', place[f] = "folder"
    PROVE  f \in listed'
<1> USE DEF Removals, None, Operation
<1>0. f \in Waiting \/ (active.kind \in Removals /\ active.file = f)
      BY DEF Pending, Waiting
<1>1. CASE \E kind \in Removals, g \in Files : Accept(kind, g)
  <2>1. PICK kind \in Removals, g \in Files : Accept(kind, g)
        BY <1>1
  <2>2. CASE active = None /\ UNCHANGED waiting
        BY <2>2 DEF Pending
  <2>3. CASE UNCHANGED active /\ waiting' = Append(waiting, g)
    <3>1. waiting \in Seq(Files)
          BY DEF LedgerInv, LedgerTypeOK
    <3> QED BY <2>3, <3>1, AppendFacts DEF Pending
  <2> QED BY <2>1, <2>2, <2>3 DEF Accept
<1>2. CASE StartRestore
      BY <1>2 DEF StartRestore, Pending
<1>3. CASE PlatformActs
  <2>1. waiting' = waiting /\ active'.kind = active.kind /\ active'.file = active.file
        BY <1>3 DEF PlatformActs, LedgerInv, LedgerTypeOK
  <2> QED BY <2>1 DEF Pending
<1>4. CASE SettleMoved
  <2>1. active.file # f
        BY <1>4 DEF Recover, SettleMoved, LedgerInv, MovedIsMoved, Destination
  <2>2. f \in Waiting
        BY <1>0, <2>1
  <2>3. CASE Abandon({})
        BY <2>2, <2>3, AbandonedIsListed
  <2>4. CASE /\ waiting # <<>>
             /\ active' = Operation("Trash", Head(waiting))
             /\ waiting' = Tail(waiting)
    <3>1. waiting \in Seq(Files)
          BY DEF LedgerInv, LedgerTypeOK
    <3>2. PICK i \in DOMAIN waiting : waiting[i] = f
          BY <2>2 DEF Waiting
    <3>3. CASE i = 1
          BY <2>4, <3>1, <3>2, <3>3, TailFacts DEF Pending
    <3>4. CASE i # 1
      <4>1. i - 1 \in DOMAIN waiting' /\ waiting'[i - 1] = f
            BY <2>4, <3>1, <3>2, <3>4, TailFacts
      <4> QED BY <4>1 DEF Pending
    <3> QED BY <3>3, <3>4
  <2> QED BY <1>4, <2>3, <2>4 DEF Recover, SettleMoved
<1>5. CASE SettleUnmoved
      BY <1>0, <1>5, AbandonedIsListed DEF Recover, SettleUnmoved
<1>6. CASE SettleRestore
      BY <1>6 DEF Recover, SettleRestore, Pending
<1>7. CASE SettleLost
      BY <1>0, <1>7, AbandonedIsListed DEF SettleLost
<1>8. CASE Relist \/ UNCHANGED ledgerVars
      BY <1>8 DEF Relist, ledgerVars, Pending
<1> QED BY <1>1, <1>2, <1>3, <1>4, <1>5, <1>6, <1>7, <1>8 DEF LedgerNext, Settle

(* Every accepted removal is answered: its file moves, or is listed again.   *)
THEOREM EveryRequestIsAnswered == LedgerSpec => PendingIsAnswered
<1>1. LedgerInv /\ [LedgerNext]_ledgerVars =>
        [\A f \in Files : Pending(f) /\ ~Pending(f)' /\ place[f] = "folder"
            => f \in listed']_ledgerVars
      BY StepAnswers
<1> QED BY LedgerIsInvariant, <1>1, PTL DEF LedgerSpec, PendingIsAnswered

LEMMA StepKeepsUnknown ==
    ASSUME LedgerInv, [LedgerNext]_ledgerVars
    PROVE  /\ unknown \cap Removals \subseteq unknown'
           /\ unknown # {} => \A f \in Files : Pending(f)' => Pending(f)
<1> USE DEF Removals, None, Operation
<1>1. CASE \E kind \in Removals, g \in Files : Accept(kind, g)
      BY <1>1 DEF Accept
<1>2. CASE StartRestore
      BY <1>2 DEF StartRestore, Pending
<1>3. CASE PlatformActs
  <2>1. /\ waiting' = waiting /\ active'.kind = active.kind
        /\ active'.file = active.file /\ unknown' = unknown
        BY <1>3 DEF PlatformActs, LedgerInv, LedgerTypeOK
  <2> QED BY <2>1 DEF Pending
<1>4. CASE SettleMoved \/ SettleUnmoved
      BY <1>4 DEF Recover, SettleMoved, SettleUnmoved, LedgerInv, UnknownStopsRemovals
<1>5. CASE SettleRestore
      BY <1>5 DEF Recover, SettleRestore, Pending
<1>6. CASE SettleLost
      BY <1>6 DEF SettleLost, Abandon, Pending
<1>7. CASE Relist \/ UNCHANGED ledgerVars
      BY <1>7 DEF Relist, ledgerVars, Pending
<1> QED BY <1>1, <1>2, <1>3, <1>4, <1>5, <1>6, <1>7 DEF LedgerNext, Settle

(* The outcome of a lost removal is never declared known, and from then on   *)
(* nothing is accepted.                                                      *)
THEOREM UnknownStaysUnknown == LedgerSpec => UnknownIsForGood
<1>1. LedgerInv /\ [LedgerNext]_ledgerVars =>
        [/\ unknown \cap Removals \subseteq unknown'
         /\ unknown # {} => \A f \in Files : Pending(f)' => Pending(f)]_ledgerVars
      BY StepKeepsUnknown
<1> QED BY LedgerIsInvariant, <1>1, PTL DEF LedgerSpec, UnknownIsForGood
=============================================================================
