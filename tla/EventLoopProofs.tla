-------------------------- MODULE EventLoopProofs ---------------------------
(***************************************************************************)
(* Three machines around the event loop, each proved for every value of    *)
(* its bounds, by an inductive invariant and one lemma per kind of step.   *)
(*                                                                         *)
(* DeferredClose: that the writers exclude each other is what lets a poll  *)
(* that settles one of them close the window without asking for the        *)
(* others, and that nothing waits without a running move is what lets it   *)
(* ignore the FIFO.                                                        *)
(*                                                                         *)
(* CompletionWake: where a request's wake is follows from where the two    *)
(* threads are with it, so a step disturbs it for one request and the      *)
(* others are as they were.                                                *)
(*                                                                         *)
(* FileCoherence: the watch and its slot are replaced together with the    *)
(* picture they are about.                                                 *)
(***************************************************************************)
EXTENDS DeferredClose, CompletionWake, FileCoherence, TLAPS

-----------------------------------------------------------------------------
(* Deferred close.                                                           *)

(* What the count of outstanding work says of the workers, before and after  *)
(* a step.                                                                   *)
CountsRight ==
    /\ Outstanding \in Nat
    /\ Outstanding = 0 <=> ~Curating /\ ~Saving /\ ~Rating /\ waiting = 0
    /\ ~Saving /\ ~Rating => Outstanding = IF Curating THEN 1 + waiting ELSE waiting

LEMMA OutstandingFacts == CloseTypeOK => CountsRight
BY CloseAssumption DEF CloseTypeOK, Outstanding, CountsRight

LEMMA OutstandingFactsAfter == CloseTypeOK' => CountsRight'
BY OutstandingFacts, PTL

(* The parts of CloseInv that do not count.                                  *)
Accounted == OneFileOperation /\ NoStrandedClose /\ WaitsBehindTrash

LEMMA CloseInitEstablishes == Init => CloseInv
<1> SUFFICES ASSUME Init PROVE CloseInv
    OBVIOUS
<1>1. CloseTypeOK
      <2>1. waiting \in 0..MaxPending /\ owed \in Nat
            BY CloseAssumption DEF Init
      <2> QED BY <2>1, Zenon DEF Init, CloseTypeOK
<1>2. ~Curating /\ ~Saving /\ ~SaveActive /\ ~Rating
      BY DEF Init, Curating, Saving, SaveActive, Rating
<1> QED BY <1>1, <1>2
        DEF Init, CloseInv, OneFileOperation, NoWorkIsCutOff, NoStrandedClose,
            WaitsBehindTrash, OwedIsCounted

(* New work is only accepted with a window and before the exit, when nothing *)
(* is counted.                                                               *)
LEMMA UserPreserves ==
    CloseInv /\ (\/ TrashCurrent \/ PermanentDeleteCurrent \/ UndoTrash \/ SaveAs
                 \/ AnswerOverwrite \/ RequestRating \/ ConfirmRating \/ CancelRating)
        => CloseInv'
<1> SUFFICES ASSUME CloseInv,
                    \/ TrashCurrent \/ PermanentDeleteCurrent \/ UndoTrash \/ SaveAs
                    \/ AnswerOverwrite \/ RequestRating \/ ConfirmRating \/ CancelRating
             PROVE  CloseInv'
    OBVIOUS
<1> USE CloseAssumption
    DEF CloseInv, CloseTypeOK, OneFileOperation, NoStrandedClose, WaitsBehindTrash, Curating,
        Saving, SaveActive, Rating, RatingUnknown, NoCuration, Kinds, Removals, Running,
        UserEvent, Listening, Busy, Accounted
<1>1. UserEvent
      BY DEF TrashCurrent, PermanentDeleteCurrent, UndoTrash, SaveAs, AnswerOverwrite,
             RequestRating, ConfirmRating, CancelRating
<1>2. NoWorkIsCutOff' /\ OwedIsCounted'
      BY <1>1 DEF NoWorkIsCutOff, OwedIsCounted
<1>3. CASE TrashCurrent
      <2>1. CloseTypeOK'
            <3>1. waiting' \in 0..MaxPending
                  BY <1>3 DEF TrashCurrent, HasRoom
            <3>2. \/ curation' = NoCuration
                  \/ curation' \in [kind : Kinds,
                                    state : {"running", "succeeded", "attention", "lost"}]
                  BY <1>3 DEF TrashCurrent
            <3> QED BY <1>3, <3>1, <3>2 DEF TrashCurrent
      <2>2. Accounted'
            BY <1>3 DEF TrashCurrent
      <2> QED BY <1>2, <2>1, <2>2
<1>4. CASE PermanentDeleteCurrent
      <2>1. curation' \in [kind : Kinds,
                            state : {"running", "succeeded", "attention", "lost"}]
            BY <1>4 DEF PermanentDeleteCurrent
      <2>2. CloseTypeOK'
            BY <1>4, <2>1 DEF PermanentDeleteCurrent
      <2> QED BY <1>2, <1>4, <2>2 DEF PermanentDeleteCurrent
<1>5. CASE UndoTrash
      BY <1>2, <1>5 DEF UndoTrash
<1>6. CASE SaveAs
      BY <1>2, <1>6 DEF SaveAs
<1>7. CASE AnswerOverwrite
      BY <1>2, <1>7 DEF AnswerOverwrite
<1>8. CASE RequestRating
      BY <1>2, <1>8 DEF RequestRating
<1>9. CASE ConfirmRating
      BY <1>2, <1>9 DEF ConfirmRating
<1>10. CASE CancelRating
      BY <1>2, <1>10 DEF CancelRating
<1> QED BY <1>3, <1>4, <1>5, <1>6, <1>7, <1>8, <1>9, <1>10

(* Asking to close flags exactly the work that is there.                     *)
LEMMA ClosePreserves == CloseInv /\ (CloseRequested \/ WindowLost) => CloseInv'
<1> SUFFICES ASSUME CloseInv, CloseRequested \/ WindowLost PROVE CloseInv'
    OBVIOUS
<1>1. /\ UNCHANGED <<phase, curation, waiting, save, rating, asked, disclosed, unsettled,
                     lossResult>>
      /\ RequestClose
      /\ window' \in BOOLEAN /\ due' \in BOOLEAN
      /\ owed' \in {owed, Outstanding}
      BY DEF CloseRequested, WindowLost, work, CloseInv, CloseTypeOK
<1>2. UNCHANGED <<Curating, Saving, SaveActive, Rating, Outstanding>>
      BY <1>1 DEF Curating, Saving, SaveActive, Rating, Outstanding
<1>3. CloseTypeOK'
      BY <1>1, OutstandingFacts DEF CloseInv, CloseTypeOK, CountsRight, RequestClose
<1>4. Accounted'
      BY <1>1, <1>2
      DEF CloseInv, Accounted, OneFileOperation, NoStrandedClose, WaitsBehindTrash,
          RequestClose
<1>5. OwedIsCounted'
      BY <1>2, OutstandingFacts
      DEF CloseInv, CountsRight, OwedIsCounted, CloseRequested, WindowLost, Listening
<1>6. exiting' => Outstanding' = 0
      <2>1. SUFFICES ASSUME exiting' PROVE Outstanding = 0
            BY <1>2
      <2>2. ~exiting
            BY DEF CloseRequested, WindowLost, Listening
      <2>3. ~Rating /\ ~Saving /\ ~Curating
            BY <1>1, <2>1, <2>2 DEF RequestClose
      <2>4. waiting = 0
            BY <2>3 DEF CloseInv, CloseTypeOK, WaitsBehindTrash, Curating, NoCuration
      <2> QED BY <2>3, <2>4, OutstandingFacts DEF CloseInv, CountsRight
<1> QED BY <1>3, <1>4, <1>5, <1>6 DEF CloseInv, Accounted, NoWorkIsCutOff

(* A thread that ends leaves its work accepted until a poll settles it.      *)
LEMMA WorkersPreserve == CloseInv /\ WorkerEnds => CloseInv'
<1> SUFFICES ASSUME CloseInv, WorkerEnds PROVE CloseInv'
    OBVIOUS
<1>1. /\ UNCHANGED <<phase, window, waiting, asked, disclosed, unsettled, closeAfter,
                     lossResult, exiting, owed>>
      /\ UNCHANGED <<Curating, Saving, SaveActive, Rating>>
      /\ CloseTypeOK'
      /\ curation'.kind = curation.kind
      <2> USE DEF CloseInv, CloseTypeOK, Curating, Saving, SaveActive, Rating, NoCuration,
                  RatingUnknown, Kinds, Removals
      <2>1. CASE CurationEnds
            BY <2>1 DEF CurationEnds
      <2>2. CASE SaveEnds
            BY <2>2 DEF SaveEnds
      <2>3. CASE RatingEnds
            <3>1. /\ rating = "running"
                  /\ rating' \in {"saved", "unchanged"} \cup RatingUnknown
                  /\ due' \in BOOLEAN
                  /\ UNCHANGED <<phase, window, curation, waiting, save, asked, disclosed,
                                unsettled, closeAfter, lossResult, exiting, owed>>
                  BY <2>3 DEF RatingEnds
            <3>2. rating' # "none"
                  BY <3>1
            <3> QED BY <3>1, <3>2
      <2> QED BY <2>1, <2>2, <2>3 DEF WorkerEnds
<1>2. UNCHANGED Outstanding
      BY <1>1 DEF Outstanding
<1> QED BY <1>1, <1>2
        DEF CloseInv, OneFileOperation, NoWorkIsCutOff, NoStrandedClose, WaitsBehindTrash,
            OwedIsCounted

(* The work that a poll settles is alone: the writers exclude each other and *)
(* nothing waits without a running move to Trash.                            *)
LEMMA SettledAlone ==
    ASSUME CloseInv
    PROVE  /\ Rating => ~Curating /\ ~SaveActive /\ ~Saving /\ waiting = 0
           /\ Saving => ~Curating /\ ~Rating /\ SaveActive /\ waiting = 0
           /\ Curating => ~Saving /\ ~SaveActive /\ ~Rating
           /\ Saving => save \in {"running", "saved", "failed", "lost"}
BY DEF CloseInv, CloseTypeOK, OneFileOperation, WaitsBehindTrash, Curating, Saving,
       SaveActive, Rating, NoCuration

LEMMA RatingPollPreserves == CloseInv /\ PollRating => CloseInv'
<1> SUFFICES ASSUME CloseInv, PollRating PROVE CloseInv'
    OBVIOUS
<1>1. /\ UNCHANGED <<due, window, curation, waiting, save, asked, disclosed>>
      /\ UNCHANGED <<Curating, Saving, SaveActive>>
      BY DEF PollRating, Curating, Saving, SaveActive
<1>2. CASE rating \in {"none", "running"}
      <2>1. UNCHANGED <<rating, unsettled, closeAfter, lossResult, exiting, owed>>
            BY <1>2 DEF PollRating
      <2>2. UNCHANGED <<Rating, Outstanding>>
            BY <1>1, <2>1 DEF Rating, Outstanding
      <2> QED BY <1>1, <2>1, <2>2
              DEF CloseInv, CloseTypeOK, OneFileOperation, NoWorkIsCutOff, NoStrandedClose,
                  WaitsBehindTrash, OwedIsCounted, PollRating
<1>3. CASE rating \notin {"none", "running"}
      <2>1. /\ rating' = "none"
            /\ RecordResult(rating = "saved")
            /\ closeAfter' = closeAfter \ {"rating"}
            /\ unsettled' = IF rating \in RatingUnknown THEN unsettled \cup {"rating"}
                            ELSE unsettled
            /\ IF rating = "saved" THEN Done ELSE UNCHANGED owed
            /\ exiting' \in BOOLEAN
            BY <1>3 DEF PollRating, CloseInv, CloseTypeOK
      <2>2. Rating /\ ~Curating /\ ~SaveActive /\ ~Saving /\ waiting = 0 /\ ~Rating'
            BY <1>3, <2>1, SettledAlone DEF Rating
      <2>3. Outstanding = 1 /\ Outstanding' = 0
            BY <1>1, <2>2 DEF Outstanding
      <2>4. OwedIsCounted' /\ owed' \in Nat /\ lossResult' \in {"Clean", "FileWorkFailed"}
            BY <1>1, <2>1, <2>3
            DEF CloseInv, CloseTypeOK, OwedIsCounted, RecordResult, Observed, Done
      <2>5. CloseTypeOK'
            BY <1>1, <2>1, <2>4 DEF CloseInv, CloseTypeOK, PollRating
      <2> QED BY <1>1, <2>1, <2>2, <2>3, <2>4, <2>5
              DEF CloseInv, OneFileOperation, NoWorkIsCutOff, NoStrandedClose,
                  WaitsBehindTrash
<1> QED BY <1>2, <1>3

LEMMA SavePollPreserves == CloseInv /\ PollSave => CloseInv'
<1> SUFFICES ASSUME CloseInv, PollSave PROVE CloseInv'
    OBVIOUS
<1>1. /\ UNCHANGED <<due, window, curation, waiting, rating, asked, disclosed>>
      /\ UNCHANGED <<Curating, Rating>>
      BY DEF PollSave, Curating, Rating
<1>2. CASE save \in {"none", "confirm", "running"}
      <2>1. UNCHANGED <<save, unsettled, closeAfter, lossResult, exiting, owed>>
            BY <1>2 DEF PollSave
      <2>2. UNCHANGED <<Saving, SaveActive, Outstanding>>
            BY <1>1, <2>1 DEF Saving, SaveActive, Outstanding
      <2> QED BY <1>1, <2>1, <2>2
              DEF CloseInv, CloseTypeOK, OneFileOperation, NoWorkIsCutOff, NoStrandedClose,
                  WaitsBehindTrash, OwedIsCounted, PollSave
<1>3. CASE save \notin {"none", "confirm", "running"}
      <2>1. /\ save' = "none"
            /\ unsettled' = IF save = "lost" THEN unsettled \cup {"save"} ELSE unsettled
            /\ RecordResult(save = "saved")
            /\ IF save = "saved" THEN Done ELSE UNCHANGED owed
            /\ exiting' \in BOOLEAN
            BY <1>3 DEF PollSave, CloseInv, CloseTypeOK
      <2>2. Saving
            BY <1>3 DEF Saving, CloseInv, CloseTypeOK
      <2>3. ~Curating /\ ~Rating /\ waiting = 0 /\ ~Saving' /\ ~SaveActive'
            BY <2>1, <2>2, SettledAlone DEF Saving, SaveActive
      <2>4. Outstanding = 1 /\ Outstanding' = 0
            BY <1>1, <2>2, <2>3 DEF Outstanding
      <2>5. OwedIsCounted' /\ owed' \in Nat /\ lossResult' \in {"Clean", "FileWorkFailed"}
            BY <1>1, <2>1, <2>4
            DEF CloseInv, CloseTypeOK, OwedIsCounted, RecordResult, Observed, Done
      <2>6. closeAfter' \subseteq closeAfter /\ "save" \notin closeAfter'
            BY <1>3, <2>3 DEF PollSave
      <2>7. CloseTypeOK'
            BY <1>1, <2>1, <2>5, <2>6 DEF CloseInv, CloseTypeOK, PollSave
      <2> QED BY <1>1, <2>1, <2>2, <2>3, <2>4, <2>5, <2>6, <2>7
              DEF CloseInv, OneFileOperation, NoWorkIsCutOff, NoStrandedClose,
                  WaitsBehindTrash
<1> QED BY <1>2, <1>3

(* A success starts the next move and exits only if there is none; every     *)
(* other end withdraws the close.                                            *)
LEMMA CurationPollPreserves == CloseInv /\ PollCuration => CloseInv'
<1> SUFFICES ASSUME CloseInv, PollCuration PROVE CloseInv'
    OBVIOUS
<1>1. /\ UNCHANGED <<due, window, save, rating, asked, disclosed>>
      /\ UNCHANGED <<Saving, SaveActive, Rating>>
      /\ phase' = "save"
      BY DEF PollCuration, Saving, SaveActive, Rating
<1>2. CASE UNCHANGED <<curation, waiting, unsettled, closeAfter, lossResult, exiting, owed>>
      <2>1. UNCHANGED <<Curating, Outstanding>>
            BY <1>1, <1>2 DEF Curating, Outstanding
      <2> QED BY <1>1, <1>2, <2>1
              DEF CloseInv, CloseTypeOK, OneFileOperation, NoWorkIsCutOff, NoStrandedClose,
                  WaitsBehindTrash, OwedIsCounted
<1>3. ASSUME CurationSucceeded \/ CurationNeedsAttention \/ CurationDisconnected
      PROVE  CloseInv'
      <2>1. /\ Curating /\ ~Saving /\ ~SaveActive /\ ~Rating
            /\ curation.kind \in Kinds
            /\ ~exiting
            <3>1. Curating /\ curation.kind \in Kinds
                  BY <1>3
                  DEF CloseInv, CloseTypeOK, CurationSucceeded, CurationNeedsAttention,
                      CurationDisconnected, CurationClose, RecordResult, Observed, Done,
                      Curating, NoCuration
            <3> QED BY <3>1, SettledAlone, OutstandingFacts DEF CloseInv, CountsRight, NoWorkIsCutOff
      <2>2. /\ waiting \in 0..MaxPending /\ owed \in Nat /\ window \in BOOLEAN
            /\ waiting > 0 => curation.kind = "Trash"
            /\ lossResult \in {"Clean", "FileWorkFailed"}
            /\ closeAfter \subseteq {"rating", "curation", "save"}
            BY DEF CloseInv, CloseTypeOK, WaitsBehindTrash
      <2>3. \/ /\ waiting > 0 /\ waiting' = waiting - 1
               /\ curation' = Running("Trash")
               /\ UNCHANGED <<closeAfter, exiting>>
               /\ lossResult' \in {lossResult, "FileWorkFailed"}
               /\ owed' = IF window THEN owed ELSE owed - 1
            \/ /\ waiting = 0 /\ waiting' = 0
               /\ curation' = NoCuration
               /\ closeAfter' \subseteq closeAfter \ {"curation"}
               /\ lossResult' \in {lossResult, "FileWorkFailed"}
               /\ owed' = IF window THEN owed ELSE owed - 1
            \/ /\ waiting' = 0
               /\ curation' = NoCuration
               /\ closeAfter' \subseteq closeAfter \ {"curation"}
               /\ lossResult' = IF window THEN lossResult ELSE "FileWorkFailed"
               /\ owed' \in {owed, IF window THEN owed ELSE owed - 1}
            <3>1. CASE CurationSucceeded
                  BY <2>1, <2>2, <3>1
                  DEF CurationSucceeded, CurationClose, RecordResult, Observed, Done
            <3>2. CASE CurationNeedsAttention
                  BY <2>1, <2>2, <3>2
                  DEF CurationNeedsAttention, CurationClose, RecordResult, Observed
            <3>3. CASE CurationDisconnected
                  BY <2>1, <2>2, <3>3 DEF CurationDisconnected, RecordResult, Observed
            <3> QED BY <1>3, <3>1, <3>2, <3>3
      <2>4. /\ waiting' \in 0..MaxPending
            /\ waiting' > 0 => curation' = Running("Trash")
            /\ Curating' <=> curation' = Running("Trash")
            /\ "curation" \in closeAfter' => Curating'
            /\ closeAfter' \subseteq closeAfter
            /\ lossResult' \in {"Clean", "FileWorkFailed"}
            BY <2>2, <2>3, CloseAssumption DEF Curating, NoCuration, Running
      <2>5. Outstanding = 1 + waiting /\ Outstanding \in Nat
            BY <2>1, OutstandingFacts DEF CloseInv, CountsRight
      <2>6. ~window => owed >= 1 + waiting
            BY <2>5 DEF CloseInv, OwedIsCounted
      <2>7. owed' \in Nat
            BY <2>2, <2>3, <2>6
      <2>8. exiting' \in BOOLEAN /\ unsettled' \subseteq Kinds \cup {"save", "rating"}
            BY <1>3, <2>1
            DEF CloseInv, CloseTypeOK, CurationSucceeded, CurationNeedsAttention,
                CurationDisconnected, CurationClose, RecordResult, Observed, Done
      <2>9. \/ curation' = NoCuration
            \/ curation' \in [kind : Kinds,
                              state : {"running", "succeeded", "attention", "lost"}]
            BY <2>3 DEF Running, Kinds, Removals
      <2>10. CloseTypeOK'
            BY <1>1, <2>4, <2>7, <2>8, <2>9 DEF CloseInv, CloseTypeOK
      <2>11. Outstanding' = IF Curating' THEN 1 + waiting' ELSE waiting'
            BY <1>1, <2>1, <2>10, OutstandingFactsAfter DEF CountsRight
      <2>12. OwedIsCounted'
            <3>1. ~window => owed >= 1 + waiting
                             /\ (lossResult = "Clean" => owed = 1 + waiting)
                  BY <2>5 DEF CloseInv, OwedIsCounted
            <3>2. ~window => owed' >= Outstanding'
                             /\ (lossResult' = "Clean" => owed' = Outstanding')
                  BY <2>2, <2>3, <2>4, <2>11, <3>1 DEF Curating, NoCuration, Running
            <3> QED BY <1>1, <3>2 DEF OwedIsCounted
      <2>13. OneFileOperation' /\ NoStrandedClose' /\ WaitsBehindTrash'
            BY <1>1, <2>1, <2>4
            DEF CloseInv, OneFileOperation, NoStrandedClose, WaitsBehindTrash, Running
      <2>14. NoWorkIsCutOff'
            <3>1. exiting' => ~Curating'
                  BY <1>3, <2>1
                  DEF CurationSucceeded, CurationNeedsAttention, CurationDisconnected,
                      CurationClose, RecordResult, Observed, Done, Curating
            <3>2. ~Curating' => waiting' = 0
                  BY <2>2, <2>4
            <3> QED BY <2>11, <3>1, <3>2 DEF NoWorkIsCutOff
      <2> QED BY <2>10, <2>12, <2>13, <2>14 DEF CloseInv
<1> QED BY <1>2, <1>3
        DEF PollCuration, CurationSucceeded, CurationNeedsAttention, CurationDisconnected

LEMMA CloseTurnPreserves == CloseInv /\ (BeginTurn \/ EndTurn) => CloseInv'
<1> SUFFICES ASSUME CloseInv, BeginTurn \/ EndTurn PROVE CloseInv'
    OBVIOUS
<1>1. UNCHANGED <<window, curation, waiting, save, rating, asked, disclosed, unsettled,
                  closeAfter, lossResult, owed>>
      BY DEF BeginTurn, EndTurn, work
<1>2. UNCHANGED <<Curating, Saving, SaveActive, Rating, Outstanding>>
      BY <1>1 DEF Curating, Saving, SaveActive, Rating, Outstanding
<1>3. CloseTypeOK'
      <2>1. phase' \in {"events", "rating"}
            BY DEF BeginTurn, EndTurn
      <2>2. exiting' \in BOOLEAN /\ due' \in BOOLEAN
            BY DEF CloseInv, CloseTypeOK, BeginTurn, EndTurn
      <2> QED BY <1>1, <2>1, <2>2 DEF CloseInv, CloseTypeOK
<1>4. NoWorkIsCutOff'
      <2>1. ~Curating => waiting = 0
            BY DEF CloseInv, CloseTypeOK, WaitsBehindTrash, Curating, NoCuration
      <2> QED BY <1>2, <2>1, OutstandingFacts
              DEF CloseInv, CountsRight, NoWorkIsCutOff, BeginTurn, EndTurn
<1> QED BY <1>1, <1>2, <1>3, <1>4
        DEF CloseInv, OneFileOperation, NoStrandedClose, WaitsBehindTrash, OwedIsCounted

LEMMA CloseStepPreserves == CloseInv /\ [Next]_vars => CloseInv'
<1>1. CASE UNCHANGED vars
      BY <1>1 DEF vars, CloseInv, CloseTypeOK, OneFileOperation, NoWorkIsCutOff,
                  NoStrandedClose, WaitsBehindTrash, OwedIsCounted, Outstanding, Curating,
                  Saving, SaveActive, Rating
<1> QED BY <1>1, UserPreserves, ClosePreserves, WorkersPreserve, RatingPollPreserves,
           CurationPollPreserves, SavePollPreserves, CloseTurnPreserves
        DEF Next, Polls

THEOREM CloseIsInvariant == Spec => []CloseInv
BY CloseInitEstablishes, CloseStepPreserves, PTL DEF Spec

(* No two writers of image files are ever accepted together.                 *)
THEOREM WritersExcludeEachOther == Spec => []OneFileOperation
BY CloseIsInvariant, PTL DEF CloseInv

(* The process never exits with accepted work left, however much may wait.   *)
THEOREM NothingIsCutOff == Spec => []NoWorkIsCutOff
BY CloseIsInvariant, PTL DEF CloseInv

(* A deferred close always has work left that will carry it out or cancel it. *)
THEOREM CloseIsNeverStranded == Spec => []NoStrandedClose
BY CloseIsInvariant, PTL DEF CloseInv

(* A windowless process reports success only when all that was owed is done. *)
THEOREM CleanExitIsHonest == Spec => []CleanExitMeansDone
<1>1. CloseInv => CleanExitMeansDone
      BY OutstandingFacts
      DEF CloseInv, CountsRight, NoWorkIsCutOff, OwedIsCounted, CleanExitMeansDone
<1> QED BY <1>1, CloseIsInvariant, PTL

(* No step both ends an operation badly and closes the window: only the      *)
(* polls exit while there is a window, each only on a success.               *)
LEMMA StepKeepsWindow ==
    CloseInv /\ Next => (window /\ ~exiting /\ exiting' =>
        /\ unsettled' \subseteq unsettled
        /\ Curating /\ ~Curating' => curation.state = "succeeded" /\ waiting = 0
        /\ Saving /\ ~Saving' => save = "saved")
<1> SUFFICES ASSUME CloseInv, Next, window, ~exiting, exiting'
             PROVE  /\ unsettled' \subseteq unsettled
                    /\ Curating /\ ~Curating' => curation.state = "succeeded" /\ waiting = 0
                    /\ Saving /\ ~Saving' => save = "saved"
    OBVIOUS
<1> USE DEF CloseInv, CloseTypeOK, WaitsBehindTrash, Curating, Saving
<1>1. CASE CloseRequested
      BY <1>1 DEF CloseRequested, work
<1>2. CASE WindowLost
      BY <1>2 DEF WindowLost, work
<1>3. CASE PollRating
      BY <1>3 DEF PollRating
<1>4. CASE PollCuration
      <2>1. CurationSucceeded
            BY <1>4
            DEF PollCuration, CurationSucceeded, CurationNeedsAttention,
                CurationDisconnected, CurationClose, RecordResult, Observed, Done
      <2>2. /\ curation.state = "succeeded"
            /\ unsettled' \subseteq unsettled
            /\ curation' = NoCuration => waiting = 0
            <3>1. waiting \in Nat /\ (waiting > 0 => curation.kind = "Trash")
                  BY CloseAssumption
            <3>2. curation.state = "succeeded" /\ unsettled' = unsettled \ {curation.kind}
                  BY <2>1 DEF CurationSucceeded
            <3>3. waiting = 0 \/ curation.kind # "Trash" \/ curation' = Running("Trash")
                  BY <2>1, <3>1
                  DEF CurationSucceeded, CurationClose, RecordResult, Observed, Done
            <3>4. Running("Trash") # NoCuration
                  BY DEF Running, NoCuration
            <3> QED BY <3>1, <3>2, <3>3, <3>4
      <2>3. UNCHANGED save
            BY <1>4 DEF PollCuration
      <2> QED BY <2>2, <2>3
<1>5. CASE PollSave
      BY <1>5 DEF PollSave
<1>6. CASE EndTurn
      BY <1>6 DEF EndTurn
<1>7. ~(\/ TrashCurrent \/ PermanentDeleteCurrent \/ UndoTrash \/ SaveAs
        \/ AnswerOverwrite \/ RequestRating \/ ConfirmRating \/ CancelRating)
      BY DEF TrashCurrent, PermanentDeleteCurrent, UndoTrash, SaveAs, AnswerOverwrite,
             RequestRating, ConfirmRating, CancelRating, UserEvent
<1>8. ~(WorkerEnds \/ BeginTurn)
      BY DEF WorkerEnds, CurationEnds, SaveEnds, RatingEnds, BeginTurn
<1> QED BY <1>1, <1>2, <1>3, <1>4, <1>5, <1>6, <1>7, <1>8 DEF Next, Polls

THEOREM FailureNeverCloses == Spec => FailureKeepsWindowOpen
<1>1. CloseInv /\ [Next]_vars =>
        [window /\ ~exiting /\ exiting' =>
            /\ unsettled' \subseteq unsettled
            /\ Curating /\ ~Curating' => curation.state = "succeeded" /\ waiting = 0
            /\ Saving /\ ~Saving' => save = "saved"]_vars
      BY StepKeepsWindow
<1> QED BY <1>1, CloseIsInvariant, PTL DEF Spec, FailureKeepsWindowOpen

-----------------------------------------------------------------------------
(* Completion wake-ups.                                                      *)

LEMMA WakeInitEstablishes == WakeInit => WakeInv
<1> SUFFICES ASSUME WakeInit PROVE WakeInv
    OBVIOUS
<1>1. WakeTypeOK
      BY DEF WakeInit, WakeTypeOK
<1>2. LoopInv
      BY DEF WakeInit, LoopInv
<1>3. ASSUME NEW r \in Requests
      PROVE  owner[r] = "none" /\ current # r /\ Unsubmitted(r) /\ ChannelInv(r)
      <2>1. notify[r]
            BY Zenon DEF WakeInit
      <2> QED BY <2>1, WakeAssumption DEF WakeInit, Unsubmitted, ChannelInv
<1> QED BY <1>1, <1>2, <1>3 DEF WakeInv

(* The call, made by whoever claimed it, leaves the other requests alone.    *)
LEMMA CallFacts ==
    ASSUME NEW r \in Requests, WakeTypeOK, notify[r], woken[r] = 0, Call(r)
    PROVE  /\ mail' = TRUE
           /\ notify' \in [Requests -> BOOLEAN]
           /\ ~notify'[r]
           /\ \A s \in Requests : s # r => notify'[s] = notify[s]
           /\ woken' \in [Requests -> Nat]
           /\ woken'[r] = 1
           /\ \A s \in Requests : s # r => woken'[s] = woken[s]
<1>1. /\ notify' = [notify EXCEPT ![r] = FALSE]
      /\ mail' = TRUE
      /\ woken' = [woken EXCEPT ![r] = @ + 1]
      BY Zenon DEF Call
<1>2. /\ notify \in [Requests -> BOOLEAN]
      /\ woken \in [Requests -> Nat]
      BY DEF WakeTypeOK
<1>3. /\ notify' \in [Requests -> BOOLEAN]
      /\ ~notify'[r]
      /\ \A s \in Requests : s # r => notify'[s] = notify[s]
      BY <1>1, <1>2, Zenon
<1>4. /\ woken' \in [Requests -> Nat]
      /\ woken'[r] = 1
      /\ \A s \in Requests : s # r => woken'[s] = woken[s]
      BY <1>1, <1>2
<1> QED BY <1>1, <1>3, <1>4

(* A turn's beginning, its polls and its end move no request but its owner.  *)
LEMMA WakeTurnPreserves ==
    WakeInv /\ (TakeEvents \/ Poll \/ Sleep) => WakeInv'
<1> SUFFICES ASSUME WakeInv, TakeEvents \/ Poll \/ Sleep
             PROVE  WakeInv'
    OBVIOUS
<1> USE DEF WakeInv, LoopInv, Unsubmitted, SubmittingInv, SubmittedInv, ChannelInv
<1>1. CASE TakeEvents
  <2>1. /\ at = "asleep" /\ at' = "awake" /\ mail' = FALSE
        /\ UNCHANGED <<back, current, unpolled, owner, channel, task, wake, notify, woken>>
        BY <1>1 DEF TakeEvents
  <2>2. WakeTypeOK' /\ LoopInv'
        BY <2>1 DEF WakeTypeOK
  <2> QED BY <2>1, <2>2
<1>2. CASE BeginPoll
      BY <1>2 DEF BeginPoll, WakeTypeOK, Installed
<1>3. CASE \E r \in Requests : PollOne(r)
      BY <1>3 DEF PollOne, WakeTypeOK
<1>4. CASE Sleep
      BY <1>4 DEF Sleep, WakeTypeOK
<1> QED BY <1>1, <1>2, <1>3, <1>4 DEF Poll

LEMMA RequestPreserves ==
    ASSUME NEW r \in Requests, WakeInv, Request(r)
    PROVE  WakeInv'
BY WakeAssumption
   DEF Request, WakeInv, LoopInv, Unsubmitted, SubmittingInv, SubmittedInv, ChannelInv,
       WakeTypeOK

LEMMA SchedulePreserves == WakeInv /\ Schedule => WakeInv'
<1> SUFFICES ASSUME WakeInv, Schedule PROVE WakeInv'
    OBVIOUS
<1> USE WakeAssumption
    DEF WakeInv, LoopInv, Unsubmitted, SubmittingInv, SubmittedInv, ChannelInv, WakeTypeOK
<1>1. CASE Accepted
      BY <1>1 DEF Accepted
<1>2. CASE Refused
      BY <1>2 DEF Refused
<1>3. CASE RejectWake
      BY <1>3 DEF RejectWake
<1>4. CASE Install
      BY <1>4 DEF Install
<1>5. CASE Arm
      BY <1>5 DEF Arm
<1>6. CASE ArmFires
      BY <1>6 DEF ArmFires
<1>7. CASE ArmCalls
      <2>1. current \in Requests /\ notify[current] /\ woken[current] = 0
            BY <1>7 DEF ArmCalls
      <2>2. WakeTypeOK /\ Call(current)
            BY <1>7 DEF ArmCalls
      <2>3. /\ mail' = TRUE
            /\ notify' \in [Requests -> BOOLEAN]
            /\ ~notify'[current]
            /\ \A s \in Requests : s # current => notify'[s] = notify[s]
            /\ woken' \in [Requests -> Nat]
            /\ woken'[current] = 1
            /\ \A s \in Requests : s # current => woken'[s] = woken[s]
            BY <2>1, <2>2, CallFacts
      <2> QED BY <1>7, <2>1, <2>3 DEF ArmCalls
<1> QED BY <1>1, <1>2, <1>3, <1>4, <1>5, <1>6, <1>7 DEF Schedule

LEMMA WorkPreserves ==
    ASSUME NEW r \in Requests, WakeInv, Work(r)
    PROVE  WakeInv'
<1> USE WakeAssumption
    DEF WakeInv, LoopInv, Unsubmitted, SubmittingInv, SubmittedInv, ChannelInv, WakeTypeOK
<1>1. CASE Start(r)
      BY <1>1 DEF Start
<1>2. CASE Complete(r)
      BY <1>2 DEF Complete
<1>3. CASE DropCompletion(r)
      BY <1>3 DEF DropCompletion
<1>4. CASE Signal(r)
      BY <1>4 DEF Signal
<1>5. CASE SignalFires(r)
      BY <1>5 DEF SignalFires
<1>6. CASE SignalCalls(r)
      <2>1. current # r /\ notify[r] /\ woken[r] = 0
            BY <1>6 DEF SignalCalls
      <2>2. WakeTypeOK /\ Call(r)
            BY <1>6 DEF SignalCalls
      <2>3. /\ mail' = TRUE
            /\ notify' \in [Requests -> BOOLEAN]
            /\ ~notify'[r]
            /\ \A s \in Requests : s # r => notify'[s] = notify[s]
            /\ woken' \in [Requests -> Nat]
            /\ woken'[r] = 1
            /\ \A s \in Requests : s # r => woken'[s] = woken[s]
            BY <2>1, <2>2, CallFacts
      <2>4. /\ task[r] = "call" /\ task' = [task EXCEPT ![r] = "done"]
            /\ UNCHANGED <<at, back, current, unpolled, owner, channel, wake>>
            BY <1>6 DEF SignalCalls
      <2>5. WakeTypeOK' /\ LoopInv'
            BY <2>3, <2>4
      <2>6. wake[r] = "fired" /\ owner[r] # "none"
            BY <2>1, <2>4
      <2>7. SubmittedInv(r)' /\ ChannelInv(r)'
            BY <2>3, <2>4, <2>6
      <2>8. ASSUME NEW s \in Requests, s # r
            PROVE  /\ task'[s] = task[s]
                   /\ notify'[s] = notify[s]
                   /\ woken'[s] = woken[s]
            BY <2>3, <2>4, <2>8
      <2> QED BY <2>1, <2>4, <2>5, <2>6, <2>7, <2>8
<1> QED BY <1>1, <1>2, <1>3, <1>4, <1>5, <1>6 DEF Work

LEMMA WakeStepPreserves == WakeInv /\ [WakeNext]_wakeVars => WakeInv'
<1>1. CASE UNCHANGED wakeVars
      BY <1>1 DEF wakeVars, WakeInv, WakeTypeOK, LoopInv, Unsubmitted, SubmittingInv,
                  SubmittedInv, ChannelInv
<1> QED BY <1>1, WakeTurnPreserves, RequestPreserves, SchedulePreserves, WorkPreserves DEF WakeNext

(* Every state a request and its two threads can reach is one WakeInv        *)
(* describes.                                                                *)
THEOREM WakeIsInvariant == WakeSpec => []WakeInv
BY WakeInitEstablishes, WakeStepPreserves, PTL DEF WakeSpec

(* A wake-up comes once, after the owner is installed and its result can be  *)
(* found, and never for a request that was refused.                          *)
THEOREM WakeAlwaysFindsItsResult == WakeSpec => []WakeFindsItsResult
<1>1. WakeInv => WakeFindsItsResult
      BY DEF WakeInv, WakeTypeOK, LoopInv, Unsubmitted, SubmittingInv, SubmittedInv,
             ChannelInv, WakeFindsItsResult
<1> QED BY <1>1, WakeIsInvariant, PTL

(* The worker and the loop never both claim the call, and the claimant finds *)
(* the callback.                                                             *)
THEOREM CallIsAlwaysClaimedOnce == WakeSpec => []CallIsClaimedOnce
<1>1. WakeInv => CallIsClaimedOnce
      BY DEF WakeInv, WakeTypeOK, LoopInv, Unsubmitted, SubmittingInv, SubmittedInv,
             CallIsClaimedOnce
<1> QED BY <1>1, WakeIsInvariant, PTL

-----------------------------------------------------------------------------
(* File coherence.                                                           *)

LEMMA CoherenceInitEstablishes == CoherenceInit => WatchInv
<1> SUFFICES ASSUME CoherenceInit PROVE WatchInv
    OBVIOUS
<1>1. /\ selected = "first" /\ presented = disk[selected]
      /\ watch = NewWatch(selected, presented)
      /\ slot = Nothing /\ touched = FALSE /\ stamp = 0
      BY DEF CoherenceInit
<1>2. NoStamp \in Nat /\ Nothing \in Observations
      BY CoherenceAssumption DEF NoStamp, Nothing, Observations, Difference
<1> QED BY <1>1, <1>2 DEF WatchInv, WatchTypeOK, NewWatch, Nothing, Difference

(* A watch that was just installed has seen nothing and reported nothing.    *)
LEMMA FreshWatch ==
    ASSUME watch' = NewWatch(selected', presented'), slot' = Nothing,
           touched' \in BOOLEAN, stamp' \in Nat, disk'[selected'] # presented' => touched'
    PROVE  WatchInv'
<1>1. NoStamp \in Nat /\ Nothing \in Observations
      BY CoherenceAssumption DEF NoStamp, Nothing, Observations, Difference
<1> QED BY <1>1 DEF WatchInv, WatchTypeOK, NewWatch, Nothing, Difference

(* A step that leaves the watch and its slot alone keeps what they say,      *)
(* unless it forgets that the disk has changed.                              *)
LEMMA SameWatch ==
    ASSUME WatchInv, UNCHANGED <<selected, presented, watch, slot>>,
           touched' \in BOOLEAN, stamp' \in Nat, touched => touched',
           disk'[selected] # presented => touched'
    PROVE  WatchInv'
BY DEF WatchInv, WatchTypeOK, Difference, Nothing

LEMMA OthersPreserve == WatchInv /\ Others => WatchInv'
<1> SUFFICES ASSUME WatchInv, Others PROVE WatchInv'
    OBVIOUS
<1>1. Change /\ stamp' \in Nat
      BY DEF WatchInv, WatchTypeOK, Others, OthersEdit, OthersReplace, OthersMove
<1> QED BY <1>1, SameWatch DEF Change, frame, watches, WatchInv, WatchTypeOK

LEMMA TicksPreserve == WatchInv /\ WatchTicks => WatchInv'
<1> SUFFICES ASSUME WatchInv, WatchTicks PROVE WatchInv'
    OBVIOUS
<1>1. UNCHANGED <<disk, stamp, selected, presented, load, touched>>
      BY DEF WatchTicks, WatchSource, WatchFolder, WatchKeeps, others, frame
<1>2. CASE WatchSource
  <2>0. watch.path = selected /\ watch.source = presented
        BY DEF WatchInv, WatchTypeOK
  <2>1. /\ watch' = [watch EXCEPT !.at = "folder", !.seen = Compared]
        /\ slot' = slot
        BY <1>2 DEF WatchSource
  <2>2. /\ Compared \in Difference \cup {"Unchanged"}
        /\ Compared \in Difference => disk[selected] # presented
        BY <2>0 DEF Compared, Difference
  <2>3. /\ watch' \in [path : {selected}, source : {presented}, at : {"source", "folder"},
                       seen : Difference \cup {"none", "Unchanged"}, stamp : Nat,
                       last : Observations]
        /\ watch'.seen = Compared
        BY <2>1, <2>2 DEF WatchInv, WatchTypeOK
  <2>4. WatchTypeOK'
        BY <1>1, <2>1, <2>2, <2>3 DEF WatchInv, WatchTypeOK, Difference
  <2> QED BY <1>1, <2>1, <2>2, <2>3, <2>4 DEF WatchInv, Difference
<1>3. CASE WatchFolder
  <2> DEFINE moved == watch.stamp # NoStamp /\ watch.stamp # stamp
             next  == [source |-> watch.seen,
                       folder |-> IF moved THEN "Changed" ELSE "Unchanged"]
  <2>1. /\ watch.at = "folder"
        /\ watch' = [watch EXCEPT !.at = "source", !.stamp = stamp, !.last = next]
        /\ slot' \in {slot, Merged(slot, next)}
        BY <1>3 DEF WatchFolder
  <2>2. next.source \in {"Missing", "Replaced", "Unchanged"}
        BY <2>1 DEF WatchInv, WatchTypeOK, Difference
  <2> HIDE DEF next
  <2>3. /\ slot' \in Observations
        /\ slot'.source = "none" => slot' = Nothing
        /\ slot'.source \in Difference =>
             slot.source \in Difference \/ next.source \in Difference
    <3>1. CASE slot' = slot
          BY <3>1 DEF WatchInv, WatchTypeOK
    <3>2. CASE slot = Nothing /\ slot' = next
          BY <2>2, <3>2 DEF Difference, Observations, next
    <3>3. CASE /\ slot # Nothing
               /\ slot' = [source |-> Stronger(slot.source, next.source),
                           folder |-> Stronger(slot.folder, next.folder)]
      <4>1. slot.source \in {"Missing", "Replaced", "Unchanged"}
            BY <3>3 DEF WatchInv, WatchTypeOK, Difference, Observations
      <4>2. /\ Stronger(slot.source, next.source) \in {"Missing", "Replaced", "Unchanged"}
            /\ Stronger(slot.source, next.source) \in Difference =>
                 slot.source \in Difference \/ next.source \in Difference
            BY <2>2, <4>1 DEF Stronger, Difference
      <4>3. Stronger(slot.folder, next.folder) \in {"none", "Unchanged", "Changed"}
            BY DEF Stronger, WatchInv, WatchTypeOK, Observations, next
      <4> QED BY <3>3, <4>2, <4>3 DEF Difference, Observations
    <3> QED BY <2>1, <3>1, <3>2, <3>3 DEF Merged
  <2>4. next \in Observations /\ next.source = watch.seen
        BY <2>2 DEF next, Observations, Difference
  <2>5. /\ watch' \in [path : {selected}, source : {presented}, at : {"source", "folder"},
                       seen : Difference \cup {"none", "Unchanged"}, stamp : Nat,
                       last : Observations]
        /\ watch'.seen = watch.seen /\ watch'.at = "source"
        BY <2>1, <2>4 DEF WatchInv, WatchTypeOK
  <2> QED BY <1>1, <2>3, <2>4, <2>5 DEF WatchInv, WatchTypeOK, Difference
<1> QED BY <1>2, <1>3 DEF WatchTicks

(* A picture is presented together with a watch on it.                       *)
LEMMA LoadPreserves == WatchInv /\ LoadRuns => WatchInv'
<1> SUFFICES ASSUME WatchInv, LoadRuns PROVE WatchInv'
    OBVIOUS
<1>1. CASE OpenFile \/ DecodeFails
  <2>1. /\ UNCHANGED <<disk, stamp, selected, presented, watch, slot, touched>>
        BY <1>1 DEF OpenFile, DecodeFails, LoadFails, others, watches, history
  <2> QED BY <2>1, SameWatch DEF WatchInv, WatchTypeOK
<1>2. CASE Present
  <2>1. stamp \in Nat
        BY DEF WatchInv, WatchTypeOK
  <2> QED BY <1>2, <2>1, FreshWatch DEF Present, others
<1> QED BY <1>1, <1>2 DEF LoadRuns

LEMMA EventsPreserve ==
    WatchInv /\ (EditPixels \/ PressReload \/ StartWork \/ FinishWork \/ ListFolder)
        => WatchInv'
<1> SUFFICES ASSUME WatchInv,
                    EditPixels \/ PressReload \/ StartWork \/ FinishWork \/ ListFolder
             PROVE  WatchInv'
    OBVIOUS
<1>1. /\ UNCHANGED <<disk, stamp, selected, presented, watch, slot, touched>>
      BY DEF EditPixels, PressReload, StartWork, FinishWork, ListFolder, Reload, others,
             frame, watches, history
<1> QED BY <1>1, SameWatch DEF WatchInv, WatchTypeOK

LEMMA PollWatchPreserves == WatchInv /\ PollWatch => WatchInv'
<1> SUFFICES ASSUME WatchInv, PollWatch PROVE WatchInv'
    OBVIOUS
<1>1. /\ UNCHANGED <<disk, stamp, selected, presented, watch, touched>>
      /\ slot' = Nothing
      BY DEF PollWatch, IgnoreWhileBusy, Act, Reload, others, frame
<1> QED BY <1>1 DEF WatchInv, WatchTypeOK, Nothing, Difference, Observations

(* A rename is followed with a new watch; nothing else of a scan touches it. *)
LEMMA ScanPreserves == WatchInv /\ FinishScan => WatchInv'
<1> SUFFICES ASSUME WatchInv, FinishScan PROVE WatchInv'
    OBVIOUS
<1>1. disk' = disk /\ stamp' = stamp
      BY DEF FinishScan, others
<1>2. ASSUME NEW p \in Folder, FollowRename(p)
      PROVE  WatchInv'
  <2>1. /\ watch' = NewWatch(selected', presented') /\ slot' = Nothing
        /\ selected' = p /\ presented' = presented
        /\ touched' = (touched \/ disk[p] # presented)
        BY <1>2 DEF FollowRename
  <2> QED BY <1>1, <2>1, FreshWatch DEF WatchInv, WatchTypeOK
<1>3. CASE SettleGone
  <2>1. /\ UNCHANGED <<selected, presented, watch, slot, touched>>
          BY <1>3 DEF SettleGone, Reload, watches, frame
  <2> QED BY <1>1, <2>1, SameWatch DEF WatchInv, WatchTypeOK
<1> QED BY <1>2, <1>3 DEF FinishScan

LEMMA CoherenceStepPreserves == WatchInv /\ [CoherenceNext]_coherenceVars => WatchInv'
<1>1. CASE UNCHANGED coherenceVars
      BY <1>1 DEF coherenceVars, others, frame, watches, history, WatchInv, WatchTypeOK
<1> QED BY <1>1, OthersPreserve, TicksPreserve, LoadPreserves, EventsPreserve,
           PollWatchPreserves, ScanPreserves DEF CoherenceNext

(* What the watch saw, and what waits in the slot, is about the picture that *)
(* is shown now.                                                             *)
THEOREM WatchIsAboutTheShownFile == CoherenceSpec => []WatchInv
BY CoherenceInitEstablishes, CoherenceStepPreserves, PTL DEF CoherenceSpec

(* A reload that nobody asked for has a reason on disk.                      *)
THEOREM SilentReloadIsWarranted == CoherenceSpec => ReloadIsWarranted
<1>1. WatchInv /\ PollWatch /\ load.at = "none" /\ load'.at = "open" => touched
  <2> SUFFICES ASSUME WatchInv, PollWatch, load.at = "none", load'.at = "open"
               PROVE  touched
      OBVIOUS
  <2>1. SourceAction = "ReloadCurrent" /\ slot # Nothing
        BY DEF PollWatch, IgnoreWhileBusy, Act, frame, Reload
  <2>2. slot.source \in Difference
        BY <2>1 DEF SourceAction, WatchInv, WatchTypeOK, Difference, Observations
  <2> QED BY <2>2 DEF WatchInv
<1>2. WatchInv /\ [CoherenceNext]_coherenceVars =>
        [PollWatch /\ load.at = "none" /\ load'.at = "open" => touched]_coherenceVars
      BY <1>1
<1> QED BY <1>2, WatchIsAboutTheShownFile, PTL DEF CoherenceSpec, ReloadIsWarranted
=============================================================================
