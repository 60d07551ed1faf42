---------------------------- MODULE DeferredClose ----------------------------
(***************************************************************************)
(* Closing viewr while file work is accepted: crates/viewr/src/app.rs with *)
(* the policies of curation_state.rs, save_state.rs and rating_state.rs.   *)
(*                                                                         *)
(* Three workers write files: curation (with a FIFO of moves to Trash      *)
(* behind it), Save As and the rating write.  A close that finds one of    *)
(* them active is deferred by a flag of that worker; the poll that settles *)
(* the worker consumes the flag.  The window itself may vanish first: then *)
(* there is nobody to tell, accepted work still finishes, and a failure is *)
(* reported by the exit status.                                            *)
(*                                                                         *)
(* One turn of the event loop takes the events of the user and the window  *)
(* system and then runs about_to_wait: the three polls in order and, with  *)
(* no window, the exit check.  Workers end at any moment of a turn.        *)
(* Between turns the loop sleeps until an event comes (ControlFlow::Wait); *)
(* the wake-up of a worker is one.                                         *)
(***************************************************************************)
EXTENDS Naturals, FiniteSets

CONSTANT MaxPending   (* bound of the Trash FIFO: MAX_PENDING_TRASH, 256     *)

ASSUME CloseAssumption == MaxPending \in Nat

VARIABLES
    phase,       (* where the event loop is in its turn                      *)
    due,         (* an event was sent that no turn has taken: a turn is due  *)
    window,      (* renderer.is_some()                                       *)
    curation,    (* curation_worker: [kind, state]                           *)
    waiting,     (* pending_trash.len()                                      *)
    save,        (* pending_save and save_job                                *)
    rating,      (* rating_write_worker                                      *)
    asked,       (* pending_rating_write: the disclosure dialog is open      *)
    disclosed,   (* rating_write_disclosed                                   *)
    unsettled,   (* curation_recovery, save_ and rating_recovery_unsettled   *)
    closeAfter,  (* close_after_rating_write, _curation and _save            *)
    lossResult,  (* window_loss_result                                       *)
    exiting,     (* event_loop.exit() was called                             *)
    owed         (* history: work accepted when the window was lost, not yet *)
                 (*   done                                                   *)

work == <<curation, waiting, save, rating>>
vars == <<phase, due, window, curation, waiting, save, rating, asked, disclosed, unsettled,
          closeAfter, lossResult, exiting, owed>>

Removals == {"Trash", "PermanentDelete"}
Kinds    == Removals \cup {"Restore"}

NoCuration == [kind |-> "none", state |-> "idle"]
Curating   == curation # NoCuration
Saving     == save \in {"running", "saved", "failed", "lost"}
SaveActive == save # "none"
Rating     == rating # "none"

(* A rating whose recovery failed, and one whose thread died: both are       *)
(* RecoveryFailed to the poll, but a thread that died has woken nobody.      *)
RatingUnknown == {"lost", "died"}

(* Accepted file work that has not been settled.                             *)
Outstanding ==
    (IF Curating THEN 1 ELSE 0) + (IF Saving THEN 1 ELSE 0) + (IF Rating THEN 1 ELSE 0) + waiting

Running(kind) == [kind |-> kind, state |-> "running"]

-----------------------------------------------------------------------------
CloseTypeOK ==
    /\ phase \in {"events", "rating", "curation", "save", "exit"}
    /\ due \in BOOLEAN
    /\ window \in BOOLEAN
    /\ \/ curation = NoCuration
       \/ curation \in [kind : Kinds, state : {"running", "succeeded", "attention", "lost"}]
    /\ waiting \in 0..MaxPending
    /\ save \in {"none", "confirm", "running", "saved", "failed", "lost"}
    /\ rating \in {"none", "running", "saved", "unchanged"} \cup RatingUnknown
    /\ asked \in BOOLEAN
    /\ disclosed \in BOOLEAN
    /\ unsettled \subseteq Kinds \cup {"save", "rating"}
    /\ closeAfter \subseteq {"rating", "curation", "save"}
    /\ lossResult \in {"Clean", "FileWorkFailed"}
    /\ exiting \in BOOLEAN
    /\ owed \in Nat

Init ==
    /\ phase = "events"
    /\ due = FALSE
    /\ window = TRUE
    /\ curation = NoCuration
    /\ waiting = 0
    /\ save = "none"
    /\ rating = "none"
    /\ asked = FALSE
    /\ disclosed = FALSE
    /\ unsettled = {}
    /\ closeAfter = {}
    /\ lossResult = "Clean"
    /\ exiting = FALSE
    /\ owed = 0

-----------------------------------------------------------------------------
(* What the user asks for, in the events of a turn.                          *)

Listening == phase = "events" /\ window /\ ~exiting

UserEvent ==
    /\ Listening
    /\ due' = TRUE
    /\ UNCHANGED <<phase, window, lossResult, exiting, owed, unsettled>>

(* Wrong on purpose: a rating write does not count.                          *)
BusyButForRating == Curating \/ SaveActive

(* active_work, of the three writers.                                        *)
Busy == Curating \/ SaveActive \/ Rating

(* trash_admission.                                                          *)
HasRoom == waiting < MaxPending

(* trash_current: a running move to Trash is the one thing it may wait for.  *)
(* Committing the removal changes the source, which withdraws the            *)
(* disclosure; a worker that does not start changes nothing.                 *)
TrashCurrent ==
    /\ UserEvent
    /\ ~SaveActive
    /\ ~Rating
    /\ unsettled \cap Kinds = {}
    /\ \/ /\ ~Curating
          /\ curation' \in {Running("Trash"), NoCuration}
          /\ UNCHANGED waiting
       \/ /\ curation.kind = "Trash"
          /\ HasRoom
          /\ waiting' = waiting + 1
          /\ UNCHANGED curation
    /\ asked' = FALSE
    /\ UNCHANGED <<save, rating, disclosed, closeAfter>>

PermanentDeleteCurrent ==
    /\ UserEvent
    /\ ~Busy
    /\ unsettled \cap Kinds = {}
    /\ curation' = Running("PermanentDelete")
    /\ asked' = FALSE
    /\ UNCHANGED <<waiting, save, rating, disclosed, closeAfter>>

UndoTrash ==
    /\ UserEvent
    /\ ~Busy
    /\ curation' = Running("Restore")
    /\ UNCHANGED <<waiting, save, rating, asked, disclosed, closeAfter>>

(* begin_save_request and commit_save_request: a destination that exists     *)
(* asks first, another starts the worker, which may fail to start.           *)
SaveAs ==
    /\ UserEvent
    /\ ~Busy
    /\ "save" \notin unsettled
    /\ save' \in {"confirm", "running"}
    /\ UNCHANGED <<curation, waiting, rating, asked, disclosed, closeAfter>>

(* confirm_save_overwrite and start_save, which check nothing again, or the  *)
(* user's or a source change's cancel.                                       *)
AnswerOverwrite ==
    /\ UserEvent
    /\ save = "confirm"
    /\ save' \in {"running", "none"}
    /\ asked' \in {asked, FALSE}
    /\ UNCHANGED <<curation, waiting, rating, disclosed, closeAfter>>

(* request_rating_assignment, whose first write in a process is disclosed.   *)
RequestRating ==
    /\ UserEvent
    /\ ~Busy
    /\ "rating" \notin unsettled
    /\ \/ disclosed /\ rating' = "running" /\ UNCHANGED asked
       \/ ~disclosed /\ asked' = TRUE /\ UNCHANGED rating
    /\ UNCHANGED <<curation, waiting, save, disclosed, closeAfter>>

(* confirm_rating_disclosure: the dialog was open for any time, so           *)
(* start_rating_write checks everything again, the source of the dialog too.  *)
ConfirmRating ==
    /\ UserEvent
    /\ asked
    /\ asked' = FALSE
    /\ \/ ~Busy /\ "rating" \notin unsettled /\ rating' = "running" /\ disclosed' = TRUE
       \/ UNCHANGED <<rating, disclosed>>
    /\ UNCHANGED <<curation, waiting, save, closeAfter>>

CancelRating ==
    /\ UserEvent
    /\ asked
    /\ asked' = FALSE
    /\ UNCHANGED <<curation, waiting, save, rating, disclosed, closeAfter>>

-----------------------------------------------------------------------------
(* Wrong on purpose: a running save does not hold up the close.              *)
CloseForgetsSave ==
    /\ closeAfter' = closeAfter \cup
            (IF Rating THEN {"rating"} ELSE IF Curating THEN {"curation"} ELSE {})
    /\ exiting' = (exiting \/ (~Rating /\ ~Curating))

(* request_close and close_disposition.                                      *)
RequestClose ==
    /\ closeAfter' = closeAfter \cup
            (IF Rating THEN {"rating"}
             ELSE (IF Saving THEN {"save"} ELSE {}) \cup (IF Curating THEN {"curation"} ELSE {}))
    /\ exiting' = (exiting \/ (~Rating /\ ~Saving /\ ~Curating))

CloseRequested ==
    /\ Listening
    /\ due' = TRUE
    /\ RequestClose
    /\ UNCHANGED <<phase, window, work, asked, disclosed, unsettled, lossResult, owed>>

(* WindowEvent::Destroyed, or UserEvent::NativeDrawableLost.                 *)
WindowLost ==
    /\ Listening
    /\ window' = FALSE
    /\ due' = TRUE
    /\ owed' = Outstanding
    /\ RequestClose
    /\ UNCHANGED <<phase, work, asked, disclosed, unsettled, lossResult>>

-----------------------------------------------------------------------------
(* The worker threads.  "attention" and "failed" are errors that are known,  *)
(* "unchanged" one that left the rated file as it was, "lost" leaves the     *)
(* outcome open.  spawn_curation_thread wakes the loop also when the work    *)
(* unwinds, and so does the completion of a OneShotJob when it is dropped;   *)
(* the rating thread wakes it only after write_rating has returned.          *)
CurationEnds ==
    /\ curation.state = "running"
    /\ \E end \in {"succeeded", "attention", "lost"} :
          curation' = [curation EXCEPT !.state = end]
    /\ due' = TRUE
    /\ UNCHANGED <<phase, window, waiting, save, rating, asked, disclosed, unsettled,
                   closeAfter, lossResult, exiting, owed>>

SaveEnds ==
    /\ save = "running"
    /\ save' \in {"saved", "failed", "lost"}
    /\ due' = TRUE
    /\ UNCHANGED <<phase, window, curation, waiting, rating, asked, disclosed, unsettled,
                   closeAfter, lossResult, exiting, owed>>

RatingEnds ==
    /\ rating = "running"
    /\ \/ rating' \in {"saved", "unchanged", "lost"} /\ due' = TRUE
       \/ rating' = "died" /\ UNCHANGED due
    /\ UNCHANGED <<phase, window, curation, waiting, save, asked, disclosed, unsettled,
                   closeAfter, lossResult, exiting, owed>>

-----------------------------------------------------------------------------
(* about_to_wait.                                                            *)

(* Wrong on purpose: a failure that nobody sees is not recorded.             *)
ObservedWithWindow(succeeded) == IF window /\ ~succeeded THEN "FileWorkFailed" ELSE lossResult

(* record_file_work_result, with WindowLossResult::observe.                  *)
Observed(succeeded) == IF ~window /\ ~succeeded THEN "FileWorkFailed" ELSE lossResult

RecordResult(succeeded) == lossResult' = Observed(succeeded)

(* One piece of the work owed is done.                                       *)
Done == owed' = IF window THEN owed ELSE owed - 1

(* A turn takes all the events there are.  Events that concern none of this   *)
(* may come at any time, but nothing obliges them to.  Once an exit was asked *)
(* for, a turn ends but takes no further events.                             *)
BeginTurn ==
    /\ phase = "events"
    /\ ~exiting
    /\ phase' = "rating"
    /\ due' = FALSE
    /\ UNCHANGED <<window, work, asked, disclosed, unsettled, closeAfter, lossResult,
                   exiting, owed>>

(* poll_rating_write.  A rating that is known not to be written does not     *)
(* hold up the close.                                                        *)
PollRating ==
    /\ phase = "rating"
    /\ phase' = "curation"
    /\ IF rating \in {"none", "running"}
       THEN UNCHANGED <<rating, unsettled, closeAfter, lossResult, exiting, owed>>
       ELSE /\ rating' = "none"
            /\ RecordResult(rating = "saved")
            /\ closeAfter' = closeAfter \ {"rating"}
            /\ exiting' = (exiting \/ ("rating" \in closeAfter /\ rating \notin RatingUnknown))
            /\ unsettled' = IF rating \in RatingUnknown THEN unsettled \cup {"rating"}
                            ELSE unsettled
            /\ IF rating = "saved" THEN Done ELSE UNCHANGED owed
    /\ UNCHANGED <<due, window, curation, waiting, save, asked, disclosed>>

(* Wrong on purpose: a failure leaves the flag for some later work ...       *)
CurationCloseLeavesFlag(succeeded) ==
    /\ closeAfter' = IF succeeded THEN closeAfter \ {"curation"} ELSE closeAfter
    /\ exiting' = (exiting \/ ("curation" \in closeAfter /\ succeeded /\ ~Saving))

(* ... or closes the window over its own report.                             *)
CurationCloseWhateverTheEnd(succeeded) ==
    /\ closeAfter' = closeAfter \ {"curation"}
    /\ exiting' = (exiting \/ ("curation" \in closeAfter /\ ~Saving))

(* A settled operation consumes the flag: curation_close_disposition.        *)
CurationClose(succeeded) ==
    /\ closeAfter' =
        IF "curation" \notin closeAfter THEN closeAfter
        ELSE IF ~succeeded THEN closeAfter \ {"curation", "save"}
        ELSE IF Saving THEN (closeAfter \ {"curation"}) \cup {"save"}
        ELSE closeAfter \ {"curation"}
    /\ exiting' = (exiting \/ ("curation" \in closeAfter /\ succeeded /\ ~Saving))

(* A success: the next waiting move starts, and settles nothing yet; or none *)
(* waits; or the next cannot start, which settles all that waited.  A thread *)
(* that panics once it has published counts as a failure all the same.       *)
CurationSucceeded ==
    /\ curation.state = "succeeded"
    /\ unsettled' = unsettled \ {curation.kind}
    /\ Done
    /\ \/ /\ waiting > 0
          /\ curation.kind = "Trash"
          /\ curation' = Running("Trash")
          /\ waiting' = waiting - 1
          /\ lossResult' \in {lossResult, Observed(FALSE)}
          /\ UNCHANGED <<closeAfter, exiting>>
       \/ /\ waiting = 0 \/ curation.kind # "Trash"
          /\ curation' = NoCuration
          /\ lossResult' \in {lossResult, Observed(FALSE)}
          /\ CurationClose(TRUE)
          /\ UNCHANGED waiting
       \/ /\ waiting > 0
          /\ curation.kind = "Trash"
          /\ curation' = NoCuration
          /\ waiting' = 0
          /\ RecordResult(FALSE)
          /\ CurationClose(FALSE)

(* reconcile_pending_trash_after_terminal after a failure.                   *)
CurationNeedsAttention ==
    /\ curation.state = "attention"
    /\ unsettled' = unsettled \ {curation.kind}
    /\ curation' = NoCuration
    /\ waiting' = IF curation.kind = "Trash" THEN 0 ELSE waiting
    /\ RecordResult(FALSE)
    /\ CurationClose(FALSE)
    /\ UNCHANGED owed

(* finish_disconnected_curation.                                             *)
CurationDisconnected ==
    /\ curation.state = "lost"
    /\ unsettled' = unsettled \cup {curation.kind}
    /\ curation' = NoCuration
    /\ waiting' = 0
    /\ RecordResult(FALSE)
    /\ closeAfter' = closeAfter \ {"curation", "save"}
    /\ UNCHANGED <<exiting, owed>>

PollCuration ==
    /\ phase = "curation"
    /\ phase' = "save"
    /\ \/ /\ curation.state \in {"idle", "running"}
          /\ UNCHANGED <<curation, waiting, unsettled, closeAfter, lossResult, exiting, owed>>
       \/ CurationSucceeded
       \/ CurationNeedsAttention
       \/ CurationDisconnected
    /\ UNCHANGED <<due, window, save, rating, asked, disclosed>>

(* poll_save_result, with save_close_disposition.                            *)
PollSave ==
    /\ phase = "save"
    /\ phase' = "exit"
    /\ IF save \in {"none", "confirm", "running"}
       THEN UNCHANGED <<save, unsettled, closeAfter, lossResult, exiting, owed>>
       ELSE /\ save' = "none"
            /\ unsettled' = IF save = "lost" THEN unsettled \cup {"save"} ELSE unsettled
            /\ RecordResult(save = "saved")
            /\ IF save = "saved" THEN Done ELSE UNCHANGED owed
            /\ closeAfter' =
                IF "save" \notin closeAfter THEN closeAfter
                ELSE IF save # "saved" THEN closeAfter \ {"save", "curation"}
                ELSE IF Curating THEN (closeAfter \ {"save"}) \cup {"curation"}
                ELSE closeAfter \ {"save"}
            /\ exiting' = (exiting \/ ("save" \in closeAfter /\ save = "saved" /\ ~Curating))
    /\ UNCHANGED <<due, window, curation, waiting, rating, asked, disclosed>>

(* Wrong on purpose: only events end the process, and none will come.        *)
EndTurnWaitsForEvents ==
    /\ phase = "exit"
    /\ phase' = "events"
    /\ UNCHANGED <<due, window, work, asked, disclosed, unsettled, closeAfter, lossResult, exiting,
                   owed>>

(* With no window left, the last of the accepted work ends the process.      *)
EndTurn ==
    /\ phase = "exit"
    /\ phase' = "events"
    /\ exiting' = (exiting \/ (~window /\ ~Rating /\ ~Curating /\ ~Saving))
    /\ UNCHANGED <<due, window, work, asked, disclosed, unsettled, closeAfter, lossResult, owed>>

-----------------------------------------------------------------------------
WorkerEnds == CurationEnds \/ SaveEnds \/ RatingEnds

Polls == PollRating \/ PollCuration \/ PollSave \/ EndTurn

Next ==
    \/ TrashCurrent
    \/ PermanentDeleteCurrent
    \/ UndoTrash
    \/ SaveAs
    \/ AnswerOverwrite
    \/ RequestRating
    \/ ConfirmRating
    \/ CancelRating
    \/ CloseRequested
    \/ WindowLost
    \/ WorkerEnds
    \/ BeginTurn
    \/ Polls

(* Workers end, a turn that has begun goes through its polls, and a turn     *)
(* begins when one is due.  No other event is promised.                      *)
Fairness ==
    /\ WF_vars(CurationEnds)
    /\ WF_vars(SaveEnds)
    /\ WF_vars(RatingEnds)
    /\ WF_vars(due /\ BeginTurn)
    /\ WF_vars(Polls)

Spec == Init /\ [][Next]_vars /\ Fairness

-----------------------------------------------------------------------------
(* "Rating replacement and Save As exclude each other" (ARCHITECTURE.md), and *)
(* each excludes curation: no two writers of image files are ever accepted    *)
(* together, though their guards are spread over nine handlers.               *)
OneFileOperation ==
    /\ ~(Curating /\ SaveActive)
    /\ ~(Curating /\ Rating)
    /\ ~(SaveActive /\ Rating)

(* "Normal close defers through every queued request, terminal                *)
(* reconciliation, and join": nothing accepted is cut off by the exit.        *)
NoWorkIsCutOff == exiting => Outstanding = 0

(* A deferred close belongs to work that is still there to carry it out.  A   *)
(* flag left behind would close the window after some later, unrelated work.  *)
NoStrandedClose ==
    /\ "rating" \in closeAfter => Rating
    /\ "save" \in closeAfter => Saving
    /\ "curation" \in closeAfter => Curating

(* With the window gone, a clean exit status means that all the work accepted *)
(* before it went was done: what failed, was abandoned behind a failure or    *)
(* was lost unseen is reported.                                               *)
CleanExitMeansDone == exiting /\ ~window /\ lossResult = "Clean" => owed = 0

(* The inductive strengthening.  Moves to Trash wait only behind one that     *)
(* runs, so a free curation worker leaves nothing waiting; and what is owed   *)
(* to a vanished window never falls below the work that is still accepted.    *)
WaitsBehindTrash == waiting > 0 => curation.kind = "Trash"

OwedIsCounted ==
    ~window =>
        /\ owed >= Outstanding
        /\ lossResult = "Clean" => owed = Outstanding

CloseInv ==
    /\ CloseTypeOK
    /\ OneFileOperation
    /\ NoWorkIsCutOff
    /\ NoStrandedClose
    /\ WaitsBehindTrash
    /\ OwedIsCounted

(* "Failure or a partial restore cancels deferred close so visible recovery   *)
(* guidance is not lost": no poll that ends an operation badly, or finds its  *)
(* outcome unknown, or abandons what waited, also closes the window.          *)
FailureKeepsWindowOpen ==
    [][window /\ ~exiting /\ exiting' =>
        /\ unsettled' \subseteq unsettled
        /\ Curating /\ ~Curating' => curation.state = "succeeded" /\ waiting = 0
        /\ Saving /\ ~Saving' => save = "saved"]_vars

(* A process without a window ends: whatever is accepted when the window goes, *)
(* each worker's end brings the turn that settles it and starts what waited.   *)
(* One end does not: a rating thread that dies sends no wake-up, and if no     *)
(* other event comes the process stays as it is, with that rating unsettled.   *)
WindowLossEnds == ~window ~> (exiting \/ [](rating = "died"))
=============================================================================
