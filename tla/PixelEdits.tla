----------------------------- MODULE PixelEdits ------------------------------
(***************************************************************************)
(* Spot Heal, its undo history and Crop (crates/viewr/src/app.rs, HealTool *)
(* and CropRecovery; crop_state.rs, work_currency.rs, current_work.rs).    *)
(*                                                                         *)
(* Pixels are edited in memory only.  A stroke is repaired and a crop is   *)
(* cut by a thread of its own, a picture too large for the GPU is reduced  *)
(* by another, and the event loop polls all of them: what they bring must  *)
(* meet the picture they were made from.  Meanwhile the user opens another *)
(* file, the watch reloads this one, a scan follows a rename.              *)
(*                                                                         *)
(* What a thread brings is chosen when the loop reads it: until then, the  *)
(* loop cannot tell a thread that has ended from one that works on.        *)
(*                                                                         *)
(* A pixel is 0 as the file has it, or the heal that painted it.  Work of  *)
(* other kinds that also bars an edit (curation, saving, rating) is left   *)
(* out, and so are rotation, zoom and a decode taken from the cache, which *)
(* is a load that ends at once.                                            *)
(***************************************************************************)
EXTENDS PatchHistory

CONSTANTS
    Names,          (* names that files have                                 *)
    NoFile,
    Width,          (* pixels of a file's picture                            *)
    MaxLoads,       (* bound of the model: loads and generations             *)
    MaxHeals,       (* bound of the model: strokes that are repaired         *)
    MaxImages       (* bound of the model: pictures from frames and crops    *)

ASSUME EditsAssumption ==
    /\ NoFile \notin Names
    /\ Width \in Nat \ {0}
    /\ {MaxLoads, MaxHeals, MaxImages} \subseteq Nat

VARIABLES
    session,    (* Session: the selection, what is shown and what is read    *)
    image,      (* current_image, current_image_reuse and unsaved_crop       *)
    sequence,   (* auxiliary_job, animation and pages                        *)
    tool,       (* HealTool::active and painting; Transform's crop fields    *)
    worker,     (* HealTool::worker                                          *)
    refresh,    (* HealTool::refresh                                         *)
    history,    (* HealTool::history                                         *)
    crop,       (* crop_job                                                  *)
    preview,    (* preview_job                                               *)
    lost,       (* crop_recovery_unsettled, preview_recovery_unsettled and   *)
                (* preview_load_retry_blocked                                *)
    begun,      (* strokes that were handed to a thread                      *)
    told        (* history, read by properties only: the picture before each *)
                (* edit and after each one undone, where they start, and the *)
                (* strokes begun when the picture was opened                 *)

vars == <<session, image, sequence, tool, worker, refresh, history, crop,
          preview, lost, begun, told>>

heals == <<worker, refresh, history, told>>

NoImage   == [id |-> 0, pixels |-> <<>>, large |-> FALSE, pristine |-> FALSE, cropped |-> FALSE]
NoWorker  == [heal |-> 0]
NoRefresh == [heal |-> 0]
NoCrop    == [from |-> 0]
NoPreview == [kind |-> "none"]

AsInFile  == [i \in 1..Width |-> 0]
HasImage  == image.id # 0

(* The pixel a heal paints from its first or from its alternate source.      *)
Painted(heal, candidate) == 2 * heal + candidate

Init ==
    /\ session = [selected |-> NoFile, shown |-> NoFile, reading |-> NoFile,
                  failed |-> FALSE, generation |-> 0]
    /\ image = NoImage
    /\ sequence = "none"
    /\ tool = [healing |-> FALSE, painting |-> FALSE, cropping |-> FALSE, dragging |-> FALSE]
    /\ worker = NoWorker /\ refresh = NoRefresh /\ history = NewHistory
    /\ crop = NoCrop /\ preview = NoPreview
    /\ lost = [crop |-> FALSE, preview |-> FALSE, retry |-> FALSE]
    /\ begun = 0
    /\ told = [trail |-> <<>>, ahead |-> <<>>, base |-> <<>>, origin |-> 0]

-----------------------------------------------------------------------------
(* What bars an action.                                                      *)

Preparing == session.reading # NoFile \/ preview # NoPreview

(* current_loaded_path.                                                      *)
Loaded == HasImage /\ session.selected # NoFile /\ session.shown = session.selected

CropWork(allowed) ==
    crop # NoCrop \/ tool.dragging \/ (tool.cropping /\ allowed # "Crop")

HealWork(allowed) ==
    worker # NoWorker \/ tool.painting \/ (tool.healing /\ allowed # "SpotHeal")

Busy(allowed) == Preparing \/ CropWork(allowed) \/ HealWork(allowed)

(* crop_source_blocker and spot_heal_source_blocker.                         *)
Settled == session.reading = NoFile /\ ~session.failed

-----------------------------------------------------------------------------
(* Loading.                                                                  *)

(* cancel_worker: the thread stays, its result will not be applied.          *)
Cancelled == IF worker = NoWorker THEN NoWorker ELSE [worker EXCEPT !.apply = FALSE]

(* The edits the properties know of start again from these pixels.           *)
Retold(pixels) == [told EXCEPT !.trail = <<>>, !.ahead = <<>>, !.base = pixels]

(* Wrong on purpose: reset_for_image leaves the worker of the old picture.   *)
ResetHealsOnly ==
    /\ refresh' = NoRefresh
    /\ history' = NewHistory
    /\ UNCHANGED worker

(* reset_for_image.                                                          *)
ResetHeals ==
    /\ worker' = Cancelled
    /\ refresh' = NoRefresh
    /\ history' = NewHistory

(* Transform::default.                                                       *)
Upright == [tool EXCEPT !.cropping = FALSE, !.dragging = FALSE]

(* spawn_image_load_with_cached and prepare_for_image_load; the decode may   *)
(* not be accepted.                                                          *)
Load(f, mode) ==
    /\ session.generation < MaxLoads
    /\ \/ session' = [session EXCEPT !.selected = f, !.generation = @ + 1,
                                      !.reading = f, !.failed = FALSE]
       \/ session' = [session EXCEPT !.selected = f, !.generation = @ + 1,
                                      !.reading = NoFile, !.failed = TRUE]
    /\ ResetHeals
    /\ tool' = [mode EXCEPT !.painting = FALSE]
    /\ crop' = NoCrop /\ preview' = NoPreview
    /\ lost' = [lost EXCEPT !.retry = FALSE]
    /\ sequence' = "none"
    /\ told' = Retold(image.pixels)
    /\ UNCHANGED begun

(* load_and_scan, from the dialog, a drop or a pasted path.                  *)
Open(f) == Load(f, Upright) /\ UNCHANGED image

(* go_to_index_ready: pristine pixels already on screen are used again, and  *)
(* others are read; pristine ones may be kept in the cache.                  *)
Navigate(f) ==
    /\ session.selected # NoFile
    /\ ~CropWork("none") /\ ~HealWork("none")
    /\ IF HasImage /\ image.pristine /\ session.shown = f
       THEN /\ session.generation < MaxLoads
            /\ session' = [session EXCEPT !.selected = f, !.generation = @ + 1,
                                          !.reading = NoFile, !.failed = FALSE]
            /\ preview' = NoPreview
            /\ lost' = [lost EXCEPT !.retry = FALSE]
            /\ tool' = Upright
            /\ sequence' = "due"
            /\ UNCHANGED <<heals, crop, begun>>
       ELSE Load(f, Upright)
    /\ UNCHANGED image

(* retry_current_image_load, offered beside a failure.                       *)
Retry ==
    /\ session.failed /\ session.selected # NoFile /\ ~lost.retry
    /\ Load(session.selected, tool)
    /\ UNCHANGED image

(* reload_current_image.                                                     *)
Reload ==
    /\ ~Preparing /\ worker = NoWorker /\ ~tool.painting /\ crop = NoCrop
    /\ Loaded
    /\ Load(session.selected, Upright)
    /\ image' = [image EXCEPT !.pristine = FALSE]

UnsavedEdits ==
    \/ tool.cropping \/ crop # NoCrop \/ image.cropped
    \/ HealWork("none") \/ history.undo # <<>>

(* reload_current_from_disk_quietly, once decide has found the file replaced *)
(* and no unsaved edits.                                                     *)
ReloadQuietly ==
    /\ ~Preparing /\ ~UnsavedEdits
    /\ Loaded
    /\ Load(session.selected, tool)
    /\ image' = [image EXCEPT !.pristine = FALSE]

(* settle_pending_gone_notice: a file that was gone is there again.          *)
ReloadReturned ==
    /\ ~Preparing
    /\ Loaded
    /\ Load(session.selected, tool)
    /\ image' = [image EXCEPT !.pristine = FALSE]

(* install_scanned_selection, when the scan follows a rename.                *)
FollowRename(f) ==
    /\ session.selected \notin {NoFile, f}
    /\ session' = [session EXCEPT !.selected = f,
                                  !.shown = IF @ = NoFile THEN NoFile ELSE f]
    /\ UNCHANGED <<image, sequence, tool, heals, crop, preview, lost, begun>>

(* invalidate_displayed_image, after the last file has left the catalog.     *)
Invalidate ==
    /\ HasImage
    /\ session.generation < MaxLoads
    /\ session' = [session EXCEPT !.selected = NoFile, !.shown = NoFile, !.reading = NoFile,
                                  !.failed = FALSE, !.generation = @ + 1]
    /\ ResetHeals
    /\ tool' = [tool EXCEPT !.painting = FALSE]
    /\ image' = NoImage /\ sequence' = "none"
    /\ crop' = NoCrop /\ preview' = NoPreview
    /\ lost' = [lost EXCEPT !.retry = FALSE]
    /\ told' = Retold(<<>>)
    /\ UNCHANGED begun

-----------------------------------------------------------------------------
(* A crop under way keeps what to give back: the selection and the sequence. *)

(* capture_crop_recovery.                                                    *)
RecoveryOf == [file |-> session.selected, generation |-> session.generation,
               id |-> image.id, sequence |-> sequence]

(* presented_work_is_current and crop_recovery_matches.                      *)
IsCurrent(rec) ==
    /\ rec.generation = session.generation
    /\ session.selected = rec.file /\ session.shown = rec.file
    /\ rec.id = image.id

(* Wrong on purpose: into_restored_edit_state leaves the pages behind.       *)
RestoreSelectionOnly(rec) ==
    /\ tool' = IF IsCurrent(rec) THEN [tool EXCEPT !.cropping = TRUE, !.dragging = FALSE]
               ELSE tool
    /\ UNCHANGED sequence

(* restore_failed_crop.                                                      *)
Restore(rec) ==
    IF IsCurrent(rec)
    THEN /\ tool' = [tool EXCEPT !.cropping = TRUE, !.dragging = FALSE]
         /\ sequence' = rec.sequence
    ELSE UNCHANGED <<tool, sequence>>

-----------------------------------------------------------------------------
(* Showing a picture.  Each action below has taken its job out of its slot   *)
(* and read from session.reading; these say the rest.                        *)

Arrived == [session EXCEPT !.reading = NoFile]

(* finish_image_presentation of a file's picture, which ends no edit: the    *)
(* load began by ending them.                                                *)
ShowLoaded(f, large) ==
    /\ session' = [Arrived EXCEPT !.shown = f, !.failed = FALSE]
    /\ image' = [id |-> image.id + 1, pixels |-> AsInFile, large |-> large,
                 pristine |-> TRUE, cropped |-> FALSE]
    /\ sequence' = "due"
    /\ told' = [trail |-> <<>>, ahead |-> <<>>, base |-> AsInFile, origin |-> begun]
    /\ UNCHANGED <<tool, worker, refresh, history, lost>>

(* finish_image_presentation of a cut picture.                               *)
ShowCropped(f, pixels, large) ==
    /\ session' = [session EXCEPT !.shown = f, !.failed = FALSE]
    /\ image' = [id |-> image.id + 1, pixels |-> pixels, large |-> large,
                 pristine |-> FALSE, cropped |-> TRUE]
    /\ ResetHeals
    /\ tool' = [tool EXCEPT !.painting = FALSE]
    /\ told' = Retold(pixels)
    /\ UNCHANGED <<sequence, lost>>

(* load_error is set: a decode, a preview or an upload went wrong.           *)
NoteFailure(losses) ==
    /\ session' = [Arrived EXCEPT !.failed = TRUE]
    /\ lost' = losses
    /\ UNCHANGED <<image, sequence, tool, heals>>

(* report_presentation_failure.                                              *)
GiveUp(kind, rec) ==
    IF kind = "Cropped" THEN Restore(rec) /\ UNCHANGED <<session, image, heals, lost>>
    ELSE NoteFailure(lost)

(* report_preview_executor_loss.                                             *)
LosePreview(kind, rec) ==
    IF kind = "Cropped"
    THEN /\ Restore(rec)
         /\ lost' = [lost EXCEPT !.preview = TRUE]
         /\ UNCHANGED <<session, image, heals>>
    ELSE NoteFailure([lost EXCEPT !.preview = TRUE, !.retry = TRUE])

(* finish_image_presentation, with the renderer's refusal.                   *)
Finish(kind, f, pixels, large, rec) ==
    IF kind = "Cropped" /\ ~IsCurrent(rec)
    THEN UNCHANGED <<session, image, sequence, tool, heals, lost>>
    ELSE \/ IF kind = "Cropped" THEN ShowCropped(f, pixels, large) ELSE ShowLoaded(f, large)
         \/ GiveUp(kind, rec)

(* present_image_with_crop_recovery: a picture larger than the GPU's texture *)
(* is first reduced by a thread, unless none can be had any more.            *)
Present(kind, f, pixels, large, rec) ==
    IF ~large THEN Finish(kind, f, pixels, large, rec) /\ UNCHANGED preview
    ELSE \/ /\ ~lost.preview
            /\ preview' = [kind |-> kind, file |-> f, generation |-> session.generation,
                           pixels |-> pixels, rec |-> rec]
            /\ session' = IF kind = "Loaded" THEN Arrived ELSE session
            /\ UNCHANGED <<image, sequence, tool, heals, lost>>
         \/ LosePreview(kind, rec) /\ UNCHANGED preview

(* poll_foreground_image_load: a decode of another name is dropped, and one  *)
(* that failed or died is reported.                                          *)
LoadArrives ==
    /\ session.reading # NoFile
    /\ IF session.reading # session.selected
       THEN session' = Arrived /\ UNCHANGED <<image, sequence, tool, heals, lost, preview>>
       ELSE \/ NoteFailure(lost) /\ UNCHANGED preview
            \/ \E large \in BOOLEAN : Present("Loaded", session.reading, AsInFile, large, NoCrop)
    /\ UNCHANGED <<crop, begun>>

(* poll_preview_result: for another selection or generation it is dropped.   *)
PollPreview ==
    /\ preview # NoPreview
    /\ preview' = NoPreview
    /\ IF preview.generation # session.generation \/ preview.file # session.selected
       THEN UNCHANGED <<session, image, sequence, tool, heals, lost>>
       ELSE \/ Finish(preview.kind, preview.file, preview.pixels, TRUE, preview.rec)
            \/ GiveUp(preview.kind, preview.rec)
            \/ LosePreview(preview.kind, preview.rec)
    /\ UNCHANGED <<crop, begun>>

-----------------------------------------------------------------------------
(* Animations and pages.  A frame takes the place of the picture: it has the *)
(* file's pixels and is not what a load would bring.                         *)

Frame == [image EXCEPT !.id = @ + 1, !.pixels = AsInFile, !.large = FALSE, !.pristine = FALSE]

(* poll_auxiliary_load and present_sequence_image.                           *)
PollAuxiliary ==
    /\ sequence = "due"
    /\ \/ sequence' = "none" /\ UNCHANGED image
       \/ /\ Loaded
          /\ sequence' \in {"animated", "paged"}
          /\ image' \in IF tool.cropping \/ tool.healing \/ image.id = MaxImages
                       THEN {image} ELSE {image, Frame}
    /\ UNCHANGED <<session, tool, heals, crop, preview, lost, begun>>

(* advance_animation and toggle_animation_playback, which look at no edit;   *)
(* an upload that fails ends the animation.                                  *)
AdvanceAnimation ==
    /\ sequence = "animated"
    /\ \/ image.id < MaxImages /\ image' = Frame /\ UNCHANGED sequence
       \/ sequence' = "none" /\ UNCHANGED image
    /\ UNCHANGED <<session, tool, heals, crop, preview, lost, begun>>

(* step_sequence, which looks at every edit.                                 *)
StepSequence ==
    /\ sequence \in {"animated", "paged"}
    /\ ~tool.cropping /\ ~tool.healing /\ history.undo = <<>> /\ ~image.cropped
    /\ \/ image.id < MaxImages /\ image' = Frame /\ UNCHANGED sequence
       \/ sequence' = "none" /\ UNCHANGED image
    /\ UNCHANGED <<session, tool, heals, crop, preview, lost, begun>>

-----------------------------------------------------------------------------
(* Crop.                                                                     *)

(* toggle_crop_mode, when the mode is off.                                   *)
EnterCrop ==
    /\ ~tool.cropping /\ ~lost.crop /\ ~lost.preview
    /\ Settled /\ Loaded /\ ~Busy("SpotHeal")
    /\ tool' = [healing |-> FALSE, painting |-> FALSE, cropping |-> TRUE, dragging |-> FALSE]
    /\ worker' = Cancelled
    /\ UNCHANGED <<session, image, sequence, refresh, history, told, crop, preview, lost, begun>>

(* cancel_crop, by the same key, and the pointer that drags the selection.   *)
LeaveCrop == tool.cropping /\ tool' = Upright

Drag == tool.cropping /\ tool' = [tool EXCEPT !.dragging = ~@]

HandleCrop ==
    /\ LeaveCrop \/ Drag
    /\ UNCHANGED <<session, image, sequence, heals, crop, preview, lost, begun>>

(* apply_crop_rect; a thread that cannot be started leaves all as it was.    *)
ApplyCrop(from, to) ==
    /\ ~lost.crop /\ ~lost.preview
    /\ Settled /\ Loaded /\ ~Busy("Crop")
    /\ tool.cropping
    /\ image.id < MaxImages
    /\ from <= to /\ to <= Len(image.pixels)
    /\ crop' = [from |-> from, pixels |-> SubSeq(image.pixels, from, to),
                rec |-> RecoveryOf]
    /\ sequence' = "none"
    /\ tool' = Upright
    /\ UNCHANGED <<session, image, heals, preview, lost, begun>>

(* poll_crop_result: cut, failed or died.                                    *)
PollCrop ==
    /\ crop # NoCrop
    /\ crop' = NoCrop
    /\ \/ Restore(crop.rec) /\ UNCHANGED <<session, image, heals, preview, lost>>
       \/ /\ Restore(crop.rec)
          /\ lost' = [lost EXCEPT !.crop = TRUE]
          /\ UNCHANGED <<session, image, heals, preview>>
       \/ IF IsCurrent(crop.rec)
          THEN \E large \in {FALSE, image.large} :
                   Present("Cropped", crop.rec.file, crop.pixels, large, crop.rec)
          ELSE UNCHANGED <<session, image, sequence, tool, heals, preview, lost>>
    /\ UNCHANGED begun

-----------------------------------------------------------------------------
(* Spot Heal.                                                                *)

(* toggle_heal_mode, when the mode is off.                                   *)
EnterHeal ==
    /\ ~tool.healing
    /\ Settled /\ Loaded /\ ~Busy("Crop") /\ ~image.large
    /\ tool' = [healing |-> TRUE, painting |-> FALSE, cropping |-> FALSE, dragging |-> FALSE]
    /\ UNCHANGED <<session, image, sequence, heals, crop, preview, lost, begun>>

(* begin_heal_stroke: it asks for a picture, not for a loaded one.           *)
BeginStroke ==
    /\ tool.healing /\ ~Busy("SpotHeal")
    /\ HasImage /\ ~image.large
    /\ begun < MaxHeals
    /\ tool' = [tool EXCEPT !.painting = TRUE]
    /\ sequence' = "none"
    /\ UNCHANGED <<session, image, heals, crop, preview, lost, begun>>

(* finish_heal_stroke, also by leaving the mode (toggle_heal_mode); no       *)
(* thread may be had.                                                        *)
FinishStroke(at, size) ==
    /\ tool.painting
    /\ at + size <= Len(image.pixels) + 1
    /\ \E stays \in BOOLEAN : tool' = [tool EXCEPT !.painting = FALSE, !.healing = stays]
    /\ begun' = begun + 1
    /\ worker' \in {worker, [heal |-> begun + 1, candidate |-> 0, at |-> at, size |-> size,
                            apply |-> TRUE, again |-> FALSE]}
    /\ UNCHANGED <<session, image, sequence, refresh, history, told, crop, preview, lost>>

(* toggle_heal_mode without a stroke.                                        *)
LeaveHeal ==
    /\ tool.healing /\ ~tool.painting
    /\ tool' = [tool EXCEPT !.healing = FALSE]
    /\ UNCHANGED <<session, image, sequence, heals, crop, preview, lost, begun>>

(* The window loses the focus, or the stroke grows too long.                 *)
AbandonGesture ==
    /\ tool.painting \/ tool.dragging
    /\ tool' = [tool EXCEPT !.painting = FALSE, !.dragging = FALSE]
    /\ UNCHANGED <<session, image, sequence, heals, crop, preview, lost, begun>>

(* SpotHealJob::run_ranked: the patch of this thread.                        *)
PatchOf(w) == [at |-> w.at, rgba |-> [i \in 1..w.size |-> Painted(w.heal, w.candidate)]]

(* The picture after an edit of it: no longer the file's.                    *)
Edited(pixels) == [image EXCEPT !.pixels = pixels, !.pristine = FALSE]

(* Wrong on purpose: a heal leaves current_image_reuse alone.                *)
CommitKeepingReuse(w, several) ==
    LET patch == PatchOf(w)
    IN  /\ image' = [image EXCEPT !.pixels = Patched(@, patch)]
        /\ history' = IF w.again THEN history
                      ELSE Recorded(history, InverseOf(patch, image.pixels))
        /\ refresh' = IF several THEN [heal |-> w.heal, candidate |-> w.candidate,
                                       at |-> w.at, size |-> w.size]
                      ELSE NoRefresh
        /\ told' = IF w.again THEN told
                   ELSE [told EXCEPT !.trail = Append(@, image.pixels), !.ahead = <<>>]

(* commit_presented_heal: another source for the same stroke goes over its   *)
(* pixels, so what takes the stroke back takes this back too.                *)
Commit(w, several) ==
    LET patch == PatchOf(w)
    IN  /\ image' = Edited(Patched(image.pixels, patch))
        /\ history' = IF w.again THEN history
                      ELSE Recorded(history, InverseOf(patch, image.pixels))
        /\ refresh' = IF several THEN [heal |-> w.heal, candidate |-> w.candidate,
                                       at |-> w.at, size |-> w.size]
                      ELSE NoRefresh
        /\ told' = IF w.again THEN told
                   ELSE [told EXCEPT !.trail = Append(@, image.pixels), !.ahead = <<>>]

(* poll_heal_result.  The repair may have failed, its thread died, the       *)
(* renderer refuse it, or a copy to the clipboard hold the picture: then     *)
(* nothing is edited, and what the renderer refused is rolled back.          *)
PollHeal ==
    /\ worker # NoWorker
    /\ worker' = NoWorker
    /\ \/ UNCHANGED <<image, refresh, history, told>>
       \/ /\ worker.apply /\ HasImage /\ Fits(PatchOf(worker), image.pixels)
          /\ \E several \in BOOLEAN : Commit(worker, several)
    /\ UNCHANGED <<session, sequence, tool, crop, preview, lost, begun>>

(* refresh_heal_source: the next source of two.                              *)
RefreshSource ==
    /\ ~Busy("SpotHeal") /\ refresh # NoRefresh
    /\ worker' = [heal |-> refresh.heal, candidate |-> 1 - refresh.candidate,
                  at |-> refresh.at, size |-> refresh.size, apply |-> TRUE, again |-> TRUE]
    /\ UNCHANGED <<session, image, sequence, tool, refresh, history, crop, preview, lost,
                   begun, told>>

(* Wrong on purpose: after Undo the source of what was undone is on offer.   *)
UndoKeepingSource ==
    /\ ~Busy("SpotHeal") /\ HasImage /\ history.undo # <<>>
    /\ image' = Edited(Patched(image.pixels, NewestOf(history.undo)))
    /\ history' = Undone(history, image.pixels)
    /\ told' = [told EXCEPT !.trail = WithoutNewest(@), !.ahead = Append(@, image.pixels)]
    /\ UNCHANGED <<session, sequence, tool, worker, refresh, crop, preview, lost, begun>>

(* undo_edit and redo_edit, when they succeed; a refusal changes nothing.    *)
Undo ==
    /\ ~Busy("SpotHeal") /\ HasImage /\ history.undo # <<>>
    /\ image' = Edited(Patched(image.pixels, NewestOf(history.undo)))
    /\ history' = Undone(history, image.pixels)
    /\ refresh' = NoRefresh
    /\ told' = [told EXCEPT !.trail = WithoutNewest(@), !.ahead = Append(@, image.pixels)]
    /\ UNCHANGED <<session, sequence, tool, worker, crop, preview, lost, begun>>

Redo ==
    /\ ~Busy("SpotHeal") /\ HasImage /\ history.redo # <<>>
    /\ image' = Edited(Patched(image.pixels, NewestOf(history.redo)))
    /\ history' = Redone(history, image.pixels)
    /\ refresh' = NoRefresh
    /\ told' = [told EXCEPT !.trail = Append(@, image.pixels), !.ahead = WithoutNewest(@)]
    /\ UNCHANGED <<session, sequence, tool, worker, crop, preview, lost, begun>>

-----------------------------------------------------------------------------

Next ==
    \/ \E f \in Names : Open(f) \/ Navigate(f) \/ FollowRename(f)
    \/ Retry \/ Reload \/ ReloadQuietly \/ ReloadReturned \/ Invalidate
    \/ LoadArrives \/ PollPreview
    \/ PollAuxiliary \/ AdvanceAnimation \/ StepSequence
    \/ EnterCrop \/ HandleCrop \/ PollCrop
    \/ \E from, to \in 1..Width : ApplyCrop(from, to)
    \/ EnterHeal \/ BeginStroke \/ LeaveHeal \/ AbandonGesture
    \/ \E at, size \in 1..Width : FinishStroke(at, size)
    \/ PollHeal \/ RefreshSource \/ Undo \/ Redo

Spec == Init /\ [][Next]_vars

-----------------------------------------------------------------------------
(* One side of the history, applied newest first: the pictures it gives.     *)
Peeled(patches) ==
    LET back[n \in 0..Len(patches)] ==
            IF n = 0 THEN image.pixels
            ELSE Patched(back[n - 1], patches[Len(patches) - n + 1])
    IN  back

Retraces(patches, pictures) ==
    /\ Len(patches) <= Len(pictures)
    /\ \A n \in 1..Len(patches) :
           Peeled(patches)[n] = pictures[Len(pictures) - n + 1]

(* Undo and Redo are exact: applied newest first, the patches give back the  *)
(* pictures there were before the edits that were not undone, and those that *)
(* were undone; with none left to undo, the picture is the one the edits     *)
(* began from; what moves to the other side has room there; and no pixel     *)
(* comes from a stroke on another picture, however late its repair ends      *)
(* (PatchHistory, reset_for_image, poll_heal_result).                        *)
UndoIsExact ==
    /\ Retraces(history.undo, told.trail)
    /\ Retraces(history.redo, told.ahead)
    /\ Bytes(history.undo) + Bytes(history.redo) <= ByteLimit
    /\ told.trail = <<>> => image.pixels = told.base
    /\ \A i \in DOMAIN image.pixels :
           image.pixels[i] = 0 \/ image.pixels[i] \div 2 > told.origin

(* A picture that stands for its file, for navigation and the cache, has the *)
(* file's pixels, all of them, and no edit of it can be undone, redone or    *)
(* given another source (current_image_reuse).                               *)
EditedPixelsAreNotReused ==
    image.pristine =>
        /\ \A i \in DOMAIN image.pixels : image.pixels[i] = 0
        /\ ~image.cropped
        /\ history = NewHistory /\ refresh = NoRefresh

CropUnderWay == crop # NoCrop \/ preview.kind = "Cropped"
Kept         == IF crop # NoCrop THEN crop.rec ELSE preview.rec

(* A crop under way has the picture to itself: while the file is the one it  *)
(* was made of and no load has begun, nothing replaces or edits the picture, *)
(* and its end, whatever failed, is a cut picture or the selection, the      *)
(* sequence and the picture as they were (capture_crop_recovery,             *)
(* restore_failed_crop, poll_crop_result, poll_preview_result).              *)
CropIsAppliedOrGivenBack ==
    [][ CropUnderWay /\ IsCurrent(Kept) =>
            \/ /\ session' = session /\ image' = image
               /\ IF CropUnderWay' THEN Kept' = Kept
                  ELSE tool'.cropping /\ sequence' = Kept.sequence
            \/ ~CropUnderWay' /\ image'.cropped /\ image'.id = image.id + 1
            \/ session'.generation # session.generation
            \/ session'.selected # session.selected ]_vars
=============================================================================
