-------------------------- MODULE PixelEditsProofs ---------------------------
(***************************************************************************)
(* Edited pixels never stand for their file, a crop is applied or given    *)
(* back, and Undo and Redo are exact, for any names, picture widths,       *)
(* history sizes and numbers of loads, strokes and pictures.               *)
(*                                                                         *)
(* None holds of one action by itself.  A picture from a file is shown  *)
(* without a look at the edits, because none can be made, nor one that was *)
(* begun before arrive, while a load is under way (LoadInv); and a crop is *)
(* finished or given back on the picture it was cut from because nothing   *)
(* else is at work on it then (CropInv).  The patches of the history lead  *)
(* back through the pictures there were (Walks) because whatever replaces  *)
(* the picture by another ends them first: a frame only follows an         *)
(* unedited picture (SequenceInv), and another source only goes over the   *)
(* stretch that the newest patch covers too (CoversNewest).                *)
(***************************************************************************)
EXTENDS PixelEdits, TLAPS, SequenceTheorems, WellFoundedInduction

(* The fields of the records, as far as steps change single ones.            *)
RecordShape ==
    /\ session = [selected |-> session.selected, shown |-> session.shown,
                  reading |-> session.reading, failed |-> session.failed,
                  generation |-> session.generation]
    /\ image = [id |-> image.id, pixels |-> image.pixels, large |-> image.large,
                pristine |-> image.pristine, cropped |-> image.cropped]
    /\ tool = [healing |-> tool.healing, painting |-> tool.painting,
               cropping |-> tool.cropping, dragging |-> tool.dragging]
    /\ worker = NoWorker
       \/ worker = [heal |-> worker.heal, candidate |-> worker.candidate, at |-> worker.at,
                    size |-> worker.size, apply |-> worker.apply, again |-> worker.again]

Shape ==
    /\ RecordShape
    /\ preview = NoPreview \/ preview.kind \in {"Loaded", "Cropped"}

Loading   == session.reading # NoFile \/ preview.kind = "Loaded"
WillApply == worker # NoWorker /\ worker.apply

(* There is no edit and none will be made.                                   *)
Quiet == history = NewHistory /\ refresh = NoRefresh /\ ~tool.painting /\ ~WillApply

(* So it is while a load is under way.                                       *)
LoadInv == Loading => Quiet

(* While a crop is under way nothing else is.                                *)
CropInv ==
    CropUnderWay => /\ session.reading = NoFile
                    /\ crop = NoCrop \/ preview = NoPreview
                    /\ sequence = "none"
                    /\ worker = NoWorker /\ ~tool.painting

(* The preview of a cut picture is for the selection the crop was made of.   *)
KeptInv ==
    preview.kind = "Cropped" =>
        preview.generation = preview.rec.generation /\ preview.file = preview.rec.file

CountInv == session.generation \in Nat

EditsInv == Shape /\ EditedPixelsAreNotReused /\ LoadInv /\ CropInv

-----------------------------------------------------------------------------
(* The beginning satisfies the invariant.                                    *)
LEMMA InitEdits == Init => EditsInv
  BY DEF Init, EditsInv, Shape, RecordShape, EditedPixelsAreNotReused, LoadInv, CropInv, Quiet, Loading,
         WillApply, CropUnderWay, NoImage, NoWorker, NoRefresh, NoCrop, NoPreview

(* A load ends every edit, so it may keep the picture on screen as it is.    *)
LEMMA LoadKeepsInv ==
    ASSUME EditsInv, NEW f, f # NoFile, NEW STATE mode, mode \in {tool, Upright},
           Load(f, mode),
           image' = image \/ image' = [image EXCEPT !.pristine = FALSE]
    PROVE  EditsInv'
  <1>1. Shape'
    <2>1. session' = [selected |-> session'.selected, shown |-> session'.shown,
                      reading |-> session'.reading, failed |-> session'.failed,
                      generation |-> session'.generation]
      BY DEF EditsInv, Shape, RecordShape, Load
    <2>2. image' = [id |-> image'.id, pixels |-> image'.pixels, large |-> image'.large,
                    pristine |-> image'.pristine, cropped |-> image'.cropped]
      BY DEF EditsInv, Shape, RecordShape
    <2>3. tool' = [healing |-> tool'.healing, painting |-> tool'.painting,
                   cropping |-> tool'.cropping, dragging |-> tool'.dragging]
      <3>1. mode = [healing |-> mode.healing, painting |-> mode.painting,
                    cropping |-> mode.cropping, dragging |-> mode.dragging]
        BY DEF EditsInv, Shape, RecordShape, Upright
      <3>2. tool' = [mode EXCEPT !.painting = FALSE]
        BY DEF Load
      <3> QED BY <3>1, <3>2
    <2>4. worker' = NoWorker
          \/ worker' = [heal |-> worker'.heal, candidate |-> worker'.candidate,
                        at |-> worker'.at, size |-> worker'.size, apply |-> worker'.apply,
                        again |-> worker'.again]
      BY DEF EditsInv, Shape, RecordShape, Load, ResetHeals, Cancelled
    <2> QED BY <2>1, <2>2, <2>3, <2>4 DEF Shape, RecordShape, Load, NoPreview
  <1>2. EditedPixelsAreNotReused'
    BY DEF EditsInv, Shape, RecordShape, EditedPixelsAreNotReused, Load, ResetHeals
  <1>3. history' = NewHistory /\ refresh' = NoRefresh
    BY DEF Load, ResetHeals
  <1>4. tool'.painting = FALSE
    BY <1>1 DEF EditsInv, Shape, RecordShape, Load, Upright
  <1>5. ~WillApply'
    BY DEF EditsInv, Shape, RecordShape, Load, ResetHeals, Cancelled, WillApply, NoWorker
  <1>6. ~CropUnderWay'
    BY DEF Load, CropUnderWay, NoPreview
  <1> QED BY <1>1, <1>2, <1>3, <1>4, <1>5, <1>6 DEF EditsInv, LoadInv, CropInv, Quiet

(* What a failed crop gives back is the mode and the sequence only.          *)
LEMMA RestoreShape ==
    ASSUME RecordShape, NEW STATE rec, Restore(rec)
    PROVE  /\ tool' = [healing |-> tool'.healing, painting |-> tool'.painting,
                       cropping |-> tool'.cropping, dragging |-> tool'.dragging]
           /\ tool'.painting = tool.painting
  BY DEF RecordShape, Restore

(* A step that leaves session, image, worker and edits alone, and begins no  *)
(* stroke, disturbs no more than the crop.                                   *)
LEMMA RestoreKeeps ==
    ASSUME RecordShape, EditedPixelsAreNotReused, NEW STATE rec, Restore(rec),
           UNCHANGED <<session, image, heals>>
    PROVE  RecordShape' /\ EditedPixelsAreNotReused' /\ (Quiet => Quiet')
  <1>1. tool' = [healing |-> tool'.healing, painting |-> tool'.painting,
                 cropping |-> tool'.cropping, dragging |-> tool'.dragging]
    BY RestoreShape
  <1>2. tool'.painting = tool.painting
    BY RestoreShape
  <1>3. RecordShape'
    BY <1>1 DEF RecordShape, heals
  <1>4. EditedPixelsAreNotReused'
    BY DEF EditedPixelsAreNotReused, heals
  <1>5. Quiet => Quiet'
    BY <1>2 DEF Quiet, WillApply, heals
  <1> QED BY <1>3, <1>4, <1>5

(* So does a load that failed.                                               *)
LEMMA FailureKeeps ==
    ASSUME RecordShape, EditedPixelsAreNotReused, NEW STATE losses, NoteFailure(losses)
    PROVE  RecordShape' /\ EditedPixelsAreNotReused' /\ (Quiet => Quiet')
  <1>1. RecordShape'
    BY DEF RecordShape, NoteFailure, Arrived, heals
  <1>2. EditedPixelsAreNotReused'
    BY DEF EditedPixelsAreNotReused, NoteFailure, heals
  <1>3. Quiet => Quiet'
    BY DEF Quiet, WillApply, NoteFailure, heals
  <1> QED BY <1>1, <1>2, <1>3

(* report_presentation_failure shows nothing new.                            *)
LEMMA GiveUpKeeps ==
    ASSUME RecordShape, EditedPixelsAreNotReused,
           NEW STATE kind, kind \in {"Loaded", "Cropped"}, NEW STATE rec,
           GiveUp(kind, rec)
    PROVE  /\ RecordShape' /\ EditedPixelsAreNotReused' /\ (Quiet => Quiet')
           /\ kind = "Cropped" => session'.reading = session.reading
  <1>1. CASE kind = "Cropped"
    BY <1>1, RestoreKeeps DEF GiveUp
  <1>2. CASE kind = "Loaded"
    BY <1>2, FailureKeeps DEF GiveUp
  <1> QED BY <1>1, <1>2

(* A picture from a file is shown when there is no edit.                     *)
LEMMA FinishKeeps ==
    ASSUME RecordShape, EditedPixelsAreNotReused,
           NEW STATE kind, kind \in {"Loaded", "Cropped"}, kind = "Loaded" => Quiet,
           NEW STATE f, NEW STATE pixels, NEW STATE large, NEW STATE rec,
           Finish(kind, f, pixels, large, rec)
    PROVE  /\ RecordShape' /\ EditedPixelsAreNotReused' /\ (Quiet => Quiet')
           /\ kind = "Cropped" => session'.reading = session.reading
  <1>1. CASE UNCHANGED <<session, image, sequence, tool, heals, lost>>
    BY <1>1 DEF RecordShape, EditedPixelsAreNotReused, Quiet, WillApply, heals
  <1>2. CASE kind = "Cropped" /\ ShowCropped(f, pixels, large)
    <2>1. RecordShape'
      BY <1>2 DEF RecordShape, ShowCropped, ResetHeals, Cancelled
    <2>2. EditedPixelsAreNotReused'
      BY <1>2 DEF EditedPixelsAreNotReused, ShowCropped
    <2>3. Quiet'
      BY <1>2 DEF RecordShape, Quiet, WillApply, ShowCropped, ResetHeals, Cancelled, NoWorker
    <2>4. session'.reading = session.reading
      BY <1>2 DEF RecordShape, ShowCropped
    <2> QED BY <2>1, <2>2, <2>3, <2>4
  <1>3. CASE kind = "Loaded" /\ ShowLoaded(f, large)
    <2>1. RecordShape'
      BY <1>3 DEF RecordShape, ShowLoaded, Arrived
    <2>2. EditedPixelsAreNotReused'
      BY <1>3 DEF EditedPixelsAreNotReused, ShowLoaded, AsInFile, Quiet
    <2>3. Quiet => Quiet'
      BY <1>3 DEF Quiet, WillApply, ShowLoaded
    <2> QED BY <1>3, <2>1, <2>2, <2>3
  <1>4. CASE GiveUp(kind, rec)
    BY <1>4, GiveUpKeeps
  <1> QED BY <1>1, <1>2, <1>3, <1>4 DEF Finish

(* report_preview_executor_loss shows nothing new.                           *)
LEMMA LossKeeps ==
    ASSUME RecordShape, EditedPixelsAreNotReused,
           NEW STATE kind, kind \in {"Loaded", "Cropped"}, NEW STATE rec,
           LosePreview(kind, rec)
    PROVE  /\ RecordShape' /\ EditedPixelsAreNotReused' /\ (Quiet => Quiet')
           /\ kind = "Cropped" => session'.reading = session.reading
  <1>1. CASE kind = "Cropped"
    BY <1>1, RestoreKeeps DEF LosePreview
  <1>2. CASE kind = "Loaded"
    BY <1>2, FailureKeeps DEF LosePreview
  <1> QED BY <1>1, <1>2

-----------------------------------------------------------------------------
(* Loads that begin, whoever asks for them.                                  *)
LEMMA LoadsKeepInv ==
    ASSUME EditsInv,
           \/ \E f \in Names : Open(f) \/ Navigate(f)
           \/ Retry \/ Reload \/ ReloadQuietly \/ ReloadReturned
    PROVE  EditsInv'
  <1>1. ASSUME NEW f \in Names, Open(f) PROVE EditsInv'
    BY <1>1, LoadKeepsInv, EditsAssumption DEF Open
  <1>2. ASSUME NEW f \in Names, Navigate(f) PROVE EditsInv'
    <2>1. CASE HasImage /\ image.pristine /\ session.shown = f
      <3>0. /\ session' = [session EXCEPT !.selected = f, !.generation = @ + 1,
                                          !.reading = NoFile, !.failed = FALSE]
            /\ preview' = NoPreview /\ tool' = Upright
            /\ UNCHANGED <<heals, crop, image>>
            /\ ~CropWork("none")
        BY <1>2, <2>1 DEF Navigate
      <3>1. RecordShape'
        BY <3>0 DEF EditsInv, Shape, RecordShape, Upright, heals
      <3>2. EditedPixelsAreNotReused'
        BY <3>0 DEF EditsInv, EditedPixelsAreNotReused, heals
      <3>3. ~Loading' /\ preview' = NoPreview
        BY <3>0 DEF EditsInv, Shape, RecordShape, Loading, NoPreview
      <3>4. ~CropUnderWay'
        BY <3>0 DEF CropUnderWay, CropWork, NoPreview
      <3> QED BY <3>1, <3>2, <3>3, <3>4 DEF EditsInv, Shape, LoadInv, CropInv
    <2>2. CASE ~(HasImage /\ image.pristine /\ session.shown = f)
      BY <1>2, <2>2, LoadKeepsInv, EditsAssumption DEF Navigate
    <2> QED BY <2>1, <2>2
  <1>3. CASE Retry
    BY <1>3, LoadKeepsInv DEF Retry
  <1>4. CASE Reload
    BY <1>4, LoadKeepsInv DEF Reload, Loaded
  <1>5. CASE ReloadQuietly
    BY <1>5, LoadKeepsInv DEF ReloadQuietly, Loaded
  <1>6. CASE ReloadReturned
    BY <1>6, LoadKeepsInv DEF ReloadReturned, Loaded
  <1> QED BY <1>1, <1>2, <1>3, <1>4, <1>5, <1>6

(* The selection changes its name, or goes.                                  *)
LEMMA SelectionKeepsInv ==
    ASSUME EditsInv, Invalidate \/ \E f \in Names : FollowRename(f)
    PROVE  EditsInv'
  <1>1. ASSUME NEW f \in Names, FollowRename(f) PROVE EditsInv'
    <2>1. RecordShape' /\ session'.reading = session.reading
      BY <1>1 DEF EditsInv, Shape, RecordShape, FollowRename, heals
    <2>2. UNCHANGED <<image, sequence, tool, worker, refresh, history, crop, preview>>
      BY <1>1 DEF FollowRename, heals
    <2> QED BY <2>1, <2>2 DEF EditsInv, Shape, EditedPixelsAreNotReused, LoadInv, Loading,
                              Quiet, WillApply, CropInv, CropUnderWay
  <1>2. CASE Invalidate
    <2>1. RecordShape'
      BY <1>2 DEF EditsInv, Shape, RecordShape, Invalidate, NoImage, ResetHeals, Cancelled
    <2>2. EditedPixelsAreNotReused'
      BY <1>2 DEF EditedPixelsAreNotReused, Invalidate, NoImage
    <2>3. preview' = NoPreview /\ ~Loading' /\ ~CropUnderWay'
      BY <1>2 DEF EditsInv, Shape, RecordShape, Invalidate, Loading, CropUnderWay, NoPreview
    <2> QED BY <2>1, <2>2, <2>3 DEF EditsInv, Shape, LoadInv, CropInv
  <1> QED BY <1>1, <1>2

(* Loads and previews that end.                                              *)
LEMMA ArrivalsKeepInv ==
    ASSUME EditsInv, LoadArrives \/ PollPreview
    PROVE  EditsInv'
  <1> USE DEF EditsInv, Shape
  <1>1. CASE LoadArrives
    <2>1. Quiet /\ crop = NoCrop /\ preview.kind # "Cropped"
      BY <1>1 DEF LoadArrives, LoadInv, Loading, CropInv, CropUnderWay
    <2>2. RecordShape' /\ EditedPixelsAreNotReused' /\ Quiet'
          /\ (preview' = preview \/ preview'.kind = "Loaded")
      <3>1. CASE session' = Arrived /\ UNCHANGED <<image, sequence, tool, heals, lost, preview>>
        BY <3>1, <2>1 DEF RecordShape, EditedPixelsAreNotReused, Quiet, WillApply, Arrived, heals
      <3>2. CASE NoteFailure(lost) /\ UNCHANGED preview
        BY <3>2, <2>1, FailureKeeps
      <3>3. ASSUME NEW large \in BOOLEAN,
                   Present("Loaded", session.reading, AsInFile, large, NoCrop)
            PROVE  RecordShape' /\ EditedPixelsAreNotReused' /\ Quiet'
                   /\ (preview' = preview \/ preview'.kind = "Loaded")
        <4>1. CASE Finish("Loaded", session.reading, AsInFile, large, NoCrop)
                   /\ UNCHANGED preview
          BY <4>1, <2>1, FinishKeeps
        <4>2. CASE /\ preview' = [kind |-> "Loaded", file |-> session.reading,
                                  generation |-> session.generation, pixels |-> AsInFile,
                                  rec |-> NoCrop]
                   /\ session' = Arrived
                   /\ UNCHANGED <<image, sequence, tool, heals, lost>>
          BY <4>2, <2>1 DEF RecordShape, EditedPixelsAreNotReused, Quiet, WillApply,
                            Arrived, heals
        <4>3. CASE LosePreview("Loaded", NoCrop) /\ UNCHANGED preview
          BY <4>3, <2>1, LossKeeps
        <4> QED BY <3>3, <4>1, <4>2, <4>3 DEF Present
      <3> QED BY <1>1, <3>1, <3>2, <3>3 DEF LoadArrives
    <2>3. crop' = NoCrop
      BY <1>1, <2>1 DEF LoadArrives
    <2> QED BY <2>1, <2>2, <2>3 DEF LoadInv, CropInv, CropUnderWay, NoPreview
  <1>2. CASE PollPreview
    <2>1. preview.kind \in {"Loaded", "Cropped"} /\ preview' = NoPreview /\ crop' = crop
      BY <1>2 DEF PollPreview
    <2>2. preview.kind = "Loaded" => Quiet
      BY DEF LoadInv, Loading
    <2>3. crop = NoCrop \/ session.reading = NoFile
      BY DEF CropInv, CropUnderWay
    <2>4. /\ RecordShape' /\ EditedPixelsAreNotReused' /\ (Quiet => Quiet')
          /\ preview.kind = "Cropped" => session'.reading = session.reading
      <3>1. CASE UNCHANGED <<session, image, sequence, tool, heals, lost>>
        BY <3>1 DEF RecordShape, EditedPixelsAreNotReused, Quiet, WillApply, heals
      <3>2. CASE Finish(preview.kind, preview.file, preview.pixels, TRUE, preview.rec)
        BY <3>2, <2>1, <2>2, FinishKeeps
      <3>3. CASE GiveUp(preview.kind, preview.rec)
        BY <3>3, <2>1, GiveUpKeeps
      <3>4. CASE LosePreview(preview.kind, preview.rec)
        BY <3>4, <2>1, LossKeeps
      <3> QED BY <1>2, <3>1, <3>2, <3>3, <3>4 DEF PollPreview
    <2>5. crop' = NoCrop
      BY <1>2, <2>1 DEF PollPreview, LoadInv, CropInv, CropUnderWay
    <2> QED BY <2>1, <2>2, <2>4, <2>5 DEF LoadInv, Loading, CropInv, CropUnderWay, NoPreview
  <1> QED BY <1>1, <1>2

(* Frames and pages: none is at hand while a crop is under way.              *)
LEMMA SequenceKeepsInv ==
    ASSUME EditsInv, PollAuxiliary \/ AdvanceAnimation \/ StepSequence
    PROVE  EditsInv'
  <1>1. /\ image' = image \/ image' = Frame
        /\ UNCHANGED <<session, tool, heals, crop, preview>>
    BY DEF PollAuxiliary, AdvanceAnimation, StepSequence
  <1>2. ~CropUnderWay
    BY DEF EditsInv, CropInv, PollAuxiliary, AdvanceAnimation, StepSequence
  <1>3. RecordShape'
    BY <1>1 DEF EditsInv, Shape, RecordShape, Frame, heals
  <1>4. EditedPixelsAreNotReused'
    BY <1>1 DEF EditsInv, Shape, RecordShape, EditedPixelsAreNotReused, Frame, heals
  <1>5. Shape' /\ LoadInv' /\ CropInv'
    BY <1>1, <1>2, <1>3 DEF EditsInv, Shape, LoadInv, Loading, Quiet, WillApply, CropInv,
                            CropUnderWay, heals
  <1> QED BY <1>4, <1>5 DEF EditsInv

(* The crop's mode, its thread and what it brings.                           *)
LEMMA CropKeepsInv ==
    ASSUME EditsInv,
           \/ EnterCrop \/ HandleCrop \/ PollCrop
           \/ \E from, to \in 1..Width : ApplyCrop(from, to)
    PROVE  EditsInv'
  <1> USE DEF EditsInv, Shape
  <1>1. CASE EnterCrop
    <2>1. RecordShape'
      BY <1>1 DEF RecordShape, EnterCrop, Cancelled
    <2>2. EditedPixelsAreNotReused'
      BY <1>1 DEF EditedPixelsAreNotReused, EnterCrop
    <2>3. ~Loading' /\ ~CropUnderWay' /\ preview' = NoPreview
      BY <1>1 DEF EnterCrop, Busy, Preparing, CropWork, Loading, CropUnderWay, NoPreview
    <2> QED BY <2>1, <2>2, <2>3 DEF LoadInv, CropInv
  <1>2. CASE HandleCrop
    <2>1. /\ tool' = [tool EXCEPT !.cropping = FALSE, !.dragging = FALSE]
             \/ tool' = [tool EXCEPT !.dragging = ~@]
          /\ UNCHANGED <<session, image, sequence, heals, crop, preview>>
      BY <1>2 DEF HandleCrop, LeaveCrop, Drag, Upright
    <2>2. RecordShape' /\ tool'.painting = tool.painting
      BY <2>1 DEF RecordShape, heals
    <2> QED BY <2>1, <2>2 DEF EditedPixelsAreNotReused, LoadInv, Loading, Quiet, WillApply,
                              CropInv, CropUnderWay, heals
  <1>3. ASSUME NEW from \in 1..Width, NEW to \in 1..Width, ApplyCrop(from, to)
        PROVE  EditsInv'
    <2>1. RecordShape'
      BY <1>3 DEF RecordShape, ApplyCrop, Upright, heals
    <2>2. EditedPixelsAreNotReused'
      BY <1>3 DEF EditedPixelsAreNotReused, ApplyCrop, heals
    <2>3. preview' = NoPreview /\ session'.reading = NoFile /\ sequence' = "none"
      BY <1>3 DEF ApplyCrop, Settled, Busy, Preparing
    <2>4. worker' = NoWorker /\ tool'.painting = FALSE
      BY <1>3 DEF RecordShape, ApplyCrop, Busy, HealWork, Upright, heals
    <2> QED BY <2>1, <2>2, <2>3, <2>4 DEF LoadInv, Loading, CropInv, NoPreview
  <1>4. CASE PollCrop
    <2>1. /\ preview = NoPreview /\ session.reading = NoFile /\ crop' = NoCrop
          /\ sequence = "none" /\ worker = NoWorker /\ ~tool.painting
      BY <1>4 DEF PollCrop, CropInv, CropUnderWay
    <2>2. ASSUME RecordShape', EditedPixelsAreNotReused', session'.reading = NoFile,
                 preview' = preview
          PROVE  EditsInv'
      BY <2>1, <2>2 DEF LoadInv, Loading, CropInv, CropUnderWay, NoPreview
    <2>3. CASE Restore(crop.rec) /\ UNCHANGED <<session, image, heals, preview>>
      BY <2>1, <2>2, <2>3, RestoreKeeps
    <2>4. CASE UNCHANGED <<session, image, sequence, tool, heals, preview, lost>>
      BY <2>1, <2>2, <2>4 DEF RecordShape, EditedPixelsAreNotReused, heals
    <2>5. ASSUME NEW large, Present("Cropped", crop.rec.file, crop.pixels, large, crop.rec)
          PROVE  EditsInv'
      <3>1. CASE Finish("Cropped", crop.rec.file, crop.pixels, large, crop.rec)
                 /\ UNCHANGED preview
        BY <3>1, <2>1, <2>2, FinishKeeps
      <3>2. CASE LosePreview("Cropped", crop.rec) /\ UNCHANGED preview
        BY <3>2, <2>1, <2>2, LossKeeps
      <3>3. CASE /\ preview' = [kind |-> "Cropped", file |-> crop.rec.file,
                                generation |-> session.generation, pixels |-> crop.pixels,
                                rec |-> crop.rec]
                 /\ UNCHANGED <<session, image, sequence, tool, heals>>
        <4>1. preview'.kind = "Cropped"
          BY <3>3
        <4>2. RecordShape' /\ EditedPixelsAreNotReused'
          BY <3>3 DEF RecordShape, EditedPixelsAreNotReused, heals
        <4> QED BY <3>3, <4>1, <4>2, <2>1 DEF LoadInv, Loading, CropInv, heals
      <3> QED BY <2>5, <3>1, <3>2, <3>3 DEF Present
    <2> QED BY <1>4, <2>3, <2>4, <2>5 DEF PollCrop
  <1> QED BY <1>1, <1>2, <1>3, <1>4

(* Spot Heal: a stroke begins only when nothing else is under way.           *)
LEMMA HealKeepsInv ==
    ASSUME EditsInv,
           \/ EnterHeal \/ BeginStroke \/ LeaveHeal \/ AbandonGesture
           \/ \E at, size \in 1..Width : FinishStroke(at, size)
    PROVE  EditsInv'
  <1> USE DEF EditsInv, Shape
  <1>1. CASE EnterHeal
    <2>1. RecordShape' /\ tool'.painting = FALSE
      BY <1>1 DEF RecordShape, EnterHeal, heals
    <2>2. UNCHANGED <<session, image, sequence, worker, refresh, history, crop, preview>>
      BY <1>1 DEF EnterHeal, heals
    <2> QED BY <2>1, <2>2 DEF EditedPixelsAreNotReused, LoadInv, Loading, Quiet, WillApply,
                              CropInv, CropUnderWay
  <1>2. CASE BeginStroke
    <2>1. RecordShape' /\ EditedPixelsAreNotReused'
      BY <1>2 DEF RecordShape, EditedPixelsAreNotReused, BeginStroke, heals
    <2>2. ~Loading' /\ ~CropUnderWay' /\ preview' = NoPreview
      BY <1>2 DEF BeginStroke, Busy, Preparing, CropWork, Loading, CropUnderWay, NoPreview
    <2> QED BY <2>1, <2>2 DEF LoadInv, CropInv
  <1>3. CASE LeaveHeal \/ AbandonGesture
    <2>1. RecordShape' /\ (tool'.painting => tool.painting)
      BY <1>3 DEF RecordShape, LeaveHeal, AbandonGesture, heals
    <2>2. UNCHANGED <<session, image, sequence, worker, refresh, history, crop, preview>>
      BY <1>3 DEF LeaveHeal, AbandonGesture, heals
    <2> QED BY <2>1, <2>2 DEF EditedPixelsAreNotReused, LoadInv, Loading, Quiet, WillApply,
                              CropInv, CropUnderWay
  <1>4. ASSUME NEW at \in 1..Width, NEW size \in 1..Width, FinishStroke(at, size)
        PROVE  EditsInv'
    <2>1. PICK stays \in BOOLEAN : tool' = [tool EXCEPT !.painting = FALSE, !.healing = stays]
      BY <1>4 DEF FinishStroke
    <2>2. worker' = worker
          \/ worker' = [heal |-> begun + 1, candidate |-> 0, at |-> at, size |-> size,
                        apply |-> TRUE, again |-> FALSE]
      BY <1>4 DEF FinishStroke
    <2>3. UNCHANGED <<session, image, sequence, refresh, history, crop, preview>>
      BY <1>4 DEF FinishStroke
    <2>4. RecordShape'
      BY <2>1, <2>2, <2>3 DEF RecordShape
    <2>5. ~Loading /\ ~CropUnderWay
      BY <1>4 DEF FinishStroke, LoadInv, Quiet, CropInv
    <2> QED BY <2>3, <2>4, <2>5 DEF EditedPixelsAreNotReused, LoadInv, Loading,
                              CropInv, CropUnderWay
  <1> QED BY <1>1, <1>2, <1>3, <1>4

(* What is edited stands for its file no more.                               *)
LEMMA EditKeepsInv ==
    ASSUME EditsInv, PollHeal \/ RefreshSource \/ Undo \/ Redo
    PROVE  EditsInv'
  <1> USE DEF EditsInv, Shape
  <1>1. CASE PollHeal
    <2>1. /\ worker # NoWorker /\ worker' = NoWorker
          /\ UNCHANGED <<session, sequence, tool, crop, preview>>
      BY <1>1 DEF PollHeal
    <2>2. ~CropUnderWay
      BY <2>1 DEF CropInv
    <2>3. CASE UNCHANGED <<image, refresh, history>>
      BY <2>1, <2>2, <2>3 DEF RecordShape, EditedPixelsAreNotReused, LoadInv, Loading, Quiet,
                              WillApply, CropInv, CropUnderWay
    <2>4. ASSUME worker.apply, NEW several \in BOOLEAN, Commit(worker, several)
          PROVE  EditsInv'
      <3>1. image' = Edited(Patched(image.pixels, PatchOf(worker)))
        BY <2>4 DEF Commit
      <3>2. RecordShape' /\ image'.pristine = FALSE
        BY <3>1, <2>1 DEF RecordShape, Edited
      <3>3. ~Loading
        BY <2>1, <2>4 DEF LoadInv, Quiet, WillApply
      <3> QED BY <2>1, <2>2, <3>2, <3>3 DEF EditedPixelsAreNotReused, LoadInv, Loading,
                                            CropInv, CropUnderWay
    <2> QED BY <1>1, <2>3, <2>4 DEF PollHeal
  <1>2. CASE RefreshSource
    <2>1. ~Loading' /\ ~CropUnderWay' /\ preview' = NoPreview
      BY <1>2 DEF RefreshSource, Busy, Preparing, CropWork, Loading, CropUnderWay, NoPreview
    <2>2. RecordShape' /\ EditedPixelsAreNotReused'
      BY <1>2 DEF RefreshSource, RecordShape, EditedPixelsAreNotReused
    <2> QED BY <2>1, <2>2 DEF LoadInv, CropInv
  <1>3. CASE Undo \/ Redo
    <2>1. ~Loading' /\ ~CropUnderWay' /\ preview' = NoPreview
      BY <1>3 DEF Undo, Redo, Busy, Preparing, CropWork, Loading, CropUnderWay, NoPreview
    <2>2. RecordShape' /\ image'.pristine = FALSE
      BY <1>3 DEF RecordShape, Undo, Redo, Edited
    <2> QED BY <2>1, <2>2 DEF EditedPixelsAreNotReused, LoadInv, CropInv
  <1> QED BY <1>1, <1>2, <1>3

(* Every step keeps the invariant.                                           *)
LEMMA NextEdits == EditsInv /\ [Next]_vars => EditsInv'
  <1> SUFFICES ASSUME EditsInv, [Next]_vars PROVE EditsInv'
    OBVIOUS
  <1>1. CASE UNCHANGED vars
    BY <1>1 DEF vars, EditsInv, Shape, RecordShape, EditedPixelsAreNotReused, LoadInv, Loading,
                Quiet, WillApply, CropInv, CropUnderWay
  <1>2. CASE Next
    BY <1>2, LoadsKeepInv, SelectionKeepsInv, ArrivalsKeepInv, SequenceKeepsInv,
       CropKeepsInv, HealKeepsInv, EditKeepsInv DEF Next
  <1> QED BY <1>1, <1>2

-----------------------------------------------------------------------------
(* The invariant of sessions, edits and crops.                               *)
THEOREM EditsAreInvariant == Spec => []EditsInv
  BY InitEdits, NextEdits, PTL DEF Spec

(* Navigation and the cache never take edited pixels for the file's.         *)
THEOREM FilesStayPristine == Spec => []EditedPixelsAreNotReused
  <1>1. EditsInv => EditedPixelsAreNotReused
    BY DEF EditsInv
  <1> QED BY <1>1, EditsAreInvariant, PTL

(* What shows or refuses a picture begins no load.                           *)
LEMMA PresentCounts ==
    ASSUME RecordShape, NEW STATE kind, NEW STATE f, NEW STATE pixels, NEW STATE large,
           NEW STATE rec,
           \/ Finish(kind, f, pixels, large, rec) \/ GiveUp(kind, rec)
           \/ LosePreview(kind, rec) \/ Present(kind, f, pixels, large, rec)
    PROVE  session'.generation = session.generation
  <1>1. ASSUME NEW STATE losses, NoteFailure(losses)
        PROVE  session'.generation = session.generation
    BY <1>1 DEF RecordShape, NoteFailure, Arrived
  <1>2. CASE GiveUp(kind, rec)
    BY <1>1, <1>2 DEF GiveUp
  <1>3. CASE LosePreview(kind, rec)
    BY <1>1, <1>3 DEF LosePreview
  <1>4. CASE Finish(kind, f, pixels, large, rec)
    BY <1>2, <1>4 DEF RecordShape, Finish, ShowCropped, ShowLoaded, Arrived, GiveUp
  <1>5. CASE Present(kind, f, pixels, large, rec)
    BY <1>3, <1>4, <1>5 DEF RecordShape, Present, Arrived
  <1> QED BY <1>2, <1>3, <1>4, <1>5

(* Loads are counted.                                                        *)
LEMMA NextCount == EditsInv /\ CountInv /\ [Next]_vars => CountInv'
  <1> SUFFICES ASSUME EditsInv, CountInv, [Next]_vars PROVE CountInv'
    OBVIOUS
  <1> USE DEF CountInv
  <1>1. RecordShape
    BY DEF EditsInv, Shape
  <1>2. ASSUME NEW f, NEW STATE mode, Load(f, mode) PROVE CountInv'
    <2>1. session'.generation = session.generation + 1
      BY <1>1, <1>2 DEF RecordShape, Load
    <2> QED BY <2>1
  <1>3. ASSUME NEW f \in Names, Open(f) \/ Navigate(f) \/ FollowRename(f) PROVE CountInv'
    <2>1. CASE Open(f)
      BY <1>2, <2>1 DEF Open
    <2>2. CASE Navigate(f) /\ HasImage /\ image.pristine /\ session.shown = f
      <3>1. session'.generation = session.generation + 1
        BY <1>1, <2>2 DEF RecordShape, Navigate
      <3> QED BY <3>1
    <2>3. CASE Navigate(f) /\ ~(HasImage /\ image.pristine /\ session.shown = f)
      BY <1>2, <2>3 DEF Navigate
    <2>4. CASE FollowRename(f)
      BY <1>1, <2>4 DEF RecordShape, FollowRename
    <2> QED BY <1>3, <2>1, <2>2, <2>3, <2>4
  <1>4. CASE Retry \/ Reload \/ ReloadQuietly \/ ReloadReturned
    BY <1>2, <1>4 DEF Retry, Reload, ReloadQuietly, ReloadReturned
  <1>5. CASE Invalidate
    BY <1>1, <1>5 DEF RecordShape, Invalidate
  <1>6. CASE LoadArrives
    BY <1>1, <1>6, PresentCounts DEF RecordShape, LoadArrives, Arrived, NoteFailure
  <1>7. CASE PollPreview \/ PollCrop
    BY <1>1, <1>7, PresentCounts DEF PollPreview, PollCrop
  <1>8. CASE UNCHANGED session
    BY <1>8
  <1> QED BY <1>3, <1>4, <1>5, <1>6, <1>7, <1>8
      DEF Next, vars, PollAuxiliary, AdvanceAnimation, StepSequence, EnterCrop, HandleCrop,
          ApplyCrop, EnterHeal, BeginStroke, LeaveHeal, AbandonGesture, FinishStroke, PollHeal,
          RefreshSource, Undo, Redo

(* Only a crop that is still current is handed on to a preview.              *)
LEMMA NextKept == EditsInv /\ KeptInv /\ [Next]_vars => KeptInv'
  <1> SUFFICES ASSUME EditsInv, KeptInv, [Next]_vars PROVE KeptInv'
    OBVIOUS
  <1>1. CASE preview' \in {preview, NoPreview}
    BY <1>1 DEF KeptInv, NoPreview
  <1>2. CASE LoadArrives
    <2>1. CASE preview' = [kind |-> "Loaded", file |-> session.reading,
                           generation |-> session.generation, pixels |-> AsInFile,
                           rec |-> NoCrop]
      BY <2>1 DEF KeptInv
    <2>2. CASE preview' = preview
      BY <1>1, <2>2
    <2> QED BY <1>2, <2>1, <2>2 DEF LoadArrives, Present
  <1>3. CASE PollCrop
    <2>1. ASSUME IsCurrent(crop.rec), NEW large,
                 Present("Cropped", crop.rec.file, crop.pixels, large, crop.rec)
          PROVE  KeptInv'
      <3>1. CASE preview' = [kind |-> "Cropped", file |-> crop.rec.file,
                             generation |-> session.generation, pixels |-> crop.pixels,
                             rec |-> crop.rec]
        BY <2>1, <3>1 DEF KeptInv, IsCurrent
      <3> QED BY <1>1, <2>1, <3>1 DEF Present
    <2> QED BY <1>1, <1>3, <2>1 DEF PollCrop
  <1>4. CASE PollPreview
    BY <1>1, <1>4 DEF PollPreview
  <1>5. ASSUME NEW f, NEW STATE mode, Load(f, mode) PROVE KeptInv'
    BY <1>1, <1>5 DEF Load
  <1>6. ASSUME NEW f \in Names, Open(f) \/ Navigate(f) \/ FollowRename(f) PROVE KeptInv'
    BY <1>1, <1>5, <1>6 DEF Open, Navigate, FollowRename
  <1>7. CASE Retry \/ Reload \/ ReloadQuietly \/ ReloadReturned \/ Invalidate
    BY <1>1, <1>5, <1>7 DEF Retry, Reload, ReloadQuietly, ReloadReturned, Invalidate
  <1> QED BY <1>1, <1>2, <1>3, <1>4, <1>6, <1>7
      DEF Next, vars, PollAuxiliary, AdvanceAnimation, StepSequence, EnterCrop, HandleCrop,
          ApplyCrop, EnterHeal, BeginStroke, LeaveHeal, AbandonGesture, FinishStroke, PollHeal,
          RefreshSource, Undo, Redo

(* A crop under way bars every action on the picture: what is left is its    *)
(* own end, a load, a new selection or a new name.                           *)
LEMMA CropHasThePicture ==
    ASSUME EditsInv, KeptInv, CountInv, [Next]_vars, CropUnderWay, IsCurrent(Kept)
    PROVE  \/ /\ session' = session /\ image' = image
              /\ IF CropUnderWay' THEN Kept' = Kept
                 ELSE tool'.cropping /\ sequence' = Kept.sequence
           \/ ~CropUnderWay' /\ image'.cropped /\ image'.id = image.id + 1
           \/ session'.generation # session.generation
           \/ session'.selected # session.selected
  <1> DEFINE Goal ==
           \/ /\ session' = session /\ image' = image
              /\ IF CropUnderWay' THEN Kept' = Kept
                 ELSE tool'.cropping /\ sequence' = Kept.sequence
           \/ ~CropUnderWay' /\ image'.cropped /\ image'.id = image.id + 1
           \/ session'.generation # session.generation
           \/ session'.selected # session.selected
  <1> SUFFICES Goal
    OBVIOUS
  <1>1. /\ session.reading = NoFile
        /\ crop = NoCrop \/ preview = NoPreview
        /\ sequence = "none" /\ worker = NoWorker /\ ~tool.painting
    BY DEF EditsInv, CropInv
  <1>2. ASSUME UNCHANGED <<session, image, crop, preview>> PROVE Goal
    BY <1>2 DEF CropUnderWay, Kept
  <1>3. CASE UNCHANGED vars
    BY <1>2, <1>3 DEF vars
  <1>4. ASSUME session'.generation = session.generation + 1 PROVE Goal
    BY <1>4 DEF CountInv
  <1>5. ASSUME NEW STATE f, NEW STATE mode, Load(f, mode) PROVE Goal
    BY <1>4, <1>5 DEF Load, EditsInv, Shape, RecordShape
  <1>6. ASSUME NEW f \in Names, Open(f) \/ Navigate(f) PROVE Goal
    <2>1. CASE Open(f)
      BY <1>5, <2>1 DEF Open
    <2>2. CASE Navigate(f) /\ HasImage /\ image.pristine /\ session.shown = f
      BY <1>4, <2>2 DEF Navigate, EditsInv, Shape, RecordShape
    <2>3. CASE Navigate(f) /\ ~(HasImage /\ image.pristine /\ session.shown = f)
      BY <1>5, <2>3 DEF Navigate
    <2> QED BY <1>6, <2>1, <2>2, <2>3
  <1>7. ASSUME NEW f \in Names, FollowRename(f) PROVE Goal
    BY <1>7 DEF FollowRename, EditsInv, Shape, RecordShape
  <1>8. CASE Retry \/ Reload \/ ReloadQuietly \/ ReloadReturned
    BY <1>5, <1>8 DEF Retry, Reload, ReloadQuietly, ReloadReturned
  <1>9. CASE Invalidate
    BY <1>4, <1>9 DEF Invalidate, EditsInv, Shape, RecordShape
  <1>10. ASSUME Restore(Kept), UNCHANGED <<session, image>>, ~CropUnderWay' PROVE Goal
    BY <1>10 DEF Restore, EditsInv, Shape, RecordShape
  <1>11. ASSUME NEW f, NEW STATE pixels, NEW STATE large,
                Finish("Cropped", f, pixels, large, Kept), ~CropUnderWay'
         PROVE  Goal
    <2>1. CASE ShowCropped(f, pixels, large)
      BY <1>11, <2>1 DEF ShowCropped
    <2>2. CASE GiveUp("Cropped", Kept)
      BY <1>10, <1>11, <2>2 DEF GiveUp
    <2> QED BY <1>11, <2>1, <2>2 DEF Finish
  <1>12. CASE PollPreview
    <2>1. /\ crop = NoCrop /\ crop' = NoCrop /\ preview' = NoPreview
          /\ preview.kind = "Cropped" /\ Kept = preview.rec
      BY <1>1, <1>12 DEF PollPreview, CropUnderWay, Kept
    <2>2. ~CropUnderWay'
      BY <2>1 DEF CropUnderWay, NoPreview
    <2>3. preview.generation = session.generation /\ preview.file = session.selected
      BY <2>1 DEF KeptInv, IsCurrent
    <2>4. CASE Finish("Cropped", preview.file, preview.pixels, TRUE, Kept)
      BY <2>2, <2>4, <1>11
    <2>5. CASE GiveUp("Cropped", Kept)
      BY <2>2, <2>5, <1>10 DEF GiveUp
    <2>6. CASE LosePreview("Cropped", Kept)
      BY <2>2, <2>6, <1>10 DEF LosePreview
    <2> QED BY <1>12, <2>1, <2>3, <2>4, <2>5, <2>6 DEF PollPreview
  <1>13. CASE PollCrop
    <2>1. crop' = NoCrop /\ preview = NoPreview /\ Kept = crop.rec
      BY <1>1, <1>13 DEF PollCrop, Kept
    <2>2. ASSUME preview' = preview PROVE ~CropUnderWay'
      BY <2>1, <2>2 DEF CropUnderWay, NoPreview
    <2>3. CASE Restore(Kept) /\ UNCHANGED <<session, image, preview>>
      BY <2>2, <2>3, <1>10
    <2>4. ASSUME NEW large, Present("Cropped", crop.rec.file, crop.pixels, large, Kept)
          PROVE  Goal
      <3>1. CASE Finish("Cropped", crop.rec.file, crop.pixels, large, Kept)
                 /\ UNCHANGED preview
        BY <2>2, <3>1, <1>11
      <3>2. CASE /\ preview' = [kind |-> "Cropped", file |-> crop.rec.file,
                                generation |-> session.generation, pixels |-> crop.pixels,
                                rec |-> Kept]
                 /\ UNCHANGED <<session, image, sequence, tool, heals>>
        <4>1. preview'.kind = "Cropped" /\ preview'.rec = Kept
          BY <3>2
        <4>2. CropUnderWay' /\ Kept' = Kept
          BY <2>1, <4>1 DEF CropUnderWay, Kept
        <4> QED BY <3>2, <4>2
      <3>3. CASE LosePreview("Cropped", Kept) /\ UNCHANGED preview
        BY <2>2, <3>3, <1>10 DEF LosePreview
      <3> QED BY <2>4, <3>1, <3>2, <3>3 DEF Present
    <2> QED BY <1>13, <2>1, <2>3, <2>4 DEF PollCrop
  <1>14. ASSUME NEW from \in 1..Width, NEW to \in 1..Width, ApplyCrop(from, to)
         PROVE  Goal
    BY <1>14 DEF ApplyCrop, Busy, Preparing, CropWork, CropUnderWay, NoPreview
  <1>15. CASE EnterCrop \/ HandleCrop \/ EnterHeal \/ LeaveHeal \/ AbandonGesture \/ RefreshSource
    BY <1>2, <1>15 DEF EnterCrop, HandleCrop, EnterHeal, LeaveHeal, AbandonGesture, RefreshSource
  <1>16. CASE BeginStroke \/ Undo \/ Redo
    BY <1>16 DEF BeginStroke, Undo, Redo, Busy, Preparing, CropWork, CropUnderWay, NoPreview
  <1>17. ~LoadArrives /\ ~PollHeal /\ ~PollAuxiliary /\ ~AdvanceAnimation /\ ~StepSequence
         /\ \A at, size \in 1..Width : ~FinishStroke(at, size)
    BY <1>1 DEF LoadArrives, PollHeal, PollAuxiliary, AdvanceAnimation, StepSequence, FinishStroke
  <1> QED
    BY <1>3, <1>6, <1>7, <1>8, <1>9, <1>12, <1>13, <1>14, <1>15, <1>16, <1>17 DEF Next

(* A crop is applied, or given back with selection and sequence, unless a    *)
(* load, another selection or a rename came first.                           *)
THEOREM NoCropIsLost == Spec => CropIsAppliedOrGivenBack
  <1>1. Init => CountInv /\ KeptInv
    BY DEF Init, CountInv, KeptInv, NoPreview
  <1>2. Spec => [](CountInv /\ KeptInv)
    BY <1>1, NextCount, NextKept, EditsAreInvariant, PTL DEF Spec
  <1> DEFINE Step ==
          CropUnderWay /\ IsCurrent(Kept) =>
            \/ /\ session' = session /\ image' = image
               /\ IF CropUnderWay' THEN Kept' = Kept
                  ELSE tool'.cropping /\ sequence' = Kept.sequence
            \/ ~CropUnderWay' /\ image'.cropped /\ image'.id = image.id + 1
            \/ session'.generation # session.generation
            \/ session'.selected # session.selected
  <1>3. EditsInv /\ CountInv /\ KeptInv /\ [Next]_vars => [Step]_vars
    BY CropHasThePicture
  <1> QED BY <1>2, <1>3, EditsAreInvariant, PTL DEF Spec, CropIsAppliedOrGivenBack

-----------------------------------------------------------------------------
(* An edit and its inverse.                                                  *)

(* What apply_patch returns takes the patch back, pixel for pixel, whatever  *)
(* the picture and the patch (apply_patch, extract_region).                  *)
THEOREM InverseTakesBack ==
    ASSUME NEW Colours, NEW pixels \in Seq(Colours),
           NEW rgba \in Seq(Colours), NEW at \in Nat \ {0},
           Fits([at |-> at, rgba |-> rgba], pixels)
    PROVE  LET patch == [at |-> at, rgba |-> rgba]
           IN  Patched(Patched(pixels, patch), InverseOf(patch, pixels)) = pixels
  <1> DEFINE patch == [at |-> at, rgba |-> rgba]
             size  == Len(rgba)
             after == Patched(pixels, patch)
             back  == InverseOf(patch, pixels)
  <1>1. size \in Nat /\ Len(pixels) \in Nat /\ at + size <= Len(pixels) + 1
    BY DEF Fits, Size
  <1>2. back.at = at /\ back.rgba = SubSeq(pixels, at, at + size - 1)
    BY DEF InverseOf, Size
  <1>3. Len(back.rgba) = size
    BY <1>1, <1>2
  <1>4. \A i \in at..(at + size - 1) : back.rgba[i - at + 1] = pixels[i]
    BY <1>1, <1>2
  <1>5. DOMAIN after = DOMAIN pixels
    BY DEF Patched
  <1>6. \A i \in DOMAIN pixels : i \notin at..(at + size - 1) => after[i] = pixels[i]
    BY DEF Patched, Size
  <1>7. Patched(after, back) = [i \in DOMAIN pixels |-> pixels[i]]
    BY <1>2, <1>3, <1>4, <1>5, <1>6 DEF Patched, Size
  <1> QED BY <1>7

-----------------------------------------------------------------------------
(* A walk: the edit history of one picture (PatchHistory), as lemmas about   *)
(* sequences of patches.  Bytes is a recursive function; what it adds up to  *)
(* is shown by induction.                                                    *)

(* A set of numbers has a smallest.                                          *)
LEMMA Smallest ==
    ASSUME NEW T \in SUBSET Nat, T # {}
    PROVE  \E n \in T : \A m \in T : n <= m
<1> DEFINE R == {ss \in Nat \X Nat : ss[1] < ss[2]}
<1>1. IsWellFoundedOn(R, Nat)
      BY NatLessThanWellFounded DEF OpToRel
<1>2. PICK n \in T : \A m \in T : ~(<<m, n>> \in R)
      BY <1>1, WFMin
<1>3. ASSUME NEW m \in T
      PROVE  n <= m
  <2>1. n \in Nat /\ m \in Nat /\ ~(<<m, n>> \in R)
        BY <1>2
  <2>2. m < n => <<m, n>> \in R
        BY <2>1
  <2> QED BY <2>1, <2>2
<1> QED BY <1>3

(* Induction, with a set for the property: sets can be instantiated.         *)
LEMMA SetInduction ==
    ASSUME NEW T, 0 \in T, \A n \in Nat : n \in T => n + 1 \in T
    PROVE  Nat \subseteq T
<1> DEFINE B == {n \in Nat : n \notin T}
<1>1. CASE B = {}
      BY <1>1
<1>2. CASE B # {}
  <2>1. PICK n \in B : \A m \in B : n <= m
        BY <1>2, Smallest
  <2>2. n # 0
        BY <2>1
  <2>3. n - 1 \in Nat /\ n - 1 \notin B
        BY <2>1, <2>2
  <2> QED BY <2>1, <2>3
<1> QED BY <1>1, <1>2

-----------------------------------------------------------------------------
(* The patches that fit a picture of this many pixels.                       *)
Patches(ink, width) ==
    {p \in [at : Nat \ {0}, rgba : Seq(ink)] : p.at + Len(p.rgba) <= width + 1}

(* A patch that fits leaves a picture of the same size.                      *)
LEMMA PatchedPicture ==
    ASSUME NEW ink, NEW pixels \in Seq(ink), NEW p \in Patches(ink, Len(pixels))
    PROVE  Patched(pixels, p) \in Seq(ink) /\ Len(Patched(pixels, p)) = Len(pixels)
  <1> DEFINE new == Patched(pixels, p)
  <1>1. Len(pixels) \in Nat /\ DOMAIN pixels = 1..Len(pixels)
    OBVIOUS
  <1>2. p.at \in Nat \ {0} /\ p.rgba \in Seq(ink) /\ Len(p.rgba) \in Nat
    BY DEF Patches
  <1>3. ASSUME NEW i \in 1..Len(pixels)
        PROVE  (IF i \in p.at..(p.at + Size(p) - 1) THEN p.rgba[i - p.at + 1] ELSE pixels[i])
                 \in ink
    <2>1. CASE i \in p.at..(p.at + Size(p) - 1)
      <3>1. i - p.at + 1 \in 1..Len(p.rgba)
        BY <1>2, <2>1 DEF Size
      <3> QED BY <1>2, <2>1, <3>1, ElementOfSeq
    <2>2. CASE i \notin p.at..(p.at + Size(p) - 1)
      BY <2>2, ElementOfSeq
    <2> QED BY <2>1, <2>2
  <1>4. new \in [1..Len(pixels) -> ink]
    BY <1>1, <1>3 DEF Patched
  <1> QED BY <1>1, <1>4

(* A stretch of a sequence.                                                  *)
LEMMA StretchFacts ==
    ASSUME NEW S, NEW s \in Seq(S), NEW m \in Nat \ {0}, NEW n \in Nat,
           n <= Len(s), m <= n + 1
    PROVE  /\ SubSeq(s, m, n) \in Seq(S) /\ Len(SubSeq(s, m, n)) = n - m + 1
           /\ \A i \in 1..(n - m + 1) : SubSeq(s, m, n)[i] = s[m + i - 1]
  <1>1. \A i \in m..n : s[i] \in S
    <2> SUFFICES ASSUME NEW i \in m..n PROVE s[i] \in S
      OBVIOUS
    <2>1. i \in 1..Len(s)
      OBVIOUS
    <2> QED BY <2>1, ElementOfSeq
  <1>2. /\ SubSeq(s, m, n) \in Seq(S)
        /\ Len(SubSeq(s, m, n)) = IF m <= n THEN n - m + 1 ELSE 0
        /\ \A i \in 1..(n - m + 1) : SubSeq(s, m, n)[i] = s[m + i - 1]
    <2>1. m \in Int /\ n \in Int
      OBVIOUS
    <2> QED BY <1>1, <2>1, SubSeqProperties
  <1>3. (IF m <= n THEN n - m + 1 ELSE 0) = n - m + 1
    OBVIOUS
  <1> QED BY <1>2, <1>3

(* What takes a patch back covers the same pixels.                           *)
LEMMA InverseFits ==
    ASSUME NEW ink, NEW pixels \in Seq(ink), NEW p \in Patches(ink, Len(pixels))
    PROVE  /\ InverseOf(p, pixels) \in Patches(ink, Len(pixels))
           /\ InverseOf(p, pixels).at = p.at
           /\ Size(InverseOf(p, pixels)) = Size(p)
           /\ Size(p) \in Nat
  <1>1. Len(pixels) \in Nat
    OBVIOUS
  <1>2. p.at \in Nat \ {0} /\ p.rgba \in Seq(ink) /\ Len(p.rgba) \in Nat
        /\ p.at + Len(p.rgba) <= Len(pixels) + 1
    BY DEF Patches
  <1> DEFINE covered == SubSeq(pixels, p.at, p.at + Len(p.rgba) - 1)
  <1>3. covered \in Seq(ink) /\ Len(covered) = Len(p.rgba)
    <2> DEFINE m == p.at
               n == p.at + Len(p.rgba) - 1
    <2>1. m \in Nat \ {0} /\ n \in Nat /\ n <= Len(pixels) /\ m <= n + 1 /\ n - m + 1 = Len(p.rgba)
      BY <1>1, <1>2
    <2> HIDE DEF m, n
    <2>2. SubSeq(pixels, m, n) \in Seq(ink) /\ Len(SubSeq(pixels, m, n)) = n - m + 1
      BY <2>1, StretchFacts
    <2> QED BY <2>1, <2>2 DEF m, n
  <1>4. InverseOf(p, pixels) = [at |-> p.at, rgba |-> covered]
    BY DEF InverseOf, Size
  <1> HIDE DEF covered
  <1> QED BY <1>2, <1>3, <1>4 DEF Patches, Size

(* To apply a patch and what it gives back changes nothing.                  *)
LEMMA InverseTakesItBack ==
    ASSUME NEW ink, NEW pixels \in Seq(ink), NEW p \in Patches(ink, Len(pixels))
    PROVE  Patched(Patched(pixels, p), InverseOf(p, pixels)) = pixels
  <1>1. /\ p = [at |-> p.at, rgba |-> p.rgba] /\ p.at \in Nat \ {0} /\ p.rgba \in Seq(ink)
        /\ p.at + Len(p.rgba) <= Len(pixels) + 1
    BY DEF Patches
  <1> DEFINE a == p.at
             r == p.rgba
  <1>2. Fits([at |-> a, rgba |-> r], pixels)
    BY <1>1 DEF Fits, Size
  <1>3. Patched(Patched(pixels, [at |-> a, rgba |-> r]),
                InverseOf([at |-> a, rgba |-> r], pixels)) = pixels
    <2> HIDE DEF a, r
    <2>1. a \in Nat \ {0} /\ r \in Seq(ink)
      BY <1>1 DEF a, r
    <2> QED BY <1>2, <2>1, InverseTakesBack
  <1> QED BY <1>1, <1>3

(* A patch covers all that another one of the same stretch has put there.    *)
LEMMA SameStretch ==
    ASSUME NEW ink, NEW pixels \in Seq(ink), NEW p, NEW q,
           p.at = q.at, Size(p) = Size(q)
    PROVE  Patched(Patched(pixels, q), p) = Patched(pixels, p)
  <1>1. DOMAIN Patched(pixels, q) = DOMAIN pixels
    BY DEF Patched
  <1>2. \A i \in DOMAIN pixels : i \notin p.at..(p.at + Size(p) - 1)
                                   => Patched(pixels, q)[i] = pixels[i]
    BY DEF Patched
  <1> QED BY <1>1, <1>2 DEF Patched

(* The recursive function of Bytes unfolds as it is written.                 *)
Adds(f, s) ==
    /\ f[0] = 0
    /\ \A n \in 1..Len(s) : f[n] = f[n - 1] + Size(s[n])

(* So does the sum it is.                                                    *)
LEMMA BytesAreAdded ==
    ASSUME NEW S, NEW s \in Seq(S)
    PROVE  \E f : Bytes(s) = f[Len(s)] /\ Adds(f, s)
  <1> DEFINE Sums(g, m) == g = [n \in 0..m |-> IF n = 0 THEN 0 ELSE g[n - 1] + Size(s[n])]
             L == Len(s)
             T == {m \in Nat : \E g : Sums(g, m)}
  <1>1. L \in Nat
    OBVIOUS
  <1>2. 0 \in T
    <2> DEFINE g == [n \in 0..0 |-> 0]
    <2>1. Sums(g, 0)
      OBVIOUS
    <2> QED BY <2>1
  <1>3. ASSUME NEW m \in Nat, m \in T PROVE m + 1 \in T
    <2>1. PICK g : Sums(g, m)
      BY <1>3
    <2> DEFINE h == [n \in 0..(m + 1) |-> IF n = m + 1 THEN g[m] + Size(s[m + 1]) ELSE g[n]]
    <2>2. ASSUME NEW n \in 0..(m + 1)
          PROVE  h[n] = IF n = 0 THEN 0 ELSE h[n - 1] + Size(s[n])
      <3>1. CASE n = 0
        BY <2>1, <3>1
      <3>2. CASE n # 0 /\ n # m + 1
        <4>1. n \in 0..m /\ n - 1 \in 0..m /\ n - 1 # m + 1
          BY <3>2
        <4> QED BY <2>1, <3>2, <4>1
      <3>3. CASE n = m + 1
        <4>1. h[n - 1] = g[m] /\ n - 1 = m /\ n # 0
          BY <3>3
        <4> QED BY <3>3, <4>1
      <3> QED BY <3>1, <3>2, <3>3
    <2>3. h = [n \in 0..(m + 1) |-> h[n]]
      OBVIOUS
    <2> HIDE DEF h
    <2>4. Sums(h, m + 1)
      BY <2>2, <2>3
    <2> HIDE DEF Sums
    <2> QED BY <2>4
  <1>4. L \in T
    BY <1>1, <1>2, <1>3, SetInduction
  <1>5. PICK g : Sums(g, L)
    BY <1>4
  <1> DEFINE r == CHOOSE sum : Sums(sum, L)
  <1>6. Sums(r, L)
    BY <1>5
  <1>7. Bytes(s) = r[L]
    BY DEF Bytes
  <1> HIDE DEF r
  <1>8. \A n \in 0..L : r[n] = IF n = 0 THEN 0 ELSE r[n - 1] + Size(s[n])
    BY <1>6
  <1>9. r[0] = 0 /\ \A n \in 1..L : r[n] = r[n - 1] + Size(s[n])
    BY <1>1, <1>8
  <1>10. Adds(r, s)
    BY <1>9 DEF Adds
  <1> HIDE DEF L
  <1>11. Bytes(s) = r[Len(s)]
    BY <1>7 DEF L
  <1> QED BY <1>10, <1>11

(* One patch more adds its size.                                             *)
LEMMA BytesFacts ==
    ASSUME NEW S, \A p \in S : Size(p) \in Nat, NEW s \in Seq(S)
    PROVE  /\ Bytes(s) \in Nat
           /\ Bytes(<<>>) = 0
           /\ \A p \in S : Bytes(Append(s, p)) = Bytes(s) + Size(p)
  <1>1. PICK f : Bytes(s) = f[Len(s)] /\ Adds(f, s)
    BY BytesAreAdded
  <1>2. Len(s) \in Nat /\ \A n \in 1..Len(s) : Size(s[n]) \in Nat
    <2>1. \A n \in 1..Len(s) : s[n] \in S
      BY ElementOfSeq
    <2> QED BY <2>1
  <1> DEFINE T == {n \in Nat : n <= Len(s) => f[n] \in Nat}
  <1>3. 0 \in T
    BY <1>1 DEF Adds
  <1>4. ASSUME NEW n \in Nat, n \in T PROVE n + 1 \in T
    <2> SUFFICES ASSUME n + 1 <= Len(s) PROVE f[n + 1] \in Nat
      OBVIOUS
    <2>1. n + 1 \in 1..Len(s) /\ f[n] \in Nat /\ (n + 1) - 1 = n
      BY <1>2, <1>4
    <2>2. f[n + 1] = f[(n + 1) - 1] + Size(s[n + 1])
      BY <1>1, <2>1 DEF Adds
    <2> QED BY <1>2, <2>1, <2>2
  <1>5. Len(s) \in T
    <2> HIDE DEF T
    <2> QED BY <1>2, <1>3, <1>4, SetInduction
  <1>6. Bytes(s) \in Nat
    BY <1>1, <1>2, <1>5
  <1>7. Bytes(<<>>) = 0
    <2>1. <<>> \in Seq(S) /\ Len(<<>>) = 0
      OBVIOUS
    <2> DEFINE none == <<>>
    <2> HIDE DEF none
    <2>2. none \in Seq(S) /\ Len(none) = 0
      BY <2>1 DEF none
    <2>3. PICK g : Bytes(none) = g[Len(none)] /\ Adds(g, none)
      BY <2>2, BytesAreAdded
    <2>4. Bytes(none) = 0
      BY <2>2, <2>3 DEF Adds
    <2> QED BY <2>4 DEF none
  <1>8. ASSUME NEW p \in S PROVE Bytes(Append(s, p)) = Bytes(s) + Size(p)
    <2> DEFINE t == Append(s, p)
    <2>1. /\ t \in Seq(S) /\ Len(t) = Len(s) + 1 /\ t[Len(s) + 1] = p
          /\ \A n \in 1..Len(s) : t[n] = s[n]
      OBVIOUS
    <2> HIDE DEF t
    <2>2. PICK g : Bytes(t) = g[Len(t)] /\ Adds(g, t)
      BY <2>1, BytesAreAdded
    <2> DEFINE U == {n \in Nat : n <= Len(s) => g[n] = f[n]}
    <2>3. 0 \in U
      BY <1>1, <2>2 DEF Adds
    <2>4. ASSUME NEW n \in Nat, n \in U PROVE n + 1 \in U
      <3> SUFFICES ASSUME n + 1 <= Len(s) PROVE g[n + 1] = f[n + 1]
        OBVIOUS
      <3>1. /\ n + 1 \in 1..Len(s) /\ n + 1 \in 1..Len(t)
            /\ g[n] = f[n] /\ (n + 1) - 1 = n
        <4>1. n <= Len(s) /\ n + 1 \in 1..Len(s) /\ n + 1 \in 1..Len(t) /\ (n + 1) - 1 = n
          BY <1>2, <2>1
        <4> QED BY <2>4, <4>1
      <3>2. f[n + 1] = f[(n + 1) - 1] + Size(s[n + 1])
        BY <1>1, <3>1 DEF Adds
      <3>3. g[n + 1] = g[(n + 1) - 1] + Size(t[n + 1])
        BY <2>2, <3>1 DEF Adds
      <3>4. t[n + 1] = s[n + 1]
        BY <2>1, <3>1
      <3> QED BY <3>1, <3>2, <3>3, <3>4
    <2>5. Len(s) \in U
      <3> HIDE DEF U
      <3> QED BY <1>2, <2>3, <2>4, SetInduction
    <2>6. g[Len(s)] = f[Len(s)]
      BY <1>2, <2>5
    <2>7. Len(s) + 1 \in 1..Len(t) /\ (Len(s) + 1) - 1 = Len(s)
      BY <1>2, <2>1
    <2>8. g[Len(s) + 1] = g[(Len(s) + 1) - 1] + Size(t[Len(s) + 1])
      BY <2>2, <2>7 DEF Adds
    <2>9. Bytes(t) = Bytes(s) + Size(p)
      BY <1>1, <2>1, <2>2, <2>6, <2>7, <2>8
    <2> QED BY <2>9 DEF t
  <1> QED BY <1>6, <1>7, <1>8

(* The newest of a sequence and the others.                                  *)
LEMMA NewestShape ==
    ASSUME NEW S, NEW s \in Seq(S), s # <<>>
    PROVE  /\ NewestOf(s) \in S /\ NewestOf(s) = s[Len(s)]
           /\ WithoutNewest(s) \in Seq(S)
           /\ Len(s) \in Nat \ {0} /\ Len(WithoutNewest(s)) = Len(s) - 1
           /\ \A i \in 1..(Len(s) - 1) : WithoutNewest(s)[i] = s[i]
           /\ s = Append(WithoutNewest(s), NewestOf(s))
  <1> DEFINE w == WithoutNewest(s)
             p == NewestOf(s)
  <1>1. Len(s) \in Nat /\ Len(s) # 0 /\ Len(s) \in 1..Len(s)
    OBVIOUS
  <1>2. p \in S /\ p = s[Len(s)]
    BY <1>1, ElementOfSeq DEF NewestOf
  <1>3. w \in Seq(S) /\ Len(w) = Len(s) - 1 /\ \A i \in 1..(Len(s) - 1) : w[i] = s[i]
    <2> DEFINE k == Len(s) - 1
    <2>1. 1 \in Nat \ {0} /\ k \in Nat /\ k <= Len(s) /\ 1 <= k + 1
      BY <1>1
    <2> HIDE DEF k
    <2>2. /\ SubSeq(s, 1, k) \in Seq(S) /\ Len(SubSeq(s, 1, k)) = k - 1 + 1
          /\ \A i \in 1..(k - 1 + 1) : SubSeq(s, 1, k)[i] = s[1 + i - 1]
      BY <2>1, StretchFacts
    <2>3. w = SubSeq(s, 1, k)
      BY DEF WithoutNewest, k
    <2> HIDE DEF w
    <2>4. k \in Int /\ k = Len(s) - 1 /\ k - 1 + 1 = k
      BY <1>1 DEF k
    <2>5. ASSUME NEW i \in 1..k PROVE w[i] = s[i]
      <3>1. 1 + i - 1 = i
        BY <2>4
      <3> QED BY <2>2, <2>3, <2>4, <3>1
    <2> QED BY <2>2, <2>3, <2>4, <2>5
  <1> HIDE DEF w, p
  <1>4. s = Append(w, p)
    <2>1. /\ Append(w, p) \in Seq(S) /\ Len(Append(w, p)) = Len(w) + 1
          /\ \A i \in 1..Len(w) : Append(w, p)[i] = w[i]
          /\ Append(w, p)[Len(w) + 1] = p
      BY <1>2, <1>3, AppendProperties
    <2> DEFINE t == Append(w, p)
    <2> HIDE DEF t
    <2>2. t \in Seq(S) /\ Len(t) = Len(s)
      BY <1>1, <1>3, <2>1 DEF t
    <2>3. ASSUME NEW i \in 1..Len(s) PROVE s[i] = t[i]
      <3>1. CASE i = Len(s)
        BY <1>1, <1>2, <1>3, <2>1, <3>1 DEF t
      <3>2. CASE i # Len(s)
        <4>1. i \in 1..(Len(s) - 1) /\ i \in 1..Len(w)
          BY <1>1, <1>3, <3>2
        <4> QED BY <1>3, <2>1, <4>1 DEF t
      <3> QED BY <3>1, <3>2
    <2>4. s = t
      BY <2>2, <2>3, SeqEqual
    <2> QED BY <2>4 DEF t
  <1> QED BY <1>1, <1>2, <1>3, <1>4 DEF w, p

(* The newest patch and the others share the bytes.                          *)
LEMMA NewestBytes ==
    ASSUME NEW S, \A p \in S : Size(p) \in Nat, NEW s \in Seq(S), s # <<>>
    PROVE  /\ Bytes(s) = Bytes(WithoutNewest(s)) + Size(NewestOf(s))
           /\ Bytes(WithoutNewest(s)) \in Nat
  <1> DEFINE w == WithoutNewest(s)
             p == NewestOf(s)
  <1>1. w \in Seq(S) /\ p \in S /\ s = Append(w, p)
    BY NewestShape
  <1> HIDE DEF w, p
  <1>2. Bytes(Append(w, p)) = Bytes(w) + Size(p) /\ Bytes(w) \in Nat
    BY <1>1, BytesFacts
  <1> QED BY <1>1, <1>2 DEF w, p

(* The oldest patches go, and no more of them than must.                     *)
LEMMA PushedFacts ==
    ASSUME NEW S, \A p \in S : Size(p) \in Nat, NEW s \in Seq(S), NEW p \in S
    PROVE  /\ \/ Pushed(s, p) = <<>>
              \/ \E k \in 1..(Len(s) + 1) : Pushed(s, p) = Append(SubSeq(s, k, Len(s)), p)
           /\ Bytes(Pushed(s, p)) \in Nat /\ Bytes(Pushed(s, p)) <= ByteLimit
           /\ Bytes(s) + Size(p) <= ByteLimit => Bytes(Pushed(s, p)) <= Bytes(s) + Size(p)
  <1> DEFINE L       == Len(s)
             kept(n) == SubSeq(s, n, L)
             room    == {n \in 1..(L + 1) : Bytes(kept(n)) + Size(p) <= ByteLimit}
             first   == CHOOSE n \in room : \A m \in room : n <= m
  <1>1. L \in Nat /\ Size(p) \in Nat /\ ByteLimit \in Nat
    BY HistoryAssumption
  <1>2. Bytes(s) \in Nat /\ Bytes(<<>>) = 0
    BY BytesFacts
  <1>3. CASE Size(p) > ByteLimit
    <2>1. Pushed(s, p) = <<>>
      BY <1>3 DEF Pushed
    <2>2. ~(Bytes(s) + Size(p) <= ByteLimit)
      BY <1>1, <1>2, <1>3
    <2> QED BY <1>1, <1>2, <2>1, <2>2
  <1>4. CASE ~(Size(p) > ByteLimit)
    <2>1. Pushed(s, p) = Append(kept(first), p)
      BY <1>4 DEF Pushed
    <2>2. ASSUME NEW n \in 1..(L + 1) PROVE kept(n) \in Seq(S)
      <3>1. n \in Nat \ {0} /\ L <= Len(s) /\ n <= L + 1
        BY <1>1
      <3> QED BY <1>1, <3>1, StretchFacts
    <2>3. kept(L + 1) = <<>>
      <3>1. L + 1 \in Int /\ L \in Int /\ L < L + 1
        BY <1>1
      <3> HIDE DEF L
      <3> QED BY <3>1, SubSeqEmpty
    <2>14. Bytes(kept(L + 1)) = 0
      BY <1>2, <2>3
    <2> HIDE DEF kept
    <2>4. L + 1 \in room
      <3>1. L + 1 \in 1..(L + 1)
        BY <1>1
      <3>2. Bytes(kept(L + 1)) + Size(p) <= ByteLimit
        BY <1>1, <1>4, <2>14
      <3> QED BY <3>1, <3>2
    <2>5. room \in SUBSET Nat /\ room # {}
      BY <1>1, <2>4
    <2>6. \E n \in room : \A m \in room : n <= m
      <3> HIDE DEF room
      <3> QED BY <2>5, Smallest
    <2>7. first \in room /\ \A m \in room : first <= m
      <3> HIDE DEF room
      <3> QED BY <2>6
    <2> HIDE DEF first
    <2>8. first \in 1..(L + 1) /\ Bytes(kept(first)) + Size(p) <= ByteLimit
      BY <2>7
    <2>9. kept(first) \in Seq(S)
      BY <2>2, <2>8
    <2>10. Bytes(kept(first)) \in Nat /\ Bytes(Pushed(s, p)) = Bytes(kept(first)) + Size(p)
      BY <2>1, <2>9, BytesFacts
    <2>11. ASSUME Bytes(s) + Size(p) <= ByteLimit
           PROVE  Bytes(Pushed(s, p)) <= Bytes(s) + Size(p)
      <3>1. kept(1) = s
        BY <1>1 DEF kept
      <3>2. 1 \in room
        BY <1>1, <2>11, <3>1
      <3>3. first = 1
        BY <1>1, <2>7, <2>8, <3>2
      <3> QED BY <1>1, <1>2, <2>10, <3>1, <3>3
    <2>12. Bytes(Pushed(s, p)) \in Nat /\ Bytes(Pushed(s, p)) <= ByteLimit
      BY <1>1, <2>8, <2>10
    <2>13. \E k \in 1..(Len(s) + 1) : Pushed(s, p) = Append(SubSeq(s, k, Len(s)), p)
      BY <2>1, <2>8 DEF kept
    <2> QED BY <2>11, <2>12, <2>13
  <1> QED BY <1>3, <1>4

(* What Append gives.                                                        *)
LEMMA PushedShape ==
    ASSUME NEW S, \A p \in S : Size(p) \in Nat, NEW s \in Seq(S), NEW p \in S
    PROVE  /\ Pushed(s, p) \in Seq(S)
           /\ Pushed(s, p) # <<>> => NewestOf(Pushed(s, p)) = p
  <1>1. CASE Pushed(s, p) = <<>>
    BY <1>1
  <1>2. ASSUME NEW k \in 1..(Len(s) + 1), Pushed(s, p) = Append(SubSeq(s, k, Len(s)), p)
        PROVE  /\ Pushed(s, p) \in Seq(S)
               /\ Pushed(s, p) # <<>> => NewestOf(Pushed(s, p)) = p
    <2> DEFINE t == SubSeq(s, k, Len(s))
    <2>1. t \in Seq(S)
      <3>1. k \in Nat \ {0} /\ Len(s) \in Nat /\ Len(s) <= Len(s) /\ k <= Len(s) + 1
        OBVIOUS
      <3> QED BY <3>1, StretchFacts
    <2> HIDE DEF t
    <2>2. Pushed(s, p) = Append(t, p)
      BY <1>2 DEF t
    <2>3. /\ Append(t, p) \in Seq(S) /\ Len(Append(t, p)) = Len(t) + 1
          /\ Append(t, p)[Len(t) + 1] = p
      BY <2>1, AppendProperties
    <2> QED BY <2>2, <2>3 DEF NewestOf
  <1> QED BY <1>1, <1>2, PushedFacts

-----------------------------------------------------------------------------
(* Each patch takes the picture after an edit to the one before.             *)
Walks(pixels, patches, pictures) ==
    LET skipped == Len(pictures) - Len(patches)
        all     == Append(pictures, pixels)
    IN  /\ Len(patches) <= Len(pictures)
        /\ \A i \in 1..Len(patches) :
               all[i + skipped] = Patched(all[i + skipped + 1], patches[i])

(* One more picture on the way.                                              *)
LEMMA WalkPush ==
    ASSUME NEW S, \A p \in S : Size(p) \in Nat, NEW patches \in Seq(S), NEW q \in S,
           NEW Pics, NEW pictures \in Seq(Pics), NEW pixels \in Pics, NEW pixels2 \in Pics,
           Walks(pixels, patches, pictures), Patched(pixels2, q) = pixels
    PROVE  Walks(pixels2, Pushed(patches, q), Append(pictures, pixels))
  <1> DEFINE all  == Append(pictures, pixels)
             all2 == Append(all, pixels2)
             L    == Len(patches)
             M    == Len(pictures)
  <1>1. L \in Nat /\ M \in Nat /\ L <= M
    BY DEF Walks
  <1>2. /\ all \in Seq(Pics) /\ Len(all) = M + 1 /\ all[M + 1] = pixels
    BY AppendProperties
  <1>3. \A i \in 1..L : all[i + (M - L)] = Patched(all[i + (M - L) + 1], patches[i])
    BY DEF Walks
  <1> HIDE DEF all
  <1>4. /\ Len(all2) = M + 2 /\ all2[M + 2] = pixels2
        /\ \A j \in 1..(M + 1) : all2[j] = all[j]
    <2>1. /\ Len(all2) = Len(all) + 1 /\ all2[Len(all) + 1] = pixels2
          /\ \A j \in 1..Len(all) : all2[j] = all[j]
      BY <1>2, AppendProperties
    <2> HIDE DEF all2
    <2> QED BY <1>1, <1>2, <2>1
  <1>5. CASE Pushed(patches, q) = <<>>
    <2> DEFINE none == Pushed(patches, q)
    <2>1. Len(none) = 0
      BY <1>5
    <2> HIDE DEF none
    <2>2. Walks(pixels2, none, all)
      BY <1>1, <1>2, <2>1 DEF Walks
    <2> QED BY <2>2 DEF none, all
  <1>6. ASSUME NEW k \in 1..(L + 1), Pushed(patches, q) = Append(SubSeq(patches, k, L), q)
        PROVE  Walks(pixels2, Pushed(patches, q), all)
    <2> DEFINE t == SubSeq(patches, k, L)
               u == Append(t, q)
    <2>1. t \in Seq(S) /\ Len(t) = L - k + 1 /\ \A i \in 1..(L - k + 1) : t[i] = patches[k + i - 1]
      <3>1. k \in Nat \ {0} /\ L \in Nat /\ L <= Len(patches) /\ k <= L + 1
        BY <1>1
      <3> HIDE DEF L
      <3> QED BY <3>1, StretchFacts
    <2>2. u = Pushed(patches, q)
      BY <1>6
    <2> HIDE DEF t
    <2>3. Len(u) = Len(t) + 1 /\ u[Len(t) + 1] = q /\ \A i \in 1..Len(t) : u[i] = t[i]
      BY <2>1, AppendProperties
    <2> HIDE DEF u, L, M, all2
    <2>4. Len(u) = L - k + 2 /\ Len(all) - Len(u) = (M - L) + k - 1 /\ Len(u) <= Len(all)
      <3>1. /\ Len(u) = Len(t) + 1 /\ Len(t) = L - k + 1 /\ Len(all) = M + 1
            /\ L \in Nat /\ M \in Nat /\ L <= M /\ k \in Nat /\ 1 <= k /\ k <= L + 1
        BY <1>1, <1>2, <2>1, <2>3
      <3>2. Len(u) = L - k + 2
        BY <3>1
      <3>3. Len(all) - Len(u) = (M - L) + k - 1
        BY <3>1, <3>2
      <3>4. Len(u) <= Len(all)
        BY <3>1, <3>2
      <3> QED BY <3>2, <3>3, <3>4
    <2>5. ASSUME NEW i \in 1..Len(u)
          PROVE  all2[i + (Len(all) - Len(u))] = Patched(all2[i + (Len(all) - Len(u)) + 1], u[i])
      <3> DEFINE j == i + (Len(all) - Len(u))
      <3>0. i \in Int /\ k \in Int /\ 1 <= k /\ k <= L + 1
            /\ 1 <= i /\ i <= L - k + 2 /\ j = i + ((M - L) + k - 1)
        BY <1>1, <2>4
      <3> HIDE DEF j
      <3>1. CASE i = L - k + 2
        <4>0. i = Len(t) + 1
          BY <1>1, <2>1, <3>0, <3>1
        <4>1. j = M + 1 /\ u[i] = q
          <5>1. j = M + 1
            BY <1>1, <3>0, <3>1
          <5>2. u[i] = q
            BY <2>3, <4>0
          <5> QED BY <5>1, <5>2
        <4>2. all2[j] = pixels /\ all2[j + 1] = pixels2
          <5>1. M + 1 \in 1..(M + 1) /\ (M + 1) + 1 = M + 2
            BY <1>1
          <5> QED BY <1>2, <1>4, <4>1, <5>1
        <4> QED BY <4>1, <4>2 DEF j
      <3>2. CASE i # L - k + 2
        <4> DEFINE n == k + i - 1
        <4>1. /\ n \in 1..L /\ i \in 1..Len(t) /\ i \in 1..(L - k + 1)
              /\ j = n + (M - L) /\ j \in 1..(M + 1) /\ j + 1 \in 1..(M + 1)
          <5>1. n \in 1..L /\ i \in 1..(L - k + 1) /\ j = n + (M - L)
            BY <1>1, <3>0, <3>2
          <5>2. j \in 1..(M + 1) /\ j + 1 \in 1..(M + 1)
            BY <1>1, <5>1
          <5> QED BY <2>1, <5>1, <5>2
        <4>2. u[i] = patches[n]
          BY <2>1, <2>3, <4>1
        <4>3. all2[j] = all[j] /\ all2[j + 1] = all[j + 1]
          BY <1>4, <4>1
        <4>4. all[n + (M - L)] = Patched(all[n + (M - L) + 1], patches[n])
          BY <1>3, <4>1
        <4> HIDE DEF n
        <4>5. all2[j] = Patched(all2[j + 1], u[i])
          BY <4>1, <4>2, <4>3, <4>4
        <4> QED BY <4>5 DEF j
      <3> QED BY <3>1, <3>2
    <2>6. Walks(pixels2, u, all)
      BY <2>4, <2>5 DEF Walks, all2
    <2> QED BY <2>2, <2>6
  <1>7. Walks(pixels2, Pushed(patches, q), all)
    BY <1>5, <1>6, PushedFacts DEF all
  <1> QED BY <1>7 DEF all

(* One picture back, by the newest patch.                                    *)
LEMMA WalkPop ==
    ASSUME NEW S, NEW patches \in Seq(S), patches # <<>>,
           NEW Pics, NEW pictures \in Seq(Pics), NEW pixels \in Pics,
           Walks(pixels, patches, pictures)
    PROVE  /\ pictures # <<>>
           /\ NewestOf(pictures) = Patched(pixels, NewestOf(patches))
           /\ Walks(NewestOf(pictures), WithoutNewest(patches), WithoutNewest(pictures))
  <1> DEFINE all == Append(pictures, pixels)
             L   == Len(patches)
             M   == Len(pictures)
             w   == WithoutNewest(patches)
             v   == WithoutNewest(pictures)
  <1>1. L \in Nat \ {0} /\ M \in Nat /\ L <= M
    BY DEF Walks
  <1>2. all[M + 1] = pixels /\ \A j \in 1..M : all[j] = pictures[j]
    BY AppendProperties
  <1>3. \A i \in 1..L : all[i + (M - L)] = Patched(all[i + (M - L) + 1], patches[i])
    BY DEF Walks
  <1> HIDE DEF all
  <1>4. pictures # <<>>
    BY <1>1
  <1>5. NewestOf(patches) = patches[L] /\ Len(w) = L - 1 /\ \A i \in 1..(L - 1) : w[i] = patches[i]
    BY NewestShape
  <1>6. /\ NewestOf(pictures) = pictures[M] /\ Len(v) = M - 1
        /\ pictures = Append(v, NewestOf(pictures))
    BY <1>4, NewestShape
  <1> HIDE DEF L, M, w, v
  <1>7. NewestOf(pictures) = Patched(pixels, NewestOf(patches))
    <2>1. L \in 1..L /\ L + (M - L) = M /\ M \in 1..M
      BY <1>1
    <2> QED BY <1>2, <1>3, <1>5, <1>6, <2>1
  <1>8. Len(v) - Len(w) = M - L /\ Len(w) <= Len(v)
    BY <1>1, <1>5, <1>6
  <1>9. ASSUME NEW i \in 1..Len(w)
        PROVE  pictures[i + (Len(v) - Len(w))] = Patched(pictures[i + (Len(v) - Len(w)) + 1], w[i])
    <2> DEFINE j == i + (M - L)
    <2>1. i \in 1..L /\ i \in 1..(L - 1) /\ j \in 1..M /\ j + 1 \in 1..M
      BY <1>1, <1>5
    <2>2. all[j] = pictures[j] /\ all[j + 1] = pictures[j + 1]
      BY <1>2, <2>1
    <2>3. all[j] = Patched(all[j + 1], patches[i])
      BY <1>3, <2>1
    <2>4. w[i] = patches[i]
      BY <1>5, <2>1
    <2> HIDE DEF j
    <2>5. pictures[j] = Patched(pictures[j + 1], w[i])
      BY <2>2, <2>3, <2>4
    <2> QED BY <1>8, <2>5 DEF j
  <1> DEFINE newest == NewestOf(pictures)
  <1>10. newest = NewestOf(pictures)
    OBVIOUS
  <1> HIDE DEF newest
  <1>11. Walks(newest, w, v)
    <2>1. pictures = Append(v, newest)
      BY <1>6, <1>10
    <2> QED BY <1>8, <1>9, <2>1 DEF Walks
  <1> QED BY <1>4, <1>7, <1>10, <1>11 DEF w, v

(* What the newest patch covers may change.                                  *)
LEMMA WalkAgain ==
    ASSUME NEW S, NEW patches \in Seq(S),
           NEW Pics, NEW pictures \in Seq(Pics), NEW pixels \in Pics, NEW pixels2 \in Pics,
           Walks(pixels, patches, pictures),
           patches # <<>> =>
             Patched(pixels2, NewestOf(patches)) = Patched(pixels, NewestOf(patches))
    PROVE  Walks(pixels2, patches, pictures)
  <1> DEFINE all  == Append(pictures, pixels)
             all2 == Append(pictures, pixels2)
             L    == Len(patches)
             M    == Len(pictures)
  <1>1. L \in Nat /\ M \in Nat /\ L <= M
    BY DEF Walks
  <1>2. all[M + 1] = pixels /\ \A j \in 1..M : all[j] = pictures[j]
    BY AppendProperties
  <1>3. all2[M + 1] = pixels2 /\ \A j \in 1..M : all2[j] = pictures[j]
    BY AppendProperties
  <1>4. \A i \in 1..L : all[i + (M - L)] = Patched(all[i + (M - L) + 1], patches[i])
    BY DEF Walks
  <1>5. L # 0 => Patched(pixels2, patches[L]) = Patched(pixels, patches[L])
    BY DEF NewestOf
  <1> HIDE DEF all, all2, L, M
  <1>6. ASSUME NEW i \in 1..L
        PROVE  all2[i + (M - L)] = Patched(all2[i + (M - L) + 1], patches[i])
    <2> DEFINE j == i + (M - L)
    <2>1. j \in 1..M /\ all[j] = Patched(all[j + 1], patches[i])
      BY <1>1, <1>4
    <2>2. CASE i = L
      <3>1. j + 1 = M + 1 /\ L # 0
        BY <1>1, <2>2
      <3> HIDE DEF j
      <3>2. all2[j] = Patched(all2[j + 1], patches[i])
        BY <1>2, <1>3, <1>5, <2>1, <2>2, <3>1
      <3> QED BY <3>2 DEF j
    <2>3. CASE i # L
      <3>1. j + 1 \in 1..M
        BY <1>1, <2>3
      <3> HIDE DEF j
      <3>2. all2[j] = Patched(all2[j + 1], patches[i])
        BY <1>2, <1>3, <2>1, <3>1
      <3> QED BY <3>2 DEF j
    <2> QED BY <2>2, <2>3
  <1> QED BY <1>1, <1>6 DEF Walks, all2, L, M

(* By induction: the recursive function of Peeled gives those pictures.      *)
LEMMA WalkRetraces ==
    ASSUME NEW S, NEW patches \in Seq(S),
           NEW Pics, NEW pictures \in Seq(Pics), image.pixels \in Pics,
           Walks(image.pixels, patches, pictures)
    PROVE  Retraces(patches, pictures)
  <1> DEFINE pixels == image.pixels
             all == Append(pictures, pixels)
             L   == Len(patches)
             M   == Len(pictures)
  <1>1. L \in Nat /\ M \in Nat /\ L <= M
    BY DEF Walks
  <1>2. all[M + 1] = pixels /\ \A j \in 1..M : all[j] = pictures[j]
    BY AppendProperties
  <1>3. \A i \in 1..L : all[i + (M - L)] = Patched(all[i + (M - L) + 1], patches[i])
    BY DEF Walks
  <1> DEFINE g == [n \in 0..L |-> all[M - n + 1]]
             Back(f) == f = [n \in 0..L |-> IF n = 0 THEN pixels
                                            ELSE Patched(f[n - 1], patches[L - n + 1])]
             r == CHOOSE back : Back(back)
  <1>4. Peeled(patches) = r
    BY DEF Peeled
  <1> HIDE DEF all, pixels, L, M
  <1>5. ASSUME NEW n \in 0..L
        PROVE  g[n] = IF n = 0 THEN pixels ELSE Patched(g[n - 1], patches[L - n + 1])
    <2>1. CASE n = 0
      <3>1. M - n + 1 = M + 1
        BY <1>1, <2>1
      <3> QED BY <1>2, <2>1, <3>1
    <2>2. CASE n # 0
      <3> DEFINE i == L - n + 1
      <3>1. /\ i \in 1..L /\ i + (M - L) = M - n + 1
            /\ n - 1 \in 0..L /\ i + (M - L) + 1 = M - (n - 1) + 1
        BY <1>1, <2>2
      <3>2. all[i + (M - L)] = Patched(all[i + (M - L) + 1], patches[i])
        BY <1>3, <3>1
      <3>3. g[n] = all[M - n + 1] /\ g[n - 1] = all[M - (n - 1) + 1]
        BY <3>1
      <3> HIDE DEF g
      <3> QED BY <2>2, <3>1, <3>2, <3>3
    <2> QED BY <2>1, <2>2
  <1>6. Back(g)
    <2>1. g = [n \in 0..L |-> g[n]]
      OBVIOUS
    <2> HIDE DEF g
    <2> QED BY <1>5, <2>1
  <1>7. Back(r)
    <2> HIDE DEF g, Back
    <2> QED BY <1>6
  <1> HIDE DEF r
  <1>8. \A n \in 0..L : r[n] = IF n = 0 THEN pixels ELSE Patched(r[n - 1], patches[L - n + 1])
    BY <1>7
  <1> DEFINE T == {n \in Nat : n <= L => r[n] = g[n]}
  <1>9. 0 \in T
    <2>1. 0 \in 0..L
      BY <1>1
    <2>2. r[0] = pixels /\ g[0] = pixels
      <3> HIDE DEF g
      <3> QED BY <1>5, <1>8, <2>1
    <2> QED BY <2>2
  <1>10. ASSUME NEW n \in Nat, n \in T PROVE n + 1 \in T
    <2> SUFFICES ASSUME n + 1 <= L PROVE r[n + 1] = g[n + 1]
      <3> HIDE DEF g
      <3> QED OBVIOUS
    <2> HIDE DEF g
    <2>1. n + 1 \in 0..L /\ n + 1 # 0 /\ (n + 1) - 1 = n /\ n <= L
      BY <1>1
    <2>2. r[n] = g[n]
      BY <1>10, <2>1
    <2>3. r[n + 1] = Patched(r[(n + 1) - 1], patches[L - (n + 1) + 1])
      BY <1>8, <2>1
    <2>4. g[n + 1] = Patched(g[(n + 1) - 1], patches[L - (n + 1) + 1])
      BY <1>5, <2>1
    <2> QED BY <2>1, <2>2, <2>3, <2>4
  <1>11. Nat \subseteq T
    <2> HIDE DEF T
    <2> QED BY <1>9, <1>10, SetInduction
  <1>12. ASSUME NEW n \in 1..L PROVE r[n] = pictures[M - n + 1]
    <2>1. n \in Nat /\ n <= L /\ n \in 0..L /\ M - n + 1 \in 1..M
      BY <1>1
    <2>2. r[n] = g[n]
      <3> HIDE DEF g
      <3> QED BY <1>11, <2>1
    <2>3. g[n] = all[M - n + 1]
      BY <2>1
    <2> HIDE DEF g
    <2> QED BY <1>2, <2>1, <2>2, <2>3
  <1> QED BY <1>1, <1>4, <1>12 DEF Retraces, L, M

(* A sequence of some values is one of more values.                          *)
LEMMA SeqWiden ==
    ASSUME NEW A, NEW B, A \subseteq B, NEW s \in Seq(A)
    PROVE  s \in Seq(B)
  <1>1. \A i \in 1..Len(s) : s[i] \in B
    BY ElementOfSeq
  <1>2. s \in [1..Len(s) -> B] /\ Len(s) \in Nat
    BY <1>1
  <1> QED BY <1>2

(* The newest patch of one side moves to the other as its inverse.           *)
HasMoved(ink, pixels, from, to, behind, beyond, moved, inverse) ==
    /\ moved \in Seq(ink) /\ Len(moved) = Len(pixels)
    /\ WithoutNewest(from) \in Seq(Patches(ink, Len(pixels)))
    /\ Pushed(to, inverse) \in Seq(Patches(ink, Len(pixels)))
    /\ behind # <<>> /\ NewestOf(behind) = moved
    /\ Walks(moved, WithoutNewest(from), WithoutNewest(behind))
    /\ Walks(moved, Pushed(to, inverse), Append(beyond, pixels))
    /\ Bytes(WithoutNewest(from)) + Bytes(Pushed(to, inverse)) <= ByteLimit

(* history_patch_presented: both sides still lead where they led.            *)
LEMMA MoveFacts ==
    ASSUME NEW ink, ink \subseteq Nat, NEW pixels \in Seq(ink),
           NEW from \in Seq(Patches(ink, Len(pixels))), from # <<>>,
           NEW to \in Seq(Patches(ink, Len(pixels))),
           NEW behind \in Seq(Seq(Nat)), NEW beyond \in Seq(Seq(Nat)),
           Walks(pixels, from, behind), Walks(pixels, to, beyond),
           Bytes(from) + Bytes(to) <= ByteLimit,
           NEW moved, moved = Patched(pixels, NewestOf(from)),
           NEW inverse, inverse = InverseOf(NewestOf(from), pixels)
    PROVE  HasMoved(ink, pixels, from, to, behind, beyond, moved, inverse)
  <1> DEFINE S == Patches(ink, Len(pixels))
             p == NewestOf(from)
  <1>1. \A q \in S : Size(q) \in Nat
    BY DEF Patches, Size
  <1>2. pixels \in Seq(Nat)
    BY SeqWiden
  <1>3. p \in S /\ WithoutNewest(from) \in Seq(S)
    <2> HIDE DEF S
    <2>1. from \in Seq(S)
      BY DEF S
    <2> QED BY <2>1, NewestShape
  <1>4. moved \in Seq(ink) /\ Len(moved) = Len(pixels)
    <2> HIDE DEF p
    <2>1. moved = Patched(pixels, p)
      BY DEF p
    <2> QED BY <1>3, <2>1, PatchedPicture
  <1>5. inverse \in S /\ Size(inverse) = Size(p) /\ Patched(moved, inverse) = pixels
    <2> HIDE DEF p
    <2>1. moved = Patched(pixels, p) /\ inverse = InverseOf(p, pixels)
      BY DEF p
    <2> QED BY <1>3, <2>1, InverseFits, InverseTakesItBack
  <1>6. moved \in Seq(Nat)
    BY <1>4, SeqWiden
  <1> HIDE DEF S, p
  <1>7. from \in Seq(S) /\ to \in Seq(S)
    BY DEF S
  <1>8. /\ behind # <<>> /\ NewestOf(behind) = Patched(pixels, NewestOf(from))
        /\ Walks(NewestOf(behind), WithoutNewest(from), WithoutNewest(behind))
    BY <1>2, <1>7, WalkPop
  <1>9. Walks(moved, Pushed(to, inverse), Append(beyond, pixels))
    BY <1>1, <1>2, <1>5, <1>6, <1>7, WalkPush
  <1>10. Pushed(to, inverse) \in Seq(S)
    BY <1>1, <1>5, <1>7, PushedShape
  <1>11. Bytes(WithoutNewest(from)) + Bytes(Pushed(to, inverse)) <= ByteLimit
    <2>1. Bytes(from) = Bytes(WithoutNewest(from)) + Size(p) /\ Bytes(WithoutNewest(from)) \in Nat
      BY <1>1, <1>7, NewestBytes DEF p
    <2>2. Bytes(to) \in Nat /\ Size(p) \in Nat
      BY <1>1, <1>3, <1>7, BytesFacts
    <2>3. /\ Bytes(Pushed(to, inverse)) \in Nat
          /\ Bytes(to) + Size(inverse) <= ByteLimit
               => Bytes(Pushed(to, inverse)) <= Bytes(to) + Size(inverse)
      BY <1>1, <1>5, <1>7, PushedFacts
    <2>4. ByteLimit \in Nat
      BY HistoryAssumption
    <2>5. Bytes(to) + Size(inverse) <= ByteLimit
      BY <1>5, <2>1, <2>2, <2>4
    <2> QED BY <1>5, <2>1, <2>2, <2>3, <2>4, <2>5
  <1> QED BY <1>3, <1>4, <1>8, <1>9, <1>10, <1>11 DEF HasMoved, S, p

-----------------------------------------------------------------------------
(* The pixels a picture may have: the file's, and those of strokes begun     *)
(* after so many.                                                            *)
Ink(origin) == {p \in Nat : p = 0 \/ p \div 2 > origin}

Tellings == [trail : Seq(Seq(Nat)), ahead : Seq(Seq(Nat)), base : Seq(Nat), origin : Nat]

(* A picture, its history and what the properties know of its edits.         *)
EditsOf(pixels, h, t) ==
    /\ t \in Tellings
    /\ pixels \in Seq(Ink(t.origin))
    /\ h \in [undo : Seq(Patches(Ink(t.origin), Len(pixels))),
              redo : Seq(Patches(Ink(t.origin), Len(pixels)))]
    /\ Walks(pixels, h.undo, t.trail)
    /\ Walks(pixels, h.redo, t.ahead)
    /\ Bytes(h.undo) + Bytes(h.redo) <= ByteLimit
    /\ t.base = IF t.trail = <<>> THEN pixels ELSE t.trail[1]

(* A picture nobody has edited.                                              *)
LEMMA FreshFacts ==
    ASSUME NEW origin \in Nat, NEW pixels \in Seq(Ink(origin)),
           NEW t, t = [trail |-> <<>>, ahead |-> <<>>, base |-> pixels, origin |-> origin]
    PROVE  EditsOf(pixels, NewHistory, t)
  <1>1. pixels \in Seq(Nat)
    BY DEF Ink
  <1>2. <<>> \in Seq(Seq(Nat)) /\ \A S : <<>> \in Seq(S)
    OBVIOUS
  <1>3. t \in Tellings /\ t.trail = <<>> /\ t.ahead = <<>> /\ t.origin = origin /\ t.base = pixels
    BY <1>1, <1>2 DEF Tellings
  <1>4. Bytes(<<>>) = 0
    <2>1. \A p \in {} : Size(p) \in Nat
      OBVIOUS
    <2>2. <<>> \in Seq({})
      OBVIOUS
    <2> QED BY <2>1, <2>2, BytesFacts
  <1>5. NewHistory.undo = <<>> /\ NewHistory.redo = <<>>
    BY DEF NewHistory
  <1>6. NewHistory \in [undo : Seq(Patches(Ink(t.origin), Len(pixels))),
                        redo : Seq(Patches(Ink(t.origin), Len(pixels)))]
    BY <1>2 DEF NewHistory
  <1>7. Walks(pixels, <<>>, <<>>)
    BY DEF Walks
  <1>8. Bytes(NewHistory.undo) + Bytes(NewHistory.redo) <= ByteLimit
    BY <1>4, <1>5, HistoryAssumption
  <1> QED BY <1>3, <1>5, <1>6, <1>7, <1>8 DEF EditsOf

(* The trail and what was undone are all that an edit changes of it.         *)
Retraced(t, trail, ahead) ==
    [trail |-> trail, ahead |-> ahead, base |-> t.base, origin |-> t.origin]

(* Its fields.                                                               *)
LEMMA RetracedFacts ==
    ASSUME NEW t \in Tellings, NEW trail \in Seq(Seq(Nat)), NEW ahead \in Seq(Seq(Nat))
    PROVE  /\ Retraced(t, trail, ahead) \in Tellings
           /\ Retraced(t, trail, ahead).trail = trail
           /\ Retraced(t, trail, ahead).ahead = ahead
           /\ Retraced(t, trail, ahead).base = t.base
           /\ Retraced(t, trail, ahead).origin = t.origin
  <1>1. t.base \in Seq(Nat) /\ t.origin \in Nat
    BY DEF Tellings
  <1>3. Retraced(t, trail, ahead) \in Tellings
    BY <1>1 DEF Retraced, Tellings
  <1>4. /\ Retraced(t, trail, ahead).trail = trail
        /\ Retraced(t, trail, ahead).ahead = ahead
        /\ Retraced(t, trail, ahead).base = t.base
        /\ Retraced(t, trail, ahead).origin = t.origin
    BY DEF Retraced
  <1> QED BY <1>3, <1>4

(* So it is written in the actions.                                          *)
LEMMA RetracedIsExcept ==
    ASSUME NEW t \in Tellings, NEW trail, NEW ahead
    PROVE  [t EXCEPT !.trail = trail, !.ahead = ahead] = Retraced(t, trail, ahead)
  <1> DEFINE a == t.trail
             b == t.ahead
             c == t.base
             d == t.origin
  <1>1. t = [trail |-> a, ahead |-> b, base |-> c, origin |-> d]
    BY DEF Tellings
  <1> HIDE DEF a, b, c, d
  <1>2. [t EXCEPT !.trail = trail] = [trail |-> trail, ahead |-> b, base |-> c, origin |-> d]
    BY <1>1
  <1>3. [[trail |-> trail, ahead |-> b, base |-> c, origin |-> d] EXCEPT !.ahead = ahead]
          = [trail |-> trail, ahead |-> ahead, base |-> c, origin |-> d]
    OBVIOUS
  <1>4. [t EXCEPT !.trail = trail, !.ahead = ahead]
          = [[t EXCEPT !.trail = trail] EXCEPT !.ahead = ahead]
    BY <1>1
  <1> QED BY <1>2, <1>3, <1>4 DEF Retraced, c, d

(* undo_edit: the newest edit joins those undone.                            *)
LEMMA UndoFacts ==
    ASSUME NEW pixels, NEW h, NEW t, EditsOf(pixels, h, t), h.undo # <<>>
    PROVE  EditsOf(Patched(pixels, NewestOf(h.undo)), Undone(h, pixels),
                   [t EXCEPT !.trail = WithoutNewest(@), !.ahead = Append(@, pixels)])
  <1> DEFINE ink     == Ink(t.origin)
             S       == Patches(ink, Len(pixels))
             moved   == Patched(pixels, NewestOf(h.undo))
             inverse == InverseOf(NewestOf(h.undo), pixels)
             trail   == WithoutNewest(t.trail)
             ahead   == Append(t.ahead, pixels)
             undo    == WithoutNewest(h.undo)
             redo    == Pushed(h.redo, inverse)
  <1>1. /\ ink \subseteq Nat /\ pixels \in Seq(ink) /\ h.undo \in Seq(S) /\ h.redo \in Seq(S)
        /\ t.trail \in Seq(Seq(Nat)) /\ t.ahead \in Seq(Seq(Nat))
        /\ t.base \in Seq(Nat) /\ t.origin \in Nat
        /\ Walks(pixels, h.undo, t.trail) /\ Walks(pixels, h.redo, t.ahead)
        /\ Bytes(h.undo) + Bytes(h.redo) <= ByteLimit
    BY DEF EditsOf, Tellings, Ink
  <1>2. t \in Tellings
    BY DEF EditsOf
  <1>3. t.base = IF t.trail = <<>> THEN pixels ELSE t.trail[1]
    BY DEF EditsOf
  <1>4. Undone(h, pixels) = [undo |-> undo, redo |-> redo]
    BY DEF Undone
  <1> HIDE DEF ink, S, moved, inverse
  <1>5. /\ moved \in Seq(ink) /\ Len(moved) = Len(pixels)
        /\ undo \in Seq(S) /\ redo \in Seq(S)
        /\ t.trail # <<>> /\ NewestOf(t.trail) = moved
        /\ Walks(moved, undo, trail) /\ Walks(moved, redo, ahead)
        /\ Bytes(undo) + Bytes(redo) <= ByteLimit
    <2>1. moved = Patched(pixels, NewestOf(h.undo)) /\ inverse = InverseOf(NewestOf(h.undo), pixels)
      BY DEF moved, inverse
    <2>2. h.undo \in Seq(Patches(ink, Len(pixels))) /\ h.redo \in Seq(Patches(ink, Len(pixels)))
      BY <1>1 DEF S
    <2> DEFINE u == h.undo
               r == h.redo
               a == t.trail
               b == t.ahead
    <2>3. /\ u \in Seq(Patches(ink, Len(pixels))) /\ r \in Seq(Patches(ink, Len(pixels)))
          /\ u # <<>> /\ a \in Seq(Seq(Nat)) /\ b \in Seq(Seq(Nat))
          /\ Walks(pixels, u, a) /\ Walks(pixels, r, b) /\ Bytes(u) + Bytes(r) <= ByteLimit
          /\ moved = Patched(pixels, NewestOf(u)) /\ inverse = InverseOf(NewestOf(u), pixels)
      BY <1>1, <2>1, <2>2
    <2> HIDE DEF u, r, a, b
    <2>5. ink \subseteq Nat /\ pixels \in Seq(ink)
      BY <1>1
    <2>4. HasMoved(ink, pixels, u, r, a, b, moved, inverse)
      <3> HIDE DEF trail, ahead, undo, redo
      <3> QED BY <2>3, <2>5, MoveFacts
    <2> QED BY <2>4 DEF HasMoved, u, r, a, b, S
  <1>6. trail \in Seq(Seq(Nat)) /\ ahead \in Seq(Seq(Nat))
    <2>1. trail \in Seq(Seq(Nat))
      <3>1. t.trail \in Seq(Seq(Nat)) /\ t.trail # <<>>
        BY <1>1, <1>5
      <3> QED BY <3>1, NewestShape
    <2>2. pixels \in Seq(Nat)
      BY <1>1, SeqWiden
    <2> QED BY <1>1, <2>1, <2>2
  <1>7. t.base = IF trail = <<>> THEN moved ELSE trail[1]
    <2>1. /\ Len(t.trail) \in Nat \ {0} /\ Len(trail) = Len(t.trail) - 1
          /\ NewestOf(t.trail) = t.trail[Len(t.trail)]
          /\ \A i \in 1..(Len(t.trail) - 1) : trail[i] = t.trail[i]
      BY <1>1, <1>5, NewestShape
    <2>2. CASE Len(t.trail) = 1
      <3>1. trail = <<>>
        BY <1>6, <2>1, <2>2
      <3> QED BY <1>3, <1>5, <2>1, <2>2, <3>1
    <2>3. CASE Len(t.trail) # 1
      <3>1. 1 \in 1..(Len(t.trail) - 1) /\ trail # <<>>
        <4> HIDE DEF trail
        <4>0. Len(t.trail) \in Nat \ {0} /\ Len(trail) = Len(t.trail) - 1
          BY <2>1
        <4> DEFINE n == Len(t.trail)
        <4> HIDE DEF n
        <4>3. n \in Nat /\ n # 0 /\ n # 1 /\ Len(trail) = n - 1
          BY <2>3, <4>0 DEF n
        <4>1. 1 \in 1..(n - 1) /\ Len(trail) # 0
          BY <4>3
        <4>2. trail = <<>> => Len(trail) = 0
          OBVIOUS
        <4> QED BY <4>1, <4>2 DEF n
      <3> QED BY <1>3, <1>5, <2>1, <3>1
    <2> QED BY <2>2, <2>3
  <1> HIDE DEF trail, ahead, undo, redo
  <1>8. /\ Retraced(t, trail, ahead) \in Tellings
        /\ Retraced(t, trail, ahead).trail = trail
        /\ Retraced(t, trail, ahead).ahead = ahead
        /\ Retraced(t, trail, ahead).base = t.base
        /\ Retraced(t, trail, ahead).origin = t.origin
    BY <1>2, <1>6, RetracedFacts
  <1> DEFINE t2 == Retraced(t, trail, ahead)
  <1>10. [t EXCEPT !.trail = trail, !.ahead = ahead] = t2
    BY <1>2, RetracedIsExcept
  <1>9. EditsOf(moved, [undo |-> undo, redo |-> redo], t2)
    <2>1. /\ t2 \in Tellings /\ t2.trail = trail /\ t2.ahead = ahead /\ t2.base = t.base
          /\ t2.origin = t.origin
      BY <1>8
    <2> HIDE DEF t2
    <2> QED BY <1>5, <1>7, <2>1 DEF EditsOf, ink, S
  <1> HIDE DEF t2
  <1>11. EditsOf(moved, Undone(h, pixels), [t EXCEPT !.trail = trail, !.ahead = ahead])
    BY <1>4, <1>9, <1>10
  <1> QED BY <1>11 DEF moved, trail, ahead

(* An edit may follow any picture, also the first.                           *)
LEMMA TrailGrows ==
    ASSUME NEW trail \in Seq(Seq(Nat)), NEW pixels \in Seq(Nat)
    PROVE  /\ Append(trail, pixels) \in Seq(Seq(Nat)) /\ Append(trail, pixels) # <<>>
           /\ (IF trail = <<>> THEN pixels ELSE trail[1]) = Append(trail, pixels)[1]
  <1> DEFINE longer == Append(trail, pixels)
  <1>1. /\ longer \in Seq(Seq(Nat)) /\ Len(longer) = Len(trail) + 1
        /\ longer[Len(trail) + 1] = pixels
        /\ \A i \in 1..Len(trail) : longer[i] = trail[i]
    BY AppendProperties
  <1> HIDE DEF longer
  <1>2. Len(trail) \in Nat /\ Len(<<>>) = 0
    OBVIOUS
  <1>3. longer # <<>>
    BY <1>1, <1>2
  <1>4. trail = <<>> => longer[1] = pixels
    BY <1>1, <1>2
  <1>5. ASSUME trail # <<>> PROVE longer[1] = trail[1]
    <2>1. Len(trail) # 0
      BY <1>5
    <2>2. 1 \in 1..Len(trail)
      BY <1>2, <2>1
    <2> QED BY <1>1, <2>2
  <1> QED BY <1>1, <1>3, <1>4, <1>5 DEF longer

(* The same redone: the two sides have changed places.                       *)
LEMMA RedoFacts ==
    ASSUME NEW pixels, NEW h, NEW t, EditsOf(pixels, h, t), h.redo # <<>>
    PROVE  EditsOf(Patched(pixels, NewestOf(h.redo)), Redone(h, pixels),
                   [t EXCEPT !.trail = Append(@, pixels), !.ahead = WithoutNewest(@)])
  <1> DEFINE ink     == Ink(t.origin)
             S       == Patches(ink, Len(pixels))
             moved   == Patched(pixels, NewestOf(h.redo))
             inverse == InverseOf(NewestOf(h.redo), pixels)
             trail   == Append(t.trail, pixels)
             ahead   == WithoutNewest(t.ahead)
             undo    == Pushed(h.undo, inverse)
             redo    == WithoutNewest(h.redo)
  <1>1. /\ ink \subseteq Nat /\ pixels \in Seq(ink) /\ h.undo \in Seq(S) /\ h.redo \in Seq(S)
        /\ t.trail \in Seq(Seq(Nat)) /\ t.ahead \in Seq(Seq(Nat))
        /\ t.base \in Seq(Nat) /\ t.origin \in Nat
        /\ Walks(pixels, h.undo, t.trail) /\ Walks(pixels, h.redo, t.ahead)
        /\ Bytes(h.undo) + Bytes(h.redo) <= ByteLimit
    BY DEF EditsOf, Tellings, Ink
  <1>2. t \in Tellings /\ t.base = IF t.trail = <<>> THEN pixels ELSE t.trail[1]
    BY DEF EditsOf
  <1>3. pixels \in Seq(Nat)
    BY <1>1, SeqWiden
  <1>4. Redone(h, pixels) = [undo |-> undo, redo |-> redo]
    BY DEF Redone
  <1>5. \A p \in S : Size(p) \in Nat
    BY DEF Patches, Size
  <1> HIDE DEF ink, S, moved, inverse
  <1>6. Bytes(h.redo) + Bytes(h.undo) <= ByteLimit
    <2>1. Bytes(h.redo) \in Nat /\ Bytes(h.undo) \in Nat
      BY <1>1, <1>5, BytesFacts
    <2> QED BY <1>1, <2>1
  <1>7. /\ moved \in Seq(ink) /\ Len(moved) = Len(pixels)
        /\ undo \in Seq(S) /\ redo \in Seq(S)
        /\ t.ahead # <<>>
        /\ Walks(moved, undo, trail) /\ Walks(moved, redo, ahead)
        /\ Bytes(redo) + Bytes(undo) <= ByteLimit
    <2> DEFINE u == h.redo
               r == h.undo
               a == t.ahead
               b == t.trail
    <2>1. /\ ink \subseteq Nat /\ pixels \in Seq(ink)
          /\ u \in Seq(Patches(ink, Len(pixels))) /\ r \in Seq(Patches(ink, Len(pixels)))
          /\ u # <<>> /\ a \in Seq(Seq(Nat)) /\ b \in Seq(Seq(Nat))
          /\ Walks(pixels, u, a) /\ Walks(pixels, r, b) /\ Bytes(u) + Bytes(r) <= ByteLimit
          /\ moved = Patched(pixels, NewestOf(u)) /\ inverse = InverseOf(NewestOf(u), pixels)
      BY <1>1, <1>6 DEF S, moved, inverse
    <2> HIDE DEF u, r, a, b
    <2>2. HasMoved(ink, pixels, u, r, a, b, moved, inverse)
      <3> HIDE DEF trail, ahead, undo, redo
      <3> QED BY <2>1, MoveFacts
    <2> QED BY <2>2 DEF HasMoved, u, r, a, b, S
  <1>8. ahead \in Seq(Seq(Nat))
    <2>1. t.ahead \in Seq(Seq(Nat)) /\ t.ahead # <<>>
      BY <1>1, <1>7
    <2> QED BY <2>1, NewestShape
  <1>9. /\ trail \in Seq(Seq(Nat)) /\ trail # <<>>
        /\ t.base = trail[1]
    <2>1. t.trail \in Seq(Seq(Nat))
      BY <1>1
    <2> QED BY <1>2, <1>3, <2>1, TrailGrows
  <1>10. Bytes(undo) + Bytes(redo) <= ByteLimit
    <2> HIDE DEF undo, redo
    <2>1. Bytes(redo) \in Nat /\ Bytes(undo) \in Nat
      BY <1>5, <1>7, BytesFacts
    <2> QED BY <1>7, <2>1
  <1> HIDE DEF trail, ahead, undo, redo
  <1> DEFINE t2 == Retraced(t, trail, ahead)
  <1>11. [t EXCEPT !.trail = trail, !.ahead = ahead] = t2
    BY <1>2, RetracedIsExcept
  <1>12. /\ t2 \in Tellings /\ t2.trail = trail /\ t2.ahead = ahead /\ t2.base = t.base
         /\ t2.origin = t.origin
    BY <1>2, <1>8, <1>9, RetracedFacts
  <1> HIDE DEF t2
  <1>13. EditsOf(moved, [undo |-> undo, redo |-> redo], t2)
    BY <1>7, <1>9, <1>10, <1>12 DEF EditsOf, ink, S
  <1>14. EditsOf(moved, Redone(h, pixels), [t EXCEPT !.trail = trail, !.ahead = ahead])
    BY <1>4, <1>11, <1>13
  <1> QED BY <1>14 DEF moved, trail, ahead

(* The newest patch, if there is one, covers this stretch, and nothing was   *)
(* undone since.                                                             *)
Covers(h, at, size) ==
    /\ h.redo = <<>>
    /\ h.undo # <<>> => NewestOf(h.undo).at = at /\ Size(NewestOf(h.undo)) = size

(* A stroke is committed.                                                    *)
LEMMA CommitFacts ==
    ASSUME NEW pixels, NEW h, NEW t, EditsOf(pixels, h, t),
           NEW q \in Patches(Ink(t.origin), Len(pixels))
    PROVE  /\ EditsOf(Patched(pixels, q), Recorded(h, InverseOf(q, pixels)),
                      [t EXCEPT !.trail = Append(@, pixels), !.ahead = <<>>])
           /\ Covers(Recorded(h, InverseOf(q, pixels)), q.at, Size(q))
           /\ Append(t.trail, pixels) # <<>>
  <1> DEFINE ink     == Ink(t.origin)
             S       == Patches(ink, Len(pixels))
             moved   == Patched(pixels, q)
             inverse == InverseOf(q, pixels)
             trail   == Append(t.trail, pixels)
             undo    == Pushed(h.undo, inverse)
  <1>1. /\ ink \subseteq Nat /\ pixels \in Seq(ink) /\ h.undo \in Seq(S)
        /\ t.trail \in Seq(Seq(Nat)) /\ t \in Tellings
        /\ Walks(pixels, h.undo, t.trail)
        /\ t.base = IF t.trail = <<>> THEN pixels ELSE t.trail[1]
    BY DEF EditsOf, Tellings, Ink
  <1>2. pixels \in Seq(Nat)
    BY <1>1, SeqWiden
  <1>3. \A p \in S : Size(p) \in Nat
    BY DEF Patches, Size
  <1>4. Recorded(h, inverse) = [undo |-> undo, redo |-> <<>>]
    BY DEF Recorded
  <1>5. moved \in Seq(ink) /\ Len(moved) = Len(pixels)
    BY <1>1, PatchedPicture
  <1>6. /\ inverse \in S /\ inverse.at = q.at /\ Size(inverse) = Size(q)
        /\ Patched(moved, inverse) = pixels
    BY <1>1, InverseFits, InverseTakesItBack
  <1>7. moved \in Seq(Nat)
    BY <1>1, <1>5, SeqWiden
  <1> HIDE DEF ink, S, moved, inverse
  <1>8. Walks(moved, undo, trail)
    <2> DEFINE u == h.undo
               b == t.trail
    <2>1. u \in Seq(S) /\ b \in Seq(Seq(Nat)) /\ Walks(pixels, u, b)
      BY <1>1
    <2> HIDE DEF u, b
    <2>2. Walks(moved, Pushed(u, inverse), Append(b, pixels))
      BY <1>2, <1>3, <1>6, <1>7, <2>1, WalkPush
    <2> QED BY <2>2 DEF u, b
  <1>9. /\ undo \in Seq(S) /\ Bytes(undo) \in Nat /\ Bytes(undo) <= ByteLimit
        /\ undo # <<>> => NewestOf(undo) = inverse
    <2> DEFINE u == h.undo
    <2>1. u \in Seq(S)
      BY <1>1
    <2> HIDE DEF u
    <2>2. /\ Pushed(u, inverse) \in Seq(S)
          /\ Pushed(u, inverse) # <<>> => NewestOf(Pushed(u, inverse)) = inverse
      BY <1>3, <1>6, <2>1, PushedShape
    <2>3. Bytes(Pushed(u, inverse)) \in Nat /\ Bytes(Pushed(u, inverse)) <= ByteLimit
      BY <1>3, <1>6, <2>1, PushedFacts
    <2> QED BY <2>2, <2>3 DEF u
  <1>10. /\ trail \in Seq(Seq(Nat)) /\ trail # <<>> /\ t.base = trail[1]
    <2>1. t.trail \in Seq(Seq(Nat))
      BY <1>1
    <2> QED BY <1>1, <1>2, <2>1, TrailGrows
  <1> HIDE DEF trail, undo
  <1>11. <<>> \in Seq(Seq(Nat)) /\ <<>> \in Seq(S) /\ Bytes(<<>>) = 0
    <2>1. <<>> \in Seq(Seq(Nat)) /\ <<>> \in Seq(S)
      OBVIOUS
    <2> QED BY <1>3, <1>9, <2>1, BytesFacts
  <1>12. Walks(moved, <<>>, <<>>)
    BY DEF Walks
  <1> DEFINE t2 == Retraced(t, trail, <<>>)
  <1>13. [t EXCEPT !.trail = trail, !.ahead = <<>>] = t2
    BY <1>1, RetracedIsExcept
  <1>14. /\ t2 \in Tellings /\ t2.trail = trail /\ t2.ahead = <<>> /\ t2.base = t.base
         /\ t2.origin = t.origin
    <2> DEFINE none == <<>>
    <2>1. trail \in Seq(Seq(Nat)) /\ none \in Seq(Seq(Nat)) /\ t \in Tellings
      BY <1>1, <1>10, <1>11
    <2> HIDE DEF none
    <2> DEFINE t3 == Retraced(t, trail, none)
    <2>2. /\ t3 \in Tellings /\ t3.trail = trail /\ t3.ahead = none /\ t3.base = t.base
          /\ t3.origin = t.origin
      BY <2>1, RetracedFacts
    <2> HIDE DEF t3
    <2>3. t2 = t3 /\ none = <<>>
      BY DEF t3, none
    <2> QED BY <2>2, <2>3
  <1> HIDE DEF t2
  <1>15. EditsOf(moved, [undo |-> undo, redo |-> <<>>], t2)
    <2>1. Bytes(undo) + Bytes(<<>>) <= ByteLimit
      BY <1>9, <1>11
    <2> QED BY <1>5, <1>8, <1>9, <1>10, <1>11, <1>12, <1>14, <2>1 DEF EditsOf, ink, S
  <1>16. EditsOf(moved, Recorded(h, inverse), [t EXCEPT !.trail = trail, !.ahead = <<>>])
    BY <1>4, <1>13, <1>15
  <1>17. Covers(Recorded(h, inverse), q.at, Size(q))
    BY <1>4, <1>6, <1>9 DEF Covers
  <1> QED BY <1>10, <1>16, <1>17 DEF moved, trail, inverse

(* Another source goes over the newest edit.                                 *)
LEMMA AgainFacts ==
    ASSUME NEW pixels, NEW h, NEW t, EditsOf(pixels, h, t), t.trail # <<>>,
           NEW q \in Patches(Ink(t.origin), Len(pixels)), Covers(h, q.at, Size(q))
    PROVE  EditsOf(Patched(pixels, q), h, t)
  <1> DEFINE ink   == Ink(t.origin)
             S     == Patches(ink, Len(pixels))
             moved == Patched(pixels, q)
             u     == h.undo
             b     == t.trail
  <1>1. /\ ink \subseteq Nat /\ pixels \in Seq(ink) /\ u \in Seq(S)
        /\ b \in Seq(Seq(Nat)) /\ t \in Tellings /\ t.ahead \in Seq(Seq(Nat))
        /\ Walks(pixels, u, b)
    BY DEF EditsOf, Tellings, Ink
  <1>2. moved \in Seq(ink) /\ Len(moved) = Len(pixels)
    BY <1>1, PatchedPicture
  <1>3. pixels \in Seq(Nat) /\ moved \in Seq(Nat)
    BY <1>1, <1>2, SeqWiden
  <1>4. u # <<>> => Patched(moved, NewestOf(u)) = Patched(pixels, NewestOf(u))
    <2> SUFFICES ASSUME u # <<>> PROVE Patched(moved, NewestOf(u)) = Patched(pixels, NewestOf(u))
      OBVIOUS
    <2>1. NewestOf(u).at = q.at /\ Size(NewestOf(u)) = Size(q)
      BY DEF Covers
    <2> DEFINE p == NewestOf(u)
    <2> HIDE DEF p
    <2>2. p.at = q.at /\ Size(p) = Size(q)
      BY <2>1 DEF p
    <2> QED BY <1>1, <2>2, SameStretch DEF p
  <1> HIDE DEF ink, S, moved, u, b
  <1>5. Walks(moved, u, b)
    BY <1>1, <1>3, <1>4, WalkAgain
  <1>6. Walks(moved, h.redo, t.ahead)
    <2>1. h.redo = <<>> /\ Len(t.ahead) \in Nat
      BY <1>1 DEF Covers
    <2>2. Walks(moved, <<>>, t.ahead)
      BY <2>1 DEF Walks
    <2> QED BY <2>1, <2>2
  <1> QED BY <1>2, <1>5, <1>6 DEF EditsOf, ink, moved, u, b

(* A stroke on the picture that is shown.                                    *)
IsStroke(s, origin) ==
    /\ s.heal \in Nat /\ s.heal > origin /\ s.candidate \in {0, 1}
    /\ s.at \in Nat \ {0} /\ s.size \in Nat

(* Another source for it goes over the newest edit.                          *)
CoversNewest(s, h, t) == t.trail # <<>> /\ Covers(h, s.at, s.size)

Cut == IF crop # NoCrop THEN crop.pixels ELSE preview.pixels

Unedited ==
    /\ told.trail = <<>> /\ history = NewHistory /\ refresh = NoRefresh
    /\ image.pixels = AsInFile

(* What was begun on the picture and not yet ended.                          *)
StrokesInv ==
    /\ begun \in Nat /\ told.origin <= begun
    /\ refresh # NoRefresh => /\ IsStroke(refresh, told.origin)
                              /\ CoversNewest(refresh, history, told)
    /\ WillApply => /\ IsStroke(worker, told.origin)
                    /\ worker.again => CoversNewest(worker, history, told)

CutInv ==
    CropUnderWay => /\ Cut \in Seq(Ink(told.origin))
                    /\ Kept.sequence # "none" => Unedited

SequenceInv ==
    /\ image.pristine => Unedited
    /\ sequence # "none" => Unedited /\ ~tool.painting /\ ~WillApply

TraceInv == EditsOf(image.pixels, history, told) /\ StrokesInv /\ CutInv /\ SequenceInv

-----------------------------------------------------------------------------
(* A step that edits nothing, whatever it begins or ends.                    *)
LEMMA SameEdits ==
    ASSUME TraceInv, image'.pixels = image.pixels, UNCHANGED <<history, told, refresh>>,
           begun' \in Nat, begun <= begun',
           image'.pristine => Unedited,
           WillApply' => /\ IsStroke(worker', told.origin)
                         /\ worker'.again => CoversNewest(worker', history, told),
           CropUnderWay' => /\ Cut' \in Seq(Ink(told.origin))
                            /\ Kept'.sequence # "none" => Unedited,
           sequence' # "none" => Unedited /\ ~tool'.painting /\ ~WillApply'
    PROVE  TraceInv'
  <1>1. EditsOf(image.pixels, history, told)'
    BY DEF TraceInv
  <1>2. told.origin \in Nat
    BY DEF TraceInv, EditsOf, Tellings
  <1>3. StrokesInv'
    <2>1. begun' \in Nat /\ told'.origin <= begun'
      BY <1>2 DEF TraceInv, StrokesInv
    <2> QED BY <2>1 DEF TraceInv, StrokesInv
  <1>4. Unedited => Unedited'
    BY DEF Unedited, AsInFile
  <1>5. CutInv'
    BY <1>4 DEF CutInv
  <1>6. SequenceInv'
    BY <1>4 DEF SequenceInv
  <1> QED BY <1>1, <1>3, <1>5, <1>6 DEF TraceInv

(* What a step may leave alone.                                              *)
LEMMA IdleEdits ==
    ASSUME TraceInv, image'.pixels = image.pixels, image'.pristine => image.pristine,
           UNCHANGED <<history, told, refresh, begun>>,
           WillApply' => WillApply /\ worker' = worker,
           CropUnderWay' => CropUnderWay /\ Cut' = Cut /\ Kept' = Kept,
           sequence' # "none" => sequence # "none" /\ ~tool'.painting
    PROVE  TraceInv'
  <1>1. begun' \in Nat /\ begun <= begun'
    BY DEF TraceInv, StrokesInv
  <1>2. image'.pristine => Unedited
    BY DEF TraceInv, SequenceInv
  <1>3. WillApply' => /\ IsStroke(worker', told.origin)
                      /\ worker'.again => CoversNewest(worker', history, told)
    BY DEF TraceInv, StrokesInv
  <1>4. CropUnderWay' => /\ Cut' \in Seq(Ink(told.origin))
                         /\ Kept'.sequence # "none" => Unedited
    BY DEF TraceInv, CutInv
  <1>5. sequence' # "none" => Unedited /\ ~tool'.painting /\ ~WillApply'
    BY DEF TraceInv, SequenceInv
  <1> QED BY <1>1, <1>2, <1>3, <1>4, <1>5, SameEdits

(* Edits that end leave a picture from which others may start.               *)
LEMMA FreshEdits ==
    ASSUME TraceInv, NEW origin \in Nat, NEW pixels \in Seq(Ink(origin)), origin <= begun,
           told' = [trail |-> <<>>, ahead |-> <<>>, base |-> pixels, origin |-> origin],
           image'.pixels = pixels, history' = NewHistory, refresh' = NoRefresh, begun' = begun,
           ~WillApply', ~CropUnderWay',
           image'.pristine => pixels = AsInFile,
           sequence' # "none" => pixels = AsInFile /\ ~tool'.painting
    PROVE  TraceInv'
  <1>2. EditsOf(pixels, NewHistory, told')
    BY FreshFacts
  <1>3. EditsOf(image.pixels, history, told)'
    BY <1>2
  <1>4. StrokesInv'
    BY DEF TraceInv, StrokesInv
  <1>5. CutInv'
    BY DEF CutInv
  <1>6. pixels = AsInFile => Unedited'
    BY DEF Unedited, AsInFile
  <1>7. SequenceInv'
    BY <1>6 DEF SequenceInv
  <1> QED BY <1>3, <1>4, <1>5, <1>7 DEF TraceInv

(* An edit is made, taken back or made again: no crop and no sequence is     *)
(* there to be disturbed.                                                    *)
LEMMA OneMoreEdit ==
    ASSUME TraceInv, EditsOf(image'.pixels, history', told'), told'.origin = told.origin,
           begun' = begun, ~image'.pristine, sequence' = "none", ~WillApply', ~CropUnderWay',
           refresh' # NoRefresh => /\ IsStroke(refresh', told.origin)
                                   /\ CoversNewest(refresh', history', told')
    PROVE  TraceInv'
  <1>1. EditsOf(image.pixels, history, told)'
    OBVIOUS
  <1>2. StrokesInv'
    BY DEF TraceInv, StrokesInv
  <1>3. CutInv' /\ SequenceInv'
    BY DEF CutInv, SequenceInv
  <1> QED BY <1>1, <1>2, <1>3 DEF TraceInv

(* The picture on screen as the invariant has it.                            *)
LEMMA InkFacts ==
    ASSUME TraceInv
    PROVE  /\ told \in Tellings /\ told.origin \in Nat /\ begun \in Nat /\ told.origin <= begun
           /\ image.pixels \in Seq(Ink(told.origin))
           /\ Len(image.pixels) \in Nat
  BY DEF TraceInv, EditsOf, Tellings, StrokesInv

(* What Retold says, as a record.                                            *)
LEMMA RetoldIs ==
    ASSUME told \in Tellings, NEW pixels
    PROVE  Retold(pixels) = [trail |-> <<>>, ahead |-> <<>>, base |-> pixels,
                             origin |-> told.origin]
  <1> DEFINE a == told.trail
             b == told.ahead
             c == told.base
             d == told.origin
             t == told
  <1>1. t = [trail |-> a, ahead |-> b, base |-> c, origin |-> d]
    BY DEF Tellings
  <1>2. Retold(pixels) = [t EXCEPT !.trail = <<>>, !.ahead = <<>>, !.base = pixels]
    BY DEF Retold
  <1> HIDE DEF a, b, c, d, t
  <1>3. [t EXCEPT !.trail = <<>>] = [trail |-> <<>>, ahead |-> b, base |-> c, origin |-> d]
    BY <1>1
  <1>4. [[trail |-> <<>>, ahead |-> b, base |-> c, origin |-> d] EXCEPT !.ahead = <<>>]
          = [trail |-> <<>>, ahead |-> <<>>, base |-> c, origin |-> d]
    OBVIOUS
  <1>5. [[trail |-> <<>>, ahead |-> <<>>, base |-> c, origin |-> d] EXCEPT !.base = pixels]
          = [trail |-> <<>>, ahead |-> <<>>, base |-> pixels, origin |-> d]
    OBVIOUS
  <1>6. [t EXCEPT !.trail = <<>>, !.ahead = <<>>, !.base = pixels]
          = [[[t EXCEPT !.trail = <<>>] EXCEPT !.ahead = <<>>] EXCEPT !.base = pixels]
    BY <1>1
  <1> QED BY <1>2, <1>3, <1>4, <1>5, <1>6 DEF d

(* A cancelled worker will not be applied.                                   *)
LEMMA WorkerIsCancelled ==
    ASSUME RecordShape, worker' = Cancelled
    PROVE  ~WillApply'
  BY DEF RecordShape, Cancelled, WillApply, NoWorker

-----------------------------------------------------------------------------
(* A load ends every edit and begins with the picture on screen.             *)
LEMMA LoadTrace ==
    ASSUME EditsInv, TraceInv, NEW f, NEW STATE mode, Load(f, mode),
           image' = image \/ image' = [image EXCEPT !.pristine = FALSE]
    PROVE  TraceInv'
  <1> DEFINE pixels == image.pixels
  <1>1. /\ told \in Tellings /\ told.origin \in Nat /\ told.origin <= begun
        /\ pixels \in Seq(Ink(told.origin))
    BY InkFacts
  <1>2. told' = [trail |-> <<>>, ahead |-> <<>>, base |-> pixels, origin |-> told.origin]
    <2>1. told' = Retold(pixels)
      BY DEF Load
    <2> QED BY <1>1, <2>1, RetoldIs
  <1>3. /\ history' = NewHistory /\ refresh' = NoRefresh /\ begun' = begun
        /\ sequence' = "none" /\ crop' = NoCrop /\ preview' = NoPreview
    BY DEF Load, ResetHeals
  <1>4. ~WillApply'
    BY WorkerIsCancelled DEF Load, ResetHeals, EditsInv, Shape
  <1>5. ~CropUnderWay'
    BY <1>3 DEF CropUnderWay, NoPreview
  <1>6. image'.pixels = pixels /\ (image'.pristine => image.pristine)
    BY DEF EditsInv, Shape, RecordShape
  <1>7. image'.pristine => pixels = AsInFile
    BY <1>6 DEF TraceInv, SequenceInv, Unedited
  <1> HIDE DEF pixels
  <1> QED BY <1>1, <1>2, <1>3, <1>4, <1>5, <1>6, <1>7, FreshEdits

(* A picture that is used again has no edits.                                *)
LEMMA NavigateTrace ==
    ASSUME EditsInv, TraceInv, NEW f \in Names, Navigate(f)
    PROVE  TraceInv'
  <1>1. CASE HasImage /\ image.pristine /\ session.shown = f
    <2>1. /\ preview' = NoPreview /\ tool' = Upright /\ UNCHANGED <<heals, crop, image, begun>>
          /\ ~CropWork("none") /\ ~HealWork("none")
      BY <1>1 DEF Navigate
    <2>2. Unedited
      BY <1>1 DEF TraceInv, SequenceInv
    <2>3. ~WillApply'
      BY <2>1 DEF HealWork, WillApply, heals
    <2>4. ~CropUnderWay'
      BY <2>1 DEF CropUnderWay, CropWork, NoPreview
    <2>5. ~tool'.painting
      <3>1. ~tool.painting
        BY <2>1 DEF HealWork
      <3> QED BY <2>1, <3>1 DEF EditsInv, Shape, RecordShape, Upright
    <2>6. begun' \in Nat /\ begun <= begun'
      BY <2>1, InkFacts
    <2> QED BY <2>1, <2>2, <2>3, <2>4, <2>5, <2>6, SameEdits DEF heals
  <1>2. CASE ~(HasImage /\ image.pristine /\ session.shown = f)
    BY <1>2, LoadTrace DEF Navigate
  <1> QED BY <1>1, <1>2

(* Loads that begin.                                                         *)
LEMMA LoadsTrace ==
    ASSUME EditsInv, TraceInv,
           \/ \E f \in Names : Open(f) \/ Navigate(f)
           \/ Retry \/ Reload \/ ReloadQuietly \/ ReloadReturned
    PROVE  TraceInv'
  <1>1. ASSUME NEW f \in Names, Open(f) PROVE TraceInv'
    BY <1>1, LoadTrace DEF Open
  <1>2. ASSUME NEW f \in Names, Navigate(f) PROVE TraceInv'
    BY <1>2, NavigateTrace
  <1>3. CASE Retry
    BY <1>3, LoadTrace DEF Retry
  <1>4. CASE Reload
    BY <1>4, LoadTrace DEF Reload
  <1>5. CASE ReloadQuietly
    BY <1>5, LoadTrace DEF ReloadQuietly
  <1>6. CASE ReloadReturned
    BY <1>6, LoadTrace DEF ReloadReturned
  <1> QED BY <1>1, <1>2, <1>3, <1>4, <1>5, <1>6

(* The selection changes its name, or goes.                                  *)
LEMMA SelectionTrace ==
    ASSUME EditsInv, TraceInv, Invalidate \/ \E f \in Names : FollowRename(f)
    PROVE  TraceInv'
  <1>1. ASSUME NEW f \in Names, FollowRename(f) PROVE TraceInv'
    <2>1. UNCHANGED <<image, sequence, tool, worker, refresh, history, told, crop, preview, begun>>
      BY <1>1 DEF FollowRename, heals
    <2>2. WillApply' = WillApply /\ CropUnderWay' = CropUnderWay /\ Cut' = Cut /\ Kept' = Kept
      BY <2>1 DEF WillApply, CropUnderWay, Cut, Kept
    <2>3. sequence' # "none" => ~tool'.painting
      BY <2>1 DEF TraceInv, SequenceInv
    <2> QED BY <2>1, <2>2, <2>3, IdleEdits
  <1>2. CASE Invalidate
    <2>1. told \in Tellings /\ told.origin \in Nat /\ told.origin <= begun
      BY InkFacts
    <2>2. told' = [trail |-> <<>>, ahead |-> <<>>, base |-> <<>>, origin |-> told.origin]
      <3>1. told' = Retold(<<>>)
        BY <1>2 DEF Invalidate
      <3> QED BY <2>1, <3>1, RetoldIs
    <2>3. /\ history' = NewHistory /\ refresh' = NoRefresh /\ begun' = begun
          /\ sequence' = "none" /\ crop' = NoCrop /\ preview' = NoPreview
          /\ image'.pixels = <<>> /\ ~image'.pristine
      BY <1>2 DEF Invalidate, ResetHeals, NoImage
    <2>4. ~WillApply'
      BY <1>2, WorkerIsCancelled DEF Invalidate, ResetHeals, EditsInv, Shape
    <2>5. ~CropUnderWay'
      BY <2>3 DEF CropUnderWay, NoPreview
    <2> DEFINE none == <<>>
    <2>6. none \in Seq(Ink(told.origin))
      OBVIOUS
    <2> HIDE DEF none
    <2>7. told' = [trail |-> <<>>, ahead |-> <<>>, base |-> none, origin |-> told.origin]
          /\ image'.pixels = none
      BY <2>2, <2>3 DEF none
    <2> QED BY <2>1, <2>3, <2>4, <2>5, <2>6, <2>7, FreshEdits
  <1> QED BY <1>1, <1>2

(* Nothing of the picture changes, and no crop goes on.                      *)
LEMMA IdleEnd ==
    ASSUME TraceInv, UNCHANGED <<image, heals, begun>>, ~CropUnderWay',
           sequence' # "none" => sequence # "none" /\ ~tool'.painting
    PROVE  TraceInv'
  <1>1. WillApply' => WillApply /\ worker' = worker
    BY DEF WillApply, heals
  <1> QED BY <1>1, IdleEdits DEF heals

(* A crop that failed gives its sequence back to the picture it was cut      *)
(* from, which has not been edited since.                                    *)
LEMMA RestoreTrace ==
    ASSUME EditsInv, TraceInv, CropUnderWay, NEW STATE rec, rec = Kept, Restore(rec),
           UNCHANGED <<image, heals, begun>>, ~CropUnderWay'
    PROVE  TraceInv'
  <1>1. sequence = "none" /\ worker = NoWorker /\ ~tool.painting
    BY DEF EditsInv, CropInv
  <1>2. ~WillApply' /\ ~tool'.painting
    BY <1>1, RestoreShape DEF EditsInv, Shape, WillApply, heals
  <1>3. sequence' # "none" => Unedited
    BY <1>1 DEF Restore, TraceInv, CutInv
  <1>4. begun' \in Nat /\ begun <= begun'
    BY InkFacts
  <1>5. image'.pristine => Unedited
    BY DEF TraceInv, SequenceInv
  <1> QED BY <1>2, <1>3, <1>4, <1>5, SameEdits DEF heals

(* A load that failed.                                                       *)
LEMMA FailureTrace ==
    ASSUME TraceInv, NEW STATE losses, NoteFailure(losses), begun' = begun, ~CropUnderWay'
    PROVE  TraceInv'
  <1>1. sequence' # "none" => sequence # "none" /\ ~tool'.painting
    BY DEF NoteFailure, TraceInv, SequenceInv
  <1> QED BY <1>1, IdleEnd DEF NoteFailure

(* What ends a load or a crop.                                               *)
Ending(kind, pixels, rec) ==
    /\ kind \in {"Loaded", "Cropped"}
    /\ kind = "Loaded" => Quiet
    /\ kind = "Cropped" => CropUnderWay /\ pixels = Cut /\ rec = Kept

(* Nothing is shown, whatever was lost.                                      *)
LEMMA GiveUpTrace ==
    ASSUME EditsInv, TraceInv, NEW STATE kind, NEW STATE pixels, NEW STATE rec,
           Ending(kind, pixels, rec), GiveUp(kind, rec) \/ LosePreview(kind, rec),
           begun' = begun, ~CropUnderWay'
    PROVE  TraceInv'
  <1>1. CASE kind = "Cropped"
    <2>1. CropUnderWay /\ rec = Kept /\ Restore(rec) /\ UNCHANGED <<image, heals>>
      BY <1>1 DEF Ending, GiveUp, LosePreview
    <2> QED BY <2>1, RestoreTrace
  <1>2. CASE kind = "Loaded"
    BY <1>2, FailureTrace DEF GiveUp, LosePreview
  <1> QED BY <1>1, <1>2 DEF Ending

(* A file's picture has the file's pixels.                                   *)
LEMMA FileInk == ASSUME NEW origin \in Nat PROVE AsInFile \in Seq(Ink(origin))
  <1>1. Width \in Nat /\ 0 \in Ink(origin)
    BY EditsAssumption DEF Ink
  <1> QED BY <1>1 DEF AsInFile

(* A picture is shown, or not.                                               *)
LEMMA FinishTrace ==
    ASSUME EditsInv, TraceInv, NEW STATE kind, NEW STATE pixels, NEW STATE rec,
           Ending(kind, pixels, rec), NEW STATE f, NEW STATE large,
           Finish(kind, f, pixels, large, rec), begun' = begun, ~CropUnderWay'
    PROVE  TraceInv'
  <1>1. CASE UNCHANGED <<session, image, sequence, tool, heals, lost>>
    <2>1. sequence' # "none" => sequence # "none" /\ ~tool'.painting
      BY <1>1 DEF TraceInv, SequenceInv
    <2> QED BY <1>1, <2>1, IdleEnd
  <1>2. CASE kind = "Cropped" /\ ShowCropped(f, pixels, large)
    <2>1. told \in Tellings /\ told.origin \in Nat /\ told.origin <= begun
      BY InkFacts
    <2>2. pixels \in Seq(Ink(told.origin)) /\ sequence = "none"
      BY <1>2 DEF Ending, TraceInv, CutInv, EditsInv, CropInv
    <2>3. told' = [trail |-> <<>>, ahead |-> <<>>, base |-> pixels, origin |-> told.origin]
      <3>1. told' = Retold(pixels)
        BY <1>2 DEF ShowCropped
      <3> QED BY <2>1, <3>1, RetoldIs
    <2>4. /\ history' = NewHistory /\ refresh' = NoRefresh /\ sequence' = "none"
          /\ image'.pixels = pixels /\ ~image'.pristine
      BY <1>2, <2>2 DEF ShowCropped, ResetHeals
    <2>5. ~WillApply'
      BY <1>2, WorkerIsCancelled DEF ShowCropped, ResetHeals, EditsInv, Shape
    <2> QED BY <2>1, <2>2, <2>3, <2>4, <2>5, FreshEdits
  <1>3. CASE kind = "Loaded" /\ ShowLoaded(f, large)
    <2>1. begun \in Nat
      BY InkFacts
    <2>2. Quiet
      BY <1>3 DEF Ending
    <2>3. /\ told' = [trail |-> <<>>, ahead |-> <<>>, base |-> AsInFile, origin |-> begun]
          /\ image'.pixels = AsInFile /\ UNCHANGED <<tool, worker, refresh, history>>
      BY <1>3 DEF ShowLoaded
    <2>4. ~WillApply' /\ ~tool'.painting /\ history' = NewHistory /\ refresh' = NoRefresh
      BY <2>2, <2>3 DEF Quiet, WillApply
    <2>5. AsInFile \in Seq(Ink(begun))
      BY <2>1, FileInk
    <2> DEFINE file == AsInFile
    <2>6. file \in Seq(Ink(begun)) /\ file = AsInFile /\ begun <= begun
          /\ told' = [trail |-> <<>>, ahead |-> <<>>, base |-> file, origin |-> begun]
          /\ image'.pixels = file
      BY <2>1, <2>3, <2>5
    <2> HIDE DEF file
    <2> QED BY <2>1, <2>4, <2>6, FreshEdits
  <1>4. CASE GiveUp(kind, rec)
    BY <1>4, GiveUpTrace
  <1> QED BY <1>1, <1>2, <1>3, <1>4 DEF Finish, Ending

-----------------------------------------------------------------------------
(* Loads and previews that end.                                              *)
LEMMA ArrivalsTrace ==
    ASSUME EditsInv, TraceInv, LoadArrives \/ PollPreview
    PROVE  TraceInv'
  <1>1. CASE LoadArrives
    <2>1. Quiet /\ crop = NoCrop /\ preview.kind # "Cropped" /\ crop' = NoCrop /\ begun' = begun
      BY <1>1 DEF LoadArrives, EditsInv, LoadInv, Loading, CropInv, CropUnderWay
    <2>2. preview' = preview => ~CropUnderWay'
      BY <2>1 DEF CropUnderWay
    <2>3. sequence # "none" => ~tool.painting
      BY <2>1 DEF Quiet
    <2>4. CASE session' = Arrived /\ UNCHANGED <<image, sequence, tool, heals, lost, preview>>
      BY <2>1, <2>2, <2>3, <2>4, IdleEnd
    <2>5. CASE NoteFailure(lost) /\ UNCHANGED preview
      BY <2>1, <2>2, <2>5, FailureTrace
    <2>6. ASSUME NEW large \in BOOLEAN,
                 Present("Loaded", session.reading, AsInFile, large, NoCrop)
          PROVE  TraceInv'
      <3>1. Ending("Loaded", AsInFile, NoCrop)
        BY <2>1 DEF Ending
      <3>2. CASE Finish("Loaded", session.reading, AsInFile, large, NoCrop) /\ UNCHANGED preview
        BY <2>1, <2>2, <3>1, <3>2, FinishTrace
      <3>3. CASE /\ preview'.kind = "Loaded"
                 /\ UNCHANGED <<image, sequence, tool, heals>>
        <4>1. ~CropUnderWay'
          BY <2>1, <3>3 DEF CropUnderWay
        <4> QED BY <2>1, <2>3, <3>3, <4>1, IdleEnd
      <3>4. CASE LosePreview("Loaded", NoCrop) /\ UNCHANGED preview
        BY <2>1, <2>2, <3>1, <3>4, GiveUpTrace
      <3> QED BY <2>6, <3>2, <3>3, <3>4 DEF Present
    <2> QED BY <1>1, <2>4, <2>5, <2>6 DEF LoadArrives
  <1>2. CASE PollPreview
    <2>1. preview.kind \in {"Loaded", "Cropped"} /\ preview' = NoPreview /\ crop' = crop
          /\ begun' = begun
      BY <1>2 DEF PollPreview, EditsInv, Shape
    <2>2. crop = NoCrop
      BY <1>2, <2>1 DEF PollPreview, EditsInv, LoadInv, Loading, CropInv, CropUnderWay
    <2>3. ~CropUnderWay'
      BY <2>1, <2>2 DEF CropUnderWay, NoPreview
    <2>4. Ending(preview.kind, preview.pixels, preview.rec)
      BY <2>1, <2>2 DEF Ending, EditsInv, LoadInv, Loading, CropUnderWay, Cut, Kept
    <2>5. CASE UNCHANGED <<session, image, sequence, tool, heals, lost>>
      <3>1. sequence' # "none" => sequence # "none" /\ ~tool'.painting
        BY <2>5 DEF TraceInv, SequenceInv
      <3> QED BY <2>1, <2>3, <2>5, <3>1, IdleEnd
    <2>6. CASE Finish(preview.kind, preview.file, preview.pixels, TRUE, preview.rec)
      BY <2>1, <2>3, <2>4, <2>6, FinishTrace
    <2>7. CASE GiveUp(preview.kind, preview.rec) \/ LosePreview(preview.kind, preview.rec)
      BY <2>1, <2>3, <2>4, <2>7, GiveUpTrace
    <2> QED BY <1>2, <2>5, <2>6, <2>7 DEF PollPreview
  <1> QED BY <1>1, <1>2

(* A frame comes only to an unedited picture, and is like it.                *)
LEMMA SequenceTrace ==
    ASSUME EditsInv, TraceInv, PollAuxiliary \/ AdvanceAnimation \/ StepSequence
    PROVE  TraceInv'
  <1>1. /\ image' = image \/ image' = Frame
        /\ UNCHANGED <<tool, heals, crop, preview, begun>>
        /\ sequence # "none"
    BY DEF PollAuxiliary, AdvanceAnimation, StepSequence
  <1>2. Unedited /\ ~tool.painting /\ ~WillApply
    BY <1>1 DEF TraceInv, SequenceInv
  <1>3. image'.pixels = image.pixels /\ (image'.pristine => image.pristine)
    BY <1>1, <1>2 DEF EditsInv, Shape, RecordShape, Frame, Unedited
  <1>4. ~CropUnderWay'
    BY <1>1 DEF EditsInv, CropInv, CropUnderWay
  <1>5. begun' \in Nat /\ begun <= begun'
    BY <1>1, InkFacts
  <1>6. ~WillApply' /\ ~tool'.painting
    BY <1>1, <1>2 DEF WillApply, heals
  <1> QED BY <1>1, <1>2, <1>3, <1>4, <1>5, <1>6, SameEdits DEF heals

(* The crop's mode, its thread and what it brings.                           *)
LEMMA CropTrace ==
    ASSUME EditsInv, TraceInv,
           \/ EnterCrop \/ HandleCrop \/ PollCrop
           \/ \E from, to \in 1..Width : ApplyCrop(from, to)
    PROVE  TraceInv'
  <1>1. CASE EnterCrop
    <2>1. /\ UNCHANGED <<image, sequence, refresh, history, told, crop, preview, begun>>
          /\ ~tool'.painting
      BY <1>1 DEF EnterCrop
    <2>2. ~WillApply'
      BY <1>1, WorkerIsCancelled DEF EnterCrop, EditsInv, Shape
    <2>3. CropUnderWay' = CropUnderWay /\ Cut' = Cut /\ Kept' = Kept
      BY <2>1 DEF CropUnderWay, Cut, Kept
    <2> QED BY <2>1, <2>2, <2>3, IdleEdits
  <1>2. CASE HandleCrop
    <2>1. /\ tool' = [tool EXCEPT !.cropping = FALSE, !.dragging = FALSE]
             \/ tool' = [tool EXCEPT !.dragging = ~@]
          /\ UNCHANGED <<image, sequence, heals, crop, preview, begun>>
      BY <1>2 DEF HandleCrop, LeaveCrop, Drag, Upright
    <2>2. tool'.painting = tool.painting
      BY <2>1 DEF EditsInv, Shape, RecordShape
    <2>3. CropUnderWay' = CropUnderWay /\ Cut' = Cut /\ Kept' = Kept
      BY <2>1 DEF CropUnderWay, Cut, Kept
    <2>4. WillApply' => WillApply /\ worker' = worker
      BY <2>1 DEF WillApply, heals
    <2>5. sequence' # "none" => sequence # "none" /\ ~tool'.painting
      BY <2>1, <2>2 DEF TraceInv, SequenceInv
    <2> QED BY <2>1, <2>3, <2>4, <2>5, IdleEdits DEF heals
  <1>3. ASSUME NEW from \in 1..Width, NEW to \in 1..Width, ApplyCrop(from, to)
        PROVE  TraceInv'
    <2>1. /\ crop' = [from |-> from, pixels |-> SubSeq(image.pixels, from, to),
                      rec |-> RecoveryOf]
          /\ sequence' = "none" /\ UNCHANGED <<image, heals, preview, begun>>
          /\ from <= to /\ to <= Len(image.pixels)
      BY <1>3 DEF ApplyCrop
    <2>2. crop' # NoCrop
      BY <2>1, EditsAssumption DEF NoCrop
    <2>3. Cut' = SubSeq(image.pixels, from, to) /\ Kept'.sequence = sequence
      BY <2>1, <2>2 DEF Cut, Kept, RecoveryOf
    <2>4. Cut' \in Seq(Ink(told.origin))
      <3> DEFINE pixels == image.pixels
      <3>1. pixels \in Seq(Ink(told.origin))
        BY InkFacts
      <3> HIDE DEF pixels
      <3>2. from \in Nat \ {0} /\ to \in Nat /\ to <= Len(pixels) /\ from <= to + 1
        BY <2>1, EditsAssumption DEF pixels
      <3>3. SubSeq(pixels, from, to) \in Seq(Ink(told.origin))
        BY <3>1, <3>2, StretchFacts
      <3> QED BY <2>3, <3>3 DEF pixels
    <2>5. Kept'.sequence # "none" => Unedited
      BY <2>3 DEF TraceInv, SequenceInv
    <2>6. begun' \in Nat /\ begun <= begun'
      BY <2>1, InkFacts
    <2>7. ~WillApply'
      <3>1. worker = NoWorker
        BY <1>3 DEF ApplyCrop, Busy, HealWork
      <3> QED BY <2>1, <3>1 DEF WillApply, heals
    <2>8. image'.pristine => Unedited
      BY <2>1 DEF TraceInv, SequenceInv
    <2> QED BY <2>1, <2>4, <2>5, <2>6, <2>7, <2>8, SameEdits DEF heals
  <1>4. CASE PollCrop
    <2>1. /\ crop # NoCrop /\ crop' = NoCrop /\ begun' = begun /\ CropUnderWay
          /\ Cut = crop.pixels /\ Kept = crop.rec
      BY <1>4 DEF PollCrop, CropUnderWay, Cut, Kept
    <2>2. preview = NoPreview /\ sequence = "none" /\ worker = NoWorker
      BY <2>1 DEF EditsInv, CropInv
    <2>3. preview' = preview => ~CropUnderWay'
      BY <2>1, <2>2 DEF CropUnderWay, NoPreview
    <2>4. CASE Restore(crop.rec) /\ UNCHANGED <<session, image, heals, preview>>
      <3>1. CropUnderWay /\ ~CropUnderWay' /\ crop.rec = Kept
        BY <2>1, <2>3, <2>4
      <3> QED BY <2>1, <2>4, <3>1, RestoreTrace
    <2>5. CASE UNCHANGED <<session, image, sequence, tool, heals, preview, lost>>
      BY <2>1, <2>2, <2>3, <2>5, IdleEnd
    <2>6. ASSUME NEW large, Present("Cropped", crop.rec.file, crop.pixels, large, crop.rec)
          PROVE  TraceInv'
      <3>1. Ending("Cropped", crop.pixels, crop.rec)
        BY <2>1 DEF Ending
      <3>2. CASE Finish("Cropped", crop.rec.file, crop.pixels, large, crop.rec)
                 /\ UNCHANGED preview
        BY <2>1, <2>3, <3>1, <3>2, FinishTrace
      <3>3. CASE LosePreview("Cropped", crop.rec) /\ UNCHANGED preview
        BY <2>1, <2>3, <3>1, <3>3, GiveUpTrace
      <3>4. CASE /\ preview' = [kind |-> "Cropped", file |-> crop.rec.file,
                                generation |-> session.generation, pixels |-> crop.pixels,
                                rec |-> crop.rec]
                 /\ UNCHANGED <<image, sequence, tool, heals>>
        <4>1. Cut' = Cut /\ Kept' = Kept
          BY <2>1, <3>4 DEF Cut, Kept
        <4>2. ~WillApply'
          BY <2>2, <3>4 DEF WillApply, heals
        <4> QED BY <2>1, <2>2, <3>4, <4>1, <4>2, IdleEdits DEF heals
      <3> QED BY <2>6, <3>2, <3>3, <3>4 DEF Present
    <2> QED BY <1>4, <2>4, <2>5, <2>6 DEF PollCrop
  <1> QED BY <1>1, <1>2, <1>3, <1>4

(* Strokes that begin and end.                                               *)
LEMMA HealTrace ==
    ASSUME EditsInv, TraceInv,
           \/ EnterHeal \/ BeginStroke \/ LeaveHeal \/ AbandonGesture
           \/ \E at, size \in 1..Width : FinishStroke(at, size)
    PROVE  TraceInv'
  <1>1. CASE EnterHeal \/ BeginStroke \/ LeaveHeal \/ AbandonGesture
    <2>1. /\ UNCHANGED <<image, heals, crop, preview, begun>>
          /\ \/ sequence' = "none"
             \/ sequence' = sequence /\ (tool'.painting => tool.painting)
      <3>1. CASE EnterHeal
        BY <3>1 DEF EnterHeal
      <3>2. CASE BeginStroke
        BY <3>2 DEF BeginStroke
      <3>3. CASE LeaveHeal
        BY <3>3 DEF LeaveHeal, EditsInv, Shape, RecordShape
      <3>4. CASE AbandonGesture
        BY <3>4 DEF AbandonGesture, EditsInv, Shape, RecordShape
      <3> QED BY <1>1, <3>1, <3>2, <3>3, <3>4
    <2>2. CropUnderWay' = CropUnderWay /\ Cut' = Cut /\ Kept' = Kept
      BY <2>1 DEF CropUnderWay, Cut, Kept
    <2>3. WillApply' => WillApply /\ worker' = worker
      BY <2>1 DEF WillApply, heals
    <2>4. sequence' # "none" => sequence # "none" /\ ~tool'.painting
      BY <2>1 DEF TraceInv, SequenceInv
    <2> QED BY <2>1, <2>2, <2>3, <2>4, IdleEdits DEF heals
  <1>2. ASSUME NEW at \in 1..Width, NEW size \in 1..Width, FinishStroke(at, size)
        PROVE  TraceInv'
    <2>1. /\ UNCHANGED <<image, sequence, refresh, history, told, crop, preview>>
          /\ tool.painting /\ begun' = begun + 1
          /\ \/ worker' = worker
             \/ worker' = [heal |-> begun + 1, candidate |-> 0, at |-> at, size |-> size,
                           apply |-> TRUE, again |-> FALSE]
      BY <1>2 DEF FinishStroke
    <2>2. sequence' = "none"
      BY <2>1 DEF TraceInv, SequenceInv
    <2>3. /\ begun \in Nat /\ told.origin \in Nat /\ told.origin <= begun
      BY InkFacts
    <2>4. begun' \in Nat /\ begun <= begun' /\ begun + 1 > told.origin
      BY <2>1, <2>3
    <2>5. at \in Nat \ {0} /\ size \in Nat
      BY EditsAssumption
    <2>6. WillApply' => /\ IsStroke(worker', told.origin)
                        /\ worker'.again => CoversNewest(worker', history, told)
      <3>1. CASE worker' = worker
        BY <3>1 DEF WillApply, TraceInv, StrokesInv
      <3>2. CASE worker' = [heal |-> begun + 1, candidate |-> 0, at |-> at, size |-> size,
                            apply |-> TRUE, again |-> FALSE]
        <4>1. /\ worker'.heal = begun' /\ worker'.candidate = 0 /\ worker'.at = at
              /\ worker'.size = size /\ worker'.again = FALSE
          BY <2>1, <3>2
        <4>2. begun' > told.origin
          BY <2>1, <2>4
        <4> QED BY <2>4, <2>5, <4>1, <4>2 DEF IsStroke
      <3> QED BY <2>1, <3>1, <3>2
    <2>7. CropUnderWay' => /\ Cut' \in Seq(Ink(told.origin))
                           /\ Kept'.sequence # "none" => Unedited
      BY <2>1 DEF TraceInv, CutInv, CropUnderWay, Cut, Kept
    <2>8. image'.pristine => Unedited
      BY <2>1 DEF TraceInv, SequenceInv
    <2> QED BY <2>1, <2>2, <2>4, <2>6, <2>7, <2>8, SameEdits
  <1> QED BY <1>1, <1>2

(* What another edit leaves of what is told.                                 *)
LEMMA OriginStays ==
    ASSUME NEW t \in Tellings, NEW trail, NEW ahead
    PROVE  /\ [t EXCEPT !.trail = trail, !.ahead = ahead].origin = t.origin
           /\ [t EXCEPT !.trail = trail, !.ahead = ahead].trail = trail
  BY RetracedIsExcept DEF Retraced

(* The patch of a thread fits when it is applied, and is of its stroke.      *)
LEMMA RepairFacts ==
    ASSUME NEW origin \in Nat, NEW w, IsStroke(w, origin), NEW pixels \in Seq(Ink(origin)),
           Fits(PatchOf(w), pixels)
    PROVE  /\ PatchOf(w) \in Patches(Ink(origin), Len(pixels))
           /\ PatchOf(w).at = w.at /\ Size(PatchOf(w)) = w.size
  <1> DEFINE rgba == [i \in 1..w.size |-> Painted(w.heal, w.candidate)]
  <1>1. PatchOf(w) = [at |-> w.at, rgba |-> rgba]
    BY DEF PatchOf
  <1>2. w.heal \in Nat /\ w.heal > origin /\ w.candidate \in {0, 1} /\ w.size \in Nat
        /\ w.at \in Nat \ {0}
    BY DEF IsStroke
  <1>3. Painted(w.heal, w.candidate) \in Ink(origin)
    <2> DEFINE n == w.heal
               c == w.candidate
    <2> HIDE DEF n, c
    <2>1. n \in Nat /\ n > origin /\ c \in {0, 1}
      BY <1>2 DEF n, c
    <2>2. (2 * n + c) \in Nat /\ (2 * n + c) \div 2 = n
      BY <2>1
    <2> QED BY <2>1, <2>2 DEF Ink, Painted, n, c
  <1>4. rgba \in Seq(Ink(origin)) /\ Len(rgba) = w.size
    BY <1>2, <1>3
  <1> HIDE DEF rgba
  <1>5. Size(PatchOf(w)) = w.size /\ PatchOf(w).at = w.at /\ PatchOf(w).rgba = rgba
    BY <1>1, <1>4 DEF Size
  <1>6. w.at + Len(rgba) <= Len(pixels) + 1
    BY <1>4, <1>5 DEF Fits
  <1> QED BY <1>1, <1>2, <1>4, <1>5, <1>6 DEF Patches

(* A repair is committed, over the newest edit or as a new one.              *)
LEMMA CommitTrace ==
    ASSUME EditsInv, TraceInv, NEW several \in BOOLEAN,
           worker # NoWorker, worker.apply, Fits(PatchOf(worker), image.pixels),
           Commit(worker, several), worker' = NoWorker,
           UNCHANGED <<sequence, crop, preview, begun>>
    PROVE  TraceInv'
  <1> DEFINE q      == PatchOf(worker)
             pixels == image.pixels
             ink    == Ink(told.origin)
  <1>1. told \in Tellings /\ told.origin \in Nat /\ pixels \in Seq(ink)
    BY InkFacts
  <1>2. /\ IsStroke(worker, told.origin)
        /\ worker.again => CoversNewest(worker, history, told)
        /\ sequence = "none"
    BY DEF TraceInv, StrokesInv, SequenceInv, WillApply
  <1>3. ~CropUnderWay' /\ ~WillApply'
    BY DEF EditsInv, CropInv, CropUnderWay, WillApply
  <1>4. /\ q \in Patches(ink, Len(pixels)) /\ q.at = worker.at /\ Size(q) = worker.size
    BY <1>1, <1>2, RepairFacts
  <1>5. image'.pixels = Patched(pixels, q) /\ ~image'.pristine
    BY DEF Commit, Edited, EditsInv, Shape, RecordShape
  <1>6. EditsOf(pixels, history, told)
    BY DEF TraceInv
  <1>7. /\ refresh' # NoRefresh => /\ refresh'.heal = worker.heal
                                   /\ refresh'.candidate = worker.candidate
                                   /\ refresh'.at = worker.at /\ refresh'.size = worker.size
    BY DEF Commit
  <1>8. refresh' # NoRefresh => IsStroke(refresh', told.origin)
    BY <1>2, <1>7 DEF IsStroke
  <1>9. CASE worker.again
    <2>1. history' = history /\ told' = told
      BY <1>9 DEF Commit
    <2>2. told.trail # <<>> /\ Covers(history, q.at, Size(q))
      BY <1>2, <1>4, <1>9 DEF CoversNewest
    <2> HIDE DEF q, pixels
    <2>3. EditsOf(Patched(pixels, q), history, told)
      BY <1>4, <1>6, <2>2, AgainFacts
    <2>4. refresh' # NoRefresh => CoversNewest(refresh', history', told')
      BY <1>2, <1>7, <1>9, <2>1 DEF CoversNewest
    <2> QED BY <1>2, <1>3, <1>5, <1>8, <2>1, <2>3, <2>4, OneMoreEdit
  <1>10. CASE ~worker.again
    <2>1. /\ history' = Recorded(history, InverseOf(q, pixels))
          /\ told' = [told EXCEPT !.trail = Append(@, pixels), !.ahead = <<>>]
      BY <1>10 DEF Commit
    <2> HIDE DEF q, pixels
    <2>2. /\ EditsOf(Patched(pixels, q), Recorded(history, InverseOf(q, pixels)),
                     [told EXCEPT !.trail = Append(@, pixels), !.ahead = <<>>])
          /\ Covers(Recorded(history, InverseOf(q, pixels)), q.at, Size(q))
          /\ Append(told.trail, pixels) # <<>>
      BY <1>4, <1>6, CommitFacts
    <2>3. told'.origin = told.origin /\ told'.trail = Append(told.trail, pixels)
      <3> DEFINE trail == Append(told.trail, pixels)
      <3>1. told' = [told EXCEPT !.trail = trail, !.ahead = <<>>]
        BY <2>1
      <3> HIDE DEF trail
      <3>2. told'.origin = told.origin /\ told'.trail = trail
        BY <1>1, <3>1, OriginStays
      <3> QED BY <3>2 DEF trail
    <2>4. EditsOf(image'.pixels, history', told')
      BY <1>5, <2>1, <2>2
    <2>5. refresh' # NoRefresh => CoversNewest(refresh', history', told')
      BY <1>4, <1>7, <2>1, <2>2, <2>3 DEF CoversNewest
    <2> QED BY <1>2, <1>3, <1>5, <1>8, <2>3, <2>4, <2>5, OneMoreEdit
  <1> QED BY <1>9, <1>10

(* What Undo and Redo find.                                                  *)
LEMMA NothingElse ==
    ASSUME EditsInv, TraceInv, ~Busy("SpotHeal"),
           history.undo # <<>> \/ history.redo # <<>> \/ refresh # NoRefresh
    PROVE  ~CropUnderWay /\ worker = NoWorker /\ sequence = "none"
  <1>1. ~CropUnderWay /\ worker = NoWorker
    BY DEF Busy, Preparing, CropWork, HealWork, CropUnderWay, NoPreview
  <1>2. ~Unedited
    BY DEF Unedited, NewHistory
  <1> QED BY <1>1, <1>2 DEF TraceInv, SequenceInv

(* Repairs, other sources, Undo and Redo.                                    *)
LEMMA EditTrace ==
    ASSUME EditsInv, TraceInv, PollHeal \/ RefreshSource \/ Undo \/ Redo
    PROVE  TraceInv'
  <1>1. CASE PollHeal
    <2>1. /\ worker # NoWorker /\ worker' = NoWorker
          /\ UNCHANGED <<sequence, tool, crop, preview, begun>>
      BY <1>1 DEF PollHeal
    <2>2. CASE UNCHANGED <<image, refresh, history, told>>
      <3>1. ~WillApply' /\ CropUnderWay' = CropUnderWay /\ Cut' = Cut /\ Kept' = Kept
        BY <2>1 DEF WillApply, CropUnderWay, Cut, Kept
      <3>2. sequence' # "none" => sequence # "none" /\ ~tool'.painting
        BY <2>1 DEF TraceInv, SequenceInv
      <3> QED BY <2>1, <2>2, <3>1, <3>2, IdleEdits
    <2>3. ASSUME worker.apply, Fits(PatchOf(worker), image.pixels), NEW several \in BOOLEAN,
                 Commit(worker, several)
          PROVE  TraceInv'
      BY <2>1, <2>3, CommitTrace
    <2> QED BY <1>1, <2>2, <2>3 DEF PollHeal
  <1>2. CASE RefreshSource
    <2>1. /\ ~Busy("SpotHeal") /\ refresh # NoRefresh
          /\ UNCHANGED <<image, sequence, tool, refresh, history, crop, preview, begun, told>>
          /\ worker' = [heal |-> refresh.heal, candidate |-> 1 - refresh.candidate,
                        at |-> refresh.at, size |-> refresh.size, apply |-> TRUE,
                        again |-> TRUE]
      BY <1>2 DEF RefreshSource
    <2>2. ~CropUnderWay' /\ sequence' = "none"
      BY <2>1, NothingElse DEF CropUnderWay
    <2>3. IsStroke(refresh, told.origin) /\ CoversNewest(refresh, history, told)
      BY <2>1 DEF TraceInv, StrokesInv
    <2>4. 1 - refresh.candidate \in {0, 1}
      BY <2>3 DEF IsStroke
    <2>5. IsStroke(worker', told.origin) /\ CoversNewest(worker', history, told)
      BY <2>1, <2>3, <2>4 DEF IsStroke, CoversNewest
    <2>6. begun' \in Nat /\ begun <= begun'
      BY <2>1, InkFacts
    <2>7. image'.pristine => Unedited
      BY <2>1 DEF TraceInv, SequenceInv
    <2> QED BY <2>1, <2>2, <2>5, <2>6, <2>7, SameEdits
  <1>3. CASE Undo
    <2>1. /\ ~Busy("SpotHeal") /\ history.undo # <<>> /\ refresh' = NoRefresh
          /\ image' = Edited(Patched(image.pixels, NewestOf(history.undo)))
          /\ history' = Undone(history, image.pixels)
          /\ told' = [told EXCEPT !.trail = WithoutNewest(@), !.ahead = Append(@, image.pixels)]
          /\ UNCHANGED <<sequence, worker, crop, preview, begun>>
      BY <1>3 DEF Undo
    <2>2. ~CropUnderWay' /\ ~WillApply' /\ sequence' = "none"
      BY <2>1, NothingElse DEF CropUnderWay, WillApply
    <2>3. /\ image'.pixels = Patched(image.pixels, NewestOf(history.undo))
          /\ ~image'.pristine
      BY <2>1 DEF Edited, EditsInv, Shape, RecordShape
    <2>4. EditsOf(image.pixels, history, told)
      BY DEF TraceInv
    <2>5. EditsOf(image'.pixels, history', told')
      <3>1. EditsOf(Patched(image.pixels, NewestOf(history.undo)),
                    Undone(history, image.pixels),
                    [told EXCEPT !.trail = WithoutNewest(@), !.ahead = Append(@, image.pixels)])
        BY <2>1, <2>4, UndoFacts
      <3> QED BY <2>1, <2>3, <3>1
    <2>6. told'.origin = told.origin
      <3> DEFINE trail == WithoutNewest(told.trail)
                 ahead == Append(told.ahead, image.pixels)
      <3>1. told' = [told EXCEPT !.trail = trail, !.ahead = ahead]
        BY <2>1
      <3> HIDE DEF trail, ahead
      <3> QED BY <3>1, InkFacts, OriginStays
    <2> QED BY <2>1, <2>2, <2>3, <2>5, <2>6, OneMoreEdit
  <1>4. CASE Redo
    <2>1. /\ ~Busy("SpotHeal") /\ history.redo # <<>> /\ refresh' = NoRefresh
          /\ image' = Edited(Patched(image.pixels, NewestOf(history.redo)))
          /\ history' = Redone(history, image.pixels)
          /\ told' = [told EXCEPT !.trail = Append(@, image.pixels), !.ahead = WithoutNewest(@)]
          /\ UNCHANGED <<sequence, worker, crop, preview, begun>>
      BY <1>4 DEF Redo
    <2>2. ~CropUnderWay' /\ ~WillApply' /\ sequence' = "none"
      BY <2>1, NothingElse DEF CropUnderWay, WillApply
    <2>3. /\ image'.pixels = Patched(image.pixels, NewestOf(history.redo))
          /\ ~image'.pristine
      BY <2>1 DEF Edited, EditsInv, Shape, RecordShape
    <2>4. EditsOf(image.pixels, history, told)
      BY DEF TraceInv
    <2>5. EditsOf(image'.pixels, history', told')
      <3>1. EditsOf(Patched(image.pixels, NewestOf(history.redo)),
                    Redone(history, image.pixels),
                    [told EXCEPT !.trail = Append(@, image.pixels), !.ahead = WithoutNewest(@)])
        BY <2>1, <2>4, RedoFacts
      <3> QED BY <2>1, <2>3, <3>1
    <2>6. told'.origin = told.origin
      <3> DEFINE trail == Append(told.trail, image.pixels)
                 ahead == WithoutNewest(told.ahead)
      <3>1. told' = [told EXCEPT !.trail = trail, !.ahead = ahead]
        BY <2>1
      <3> HIDE DEF trail, ahead
      <3> QED BY <3>1, InkFacts, OriginStays
    <2> QED BY <2>1, <2>2, <2>3, <2>5, <2>6, OneMoreEdit
  <1> QED BY <1>1, <1>2, <1>3, <1>4

-----------------------------------------------------------------------------
(* The beginning.                                                            *)
LEMMA InitTrace == Init => TraceInv
  <1> SUFFICES ASSUME Init PROVE TraceInv
    OBVIOUS
  <1>1. /\ image.pixels = <<>> /\ ~image.pristine /\ sequence = "none" /\ begun = 0
        /\ history = NewHistory /\ refresh = NoRefresh /\ worker = NoWorker
        /\ crop = NoCrop /\ preview = NoPreview
        /\ told = [trail |-> <<>>, ahead |-> <<>>, base |-> <<>>, origin |-> 0]
    BY DEF Init, NoImage
  <1>2. EditsOf(image.pixels, history, told)
    <2> DEFINE none == image.pixels
    <2>1. /\ none \in Seq(Ink(0))
          /\ told = [trail |-> <<>>, ahead |-> <<>>, base |-> none, origin |-> 0]
      BY <1>1
    <2> HIDE DEF none
    <2>2. EditsOf(none, NewHistory, told)
      BY <2>1, FreshFacts
    <2> QED BY <1>1, <2>2 DEF none
  <1>3. StrokesInv /\ CutInv /\ SequenceInv
    BY <1>1 DEF StrokesInv, CutInv, SequenceInv, WillApply, CropUnderWay, NoPreview
  <1> QED BY <1>2, <1>3 DEF TraceInv

(* Every step keeps the invariant.                                           *)
LEMMA NextTrace == EditsInv /\ TraceInv /\ [Next]_vars => TraceInv'
  <1> SUFFICES ASSUME EditsInv, TraceInv, [Next]_vars PROVE TraceInv'
    OBVIOUS
  <1>1. CASE UNCHANGED vars
    <2>1. UNCHANGED <<image, sequence, tool, worker, refresh, history, told, crop, preview, begun>>
      BY <1>1 DEF vars
    <2>2. WillApply' = WillApply /\ CropUnderWay' = CropUnderWay /\ Cut' = Cut /\ Kept' = Kept
      BY <2>1 DEF WillApply, CropUnderWay, Cut, Kept
    <2>3. sequence' # "none" => ~tool'.painting
      BY <2>1 DEF TraceInv, SequenceInv
    <2> QED BY <2>1, <2>2, <2>3, IdleEdits
  <1>2. CASE Next
    BY <1>2, LoadsTrace, SelectionTrace, ArrivalsTrace, SequenceTrace, CropTrace, HealTrace,
       EditTrace DEF Next
  <1> QED BY <1>1, <1>2

(* The pictures on the way back and forth are those there were.              *)
LEMMA TraceIsExact == TraceInv => UndoIsExact
  <1> SUFFICES ASSUME TraceInv PROVE UndoIsExact
    OBVIOUS
  <1> DEFINE S == Patches(Ink(told.origin), Len(image.pixels))
  <1>1. /\ image.pixels \in Seq(Ink(told.origin))
        /\ history.undo \in Seq(S) /\ history.redo \in Seq(S)
        /\ told.trail \in Seq(Seq(Nat)) /\ told.ahead \in Seq(Seq(Nat))
        /\ Walks(image.pixels, history.undo, told.trail)
        /\ Walks(image.pixels, history.redo, told.ahead)
        /\ Bytes(history.undo) + Bytes(history.redo) <= ByteLimit
        /\ told.trail = <<>> => image.pixels = told.base
    BY DEF TraceInv, EditsOf, Tellings
  <1>2. image.pixels \in Seq(Nat)
    <2>1. Ink(told.origin) \subseteq Nat
      BY DEF Ink
    <2> QED BY <1>1, <2>1, SeqWiden
  <1> HIDE DEF S
  <1>3. Retraces(history.undo, told.trail)
    <2> DEFINE patches  == history.undo
               pictures == told.trail
    <2>1. patches \in Seq(S) /\ pictures \in Seq(Seq(Nat)) /\ Walks(image.pixels, patches, pictures)
      BY <1>1
    <2> HIDE DEF patches, pictures
    <2>2. Retraces(patches, pictures)
      BY <1>2, <2>1, WalkRetraces
    <2> QED BY <2>2 DEF patches, pictures
  <1>4. Retraces(history.redo, told.ahead)
    <2> DEFINE patches  == history.redo
               pictures == told.ahead
    <2>1. patches \in Seq(S) /\ pictures \in Seq(Seq(Nat)) /\ Walks(image.pixels, patches, pictures)
      BY <1>1
    <2> HIDE DEF patches, pictures
    <2>2. Retraces(patches, pictures)
      BY <1>2, <2>1, WalkRetraces
    <2> QED BY <2>2 DEF patches, pictures
  <1>5. \A i \in DOMAIN image.pixels :
           image.pixels[i] = 0 \/ image.pixels[i] \div 2 > told.origin
    <2> DEFINE pixels == image.pixels
    <2>1. pixels \in Seq(Ink(told.origin))
      BY <1>1
    <2> HIDE DEF pixels
    <2>2. ASSUME NEW i \in DOMAIN pixels PROVE pixels[i] = 0 \/ pixels[i] \div 2 > told.origin
      <3>1. i \in 1..Len(pixels)
        BY <2>1
      <3>2. pixels[i] \in Ink(told.origin)
        BY <2>1, <3>1, ElementOfSeq
      <3> QED BY <3>2 DEF Ink
    <2> QED BY <2>2 DEF pixels
  <1> QED BY <1>1, <1>3, <1>4, <1>5 DEF UndoIsExact

(* Undo and Redo are exact, whatever the strokes cover, however many of the  *)
(* oldest patches made room for others, and whichever sources, loads, crops  *)
(* and frames came between (commit_presented_heal, push_bounded, undo_edit,  *)
(* redo_edit).                                                               *)
THEOREM UndoAndRedoAreExact == Spec => []UndoIsExact
  <1>1. Init => EditsInv /\ TraceInv
    BY InitEdits, InitTrace
  <1>2. EditsInv /\ TraceInv /\ [Next]_vars => (EditsInv /\ TraceInv)'
    BY NextEdits, NextTrace
  <1>3. EditsInv /\ TraceInv => UndoIsExact
    BY TraceIsExact
  <1> QED BY <1>1, <1>2, <1>3, PTL DEF Spec
=============================================================================
