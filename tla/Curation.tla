------------------------------ MODULE Curation ------------------------------
(***************************************************************************)
(* The curation engine of viewr: Delete (move to Trash), Shift+Delete      *)
(* (permanent delete) and U (restore from Trash), as the event loop of     *)
(* crates/viewr/src/app.rs runs them against one folder.                   *)
(*                                                                         *)
(* Two parties act.  The event loop is the only writer of the catalog, the *)
(* selection, the FIFO of accepted Trash requests, the Undo record and the *)
(* recovery flags.  One-shot background threads do the slow part: the      *)
(* curation worker makes one platform call, the folder scan lists the      *)
(* folder once, the foreground load decodes one image.  A thread reads the *)
(* file system when it runs and the event loop applies what it found when  *)
(* it polls, so everything a thread reports may be stale by then.          *)
(*                                                                         *)
(* Files are numbered in the folder's sort order: the catalog is in        *)
(* canonical order when it increases.  Positions are the code's, from 0.   *)
(* The session's rating filter (All), collage mode and renames by other    *)
(* programs are outside this module.                                       *)
(***************************************************************************)
EXTENDS Integers, Sequences, FiniteSets, SequencesExt

CONSTANTS
    NumFiles,     (* images in the folder when the session starts            *)
    MaxPending,   (* bound of the Trash FIFO: MAX_PENDING_TRASH, 256         *)
    MaxScans,     (* bound of the model: opens and membership refreshes      *)
    Faults        (* which of "refused", "lost", "spawn", "decode" may occur *)

ASSUME CurationAssumption ==
    /\ NumFiles \in Nat
    /\ MaxPending \in Nat
    /\ MaxScans \in Nat
    /\ Faults \subseteq {"refused", "lost", "spawn", "decode"}

Files  == 1..NumFiles
NoFile == 0

VARIABLES
    place,      (* where each file really is: folder, trash or gone          *)
    browse,     (* Playlist and Session: [files, index, selected, view,      *)
                (*   missing]                                                *)
    worker,     (* curation_worker and what its thread has published         *)
    queue,      (* pending_trash, oldest first                               *)
    undo,       (* last_trashed (never more than one record)                 *)
    recovery,   (* curation_recovery: kinds whose outcome is unknown         *)
    scan,       (* folder_scan_job and what its thread has listed            *)
    dirty,      (* folder_membership_dirty                                   *)
    scansLeft   (* of MaxScans                                               *)

vars == <<place, browse, worker, queue, undo, recovery, scan, dirty, scansLeft>>

-----------------------------------------------------------------------------
(* Records.  "here" is same_playlist_scope: the playlist installed when the  *)
(* record was captured is still the active one.                              *)

Kinds == {"Trash", "PermanentDelete", "Restore"}

Removal == [file : Files, index : Nat, here : BOOLEAN]

NoWorker == [kind |-> "none"]
NoUndo   == [file |-> NoFile]
NoScan   == [purpose |-> "none"]

Worker(kind, c) ==
    [kind |-> kind, file |-> c.file, index |-> c.index, here |-> c.here,
     state |-> "running"]

Scan(purpose, path) ==
    [purpose |-> purpose, path |-> path, state |-> "running", listing |-> {}]

(* start_folder_scan replaces the scan before it, even if it cannot start.   *)
StartScan(purpose, path) ==
    \/ scan' = Scan(purpose, path)
    \/ "spawn" \in Faults /\ scan' = NoScan

Idle == worker.kind = "none"

(* Open Folder and missing-selection recovery take the folder-scan lock.     *)
ExclusiveScan == scan.purpose \in {"folder", "missing"}

(* pending_source_removal_paths: removals accepted and not yet reconciled.   *)
InFlight ==
    {queue[i].file : i \in DOMAIN queue}
        \cup (IF worker.kind \in {"Trash", "PermanentDelete"} THEN {worker.file} ELSE {})

OnDisk(f) == place[f] = "folder"

-----------------------------------------------------------------------------
(* The playlist, and the selection that follows it.                          *)

Least(a, b) == IF a < b THEN a ELSE b

PositionOf(files, f) == (CHOOSE i \in DOMAIN files : files[i] = f) - 1

(* Without the entry of f: a catalog names a file at most once.              *)
Without(files, f) ==
    IF Contains(files, f) THEN RemoveAt(files, PositionOf(files, f) + 1) ELSE files

(* What a spawned load shows at once: a prefetched image, or a pending one.  *)
Arrivals == {"shown", "loading"}

(* spawn_image_load of the file at a catalog position.                       *)
Load(b, index, view) ==
    [b EXCEPT !.index = index, !.selected = b.files[index + 1],
              !.view = view, !.missing = FALSE]

Blank(b) == [b EXCEPT !.selected = NoFile, !.view = "blank", !.missing = FALSE]

(* after_paths_removed, with Playlist::remove_paths.  The image the user has *)
(* moved to stays; otherwise the one that fills the removed slot is next.    *)
AfterRemoved(b, f, old, view) ==
    LET files == Without(b.files, f)
        index == IF files = <<>> THEN 0 ELSE Least(old, Len(files) - 1)
        kept  == [b EXCEPT !.files = files, !.index = index]
    IN  IF files = <<>> THEN Blank(kept)
        ELSE IF b.selected # f /\ Contains(files, b.selected)
        THEN [kept EXCEPT !.index = PositionOf(files, b.selected)]
        ELSE Load(kept, index, view)

(* Wrong on purpose: an insertion at the index does not shift it.            *)
InsertPathKeepsIndex(b, at, f) ==
    LET i == Least(at, Len(b.files))
    IN  [b EXCEPT !.files = InsertAt(b.files, i + 1, f),
                  !.index = IF i < b.index THEN b.index + 1 ELSE b.index]

(* Playlist::insert_path: the index keeps naming the entry it named.         *)
InsertPath(b, at, f) ==
    LET i == Least(at, Len(b.files))
    IN  [b EXCEPT !.files = InsertAt(b.files, i + 1, f),
                  !.index = IF i <= b.index /\ b.files # <<>> THEN b.index + 1 ELSE b.index]

(* revert_submitted_removal.                                                 *)
Revert(b, c, view) ==
    IF Contains(b.files, c.file) THEN b
    ELSE LET inserted == InsertPath(b, c.index, c.file)
         IN  IF b.selected # NoFile THEN inserted
             ELSE Load(inserted, PositionOf(inserted.files, c.file), view)

(* revert_abandoned_trash_queue: oldest request first.                       *)
RevertAll(b, pending, view) ==
    LET reverted[n \in 0..Len(pending)] ==
          IF n = 0 THEN b ELSE Revert(reverted[n - 1], pending[n], view)
    IN  reverted[Len(pending)]

(* Playlist::reconcile with preferred = target.                              *)
Reconcile(b, entries, target) ==
    LET previous == IF b.index < Len(b.files) THEN b.files[b.index + 1] ELSE NoFile
        index    == IF Contains(entries, target) THEN PositionOf(entries, target)
                    ELSE IF Contains(entries, previous) THEN PositionOf(entries, previous)
                    ELSE Least(b.index, Len(entries) - 1)
    IN  [b EXCEPT !.files = entries, !.index = index]

(* removal_context_for_path.                                                 *)
ContextFor(b, f) ==
    [file |-> f, here |-> TRUE,
     index |-> IF Contains(b.files, f) THEN PositionOf(b.files, f) ELSE b.index]

-----------------------------------------------------------------------------
(* viewr was started on the folder, or on one file of it, whose siblings are *)
(* still being listed.                                                       *)
Init ==
    /\ place = [f \in Files |-> "folder"]
    /\ \/ /\ browse = [files |-> [i \in Files |-> i], index |-> 0, missing |-> FALSE,
                       selected |-> IF NumFiles = 0 THEN NoFile ELSE 1,
                       view |-> IF NumFiles = 0 THEN "blank" ELSE "loading"]
          /\ scan = NoScan
          /\ scansLeft = MaxScans
       \/ \E f \in Files :
          /\ browse = [files |-> <<f>>, index |-> 0, missing |-> FALSE,
                       selected |-> f, view |-> "loading"]
          /\ scan = Scan("refresh", f)
          /\ MaxScans > 0
          /\ scansLeft = MaxScans - 1
    /\ worker = NoWorker
    /\ queue = <<>>
    /\ undo = NoUndo
    /\ recovery = {}
    /\ dirty = FALSE

-----------------------------------------------------------------------------
(* Submitting work.  A removal is optimistic: the file leaves the catalog    *)
(* and the selection advances before the platform has moved anything.        *)

(* removal_candidate: the selected image is presented.                       *)
Presented == browse.view = "shown"

(* trash_admission: room behind the move that runs.                          *)
HasRoom == Len(queue) < MaxPending

(* trash_current: start a worker, queue behind a running Trash, or refuse.   *)
TrashCurrent(view) ==
    /\ Presented
    /\ ~ExclusiveScan
    /\ worker.kind \in {"none", "Trash"}
    /\ recovery = {}
    /\ LET c         == ContextFor(browse, browse.selected)
           committed == AfterRemoved(browse, c.file, c.index, view)
       IN  \/ /\ Idle
              /\ worker' = Worker("Trash", c)
              /\ browse' = committed
              /\ UNCHANGED queue
           \/ /\ Idle
              /\ "spawn" \in Faults
              /\ browse' = Revert(committed, c, view)
              /\ UNCHANGED <<worker, queue>>
           \/ /\ worker.kind = "Trash"
              /\ HasRoom
              /\ queue' = Append(queue, c)
              /\ browse' = committed
              /\ UNCHANGED worker
    /\ UNCHANGED <<place, undo, recovery, scan, dirty, scansLeft>>

(* permanent_delete_current, confirmed: the worker starts before the commit, *)
(* so a failed spawn changes nothing.                                        *)
PermanentDeleteCurrent(view) ==
    /\ Presented
    /\ ~ExclusiveScan
    /\ Idle
    /\ recovery = {}
    /\ OnDisk(browse.selected)
    /\ LET c == ContextFor(browse, browse.selected)
       IN  /\ worker' = Worker("PermanentDelete", c)
           /\ browse' = AfterRemoved(browse, c.file, c.index, view)
    /\ UNCHANGED <<place, queue, undo, recovery, scan, dirty, scansLeft>>

(* undo_trash: the Undo record is cloned, not taken, so that losing the      *)
(* worker loses no receipt.                                                  *)
UndoTrash ==
    /\ Idle
    /\ undo # NoUndo
    /\ ~ExclusiveScan
    /\ browse.view # "loading"
    /\ worker' = Worker("Restore", undo)
    /\ UNCHANGED <<place, browse, queue, undo, recovery, scan, dirty, scansLeft>>

-----------------------------------------------------------------------------
(* The worker thread: one platform call.  "refused" is every error that      *)
(* leaves the file where it was; "lost" is a panic, before or after the      *)
(* call took effect.                                                         *)

Publish(state) == worker' = [worker EXCEPT !.state = state]

MoveFile(f, to) == place' = [place EXCEPT ![f] = to]

PlatformTrash ==
    /\ worker.kind = "Trash"
    /\ OnDisk(worker.file)
    /\ \E state \in {"moved", "unreceipted"} : Publish(state)
    /\ MoveFile(worker.file, "trash")

PlatformDelete ==
    /\ worker.kind = "PermanentDelete"
    /\ OnDisk(worker.file)
    /\ Publish("deleted")
    /\ MoveFile(worker.file, "gone")

PlatformRestore ==
    /\ worker.kind = "Restore"
    /\ place[worker.file] = "trash"
    /\ Publish("restored")
    /\ MoveFile(worker.file, "folder")

(* A source that is no longer the accepted one never reaches the platform.   *)
PlatformRefuse ==
    /\ \/ /\ worker.kind \in {"Trash", "PermanentDelete"}
          /\ "refused" \in Faults \/ ~OnDisk(worker.file)
          /\ Publish("refused")
       \/ /\ worker.kind = "Restore"
          /\ "refused" \in Faults
          /\ Publish("retryable")
       \/ /\ worker.kind = "Restore"
          /\ "refused" \in Faults \/ place[worker.file] # "trash"
          /\ Publish("dropped")
    /\ UNCHANGED place

PlatformPanic ==
    /\ "lost" \in Faults
    /\ Publish("lost")
    /\ \/ UNCHANGED place
       \/ /\ worker.kind \in {"Trash", "PermanentDelete"}
          /\ OnDisk(worker.file)
          /\ MoveFile(worker.file, IF worker.kind = "Trash" THEN "trash" ELSE "gone")
       \/ /\ worker.kind = "Restore"
          /\ place[worker.file] = "trash"
          /\ MoveFile(worker.file, "folder")

PlatformCall ==
    /\ ~Idle
    /\ worker.state = "running"
    /\ \/ PlatformTrash
       \/ PlatformDelete
       \/ PlatformRestore
       \/ PlatformRefuse
       \/ PlatformPanic
    /\ UNCHANGED <<browse, queue, undo, recovery, scan, dirty, scansLeft>>

-----------------------------------------------------------------------------
(* poll_curation_result: the event loop reconciles one finished worker.      *)

(* Wrong on purpose: the Undo record keeps the index it was made with.       *)
NotRebased(u, c) == u

(* rebase_trashed_file_indices_after_current_removals, for one record.       *)
Rebased(u, c) ==
    IF u # NoUndo /\ u.here /\ c.here /\ c.index < u.index
    THEN [u EXCEPT !.index = u.index - 1] ELSE u

(* The removed path may only still be listed in the playlist it came from.   *)
DropIfListed(b, c, view) ==
    IF c.here /\ Contains(b.files, c.file) THEN AfterRemoved(b, c.file, c.index, view) ELSE b

(* start_trash_worker resolves the position again if the file is listed.     *)
Resolved(b, c) ==
    IF c.here /\ Contains(b.files, c.file)
    THEN [c EXCEPT !.index = PositionOf(b.files, c.file)] ELSE c

(* Wrong on purpose: what cannot start is dropped, not listed again.         *)
StartNextOrForget(b, view) ==
    /\ browse' = b
    /\ \/ /\ queue = <<>>
          /\ worker' = NoWorker
          /\ UNCHANGED queue
       \/ /\ queue # <<>>
          /\ worker' = Worker("Trash", Resolved(b, Head(queue)))
          /\ queue' = Tail(queue)
       \/ /\ queue # <<>>
          /\ "spawn" \in Faults
          /\ worker' = NoWorker
          /\ queue' = <<>>

(* start_next_pending_trash: one request starts, or none of them ever does.  *)
StartNextPending(b, view) ==
    \/ /\ queue = <<>>
       /\ worker' = NoWorker
       /\ browse' = b
       /\ UNCHANGED queue
    \/ /\ queue # <<>>
       /\ worker' = Worker("Trash", Resolved(b, Head(queue)))
       /\ queue' = Tail(queue)
       /\ browse' = b
    \/ /\ queue # <<>>
       /\ "spawn" \in Faults
       /\ worker' = NoWorker
       /\ queue' = <<>>
       /\ browse' = RevertAll(b, queue, view)

(* finish_trash_move with a receipt, or with none.                           *)
PollTrashMoved(view) ==
    /\ worker.kind = "Trash"
    /\ worker.state \in {"moved", "unreceipted"}
    /\ undo' = IF worker.state = "moved"
               THEN [file |-> worker.file, index |-> worker.index,
                     here |-> worker.here, sure |-> TRUE]
               ELSE Rebased(undo, worker)
    /\ recovery' = recovery \ {"Trash"}
    /\ StartNextPending(DropIfListed(browse, worker, view), view)
    /\ UNCHANGED <<place, scan, dirty, scansLeft>>

(* finish_permanent_delete.                                                  *)
PollDeleted(view) ==
    /\ worker.kind = "PermanentDelete"
    /\ worker.state = "deleted"
    /\ undo' = Rebased(undo, worker)
    /\ recovery' = recovery \ {"PermanentDelete"}
    /\ browse' = DropIfListed(browse, worker, view)
    /\ worker' = NoWorker
    /\ UNCHANGED <<place, queue, scan, dirty, scansLeft>>

(* A refused removal returns to the catalog, then so does all that waited.   *)
PollRemovalRefused(view) ==
    /\ worker.kind \in {"Trash", "PermanentDelete"}
    /\ worker.state = "refused"
    /\ recovery' = recovery \ {worker.kind}
    /\ browse' = RevertAll(Revert(browse, worker, view), queue, view)
    /\ queue' = <<>>
    /\ worker' = NoWorker
    /\ UNCHANGED <<place, undo, scan, dirty, scansLeft>>

(* finish_trash_restore.  A restored file is inserted and selected when its  *)
(* playlist is still open; a retryable failure keeps the Undo record.        *)
PollRestored ==
    /\ worker.kind = "Restore"
    /\ worker.state \in {"restored", "retryable", "dropped"}
    /\ LET i        == Least(worker.index, Len(browse.files))
           inserted == InsertPath(browse, i, worker.file)
           parked   == [inserted EXCEPT !.index = Least(browse.index, Len(browse.files))]
       IN  browse' = IF worker.state # "restored" \/ ~worker.here THEN browse
                     ELSE IF ExclusiveScan THEN parked
                     ELSE Load(inserted, i, "loading")
    /\ undo' = IF worker.state = "retryable" THEN undo ELSE NoUndo
    /\ recovery' = recovery \ {"Restore"}
    /\ worker' = NoWorker
    /\ UNCHANGED <<place, queue, scan, dirty, scansLeft>>

(* Wrong on purpose: a restore whose thread died is polled forever.          *)
RestoreNeverDisconnects(view) ==
    /\ worker.kind \in {"Trash", "PermanentDelete"}
    /\ worker.state = "lost"
    /\ browse' = RevertAll(Revert(browse, worker, view), queue, view)
    /\ queue' = <<>>
    /\ recovery' = recovery \cup {worker.kind}
    /\ worker' = NoWorker
    /\ UNCHANGED <<place, undo, scan, dirty, scansLeft>>

(* finish_disconnected_curation: nothing is known of the operation, the      *)
(* file is listed again and everything that waited behind it is abandoned.   *)
PollDisconnected(view) ==
    /\ ~Idle
    /\ worker.state = "lost"
    /\ browse' = IF worker.kind = "Restore" THEN browse
                 ELSE RevertAll(Revert(browse, worker, view), queue, view)
    /\ undo' = IF worker.kind = "Restore" THEN [undo EXCEPT !.sure = FALSE] ELSE undo
    /\ queue' = <<>>
    /\ recovery' = recovery \cup {worker.kind}
    /\ worker' = NoWorker
    /\ UNCHANGED <<place, scan, dirty, scansLeft>>

-----------------------------------------------------------------------------
(* Browsing and loading.                                                     *)

(* go_to_index, which a running move to Trash does not block.                *)
Navigate(view) ==
    /\ ~ExclusiveScan
    /\ worker.kind \in {"none", "Trash"}
    /\ \E i \in DOMAIN browse.files :
          browse' = Load(browse, i - 1, view)
    /\ UNCHANGED <<place, worker, queue, undo, recovery, scan, dirty, scansLeft>>

(* poll_foreground_image_load for a file that is there.                      *)
FinishLoad ==
    /\ browse.view = "loading"
    /\ OnDisk(browse.selected)
    /\ \/ browse' = [browse EXCEPT !.view = "shown", !.missing = FALSE]
       \/ /\ "decode" \in Faults
          /\ browse' = [browse EXCEPT !.view = "failed", !.missing = FALSE]
    /\ UNCHANGED <<place, worker, queue, undo, recovery, scan, dirty, scansLeft>>

(* handle_missing_selected_path: advance past a file that is not there, or   *)
(* look for a sibling when it was the last one listed.                       *)
MissingLoad(view) ==
    /\ browse.view = "loading"
    /\ ~OnDisk(browse.selected)
    /\ LET f     == browse.selected
           files == Without(browse.files, f)
           index == Least(PositionOf(browse.files, f), Len(files) - 1)
           gone  == [browse EXCEPT !.view = "failed", !.missing = TRUE]
       IN  IF Contains(browse.files, f) /\ files # <<>>
           THEN /\ browse' = Load([browse EXCEPT !.files = files], index, view)
                /\ UNCHANGED scan
           ELSE /\ browse' = IF Contains(browse.files, f)
                             THEN [gone EXCEPT !.files = <<>>, !.index = 0] ELSE gone
                /\ StartScan("missing", f)
    /\ UNCHANGED <<place, worker, queue, undo, recovery, dirty, scansLeft>>

-----------------------------------------------------------------------------
(* Installing and refreshing the catalog.                                    *)

(* install_playlist: every captured scope is now that of an older playlist.  *)
RetireScopes ==
    /\ undo' = IF undo = NoUndo THEN undo ELSE [undo EXCEPT !.here = FALSE]
    /\ worker' = IF Idle THEN worker ELSE [worker EXCEPT !.here = FALSE]
    /\ queue' = [i \in DOMAIN queue |-> [queue[i] EXCEPT !.here = FALSE]]

(* load_and_scan: Open Image, or Retry of a selection that was missing.  The *)
(* prefetched images go with the playlist they were read for.                *)
OpenPath ==
    /\ Idle
    /\ scansLeft > 0
    /\ scansLeft' = scansLeft - 1
    /\ \E f \in Files :
        LET retried == browse.missing /\ f = browse.selected
        IN  /\ OnDisk(f) \/ retried
            /\ browse' = [files |-> <<f>>, index |-> 0, selected |-> f,
                          view |-> "loading", missing |-> retried]
            /\ StartScan(IF retried THEN "missing" ELSE "refresh", f)
    /\ RetireScopes
    /\ UNCHANGED <<place, recovery, dirty>>

(* retry_current_image_load of a decode that failed.                         *)
RetryLoad ==
    /\ Idle
    /\ browse.view = "failed"
    /\ ~browse.missing
    /\ browse' = [browse EXCEPT !.view = "loading"]
    /\ UNCHANGED <<place, worker, queue, undo, recovery, scan, dirty, scansLeft>>

OpenFolder ==
    /\ Idle
    /\ scansLeft > 0
    /\ scansLeft' = scansLeft - 1
    /\ StartScan("folder", NoFile)
    /\ UNCHANGED <<place, browse, worker, queue, undo, recovery, dirty>>

(* refresh_folder_membership, from the folder watch or a finished Save As,   *)
(* neither of which acts while curation runs.                                *)
RefreshMembership ==
    /\ Idle
    /\ Presented
    /\ scansLeft > 0
    /\ scansLeft' = scansLeft - 1
    /\ IF scan = NoScan
       THEN /\ StartScan("refresh", browse.selected)
            /\ UNCHANGED dirty
       ELSE /\ dirty' = TRUE
            /\ UNCHANGED scan
    /\ UNCHANGED <<place, browse, worker, queue, undo, recovery>>

(* The scan thread lists the folder, once; or it fails.                      *)
ListFolder ==
    /\ scan # NoScan
    /\ scan.state = "running"
    /\ \/ scan' = [scan EXCEPT !.state = "listed",
                      !.listing = {f \in Files : OnDisk(f)}]
       \/ /\ "refused" \in Faults
          /\ scan' = [scan EXCEPT !.state = "failed"]
    /\ UNCHANGED <<place, browse, worker, queue, undo, recovery, dirty, scansLeft>>

(* Wrong on purpose: a scan may list what is being removed ...               *)
AdmissibleWhileRemoved(f) == f = undo.file => Contains(browse.files, f)

(* ... or what was moved to the Trash and can be restored.                   *)
AdmissibleThoughOffered(f) == f \notin InFlight

(* committed_scan_path_is_admissible, against the state when the listing is  *)
(* applied, which may be long after it was made.                             *)
Admissible(f) ==
    /\ f \notin InFlight
    /\ f = undo.file => Contains(browse.files, f)

(* A listing is in sort order.                                               *)
InFolderOrder(files) ==
    CHOOSE s \in [1..Cardinality(files) -> files] :
        \A i, j \in DOMAIN s : i < j => s[i] < s[j]

(* What the folder scan is looking for among its entries.                    *)
ScanTarget == IF browse.selected # NoFile THEN browse.selected ELSE scan.path

(* adopt_folder_scan_entries with install_scanned_selection, in an open      *)
(* playlist: a selection is only made when there was none.                   *)
Adopt(entries, view) ==
    LET b == Reconcile(browse, entries, ScanTarget)
    IN  IF browse.selected = NoFile THEN Load(b, b.index, view)
        ELSE IF browse.missing /\ Contains(entries, ScanTarget)
        THEN [b EXCEPT !.view = view, !.missing = FALSE]
        ELSE b

(* folder_scan_disposition and the arms of finish_folder_scan.               *)
FinishScan(view) ==
    LET entries   == InFolderOrder({f \in scan.listing : Admissible(f)})
        recovers  == scan.purpose = "missing" \/ browse.missing
        installs  == /\ entries # <<>>
                     /\ \/ scan.purpose = "folder"
                        \/ recovers /\ ~Contains(entries, ScanTarget)
        stale     == scan.purpose = "missing" /\ browse.selected # scan.path
    IN  IF scan.state = "failed" \/ entries = <<>> \/ stale
        THEN UNCHANGED <<browse, worker, queue, undo>>
        ELSE IF installs
        THEN /\ browse' = [files |-> entries, index |-> 0, selected |-> entries[1],
                           view |-> "loading", missing |-> FALSE]
             /\ RetireScopes
        ELSE /\ browse' = Adopt(entries, view)
             /\ UNCHANGED <<worker, queue, undo>>

(* Wrong on purpose: the refresh asked for meanwhile is forgotten ...        *)
PollScanForgetsDirty(view) ==
    /\ scan # NoScan
    /\ scan.state # "running"
    /\ FinishScan(view)
    /\ scan' = NoScan
    /\ dirty' = FALSE
    /\ UNCHANGED <<place, recovery, scansLeft>>

(* ... or a scan whose thread failed is never taken down.                    *)
PollScanThatListed(view) ==
    /\ scan # NoScan
    /\ scan.state = "listed"
    /\ FinishScan(view)
    /\ IF dirty /\ browse'.selected # NoFile
       THEN StartScan("refresh", browse'.selected) ELSE scan' = NoScan
    /\ dirty' = FALSE
    /\ UNCHANGED <<place, recovery, scansLeft>>

(* poll_folder_scan: a refresh asked for meanwhile starts now.               *)
PollFolderScan(view) ==
    /\ scan # NoScan
    /\ scan.state # "running"
    /\ FinishScan(view)
    /\ IF dirty /\ browse'.selected # NoFile
       THEN StartScan("refresh", browse'.selected) ELSE scan' = NoScan
    /\ dirty' = FALSE
    /\ UNCHANGED <<place, recovery, scansLeft>>

-----------------------------------------------------------------------------
Submit(view) ==
    \/ TrashCurrent(view)
    \/ PermanentDeleteCurrent(view)

PollCuration(view) ==
    \/ PollTrashMoved(view)
    \/ PollDeleted(view)
    \/ PollRemovalRefused(view)
    \/ PollRestored
    \/ PollDisconnected(view)

Next ==
    \/ \E view \in Arrivals :
        \/ Submit(view)
        \/ PollCuration(view)
        \/ Navigate(view)
        \/ MissingLoad(view)
        \/ PollFolderScan(view)
    \/ UndoTrash
    \/ PlatformCall
    \/ FinishLoad
    \/ OpenPath
    \/ RetryLoad
    \/ OpenFolder
    \/ RefreshMembership
    \/ ListFolder

(* A started thread ends and wakes the event loop, which polls it.  Nothing  *)
(* obliges the user, or another program, to do anything.                     *)
Fairness ==
    /\ WF_vars(PlatformCall)
    /\ WF_vars(ListFolder)
    /\ WF_vars(\E view \in Arrivals : PollFolderScan(view))
    /\ WF_vars(\E view \in Arrivals : PollCuration(view))

Spec == Init /\ [][Next]_vars /\ Fairness

-----------------------------------------------------------------------------
(* What the engine implements.  The ledger sees files and outcomes, not      *)
(* positions, scopes or loads.                                               *)

Outcome(state) ==
    CASE state = "running" -> "running"
      [] state = "lost" -> "lost"
      [] state \in {"moved", "unreceipted", "deleted", "restored"} -> "moved"
      [] OTHER -> "unmoved"

Listed == ToSet(browse.files)

Queued == [i \in DOMAIN queue |-> queue[i].file]

Operating ==
    IF Idle THEN [kind |-> "none", file |-> NoFile, outcome |-> "running"]
    ELSE [kind |-> worker.kind, file |-> worker.file, outcome |-> Outcome(worker.state)]

OfferIsSure == undo # NoUndo /\ undo.sure

Ledger == INSTANCE RemovalLedger WITH
    listed  <- Listed,
    waiting <- Queued,
    active  <- Operating,
    offered <- undo.file,
    sure    <- OfferIsSure,
    unknown <- recovery

(* Every step of the event loop, of the curation worker and of a folder scan *)
(* is one the ledger allows, or none: the catalog's optimistic removals, its *)
(* reverts and its rescans never lose an accepted request, list one that is  *)
(* still pending, or forget an unknown outcome.                              *)
ImplementsLedger == Ledger!LedgerSpec

-----------------------------------------------------------------------------
(* Safety.                                                                   *)

(* No position names a file twice.  Reverts, restores and rescans all insert *)
(* into a catalog that others changed since they looked at it.               *)
CatalogNamesEachFileOnce ==
    \A i, j \in DOMAIN browse.files : browse.files[i] = browse.files[j] => i = j

(* The selection, which the next Delete will take, is never a file already   *)
(* being removed, and while anything is listed there is one.                 *)
SelectionIsSound ==
    /\ browse.selected \notin InFlight
    /\ browse.files # <<>> => browse.selected # NoFile

(* The position and the selected path name the same entry, though half the   *)
(* handlers set one and half the other.                                      *)
PositionNamesSelection ==
    Contains(browse.files, browse.selected) =>
        browse.index < Len(browse.files) /\ browse.files[browse.index + 1] = browse.selected

(* Canonical order, which the docs promise: "Trash and Undo retain canonical *)
(* positions" (ARCHITECTURE.md).  The catalog lists files in folder order    *)
(* whatever was removed, put back or restored.                               *)
CanonicalOrder ==
    \A i, j \in DOMAIN browse.files : i < j => browse.files[i] < browse.files[j]

-----------------------------------------------------------------------------
(* The inductive strengthening.  A removal's own file, and the file that     *)
(* Undo offers to a playlist that is still open or that is known to be in    *)
(* the Trash, are neither listed nor selected, so whatever ends, putting a   *)
(* file back finds its place free; a restore works on the file offered; and  *)
(* if Open Folder or a recovery has locked the catalog meanwhile, nothing    *)
(* that is listed is selected.                                               *)
Selected(b) ==
    /\ Contains(b.files, b.selected) =>
         b.index < Len(b.files) /\ b.files[b.index + 1] = b.selected
    /\ b.files # <<>> => b.selected # NoFile
    /\ b.selected = NoFile => b.view = "blank"

Distinct(files) == \A i, j \in DOMAIN files : files[i] = files[j] => i = j

Browses ==
    [files : Seq(Files), index : Nat, selected : Files \cup {NoFile}, missing : BOOLEAN,
     view : Arrivals \cup {"failed", "blank"}]

WorkerStates ==
    {"running", "moved", "unreceipted", "deleted", "restored", "refused", "retryable",
     "dropped", "lost"}

CurationTypeOK ==
    /\ browse \in Browses
    /\ worker = NoWorker \/ worker \in [kind : Kinds, file : Files, index : Nat,
                                       here : BOOLEAN, state : WorkerStates]
    /\ queue \in Seq(Removal)
    /\ undo = NoUndo \/ undo \in [file : Files, index : Nat, here : BOOLEAN, sure : BOOLEAN]
    /\ scan = NoScan \/ scan \in [purpose : {"refresh", "folder", "missing"},
                                   path : Files \cup {NoFile}, listing : SUBSET Files,
                                   state : {"running", "listed", "failed"}]
    /\ dirty \in BOOLEAN

OfferStaysAside ==
    undo # NoUndo /\ (undo.here \/ undo.sure) =>
        undo.file \notin Listed \cup InFlight \cup {browse.selected}

RestoreIsOfTheOffer ==
    worker.kind = "Restore" =>
        /\ undo # NoUndo
        /\ worker.file = undo.file
        /\ worker.here = undo.here
        /\ worker.here /\ ExclusiveScan => browse.selected \notin Listed \cup {NoFile}

CurationInv ==
    /\ CurationTypeOK
    /\ Ledger!LedgerInv
    /\ Distinct(browse.files)
    /\ Selected(browse)
    /\ browse.selected \notin InFlight
    /\ OfferStaysAside
    /\ RestoreIsOfTheOffer

-----------------------------------------------------------------------------
(* What a step may not do, and what must happen.                             *)

(* A membership refresh asked for while a scan runs is answered by a listing *)
(* made after it was asked for, never by the one already under way.          *)
RefreshIsNotAnsweredByAnOlderListing ==
    [][dirty /\ ~dirty' => \/ scan'.purpose = "refresh" /\ scan'.state = "running"
                           \/ browse'.selected = NoFile]_vars

(* Open Folder and missing-selection recovery give browsing back.            *)
BrowsingResumes == ExclusiveScan ~> ~ExclusiveScan

(* The curation worker always becomes free again, however many requests wait *)
(* and however the ones before them end.                                     *)
CurationSettles == ~Idle ~> Idle
=============================================================================
