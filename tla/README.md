# A TLA+ model of viewr

viewr is an image viewer for culling folders of photographs. One event loop,
`App` in `crates/viewr/src/app.rs`, owns all state; everything slow runs on
one-shot background threads that hand one result back and wake the loop. The
interesting failures are therefore not data races on shared variables but
results that arrive late: a folder listing older than the deletion it is
applied after, an index captured in a catalog that has changed, a close that
comes while several operations are accepted, a wake-up sent before there is
anything to find, a rating read before the write that changed it, a file
replaced by another program between two calls, a repair of a picture that is no
longer shown. This directory models that coordination, checks it with TLC on
small instances and proves what matters most with TLAPS for every size.

## 1. The system

| Component | State it keeps | Operations | Talks to |
|---|---|---|---|
| Curation engine (`app.rs`, `curate.rs`, `curation_state.rs`) | `curation_worker`, `pending_trash` (FIFO, 256), `last_trashed` with its playlist scope, `curation_recovery` | Delete, Shift+Delete, U; settle, abandon, reconcile after a lost thread | platform Trash, catalog, close policy |
| Catalog and scans (`playlist.rs`, `entry_state.rs`, `fs.rs`) | `playlist.files`, `playlist.index`, `folder_scan_job`, `folder_membership_dirty`, scope | open, refresh, Open Folder, recover a missing selection, reconcile, insert, remove | curation (admission of listed paths), foreground load |
| Selection and foreground load (`session.rs`, `presentation.rs`) | selected, presented, generation, receiver, error, missing | load, retry, missing file, present | decode executor, catalog |
| Close policy (`save_state.rs`, `curation_state.rs`, `rating_state.rs`) | three `close_after_*` flags, recovery flags, `window_loss_result` | request close, lose the window, settle each of the three writers | all file writers |
| One-shot jobs (`job.rs`) | result slot, `CompletionWake` state, owners in bounded schedules | schedule, install, arm, complete, drop, reject | decode executor, event loop |
| Decode executor (`decode.rs`) | replace-latest queues, background queue, permits | replace, take, close, acquire | jobs, isolated worker |
| Prefetch and thumbnails (`prefetch.rs`, `thumbs.rs`) | owners, generation, terminal failures, LRU | request, poll, reset, allow, evict | one-shot jobs |
| Save As (`edit.rs`, `save_state.rs`) | captured destination, staging file | capture, confirm, read metadata, stage, install | file system |
| Rating write (`ratings.rs`, `rating_state.rs`) | staged copy, backup, displaced file, recovery flag | accept, stage, replace, verify, roll back, reconcile | file system, catalog, prefetch |
| Ratings and filter (`playlist.rs`) | a rating per entry, the filter, the outside-filter image | discover, filter, step, adopt a write | rating write, load, scans |
| File coherence (`file_coherence.rs`) | watch thread, latest observation | observe, decide, reload, rescan, remind | load, scans |
| Isolated worker (`sandbox.rs`, `viewr-decode`, `viewr-protocol`) | idle pool, request, killer | exchange, time out, cancel, return to pool | decode executor |
| Edits (`heal.rs`, `crop.rs`, `crop_state.rs`, `edit_state.rs`) | patch history, alternate source, stroke, crop and what it gives back | heal, refresh source, undo, redo, crop | presentation, load, coherence, sequence |
| Animations and pages (`animated.rs`, `pages.rs`) | the sequence, its frame | advance, step, pause | presentation, edits |

The rest (rendering, interface text, input routing, command line, codecs,
colour, seccomp set-up, the performance probe, `vendor/`, `scripts/`,
`packaging/`, `fuzz/`) keeps no protocol of its own; `PROJECT.json` lists each
part with the reason it is left out.

**What makes each part correct.** *Curation:* a removal is optimistic, so an
accepted file must leave the catalog at once, be settled exactly once, and come
back if it was not moved; what Undo offers must be restorable; a lost thread
must stop later removals. *Catalog:* each file at most once, in folder order,
the position and the selection naming the same entry, whatever listing is
applied when. *Close:* nothing accepted is cut off, no failure is hidden, no
deferred close fires for somebody else's work, a process without a window
ends. *Jobs:* each accepted job wakes the loop once, when there is something to
find, and always gives its slot back. *Executor, prefetch, Save As, rating
write, coherence, worker:* nothing superseded is published, nobody waits for
good, no original is lost at any interruption, no process is shared or leaked.
*Ratings:* what was read before a write does not outlive it. *Edits:* what a
thread brings meets the picture it was made from, Undo is exact, edited pixels
never pass for the file's, and a crop that fails gives back what it took. `PROJECT.json` lists the hazards
behind these with the line at which each bites.

## 2. The modules

| Module | Models | Composes |
|---|---|---|
| `RemovalLedger` | what curation promises: which files are listed, pending, offered by Undo, unknown | |
| `Curation` | curation engine, catalog, selection and folder scans over one folder | implements `RemovalLedger` (`Ledger == INSTANCE RemovalLedger WITH ...`, proved) |
| `DeferredClose` | admission and settlement of the three writers, close, window loss, exit status | |
| `CompletionWake` | `try_schedule_one_shot` and `CompletionWake` with the loop and the executor | |
| `SafeReplace` | what replacing a file promises: target, phase, answer | |
| `FileStore` | one directory: names, file objects, other programs, a crash | |
| `RatingWrite`, `SaveAs` | `write_rating` and Save As, call by call, both builds | extend `FileStore` |
| `FileTransactions` | one of the two beside other programs | composes them; implements `SafeReplace` |
| `DecodeGate` | the decode permits with two priorities | |
| `DecodeExecutor` | the replace-latest queue, the background channel, the selected image's load | extends `DecodeGate` |
| `WorkerRequests` | requests to isolated decode processes, the pool, their ids and pipes | |
| `FileCoherence` | the watch on the shown file and its folder and what it leads to | |
| `RatedFolder` | ratings, filter, navigation, rating write, discovery, details, prefetch | |
| `PatchHistory` | the bounded undo history of Spot Heal, as operators | |
| `PixelEdits` | Spot Heal, crop, Undo and frames among loads, reloads and renames | extends `PatchHistory` |
| `MC...` | constants for TLC | extend the above |
| `...Proofs` | theorems | extend the module of that name; `EventLoopProofs` extends `DeferredClose`, `CompletionWake` and `FileCoherence` |

An operator whose comment begins "Wrong on purpose" is a plausible bug kept
beside the definition it corrupts; `PROJECT.json` says which property must
catch it. Nothing else refers to these operators.

### Curation

| Variable | In the code |
|---|---|
| `place` | the file system and the platform Trash |
| `browse.files`, `.index` | `playlist.files`, `playlist.index` |
| `browse.selected`, `.missing` | `session.selected_path`, `session.selected_missing` |
| `browse.view` | `blank`: nothing selected; `loading`: a foreground load is pending; `shown`: `presented_path` is the selection; `failed`: the load ended with an error |
| `worker` | `curation_worker`: the context, and in `state` what the thread has published |
| `queue` | `pending_trash` |
| `undo` | `last_trashed` (never more than one record), its scope (`here`) and whether a lost restore made it uncertain (`sure`, for the ledger only: no guard of the model reads it) |
| `recovery` | `curation_recovery` |
| `scan`, `dirty` | `folder_scan_job` with what its thread has listed, `folder_membership_dirty` |
| `scansLeft` | bound of the model on opens and refreshes |

Files are numbered in sort order, so canonical order is increasing order.
`PlaylistScope` identity is compared with the active playlist only, so a record
carries a flag (`here`) that `RetireScopes` clears when a playlist is
installed. A handler that starts a load may find the image prefetched: the
parameter `view` (`shown` or `loading`) is that choice. A platform call, a
listing and a load are steps of their own, since the loop goes on meanwhile;
each reads the disk when it happens and is applied when the loop polls.

`PollTrashMoved` includes the start of the next waiting request, or the return
of all of them if its thread cannot start, as `poll_curation_result` does both
in one call. `PlatformPanic` loses the thread before or after its effect.
`PermanentDeleteCurrent` is the confirmed dialog.

Not in this module: the rating filter (the session shows all), collage mode,
renames by other programs, a second folder, re-sorting, the mismatched
completion of `poll_curation_result`, which no spawn site can produce. With one
folder, `revert_submitted_removal`'s missing scope check cannot bite; it is
listed as a hazard.

### RemovalLedger

The engine without positions, scopes, loads and scans: a set of listed files,
what is accepted, what Undo offers, what is unknown. `Relist` is any scan, open
or lost file, limited to what the code's admission lets in (`Listable`): nothing
pending, and not a file Undo offers unless it is already listed. `Curation`
implements it under the mapping near the end of `Curation.tla`: every step maps
to a ledger step or a stutter, which the run `curation` checks on three files
and `CurationImplementsLedger` proves for any folder.

### DeferredClose

A turn of the loop is `events`, then `about_to_wait`: `PollRating`,
`PollCuration`, `PollSave`, `EndTurn`, in the code's order. Workers end at any
point of a turn. `due` says that an event was sent that no turn has taken, a
worker's wake-up among them; a rating thread that died (`"died"`, against
`"lost"` for a recovery that failed and was reported) sends none. The other
variables are the flags of `App`; `closeAfter` is the set
of raised `close_after_*` flags and `unsettled` that of recovery flags. `owed`
is a history variable: the pieces of work accepted when the window was lost and
not yet done, against which the exit status is judged. A failed rating write
that is known not to have replaced the file does not cancel a deferred close,
as in `rating_close_disposition`. The branches for a save and a curation
worker active together are modelled as written although the writers exclude
each other; the theorem `WritersExcludeEachOther` shows they never run.

The module takes winit to deliver no further window event once `exit()` was
called (`BeginTurn` and the events have `~exiting`); that is a property of the
library, not of this code.

### CompletionWake

`at` is the loop's program counter through `try_schedule_one_shot`; `task` is
the executor's through the closure. Each `compare_exchange` is a step, and so
are the publication of the result, the installation of the owner and the call,
so every interleaving of the two threads around them is checked. Every request
has a wake of its own; asking again for the same path is another request. The
background executor is shared with other users, so it may accept or refuse any
request; an accepted one is run or, when the last thread is gone, dropped. Work
catches its own panics in both users of the function, and neither ever drops an
owner that is installed.

### FileStore, RatingWrite, SaveAs, FileTransactions

| Variable | In the code |
|---|---|
| `names` | what the target's name and the names the transaction makes up (`work`, `backup`, `displaced`) hold; `photo` is the open image of a Save As, or another link of a rating write's target |
| `content` | the bytes of each file object: whole, edited by somebody, not written yet |
| `operation`, `platform` | `write_rating` or Save As; `#[cfg(unix)]` or `#[cfg(windows)]` |
| `at` | the call that comes next |
| `phase`, `verdict` | what has been done to the target, what was returned |
| `held` | what the thread remembers of the disk: the accepted snapshot or metadata, the captured destination |
| `parentHeld` | the directory is the one captured |
| `seen`, `taken`, `meddling` | history and bound: the target was not touched since viewr looked; objects others removed; how often they acted |

A file is an object, a name points to one: replacing, editing in place, hard
links, substitution of a name and moving the directory are different acts of
other programs, and the code tells them apart by object identity and by
contents, as the model does. Every system call is a step; a call may fail where
the code handles its failure; `Crash` may come between any two. The event loop
lets one writer run at a time (`DeferredClose`, `OneFileOperation`), so a
behaviour holds one transaction. `SafeReplace` is the abstract replacement;
`Safe!ReplaceSpec` is the refinement, under the mapping at the end of
`FileTransactions.tla`. The instant between the last check and the call that
replaces stays open to others on both systems: `SparesWhatItSaw` excuses a file
that came in exactly there (`seen`), and the one call that does not look at
all, the Unix roll-back (section 5).

### DecodeGate and DecodeExecutor

`permit`, `active` and `waiting_foreground` are the gate; `generation`,
`receiver` and `shows` the session; `offer`, `closed` the replace-latest queue
with its mutex held for one step and `notifying` for the moment between unlock
and `notify_one`; `queued` the background channel; `doing` and `job` each
thread's program counter and load. `channel` is the state of the one result
channel the session still listens to: the ends of others are heard by nobody.
A job may unwind at any of its steps; the guard that closes the queue with its
last thread is `Leave`. A condition variable may wake for no reason. The
auxiliary and presentation queues are further instances of the same code.

### WorkerRequests

A request is two threads: the decode thread (`stage`), which waits for the
answer, the deadline or to be superseded, and the request thread (`exchange`),
which writes and reads the pipes. `process` says for each process id what lives
under it, whose it is, what it works on and what is unread in its pipe; an id
is given away again once its process is reaped. The clock is not counted: a
deadline may pass at any moment, and so may the grace period after a kill.

### FileCoherence

`disk` and `stamp` are the places of the folder and its version; `watch` is the
thread with what it compares against and what it last sent; `slot` is
`CoherenceWatch::latest`. `Present` installs a picture and, with it, a new
watch. `otherWork` stands for everything in `SessionBusy` but the load and the
models' own scan: it begins and ends. `listed` is the version of the folder the
catalog was taken from. A listing may fail, meet a limit or lose its thread, and
then does what an empty one does: the catalog stays as it was, for the code
adopts only a listing with entries (`FinishScan`); the thread of a first or of a
second listing may also not start (`Rescan`, `Restart`). Nothing is tried again.

`touched`, `lost` and `missed` are history variables. `lost`: what was seen of
the source met a busy loop, or it was gone and the listing that was to settle
this could not start. `missed`: nobody owes the folder, as it is now, a listing,
because its change met a busy loop, was equal to what had been sent last, or
came before the first tick of a new watch, or because its listing could not
start, failed or was empty.

### RatedFolder

Files are numbered in catalog order; the last one arrives later. A version
counts the writes of a file; a write toggles which side of the threshold the
file is on, so two classes of ratings are enough to tell old from new. Every
reader (foreground load, speculative decode, scan of ratings, details) takes
the version when it reads and hands it over when the loop polls, so each result
can be older than a write that settled. `PollWrite` is the settlement with its
three outcomes: written, known not to be written, lost. `doubted` is a history
variable: files whose last write was lost and that nobody has looked at since.

### PatchHistory and PixelEdits

| Variable | In the code |
|---|---|
| `session` | `selected_path`, `presented_path`, `receiver` (`reading`), `load_error` (`failed`), `generation` |
| `image` | `current_image` (its identity and its pixels), whether it exceeds the GPU's texture (`large`), `current_image_reuse` (`pristine`), `unsaved_crop` |
| `sequence` | `auxiliary_job` (`due`), `animation`, `pages` |
| `tool` | `heal.active`, `heal.painting`, `transform.is_cropping`, `transform.crop_start` |
| `worker`, `refresh`, `history` | the fields of `HealTool` |
| `crop`, `preview` | `crop_job`, `preview_job`, each with the `CropRecovery` it carries |
| `lost` | `crop_recovery_unsettled`, `preview_recovery_unsettled`, `preview_load_retry_blocked` |
| `begun`, `told` | bound; history: the pictures before each edit, where the edits start, the strokes begun by then |

A picture is a row of pixels, and a pixel is 0 as the file has it or names the
stroke and the source that painted it: enough to tell whose edit is where, and
whether Undo gave back what was there. `Patched` and `InverseOf` are
`apply_patch`; `Pushed` is `push_bounded`, oldest out first. What a thread
brings is chosen when the loop polls it, since until then an ended thread and a
working one look alike. A picture taken from the cache is a load that ends at
once. Three ways of losing edits to a reload are kept apart: F5, a replaced
file, and a file that was gone and is there again. A `Clipboard` copy that
holds the picture makes an edit fail as the renderer does; both are the first
branch of `PollHeal`, and nothing at all for Undo and Redo.

## 3. The runs

| Run | Bounds | Shows |
|---|---|---|
| `curation` | 3 files, 1 waiting, 1 scan or open, all faults | `CatalogNamesEachFileOnce`, `SelectionIsSound`, `PositionNamesSelection`, `ImplementsLedger` |
| `rescans` | 2 files, 1 waiting, 3 scans, all faults but a thread that cannot start | `RefreshIsNotAnsweredByAnOlderListing`, `BrowsingResumes`, `CurationSettles` |
| `curation_order` | 4 files, nothing waiting, no scans, refusals and failed starts | `CanonicalOrder` |
| `removal_ledger` | 3 files (symmetric), 2 waiting | `NothingPendingIsListed`, `OfferIsRecoverable` |
| `deferred_close` | 2 waiting | `OneFileOperation`, `NoWorkIsCutOff`, `NoStrandedClose`, `CleanExitMeansDone`, `FailureKeepsWindowOpen`, `WindowLossEnds` |
| `completion_wake` | 3 requests, 2 slots | `WakeFindsItsResult`, `SlotIsReleased` |
| `file_transactions` | one transaction of either kind, either build, 2 acts of others | `PictureIsKept`, `ExportIsClean`, `ReturnsWhatHappened`, `SparesWhatItSaw` |
| `decode_executor` | 2 foreground and 2 background threads, limit 2, queue 1, 3 selections | `SleeperHasAWaker`, `OfferHasATaker`, `OnlyTheNewestIsReported`, `LoadSettles` |
| `worker_requests` | 3 requests, 2 at a time, 2 ids, 1 idle process | `PixelsAreOwn`, `EveryProcessHasOneOwner`, `RequestReturns` |
| `file_coherence` | 2 acts of others | `ChangeIsNoticed`, `FolderIsFollowed`, `ReloadIsWarranted` |
| `rated_folder` | 2 files, 2 writes | `RatingsAreTrue`, `DecodesAreTrue`, `WrittenFileIsLeftAlone`, `OnlyTheSelectedIsShown`, `FilterIsDecided` |
| `pixel_edits` | 2 files (symmetric) of 2 pixels, a history of 2 pixels, 2 loads, 3 strokes, 3 pictures | `UndoIsExact`, `EditedPixelsAreNotReused`, `CropIsAppliedOrGivenBack` |

**Why the bounds are enough.** Curation runs one operation at a time; a request
can meet one that runs, one that waits before or after it, one listing and one
Undo record. Three files with one waiting give all of these at once and leave
one to select. The FIFO's bound is 256 in the code; only "full" and "not full"
are told apart. Two slots and three requests give a slot that must be freed
before it is used again. `MaxScans` bounds user opens and refreshes, not the
scans the engine starts on its own for a missing selection or a dirty refresh.
`MaxMeddling`: an attack on a check needs one act before it or after it, and
two give a replacement that is itself replaced; the proofs hold for any number.
There are as many foreground threads as permits, as in the code, and two
background threads with a queue of one give a thread that runs, one that waits
at the gate and a refused job; three selections give a displaced load, a superseded one and the newest.
Three requests over two ids give a reused process, a reused id and a request
that meets either. Two acts of other programs give a change during a reload and
a file that goes and returns; two writes give a write after a settled one, and
two files a neighbour to step to, to prefetch and to arrive late. Two strokes of
one pixel fill the history, the third evicts the first, and one over both
pixels clears the room of both; two loads give an old picture whose repair, crop
or preview ends under a new one. `pixel_edits` was also run once with three
loads and four pictures, without a change.

`Faults` selects what can go wrong: `refused` (the platform or a changed source
says no), `lost` (a thread dies), `spawn` (a thread cannot start), `decode`.
`curation_order` leaves out `lost`, after which the catalog deliberately lists
a file whose place is unknown, and scans, whose two effects on the order are
findings. `rescans` leaves out `spawn`: `start_folder_scan` gives up the scan
it replaces before it knows that the new thread starts, so a refresh noted as
dirty may stay unanswered until the next scan (a listed hazard). The theorem
`RefreshGetsItsOwnListing` has the same hypothesis, and no other.

**Deadlock** is checked in `removal_ledger` and `completion_wake`. In the other
runs the system may really stop: a user is idle for good, a process ends, a
transaction has returned, all requests are answered, other programs leave the
folder alone, the bounds on loads and strokes are used up.

**Fairness.** `Curation`: a started platform call and a started listing end,
and the loop, which they wake, polls them. A platform call that hangs would
break this; the code has no time-out for it either. Nothing obliges a load to
end or a user to act. `DeferredClose`: the three workers end, the loop's
polls go on once a turn has begun, and a turn begins when an event is waiting.
The curation thread and Save As wake the loop however they end
(`app.rs` 839-864, the drop of `OneShotJob`); the rating thread does so only
when `write_rating` returns (3066-3069), so one that dies brings no turn
(`RatingEnds`), and `WindowLossEnds` leaves that end out. `CompletionWake`: threads run,
a begun turn ends, and a turn begins when an event is waiting, not otherwise:
without a wake-up the loop may sleep for good, which is what
`SlotIsReleased` is about. `DecodeExecutor`: threads run, one that waits for a
permit takes one it is woken for, and the loop polls while it shows the spinner
of a pending load. Neither decodes nor users are obliged to be kind: a decode
may unwind, the next selection may come at any time. `WorkerRequests`: the
threads of viewr run and its clock advances; a worker process is obliged to
nothing, neither to answer nor to die when it is killed. `FileCoherence`: the
watch ticks, loads, listings and other work end, and the loop polls.
`RatedFolder`: reads and writes end and the loop polls them. Strong fairness
for `PollDiscovery`, since each `about_to_wait` polls the write and then the
scan of ratings (`app.rs` 9701-9702): a scan that ended while a write was
under way is polled in the turn in which the write settles. A thread of either
kind that unwinds wakes nobody (3066-3069, 3255-3280); while there is a window,
as always in this module, the loop turns again with the next input or when a
toast ends, and finds the channel closed. That such a turn comes is assumed. `PixelEdits` states
no fairness: what it promises is about steps, whether a thread ever ends or not.

## 4. The proofs

TLAPS checks these for every value of the constants, from the constants'
assumptions only (`MaxPending` is a natural number, `NoFile` is no file,
`NoRequest` no request, thread sets are finite and apart, limits are positive,
a folder another file arrives in has one already). Three theorems have further
hypotheses, given where they are described: `RefreshGetsItsOwnListing`,
`OrderIsKept` and `PositionsStayCanonical`.

*RemovalLedgerProofs.* `LedgerInv` is inductive. The two user-visible
invariants in it are not inductive alone. That Undo's file is in the Trash
needs `MovedIsMoved`: the offer is made by the poll, after the platform has
moved the file, so the move's outcome and the file's place must agree in
between. That it stays there needs `RestoreServesTheOffer`: the running restore
works on the offered file, which leaves the Trash before the poll withdraws the
offer. `NobodyWaitsForNothing` gives that an abandoned queue is the only way a
waiting request ends without having started. From the invariant follow
`PendingIsNeverListed`, `UndoIsAlwaysPossible`, and for each step
`EveryRequestIsAnswered` and `UnknownStaysUnknown`.

*CurationProofs.* `CurationInv` is inductive and has the ledger's invariant for
its largest part: an action is shown to be a ledger step or none (`Steps`), and
`RemovalLedgerProofs` then gives what is pending, offered and unknown after it,
so nothing is proved twice. The rest is what the ledger does not see. A catalog
names a file once (`Distinct`) although neither `insert_path` nor `reconcile`
looks for a duplicate: what is put back must be unlisted, hence
`SelectionIsSound` (a pending file is not selected, or putting it back would give
the selection a position that the index does not have) and
`OfferStaysAside` (nor is the file Undo offers, as long as its playlist is open
or it is known to be in the Trash; after a lost restore only the former holds).
`RestoreIsOfTheOffer` ties the running restore to the record it was cloned from,
and says that when the search for a missing selection locks the catalog
meanwhile, what is selected is not listed. `Selected` ties index and path, which half the handlers
set each. There is one lemma for each action; the return of a whole FIFO
(`RevertAll`) is a recursive function, and what it keeps is shown by induction
over its length (`RevertAllFacts`). From the invariant and the refinement follow
`NoAcceptedRemovalIsLost` and `UndoOffersWhatItHas` for the engine itself.

The canonical order of positions is not kept by the engine at large (section 5,
1 and 2). `OrderIsKept` says when it is: as long as nothing waits in the FIFO,
no scan is under way and no thread is lost, for any folder, any refusals and
failed starts, and whatever the user selects, opens, deletes and restores
meanwhile. `OrderInv` is what makes this inductive: each record that may put a
file back knows where it belongs in the catalog as it is now. While a removal
runs, the catalog lacks its file, so the offer's index is that of a longer
catalog; `Beside` says that it is right again once the file is put back, or once
`rebase_trashed_file_indices_after_current_removals` has counted it out. The
hypotheses are about the behaviour (`[]Undisturbed`), not about the constants;
`PositionsStayCanonical` derives them for the constants of the run
`curation_order`, any number of files.

*EventLoopProofs, close.* `CloseInv` adds to the checked invariants that moves
wait only behind a running one (`WaitsBehindTrash`), so a free worker leaves
nothing waiting when the process exits, and that what is owed to a vanished
window is never less than what is still accepted, and exactly that while the
status is clean (`OwedIsCounted`). The exclusion of the writers, the exit, the
flags and the exit status each follow; `FailureNeverCloses` is an action
property proved from the same invariant, poll by poll.

*EventLoopProofs, wake.* `WakeInv` says, for each request, where the wake state
and the callback are by where the two threads are with it. Until `arm` has run,
the wake is pending exactly as long as the worker has not signaled; afterwards
it is armed exactly until one side claims the call. A step touches one request;
the others keep their part of the invariant.

*EventLoopProofs, watch.* `WatchInv` says that the watch thread, what it last
sent and the waiting observation are about the picture on screen: `Present`
replaces all three with it. `SilentReloadIsWarranted` follows, because an
observation that says "replaced" was made by comparing the disk with this
picture and no other.

*FileTransactionsProofs.* `TransactionInv` has a part for each question a call
asks: which calls a transaction can be at (`CallInv`) and what it has done to
the target by then (`PhaseInv`), which object each name may hold (`NamesInv`),
what has been written (`BytesInv`), what is owed to the original (`KeptInv`)
and to whoever touched the target (`SeenInv`), and what the metadata of an
export is worth (`CleanInv`). None of the checked properties is inductive: that
the original is kept rests on what each earlier check established and other
programs have not undone, which `KeptInv` says call by call. `ReplacementIsSafe`
proves the refinement: one lemma per kind of step shows it to be an abstract
install, set-apart, restore, answer, change by others, or nothing.

*DecodeExecutorProofs.* `GateInv` says that the two counters are cardinalities
of sets of threads; `SleeperHasAWaker` needs it because a thread that finds no
permit has counted, not looked. `QueueInv` relates the queue to its threads: it
is closed exactly when the last one is gone, and a load in it has a thread that
will come. `ReportInv` follows the session's channel. The executor uses the
gate only through its own steps (`OnlyGateSteps`), so the gate's invariant is
proved once. `BackgroundYields` is an action property of the priority.

*PixelEditsProofs.* `EditsInv` is inductive. That pixels which stand for a file
are the file's (`FilesStayPristine`) is not: a loaded picture is shown without a
look at the edits. `LoadInv` is why it may be: beginning a load ends every edit,
and while it runs none can begin and none begun before is applied. That a crop
is applied or given back (`NoCropIsLost`) needs `CropInv`, that it has the
picture to itself, and `KeptInv`, that the preview of a cut picture is for the
selection the crop was made of: `poll_preview_result` compares the one,
`crop_recovery_is_current` the other. `InverseTakesBack` is the step Undo rests
on: what `apply_patch` returns takes the patch back, for every picture and patch.
`UndoAndRedoAreExact` adds them up over the whole history, for any budget of
patches. `TraceInv` is inductive: `EditsOf` says that the undo patches, applied
newest first, walk back through the pictures there were, and the redo patches
forward (`Walks`); eviction cuts the far end of the walk off and nothing else,
which is an induction over the bytes still kept. Two parts are about other
threads. A refreshed source may only be applied over the stretch of the newest
patch (`CoversNewest`), or the walk would lead somewhere else; and a frame of a
sequence, which replaces the picture without a look at the history, only follows
an unedited one (`SequenceInv`), also when a crop that failed gives the sequence
back (`CutInv`).

*RatedFolderProofs.* The checked invariants say what holds when no write is on
its way. They are not inductive: while a file is written, what the window holds
of it is old, and has to be known to be only that file's. `FolderInv` says so:
every version and every rating on its way is the file's own, except of a file
whose write happened and is not settled (`Changed`). A write keeps this because
nobody else reads that file: it was on screen when the write began, so its
speculative job has nothing to hand over (`JobsInv`; `PrefetchSchedule::allow`
silenced it), no load is of it (`LoadInv`), and what the scan read of it is only
used for a rating nobody knew (`ReadInv`). Settling then touches what was held
of this file and nothing else (`PollWriteFine`). That only the selected file
comes on screen (`OnlyTheSelectedComes`) follows from `PlaceInv`, since details
are read exactly of what was just presented.

*WorkerRequestsProofs.* `WorkerInv` says, for each stage of a request and its
thread, what its process works on and what its pipe holds; that an idle process
has nothing to say is where the reuse of processes and of ids would go wrong.
`PixelsAreAlwaysOwn` and `ProcessesAreAlwaysOwned` follow from it.

Two of these inductions are over data, and the library's induction theorems
take an operator, which the provers cannot instantiate. Both are done over a set
of naturals instead: the numbers for which the statement fails are a set, a set
of naturals that is not empty has a least member (`Smallest`, from
`WellFoundedInduction`), and the statement for its predecessor refutes it
(`SetInduction`). This works for recursive functions; `RECURSIVE` operators stay
out of reach, and the modules with proofs have none.

Only model-checked: every liveness property
(`BrowsingResumes`, `CurationSettles`, `WindowLossEnds`, `SlotIsReleased`,
`LoadSettles`, `RequestReturns`, `ChangeIsNoticed`, `FolderIsFollowed`,
`FilterIsDecided`), which is out of the prover's reach here, as is `ENABLED`.

## 5. Where the code and its documents disagree

These were met while modelling; the models do what the code does, and state
what does hold instead.

1. `docs/ARCHITECTURE.md` line 463: "Trash and Undo retain canonical
   positions". When a move is refused, everything waiting behind it returns
   oldest first, at indices each taken in a catalog from which the earlier ones
   were missing. Delete 1 and 2 of 1, 2, 3, first move refused: 2, 1, 3.
2. The same line: the Undo record keeps an index from before a membership
   refresh, which keeps the playlist's scope. Open 2, delete it before its
   siblings are listed, let the scan add 1, Undo: 2, 1.
3. A listing made before a move and applied after it settled without a receipt
   lists the trashed file again, although lines 66-68 of that document say that
   the scan drops paths accepted for Trash. With a receipt the admission holds
   in every interleaving, unless a later Delete has taken the one Undo record
   over. The first three end with the next completed scan of the folder.
4. The Unix roll-back of a rating write renames the backup over the target and
   looks at neither; `ratings.rs` line 180 calls the result "the exact original
   was restored". The Windows restore looks at both.
5. A load whose source changed while it was decoded ends without a message, so
   the loop reports that the decoder stopped unexpectedly, although nothing
   stopped (`app.rs` 7100 and 7132-7142).
6. After a rating write whose recovery failed the file is marked unreadable
   (`docs/RATINGS.md` 98-99), but a details job that is under way overwrites the
   mark with the rating it read before (`app.rs` 2788).
7. An observation that meets a busy window is dropped, and the watch does not
   send an equal one again: a replacement then goes unnoticed, although edits
   are idle. `ChangeIsNoticed` and `FolderIsFollowed` name the case (`lost`,
   `missed`).
8. CHANGELOG.md lines 634-635 and `docs/ROADMAP.md` line 643 say that unsaved
   edits block a silent reload, and `decide` asks for them. A program that saves
   by removing the file and writing it again is seen twice: gone, then back. The
   second, in `settle_pending_gone_notice`, reloads without asking, and whatever
   was cropped or healed is lost (`ReloadReturned`, `SettleGone`).
9. `decide` itself takes an empty undo history for no edits, but the history is
   bounded: a heal whose patch was evicted is in the picture, cannot be undone,
   and does not block the reload (`app.rs` 3713-3721).
10. `current_work.rs` line 229 says that Spot Heal needs a settled source even
    when a last good frame remains. Entering the mode asks for one, a stroke does
    not, and the mode outlives a load that fails (`BeginStroke`).
11. A rename that is followed during a crop makes its result and its recovery
    stale, although file and picture are the same (`app.rs` 1866, 7824), so
    nothing is applied nor given back. `CropIsAppliedOrGivenBack` speaks of crops
    whose file keeps its name.
12. A rename followed while the renamed selection is still being read gives the
    picture on screen, another file's, the new name; the decode arrives under the
    old one and is dropped (`app.rs` 1870, 7148; `FollowRename`, `LoadArrives`).
13. A rating thread that unwinds sends no wake-up (`app.rs` 3066-3069). Without
    a window the loop waits (9715) with the worker still set, so the panic does
    not become the fixed recovery result of `docs/ARCHITECTURE.md` 669-671, and
    the process stays until some other event comes. Only builds that unwind can
    show it: the release profile aborts. `WindowLossEnds` leaves the case out.
14. A refresh whose listing fails or meets a limit says "Browsing only this
    file" (`entry_state.rs` 356-361) and keeps the whole old catalog
    (`app.rs` 2178-2195); an empty listing keeps it too, without a word. The
    catalog then differs from its folder until the folder changes again.

Two remarks: lines 780-781 and 416-418 of `docs/ARCHITECTURE.md` speak of a
listing of the Trash before and after the move, `curate.rs` lists it only
afterwards; and `revert_submitted_removal` is the one consumer of a removal
context that does not compare its scope.

## 6. Not modelled, and the plan

`DecodeExecutor` leaves out the auxiliary and presentation queues, and the
progressive preview. `WorkerRequests` leaves out the frames' encoding and the
start-up hand-shake. `FileCoherence` takes the directory stamp for a version,
and has no symbolic links and no network. `RatedFolder` leaves out the
disclosure dialog, removals and renames, thumbnails, prefetch failures and
their terminal set, cache limits and the collage. `PixelEdits` leaves out what a
repair paints and a crop's geometry, rotation and flips, which frame a sequence
is at and its deadlines, and the three file writers, which bar edits while they
run. `Curation` has one folder and
no filter.

Out of reach or without a property of this kind: pixel algorithms and
floating-point geometry (`heal.rs`, `crop.rs`, `view.rs`), codecs and colour,
rendering, interface text and input (`ui.rs`, `locale.rs`, `gpu.rs`, more than
half of the program's lines), command line and preferences, seccomp filters,
the performance probe.

What comes next, in this order: `RatedFolder` with removals, so that a rename of indices meets a write;
thumbnails and prefetch over `CompletionWake`; the full projection of
`playlist.rs` against a reference definition.
