---------------------------- MODULE FileCoherence ----------------------------
(***************************************************************************)
(* What the window does when another program changes the shown file or its *)
(* folder (crates/viewr/src/file_coherence.rs; crates/viewr/src/app.rs,    *)
(* run_coherence_watch to refresh_folder_membership).                      *)
(*                                                                         *)
(* A thread compares the shown file and a stamp of its folder with the     *)
(* disk every 400 ms and puts what differs into a slot of one, merging.    *)
(* The event loop empties the slot and decides: reload, remind, say that   *)
(* the file is gone, list the folder again.  The source half of what the   *)
(* thread reports is a level and sent once; the folder half is an edge.    *)
(*                                                                         *)
(* One image is shown throughout: browsing starts another watch.           *)
(***************************************************************************)
EXTENDS Naturals, FiniteSets

CONSTANT MaxChanges     (* bound of the model: acts of other programs        *)

ASSUME CoherenceAssumption == MaxChanges \in Nat

(* Two names in the shown folder, and a place outside it.                    *)
Folder == {"first", "second"}
Places == Folder \cup {"outside"}

(* A file is its identity and the version of its bytes.                      *)
NoFile == [object |-> 0, version |-> 0]
Files  == [object : 1..(MaxChanges + 2), version : 0..MaxChanges]

NoStamp == MaxChanges + 1
Nothing == [source |-> "none", folder |-> "none"]

VARIABLES
    (* other programs *)
    disk,       (* what each place holds                                     *)
    stamp,      (* the folder's version                                      *)
    changes,    (* how often they acted                                      *)
    (* the session *)
    selected,   (* Session::selected_path, also the presented one            *)
    presented,  (* App::current_source                                       *)
    load,       (* the reload: its step, the path and the file it opened     *)
    failed,     (* Session::load_error                                       *)
    edits,      (* crop or heal pixels that were not saved                   *)
    otherWork,  (* other work of SessionBusy is running                      *)
    reminded,   (* App::external_edit_pending                                *)
    gone,       (* App::source_gone                                          *)
    goneNotice, (* App::pending_gone_notice                                  *)
    (* the folder scan *)
    scan,       (* its step and the listing it made                          *)
    dirty,      (* App::folder_membership_dirty                              *)
    listed,     (* the folder version the catalog was listed at              *)
    (* the watch *)
    watch,      (* the watch thread                                          *)
    slot,       (* CoherenceWatch::latest                                    *)
    (* history, read by properties only *)
    touched,    (* the disk has differed from what is presented              *)
    lost,       (* what was seen of the source nobody will act upon          *)
    missed      (* the folder, as it is now, is owed no listing              *)

others  == <<disk, stamp, changes>>
frame   == <<selected, presented, load, failed, edits>>
notices == <<reminded, gone, goneNotice>>
scans   == <<scan, dirty, listed>>
watches == <<watch, slot>>
history == <<touched, lost, missed>>
coherenceVars == <<others, frame, otherWork, notices, scans, watches, history>>

(* start_coherence_watch: a new thread with a new slot; the old one's slot   *)
(* goes with it.                                                             *)
NewWatch(path, source) ==
    [path |-> path, source |-> source, at |-> "source", seen |-> "none",
     stamp |-> NoStamp, last |-> Nothing]

Idle == [at |-> "none", path |-> "first", file |-> NoFile]

NoScan  == [at |-> "none", listing |-> {}, stamp |-> 0]
Listing == [NoScan EXCEPT !.at = "list"]

CoherenceInit ==
    /\ disk = [p \in Places |-> CASE p = "first"  -> [object |-> 1, version |-> 0]
                                  [] p = "second" -> NoFile
                                  [] OTHER        -> [object |-> 2, version |-> 0]]
    /\ stamp = 0
    /\ changes = 0
    /\ selected = "first"
    /\ presented = disk["first"]
    /\ load = Idle
    /\ failed = FALSE
    /\ edits = FALSE
    /\ otherWork = FALSE
    /\ reminded = FALSE /\ gone = FALSE /\ goneNotice = FALSE
    /\ scan = NoScan
    /\ dirty = FALSE
    /\ listed = 0
    /\ watch = NewWatch("first", presented)
    /\ slot = Nothing
    /\ touched = FALSE
    /\ lost = FALSE
    /\ missed = FALSE

-----------------------------------------------------------------------------
(* Other programs.                                                           *)

Change ==
    /\ changes < MaxChanges
    /\ changes' = changes + 1
    /\ touched' = (touched \/ disk'[selected] # presented)
    /\ missed' = (missed /\ stamp' = stamp)
    /\ UNCHANGED <<frame, otherWork, notices, scans, watches, lost>>

(* A save in place, and a save by rename.                                    *)
OthersEdit ==
    \E p \in Places :
        /\ disk[p] # NoFile
        /\ disk' = [disk EXCEPT ![p].version = changes + 1]
        /\ UNCHANGED stamp
        /\ Change

OthersReplace ==
    \E p \in Folder :
        /\ disk' = [disk EXCEPT ![p] = [object |-> changes + 3, version |-> 0]]
        /\ stamp' = stamp + 1
        /\ Change

OthersMove ==
    \E from, to \in Places :
        /\ from # to
        /\ disk[from] # NoFile
        /\ disk' = [disk EXCEPT ![to] = disk[from], ![from] = NoFile]
        /\ stamp' = stamp + 1
        /\ Change

-----------------------------------------------------------------------------
(* The watch thread.                                                         *)

WatchKeeps == UNCHANGED <<others, frame, otherWork, notices, scans, touched, lost>>

(* matches_path_native, by identity and version.                             *)
Compared ==
    IF disk[watch.path] = watch.source THEN "Unchanged"
    ELSE IF disk[watch.path] = NoFile THEN "Missing" ELSE "Replaced"

WatchSource ==
    /\ watch.at = "source"
    /\ watch' = [watch EXCEPT !.at = "folder", !.seen = Compared]
    /\ UNCHANGED <<slot, missed>>
    /\ WatchKeeps

(* merge_source and merge_folder.                                            *)
Stronger(a, b) ==
    CASE b = "Unchanged"         -> a
      [] a = "Unchanged"         -> b
      [] "Missing" \in {a, b}    -> "Missing"
      [] OTHER                   -> b

Merged(previous, next) ==
    IF previous = Nothing THEN next
    ELSE [source |-> Stronger(previous.source, next.source),
          folder |-> Stronger(previous.folder, next.folder)]

(* The first tick of a watch takes the folder as it finds it, and does not   *)
(* ask for a listing that nobody else has asked for.                         *)
Unseen == stamp # listed /\ scan.at # "list" /\ ~dirty

WatchFolder ==
    LET moved == watch.stamp # NoStamp /\ watch.stamp # stamp
        next  == [source |-> watch.seen,
                  folder |-> IF moved THEN "Changed" ELSE "Unchanged"]
        quiet == next = [source |-> "Unchanged", folder |-> "Unchanged"]
    IN  /\ watch.at = "folder"
        /\ watch' = [watch EXCEPT !.at = "source", !.stamp = stamp, !.last = next]
        /\ slot' = IF quiet \/ next = watch.last THEN slot ELSE Merged(slot, next)
        /\ missed' = \/ missed
                     \/ watch.stamp = NoStamp /\ Unseen
                     \/ moved /\ next = watch.last /\ slot.folder # "Changed" /\ Unseen
        /\ WatchKeeps

-----------------------------------------------------------------------------
(* Loading the file again, and listing the folder again.                     *)

Quiet == load.at = "none" /\ ~otherWork

(* spawn_refreshed_image_load; prepare_for_image_load resets crop and heal.  *)
Reload ==
    /\ load' = [at |-> "open", path |-> selected, file |-> NoFile]
    /\ failed' = FALSE
    /\ edits' = FALSE
    /\ UNCHANGED <<selected, presented>>

(* Wrong on purpose: a change during a listing asks for no second one.       *)
RescanOnce ==
    /\ scan' = IF scan.at = "none" THEN Listing ELSE scan
    /\ UNCHANGED <<dirty, lost, missed>>

(* refresh_folder_membership and start_folder_scan, whose thread may not     *)
(* start: then a file that was to be announced as gone waits for a listing   *)
(* that another change of the folder may bring.                              *)
Rescan ==
    \/ /\ scan.at = "none"
       /\ scan' = Listing
       /\ UNCHANGED <<dirty, lost, missed>>
    \/ /\ scan.at = "none"
       /\ missed' = (missed \/ watch.stamp = stamp)
       /\ lost' = (lost \/ goneNotice')
       /\ UNCHANGED <<scan, dirty>>
    \/ /\ scan.at # "none"
       /\ dirty' = TRUE
       /\ UNCHANGED <<scan, lost, missed>>

(* A load that the selection has left settles without a word.                *)
LoadFails ==
    /\ load' = Idle
    /\ failed' = (load.path = selected)
    /\ UNCHANGED <<selected, presented, edits>>

OpenFile ==
    /\ load.at = "open"
    /\ \/ disk[load.path] = NoFile /\ LoadFails
       \/ /\ disk[load.path] # NoFile
          /\ load' = [load EXCEPT !.at = "decode", !.file = disk[load.path]]
          /\ UNCHANGED <<selected, presented, failed, edits>>
    /\ UNCHANGED <<others, otherWork, notices, scans, watches, history>>

(* The object that was opened still has its version, wherever it is now.     *)
Opened == \A p \in Places : disk[p].object = load.file.object => disk[p] = load.file

(* Wrong on purpose: the slot of the watch before is kept.                   *)
PresentBesideOldSlot ==
    /\ load.at = "decode" /\ load.path = selected
    /\ Opened
    /\ load' = Idle
    /\ presented' = load.file
    /\ reminded' = FALSE /\ gone' = FALSE
    /\ watch' = NewWatch(selected, load.file)
    /\ touched' = (disk[selected] # load.file)
    /\ lost' = FALSE
    /\ missed' = (missed \/ Unseen)
    /\ UNCHANGED <<selected, failed, edits, goneNotice, others, otherWork, scans, slot>>

(* Wrong on purpose: the new watch believes it has sent what the old one did.*)
PresentBesideOldReport ==
    /\ load.at = "decode" /\ load.path = selected
    /\ Opened
    /\ load' = Idle
    /\ presented' = load.file
    /\ reminded' = FALSE /\ gone' = FALSE
    /\ watch' = [NewWatch(selected, load.file) EXCEPT !.last = watch.last]
    /\ slot' = Nothing
    /\ touched' = (disk[selected] # load.file)
    /\ lost' = FALSE
    /\ missed' = (missed \/ Unseen)
    /\ UNCHANGED <<selected, failed, edits, goneNotice, others, otherWork, scans>>

(* finish_image_presentation, kind Loaded.                                   *)
Present ==
    /\ load.at = "decode" /\ load.path = selected
    /\ Opened
    /\ load' = Idle
    /\ presented' = load.file
    /\ reminded' = FALSE /\ gone' = FALSE
    /\ watch' = NewWatch(selected, load.file)
    /\ slot' = Nothing
    /\ touched' = (disk[selected] # load.file)
    /\ lost' = FALSE
    /\ missed' = (missed \/ Unseen)
    /\ UNCHANGED <<selected, failed, edits, goneNotice, others, otherWork, scans>>

(* The decoder refuses it, it changed under the decoder, or it is the file   *)
(* of a path that is no longer selected.                                     *)
DecodeFails ==
    /\ load.at = "decode"
    /\ LoadFails
    /\ UNCHANGED <<others, otherWork, notices, scans, watches, history>>

Entries == {[place |-> p, object |-> disk[p].object] : p \in {q \in Folder : disk[q] # NoFile}}

(* The scan thread.  No entries is also a listing that failed, that met a    *)
(* limit or whose thread died: all four keep the catalog there is.           *)
ListFolder ==
    /\ scan.at = "list"
    /\ \E listing \in {Entries, {}} :
          scan' = [at |-> "listed", stamp |-> stamp, listing |-> listing]
    /\ UNCHANGED <<others, frame, otherWork, notices, dirty, listed, watches, history>>

-----------------------------------------------------------------------------
(* poll_coherence_watch and apply_coherence_action.                          *)

(* decide: what the source alone asks for.                                   *)
SourceAction ==
    CASE slot.source = "Unchanged"          -> "Ignore"
      [] slot.source = "Missing"            -> "CurrentGone"
      [] slot.source = "Replaced" /\ edits  -> "RemindReload"
      [] OTHER                              -> "ReloadCurrent"

IgnoreWhileBusy ==
    /\ ~Quiet
    /\ lost' = (lost \/ slot.source # "Unchanged")
    /\ missed' = (missed \/ (slot.folder = "Changed" /\ watch.stamp = stamp))
    /\ UNCHANGED <<frame, notices, scan, dirty>>

Act ==
    /\ Quiet
    /\ \/ SourceAction = "Ignore" /\ UNCHANGED <<frame, notices>>
       \/ /\ SourceAction = "RemindReload"
          /\ reminded' = TRUE
          /\ UNCHANGED <<frame, gone, goneNotice>>
       \/ SourceAction = "ReloadCurrent" /\ Reload /\ UNCHANGED notices
       \/ /\ SourceAction = "CurrentGone"
          /\ reminded' = FALSE
          /\ IF slot.folder = "Changed"
             THEN goneNotice' = TRUE /\ UNCHANGED gone
             ELSE gone' = TRUE /\ UNCHANGED goneNotice
          /\ UNCHANGED frame
    /\ \/ slot.folder = "Changed" /\ Rescan
       \/ slot.folder # "Changed" /\ UNCHANGED <<scan, dirty, lost, missed>>

PollWatch ==
    /\ slot # Nothing
    /\ slot' = Nothing
    /\ IgnoreWhileBusy \/ Act
    /\ UNCHANGED <<others, otherWork, listed, watch, touched>>

-----------------------------------------------------------------------------
(* poll_folder_scan: the catalog takes a listing with entries, the selection *)
(* follows the shown object to a new name, a gone file is settled, and the   *)
(* folder is listed again if it changed meanwhile.  It asks neither for      *)
(* unsaved edits nor for work that owns the file.                            *)

Found == \E entry \in scan.listing : entry.place = selected

FoundAt(p) == ~Found /\ [place |-> p, object |-> presented.object] \in scan.listing

FollowRename(p) ==
    /\ FoundAt(p)
    /\ selected' = p
    /\ watch' = NewWatch(p, presented)
    /\ slot' = Nothing
    /\ touched' = (touched \/ disk[p] # presented)
    /\ gone' = (gone /\ ~goneNotice)
    /\ UNCHANGED <<presented, load, failed, edits>>

SettleGone ==
    /\ \A p \in Folder : ~FoundAt(p)
    /\ \/ ~goneNotice /\ UNCHANGED <<gone, frame>>
       \/ /\ goneNotice /\ Found
          /\ gone' = FALSE
          /\ IF load.at = "none" THEN Reload ELSE UNCHANGED frame
       \/ goneNotice /\ ~Found /\ gone' = TRUE /\ UNCHANGED frame
    /\ UNCHANGED <<watches, touched>>

(* restart_dirty_folder_membership, whose thread may not start.              *)
Restart ==
    /\ dirty' = FALSE
    /\ scan' \in IF dirty THEN {Listing, NoScan} ELSE {NoScan}
    /\ missed' = /\ listed' # stamp
                 /\ \/ missed
                    \/ scan.stamp = stamp
                    \/ dirty /\ scan' = NoScan /\ watch.stamp = stamp

(* unmatched_sibling_scan_adopts_catalog: an empty listing changes nothing.  *)
FinishScan ==
    /\ scan.at = "listed"
    /\ listed' = IF scan.listing = {} THEN listed ELSE scan.stamp
    /\ goneNotice' = FALSE
    /\ (\E p \in Folder : FollowRename(p)) \/ SettleGone
    /\ Restart
    /\ UNCHANGED <<others, otherWork, reminded, lost>>

-----------------------------------------------------------------------------
(* The user and the other work of the window.                                *)

EditPixels ==
    /\ Quiet
    /\ edits' = ~edits
    /\ UNCHANGED <<selected, presented, load, failed>>
    /\ UNCHANGED <<others, otherWork, notices, scans, watches, history>>

(* F5, reload_current_image.                                                 *)
PressReload ==
    /\ Quiet
    /\ Reload
    /\ UNCHANGED <<others, otherWork, notices, scans, watches, history>>

(* Save As, a crop or heal job, a file operation, the writing of a rating or *)
(* the reading of the folder's.                                              *)
StartWork ==
    /\ Quiet
    /\ otherWork' = TRUE
    /\ UNCHANGED <<others, frame, notices, scans, watches, history>>

FinishWork ==
    /\ otherWork
    /\ otherWork' = FALSE
    /\ UNCHANGED <<others, frame, notices, scans, watches, history>>

-----------------------------------------------------------------------------
Others == OthersEdit \/ OthersReplace \/ OthersMove

WatchTicks == WatchSource \/ WatchFolder

LoadRuns == OpenFile \/ Present \/ DecodeFails

CoherenceNext ==
    \/ Others
    \/ WatchTicks
    \/ LoadRuns
    \/ ListFolder
    \/ PollWatch
    \/ FinishScan
    \/ EditPixels
    \/ PressReload
    \/ StartWork
    \/ FinishWork

(* The threads run, the loop turns when it is woken, and work ends.          *)
CoherenceFairness ==
    /\ WF_coherenceVars(WatchTicks)
    /\ WF_coherenceVars(LoadRuns)
    /\ WF_coherenceVars(ListFolder)
    /\ WF_coherenceVars(PollWatch)
    /\ WF_coherenceVars(FinishScan)
    /\ WF_coherenceVars(FinishWork)

CoherenceSpec == CoherenceInit /\ [][CoherenceNext]_coherenceVars /\ CoherenceFairness

-----------------------------------------------------------------------------
IsCurrent == presented = disk[selected]

(* The user sees the file, or sees that it is not the file.                  *)
Noticed ==
    \/ IsCurrent
    \/ reminded
    \/ failed
    \/ gone

(* A file that was changed is loaded again or its change is announced,       *)
(* unless the observation came while the loop was busy: then it is thrown    *)
(* away, and a level that is sent once does not come again.  The other case  *)
(* left out is a file whose loss waits for a listing that could not start.   *)
ChangeIsNoticed == (~Noticed) ~> (Noticed \/ lost)

(* The catalog catches up with its folder, unless this version of the folder *)
(* is one of which the edge came while the loop was busy, was the same as    *)
(* what the watch had sent last, or came before the first tick of a new      *)
(* watch, or of which the listing could not start, failed or was empty.      *)
FolderIsFollowed == (listed # stamp) ~> (listed = stamp \/ missed)

(* What one watch saw never reloads the picture another load has brought: a  *)
(* silent reload has a reason on disk, and reloads do not feed themselves.   *)
ReloadIsWarranted ==
    [][PollWatch /\ load.at = "none" /\ load'.at = "open" => touched]_coherenceVars

(* The inductive strengthening.  The watch compares the path and the picture *)
(* that are shown now, because both are replaced together with it, and what  *)
(* it saw, or put into the slot, it saw since then.                          *)
Difference   == {"Missing", "Replaced"}
Observations == [source : Difference \cup {"none", "Unchanged"},
                 folder : {"none", "Unchanged", "Changed"}]

WatchTypeOK ==
    /\ stamp \in Nat
    /\ watch \in [path : {selected}, source : {presented}, at : {"source", "folder"},
                  seen : Difference \cup {"none", "Unchanged"}, stamp : Nat,
                  last : Observations]
    /\ watch.at = "folder" => watch.seen # "none"
    /\ slot \in Observations
    /\ slot.source = "none" => slot = Nothing
    /\ touched \in BOOLEAN

WatchInv ==
    /\ WatchTypeOK
    /\ disk[selected] # presented => touched
    /\ watch.seen \in Difference => touched
    /\ slot.source \in Difference => touched
=============================================================================
