----------------------------- MODULE RatedFolder -----------------------------
(***************************************************************************)
(* Browsing a folder through a rating filter while ratings are read and    *)
(* written (crates/viewr/src/playlist.rs, rating_state.rs, prefetch.rs and *)
(* the handlers of crates/viewr/src/app.rs between start_auxiliary_load    *)
(* and poll_prefetch).                                                     *)
(*                                                                         *)
(* Ratings arrive from three sides: the scan of the whole folder, the      *)
(* details of the shown picture, and the writes of the user.  Decodes      *)
(* arrive from two: the foreground load and the speculative decodes of the *)
(* neighbours.  Every one of them may have read the file before a write    *)
(* that has settled since.                                                 *)
(*                                                                         *)
(* Removals, renames and replacements are in Curation and FileCoherence,   *)
(* the steps of one write in RatingWrite; here a write is one change.      *)
(***************************************************************************)
EXTENDS Naturals, FiniteSets, FiniteSetsExt

CONSTANTS
    NumFiles,       (* files in catalog order; the last arrives later        *)
    MaxWrites       (* bound of the model: writes of the user                 *)

ASSUME FolderAssumption == NumFiles \in Nat \ {0, 1} /\ MaxWrites \in Nat

Files  == 1..NumFiles
NoPath == 0
Unread == MaxWrites + 1     (* a version nobody has read                     *)

(* A write toggles the side of the filter's threshold a file is on.          *)
RatingOf(f, version) == IF (f + version) % 2 = 0 THEN "rated" ELSE "unrated"

VARIABLES
    disk,           (* how often each file was written                       *)
    (* playlist *)
    files, ratings, filter, index,
    outside,        (* Playlist::outside_filter                              *)
    (* session *)
    selected, presented,
    load,           (* the foreground decode                                 *)
    failed,         (* Session::load_error                                   *)
    (* the picture *)
    source,         (* the version App::current_source was accepted at       *)
    reusable,       (* App::current_image_reuse                              *)
    shownRating,    (* App::presented_rating                                 *)
    writable,       (* App::current_rating_capability is WritableJpeg        *)
    unsettled,      (* App::rating_recovery_unsettled                        *)
    (* workers *)
    details,        (* App::auxiliary_job                                    *)
    discovery,      (* App::rating_scan_worker                               *)
    write,          (* App::rating_write_worker                              *)
    (* decoded neighbours *)
    cache,          (* App::prefetch, the version of each                    *)
    jobs,           (* PrefetchSchedule::active, of this generation          *)
    (* history, read by properties only *)
    doubted         (* files whose last write was lost and not looked at since *)

playlist == <<files, ratings, filter, index, outside>>
session  == <<selected, presented, load, failed>>
picture  == <<source, reusable, shownRating, writable, unsettled, details>>
decodes  == <<cache, jobs>>
vars     == <<disk, playlist, session, picture, discovery, write, decodes, doubted>>

NoLoad      == [at |-> "none", path |-> NoPath, version |-> Unread]
NoDetails   == [at |-> "none", rating |-> "Loading"]
NoDiscovery == [running |-> FALSE, read |-> [f \in Files |-> "Loading"], of |-> {}]
NoWrite     == [at |-> "none", path |-> NoPath, result |-> "none"]
NoJob       == [at |-> "none", version |-> Unread]

(* rebuild_visible.                                                          *)
VisibleIn(fs, rs, flt) == {f \in fs : flt = "All" \/ rs[f] = "rated"}
Visible == VisibleIn(files, ratings, filter)

OutsideIn(rs, flt, f) == flt # "All" /\ rs[f] # "rated"

Init ==
    /\ disk = [f \in Files |-> 0]
    /\ files = Files \ {NumFiles}
    /\ ratings = [f \in Files |-> "Loading"]
    /\ filter = "All" /\ index = 1 /\ outside = FALSE
    /\ selected = 1 /\ presented = NoPath /\ failed = FALSE
    /\ load = [at |-> "open", path |-> 1, version |-> Unread]
    /\ source = Unread /\ reusable = FALSE /\ shownRating = "Loading"
    /\ writable = FALSE /\ unsettled = FALSE
    /\ details = NoDetails /\ discovery = NoDiscovery /\ write = NoWrite
    /\ cache = [f \in Files |-> Unread]
    /\ jobs = [f \in Files |-> NoJob]
    /\ doubted = {}

-----------------------------------------------------------------------------
(* Speculative decodes.                                                      *)

(* A job runs, is cancelled, is overtaken by the foreground, or is done.      *)
(* What an overtaken job brings is dropped.                                  *)

(* PrefetchSchedule::allow.                                                  *)
Allowed(js, f) ==
    CASE js[f].at \in {"run", "cancelled"} -> [js EXCEPT ![f].at = "overtaken"]
      [] js[f].at = "done"                 -> [js EXCEPT ![f].version = Unread]
      [] OTHER                             -> js

(* visible_neighbor_paths without the file being written; in a folder this   *)
(* small every visible neighbour is within the window.                       *)
Candidates ==
    VisibleIn(files', ratings', filter') \ {index', write'.path}

(* kick_prefetch, last in a handler, from what the handler has left: `js`    *)
(* are its jobs.  Jobs that are no candidates are cancelled.                 *)
Kick(js) ==
    jobs' =
        IF load'.at # "none" THEN js
        ELSE [f \in Files |->
                CASE js[f].at = "run" /\ f \notin Candidates \cup {selected'} ->
                       [js[f] EXCEPT !.at = "cancelled"]
                  [] js[f].at = "none" /\ f \in Candidates /\ cache'[f] = Unread ->
                       [NoJob EXCEPT !.at = "run"]
                  [] OTHER -> js[f]]

(* A cancelled job may finish all the same if it was about to.               *)
JobRuns ==
    \E f \in Files :
        /\ \/ /\ jobs[f].at \in {"run", "cancelled"}
              /\ jobs' = [jobs EXCEPT ![f] = [at |-> "done", version |-> disk[f]]]
           \/ /\ jobs[f].at \in {"cancelled", "overtaken"}
              /\ jobs' = [jobs EXCEPT ![f].at = "done"]
        /\ UNCHANGED <<disk, doubted, playlist, session, picture, discovery, write, cache>>

-----------------------------------------------------------------------------
(* Presenting a picture.                                                     *)

(* display_loaded_image and finish_image_presentation; the details follow.   *)
(* `shown` is the rating on screen: it stays with its picture.               *)
Present(f, version, shown) ==
    /\ presented' = f
    /\ source' = version
    /\ reusable' = TRUE
    /\ shownRating' = IF presented = f THEN shown ELSE ratings'[f]
    /\ writable' = FALSE
    /\ unsettled' = FALSE
    /\ details' = [at |-> "read", rating |-> "Loading"]
    /\ load' = NoLoad
    /\ failed' = FALSE

(* spawn_image_load: the cached picture, or a decode.                        *)
ShowOrLoad(f, shown) ==
    \/ cache[f] # Unread /\ Present(f, cache[f], shown)
    \/ /\ cache[f] = Unread
       /\ load' = [at |-> "open", path |-> f, version |-> Unread]
       /\ failed' = FALSE
       /\ writable' = FALSE
       /\ details' = NoDetails
       /\ shownRating' = shown
       /\ UNCHANGED <<presented, source, reusable, unsettled>>

KeepPicture(shown) ==
    /\ shownRating' = shown
    /\ UNCHANGED <<session, source, reusable, writable, unsettled, details, cache>>

DecodeSelected ==
    /\ load.at = "open"
    /\ \/ load' = [load EXCEPT !.at = "done", !.version = disk[load.path]]
       \/ load' = [load EXCEPT !.at = "done"]       (* it cannot be decoded *)
    /\ UNCHANGED <<disk, doubted, playlist, selected, presented, failed, picture,
                   discovery, write, decodes>>

(* poll_foreground_image_load.                                               *)
PollLoad ==
    /\ load.at = "done"
    /\ UNCHANGED <<disk, doubted, playlist, selected, discovery, write, cache>>
    /\ \/ /\ load.version # Unread
          /\ Present(load.path, load.version, shownRating)
          /\ Kick(Allowed(jobs, load.path))
       \/ /\ load.version = Unread
          /\ load' = NoLoad
          /\ failed' = TRUE
          /\ UNCHANGED <<presented, picture, jobs>>

(* Wrong on purpose: a decode is shown to whoever waits.                     *)
PollPrefetchAnyWaiter ==
    \E f \in Files :
        LET usable == jobs[f].version # Unread
            wanted == load.at # "none" \/ failed
        IN  /\ jobs[f].at = "done"
            /\ UNCHANGED <<disk, doubted, playlist, discovery, write, selected>>
            /\ \/ usable /\ wanted /\ Present(f, jobs[f].version, shownRating) /\ UNCHANGED cache
               \/ ~(usable /\ wanted) /\ KeepPicture(shownRating)
            /\ Kick([jobs EXCEPT ![f] = NoJob])

(* poll_prefetch: the selected file's decode is shown if the selection waits *)
(* for it; a job the foreground has overtaken tells nothing.                 *)
PollPrefetch ==
    \E f \in Files :
        LET usable == jobs[f].version # Unread
            wanted == selected = f /\ (load.at # "none" \/ failed)
        IN  /\ jobs[f].at = "done"
            /\ UNCHANGED <<disk, doubted, playlist, discovery, write, selected>>
            /\ \/ /\ usable /\ wanted
                  /\ Present(f, jobs[f].version, shownRating)
                  /\ UNCHANGED cache
               \/ /\ usable /\ selected # f /\ f \in files
                  /\ cache' = [cache EXCEPT ![f] = jobs[f].version]
                  /\ UNCHANGED <<session, picture>>
               \/ /\ ~usable \/ (selected = f /\ ~wanted)
                  /\ KeepPicture(shownRating)
            /\ Kick([jobs EXCEPT ![f] = NoJob])

-----------------------------------------------------------------------------
(* Going to another file.                                                    *)

Distance(f) == IF f > index THEN f - index ELSE index - f

(* navigation_image_plan: the outgoing picture is kept as a neighbour, unless *)
(* it is too large for the cache.                                            *)
MayRetain(f) ==
    presented = index /\ reusable /\ source # Unread /\ Distance(f) <= 2

(* go_to_index_ready.                                                        *)
GoReady(f, shown) ==
    /\ index' = f
    /\ selected' = f
    /\ outside' = OutsideIn(ratings', filter', f)
    /\ \/ /\ presented = f /\ reusable
          /\ cache' = [cache EXCEPT ![f] = Unread]
          /\ details' = [at |-> "read", rating |-> "Loading"]
          /\ shownRating' = shown
          /\ load' = NoLoad
          /\ failed' = FALSE
          /\ UNCHANGED <<presented, source, reusable, writable, unsettled>>
          /\ Kick(Allowed(jobs, f))
       \/ /\ ~(presented = f /\ reusable)
          /\ \E retained \in {FALSE, MayRetain(f)} :
                 /\ cache' = [g \in Files |->
                                CASE g = f                     -> Unread
                                  [] g = presented /\ retained -> source
                                  [] OTHER                     -> cache[g]]
                 /\ ShowOrLoad(f, shown)
                 /\ Kick(Allowed(IF retained THEN Allowed(jobs, presented) ELSE jobs, f))

(* Wrong on purpose: a write does not stop browsing.                         *)
BrowsableAlways(f) == TRUE

(* block_browse_while_busy: the file being written is not decoded.           *)
Browsable(f) == write.path # f

(* navigate, and every jump to a listed file.                                *)
Browse ==
    \E f \in Visible \ {index} :
        /\ Browsable(f)
        /\ UNCHANGED <<disk, doubted, files, ratings, filter, discovery, write>>
        /\ GoReady(f, shownRating)

-----------------------------------------------------------------------------
(* The filter.                                                               *)

(* Playlist::set_filter: the next match, else the last one before.           *)
NextMatch(f, visible) ==
    /\ f \in visible
    /\ \/ f > index /\ \A g \in visible : g > index => f <= g
       \/ f < index /\ \A g \in visible : g <= f

ShowNothing ==
    /\ selected' = NoPath /\ presented' = NoPath
    /\ load' = NoLoad /\ failed' = FALSE
    /\ source' = Unread /\ reusable' = FALSE
    /\ shownRating' = "Loading" /\ writable' = FALSE
    /\ details' = NoDetails
    /\ cache' = [f \in Files |-> Unread]
    /\ UNCHANGED unsettled

(* apply_filter_selection; other work of the window may refuse to browse.    *)
ApplySelection(shown) ==
    LET visible == VisibleIn(files', ratings', filter')
    IN  \/ /\ visible = {}
           /\ outside' = FALSE /\ UNCHANGED index
           /\ ShowNothing
           /\ Kick([f \in Files |-> NoJob])
        \/ /\ index \in visible
           /\ outside' = FALSE /\ UNCHANGED index
           /\ \/ presented # NoPath /\ KeepPicture(shown) /\ Kick(jobs)
              \/ /\ presented = NoPath
                 /\ selected' = index
                 /\ cache' = [cache EXCEPT ![index] = Unread]
                 /\ ShowOrLoad(index, shown)
                 /\ Kick(Allowed(jobs, index))
        \/ /\ visible # {} /\ index \notin visible
           /\ \/ \E f \in visible : NextMatch(f, visible) /\ GoReady(f, shown)
              \/ outside' = FALSE /\ UNCHANGED index /\ KeepPicture(shown) /\ Kick(jobs)

HasLoading(rs) == \E f \in files' : rs[f] = "Loading"

StartDiscovery ==
    discovery' = [running |-> TRUE, of |-> files', read |-> [f \in Files |-> "Loading"]]

(* set_rating_filter, to All.                                                *)
ShowAll ==
    /\ load.at = "none" /\ write.at = "none"
    /\ filter' = "All"
    /\ discovery' = NoDiscovery
    /\ UNCHANGED <<disk, doubted, files, ratings, write>>
    /\ ApplySelection(shownRating)

(* set_rating_filter, to a threshold.                                        *)
SetFilter ==
    /\ load.at = "none" /\ write.at = "none"
    /\ UNCHANGED <<disk, doubted, files, ratings, write>>
    /\ \/ /\ ~HasLoading(ratings)
          /\ filter' = "rated"
          /\ discovery' = NoDiscovery
          /\ ApplySelection(shownRating)
       \/ /\ HasLoading(ratings)
          /\ \/ discovery.running /\ filter' = "rated" /\ UNCHANGED discovery
             \/ ~discovery.running /\ filter' = "rated" /\ StartDiscovery
             \/ ~discovery.running /\ filter' = "All" /\ UNCHANGED discovery
          /\ outside' = FALSE
          /\ UNCHANGED <<index, session, picture, decodes>>

(* navigate with no match: all are shown, or the picture outside the filter  *)
(* is dismissed.                                                             *)
BrowseNowhere ==
    /\ Visible = {}
    /\ UNCHANGED <<disk, doubted, files, ratings, discovery, write>>
    /\ \/ /\ ~outside /\ ~discovery.running
          /\ load.at = "none" /\ write.at = "none"
          /\ filter' = "All"
          /\ ApplySelection(shownRating)
       \/ /\ outside
          /\ UNCHANGED filter
          /\ ApplySelection(shownRating)

-----------------------------------------------------------------------------
(* Reading the folder's ratings.                                             *)

ReadRating ==
    \E f \in discovery.of :
        /\ discovery.read[f] = "Loading"
        /\ discovery' = [discovery EXCEPT !.read[f] = RatingOf(f, disk[f])]
        /\ UNCHANGED <<disk, doubted, playlist, session, picture, write, decodes>>

DiscoveryRead == discovery.running /\ \A f \in discovery.of : discovery.read[f] # "Loading"

(* Wrong on purpose: what the scan read replaces what is known.              *)
FilledOver ==
    [f \in Files |-> IF f \in discovery.of THEN discovery.read[f] ELSE ratings[f]]

(* set_discovered_ratings.                                                   *)
Filled ==
    [f \in Files |-> IF f \in files /\ f \in discovery.of /\ ratings[f] = "Loading"
                     THEN discovery.read[f] ELSE ratings[f]]

(* poll_rating_discovery.                                                    *)
PollDiscovery ==
    /\ write.at = "none"
    /\ DiscoveryRead
    /\ discovery' = NoDiscovery
    /\ ratings' = Filled
    /\ UNCHANGED <<disk, doubted, files, filter, write>>
    /\ ApplySelection(IF presented \in files THEN ratings'[presented] ELSE shownRating)

(* The scan thread is lost: all are shown, the selection stays.              *)
LoseDiscovery ==
    /\ write.at = "none"
    /\ discovery.running
    /\ discovery' = NoDiscovery
    /\ filter' = "All"
    /\ outside' = FALSE
    /\ UNCHANGED <<disk, doubted, files, ratings, index, session, picture, write, decodes>>

(* reconcile: whether the shown file is now outside the filter.              *)
KeepFilter ==
    /\ UNCHANGED filter
    /\ outside' = (VisibleIn(files', ratings, filter) # {} /\
                   index \notin VisibleIn(files', ratings, filter))

(* restart_rating_discovery: all are shown if its thread does not start.     *)
RestartDiscovery ==
    \/ StartDiscovery /\ KeepFilter
    \/ discovery' = NoDiscovery /\ filter' = "All" /\ outside' = FALSE

(* Wrong on purpose: a running scan is taken to cover the new file.          *)
ArriveUnderScan ==
    /\ NumFiles \notin files /\ selected # NoPath
    /\ files' = Files
    /\ IF discovery.running THEN UNCHANGED discovery /\ KeepFilter ELSE RestartDiscovery
    /\ UNCHANGED <<disk, doubted, ratings, index, session, picture, write, cache>>
    /\ Kick(jobs)

(* A folder scan finds a new file: reconcile and                             *)
(* apply_playlist_membership_refresh.                                        *)
Arrive ==
    /\ NumFiles \notin files /\ selected # NoPath
    /\ files' = Files
    /\ RestartDiscovery
    /\ UNCHANGED <<disk, doubted, ratings, index, session, picture, write, cache>>
    /\ Kick(jobs)

-----------------------------------------------------------------------------
(* The details of the shown picture.                                         *)

(* The accepted source no longer matches: unreadable.                        *)
ReadDetails ==
    /\ details.at = "read"
    /\ details' = [at |-> "done", rating |-> IF source = disk[presented]
                                             THEN RatingOf(presented, source)
                                             ELSE "Unreadable"]
    /\ UNCHANGED <<disk, doubted, playlist, session, source, reusable, shownRating, writable,
                   unsettled, discovery, write, decodes>>

(* Playlist::set_rating.                                                     *)
SetRating(f, rating) ==
    /\ ratings' = IF f \in files THEN [ratings EXCEPT ![f] = rating] ELSE ratings
    /\ outside' = (f = index /\ OutsideIn(ratings', filter, f))
    /\ UNCHANGED <<files, filter, index>>

(* poll_auxiliary_load; a lost worker leaves the rating unreadable.          *)
PollDetails ==
    /\ details.at # "none"
    /\ \E rating \in IF details.at = "done" THEN {details.rating} ELSE {"Unreadable"} :
           /\ SetRating(presented, rating)
           /\ shownRating' = rating
           /\ writable' = (rating # "Unreadable")
    /\ details' = NoDetails
    /\ doubted' = IF ratings'[presented] \in {"Unreadable", RatingOf(presented, disk[presented])}
                  THEN doubted \ {presented} ELSE doubted
    /\ UNCHANGED <<disk, session, source, reusable, unsettled, discovery, write, decodes>>

-----------------------------------------------------------------------------
(* Writing a rating.                                                         *)

(* Bound of the model: how often files may have been written.                *)
MayWrite == MapThenSumSet(LAMBDA f : disk[f], Files) < MaxWrites

(* request_rating_assignment and start_rating_write.                         *)
Rate ==
    /\ write.at = "none" /\ load.at = "none"
    /\ ~unsettled /\ writable
    /\ presented # NoPath /\ selected = presented
    /\ MayWrite
    /\ RatingOf(presented, disk[presented] + 1) # shownRating
    /\ write' = [at |-> "run", path |-> presented, result |-> "none"]
    /\ UNCHANGED <<disk, doubted, playlist, session, picture, discovery, decodes>>

WriteFile ==
    /\ write.at = "run"
    /\ \E result \in {"ok", "refused", "lost"} :
        /\ write' = [write EXCEPT !.at = "done", !.result = result]
        /\ disk' \in CASE result = "ok"      -> {[disk EXCEPT ![write.path] = @ + 1]}
                       [] result = "refused" -> {disk}
                       [] OTHER -> {disk, [disk EXCEPT ![write.path] = @ + 1]}
    /\ UNCHANGED <<doubted, playlist, session, picture, discovery, decodes>>

Forget(f) == cache' = [cache EXCEPT ![f] = Unread]

(* The write is verified: its source is adopted by the picture it changed.   *)
Adopt(f) ==
    /\ SetRating(f, RatingOf(f, disk[f]))
    /\ Forget(f)
    /\ IF presented = f
       THEN /\ shownRating' = RatingOf(f, disk[f])
            /\ source' = disk[f]
            /\ writable' = TRUE
            /\ details' = IF selected = f THEN [at |-> "read", rating |-> "Loading"]
                          ELSE details
       ELSE UNCHANGED <<shownRating, source, writable, details>>
    /\ UNCHANGED <<reusable, unsettled>>

(* Wrong on purpose: nothing of a lost write but its rating is forgotten.    *)
DistrustRatingOnly(f) ==
    /\ SetRating(f, "Unreadable")
    /\ unsettled' = TRUE
    /\ UNCHANGED <<cache, source, writable, reusable, shownRating, details>>

(* Recovery failed: nobody knows what the file is.                           *)
Distrust(f) ==
    /\ SetRating(f, "Unreadable")
    /\ Forget(f)
    /\ unsettled' = TRUE
    /\ IF presented = f
       THEN source' = Unread /\ writable' = FALSE /\ reusable' = FALSE
            /\ shownRating' = "Unreadable"
       ELSE UNCHANGED <<source, writable, reusable, shownRating>>
    /\ UNCHANGED details

(* poll_rating_write.                                                        *)
PollWrite ==
    /\ write.at = "done"
    /\ write' = NoWrite
    /\ \/ write.result = "ok" /\ Adopt(write.path)
       \/ write.result = "lost" /\ Distrust(write.path)
       \/ /\ write.result = "refused"
          /\ UNCHANGED <<playlist, picture, cache>>
    /\ doubted' = CASE write.result = "ok"   -> doubted \ {write.path}
                    [] write.result = "lost" -> doubted \cup {write.path}
                    [] OTHER                 -> doubted
    /\ UNCHANGED <<disk, session, discovery>>
    /\ Kick(jobs)

-----------------------------------------------------------------------------
Next ==
    \/ JobRuns
    \/ DecodeSelected
    \/ PollLoad
    \/ PollPrefetch
    \/ Browse
    \/ ShowAll
    \/ SetFilter
    \/ BrowseNowhere
    \/ ReadRating
    \/ PollDiscovery
    \/ LoseDiscovery
    \/ Arrive
    \/ ReadDetails
    \/ PollDetails
    \/ Rate
    \/ WriteFile
    \/ PollWrite

(* The threads run and the loop polls what has arrived.  Strong fairness for  *)
(* the folder's ratings: they wait for a write to settle, and about_to_wait   *)
(* polls the write and then the ratings in one turn, so no sequence of writes *)
(* keeps them waiting.                                                       *)
Fairness ==
    /\ WF_vars(ReadRating)
    /\ SF_vars(PollDiscovery)
    /\ WF_vars(WriteFile)
    /\ WF_vars(PollWrite)

Spec == Init /\ [][Next]_vars /\ Fairness

-----------------------------------------------------------------------------
Known == {"Loading", "Unreadable"}

(* No rating read before a write replaces the one the write left, neither in *)
(* the folder's list nor under the picture, whatever scan or details were on *)
(* their way: set_discovered_ratings and poll_rating_write.                  *)
RatingsAreTrue ==
    /\ \A f \in Files :
         \/ ratings[f] \in Known \cup {RatingOf(f, disk[f])}
         \/ write.path = f \/ f \in doubted
    /\ presented # NoPath =>
         \/ shownRating \in Known \cup {RatingOf(presented, disk[presented])}
         \/ write.path = presented \/ presented \in doubted

(* No decode from before a settled write is kept for later or believed to be *)
(* the file: kick_prefetch, PrefetchSchedule::allow and poll_rating_write.   *)
DecodesAreTrue ==
    /\ \A f \in Files : cache[f] \in {Unread, disk[f]} \/ write.path = f
    /\ presented # NoPath =>
         source \in {Unread, disk[presented]} \/ write.path = presented

(* docs/RATINGS.md: no neighbor decode and no navigation reads the file until *)
(* the write settles.                                                        *)
WrittenFileIsLeftAlone ==
    write.at # "none" =>
        /\ load.path # write.path
        /\ jobs[write.path].at # "run"

(* A decode that arrives late is never shown for another file than the       *)
(* selected one: poll_foreground_image_load and prefetch_destination.        *)
OnlyTheSelectedIsShown ==
    [][presented' # presented /\ presented' # NoPath => presented' = selected']_vars

(* A filter over ratings that are not read yet is decided in the end, or     *)
(* taken back: restart_rating_discovery and start_rating_discovery.          *)
FilterIsDecided ==
    (filter = "rated" /\ \E f \in files : ratings[f] = "Loading")
      ~> (filter = "All" \/ \A f \in files : ratings[f] # "Loading")
=============================================================================
