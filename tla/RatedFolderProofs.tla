-------------------------- MODULE RatedFolderProofs --------------------------
(***************************************************************************)
(* What was read before a rating write does not outlive it, for any number *)
(* of files and writes.                                                    *)
(*                                                                         *)
(* A write changes its file while the window goes on browsing, and is      *)
(* settled later.  Between the two, what the window holds of this one file *)
(* may be old (Changed).  All that is read of any file at any other time   *)
(* is what is on disk, because the file being written is not read: it was  *)
(* on screen when the write began, so no speculative decode of it runs     *)
(* (JobsInv), it is not gone to (LoadInv), and the scan of the folder's    *)
(* ratings fills in only what nobody knew (ReadInv).                       *)
(***************************************************************************)
EXTENDS RatedFolder, TLAPS

(* The write of f has happened, or may have, and is not settled.             *)
Changed(f) == write.path = f /\ write.at = "done" /\ write.result \in {"ok", "lost"}

(* What may be held of f: a decode, a rating.                                *)
DecodeFine(f, version) == version \in {Unread, disk[f]} \/ Changed(f)
RatingFine(f, rating)  ==
    rating \in Known \cup {RatingOf(f, disk[f])} \/ Changed(f) \/ f \in doubted

(* The selection is the entry the catalog is at, or nothing.                 *)
PlaceInv ==
    /\ files \subseteq Files /\ index \in files
    /\ selected \in {NoPath, index}
    /\ presented \in files \cup {NoPath}
    /\ details.at # "none" => presented = selected /\ presented # NoPath

WriteInv ==
    /\ write = [at |-> write.at, path |-> write.path, result |-> write.result]
    /\ write # NoWrite => write.at \in {"run", "done"} /\ write.path \in files

(* A load is of the selected file, which is not being written.               *)
LoadInv ==
    /\ load = [at |-> load.at, path |-> load.path, version |-> load.version]
    /\ load # NoLoad =>
         /\ load.at \in {"open", "done"}
         /\ load.path = selected /\ selected # NoPath /\ load.path # write.path
         /\ load.version \in {Unread, disk[load.path]}

(* Jobs among which those of some files have nothing to hand over.           *)
Silent(job) == job.version = Unread /\ job.at \in {"none", "overtaken", "done"}

JobsFine(js, silent) ==
    /\ DOMAIN js = Files
    /\ \A f \in Files :
           /\ js[f] = [at |-> js[f].at, version |-> js[f].version]
           /\ js[f].version \in {Unread, disk[f]}
           /\ js[f].at \in {"none", "run", "cancelled", "overtaken", "done"}
           /\ js[f].at # "done" => js[f].version = Unread
           /\ f \in silent => Silent(js[f])

JobsInv == JobsFine(jobs, {index, write.path})

DecodesInv ==
    /\ DOMAIN disk = Files /\ DOMAIN cache = Files
    /\ \A f \in Files : DecodeFine(f, cache[f])
    /\ presented # NoPath => DecodeFine(presented, source)

RatingsInv ==
    /\ DOMAIN ratings = Files
    /\ \A f \in Files : RatingFine(f, ratings[f])
    /\ presented # NoPath => RatingFine(presented, shownRating)

(* What the scan has read of a file whose rating nobody knows yet.           *)
ReadInv ==
    /\ discovery = [running |-> discovery.running, read |-> discovery.read,
                    of |-> discovery.of]
    /\ DOMAIN discovery.read = Files
    /\ \A f \in Files : ratings[f] = "Loading" =>
           discovery.read[f] \in {"Loading", RatingOf(f, disk[f])} \/ Changed(f)

DetailsInv ==
    /\ details = [at |-> details.at, rating |-> details.rating]
    /\ details.at = "done" =>
         RatingFine(presented, details.rating) /\ details.rating # "Loading"

(* What going to a file and presenting a picture change.                     *)
ViewInv == PlaceInv /\ LoadInv /\ JobsInv /\ DecodesInv /\ RatingsInv /\ DetailsInv

FolderInv == ViewInv /\ WriteInv /\ ReadInv

-----------------------------------------------------------------------------
(* The beginning satisfies the invariant.                                    *)
LEMMA InitFolder == Init => FolderInv
  <1> SUFFICES ASSUME Init PROVE FolderInv
    OBVIOUS
  <1>1. /\ NumFiles \in Nat /\ NumFiles > 1 /\ 1 \in Files /\ 1 # NumFiles /\ NoPath \notin Files
    BY FolderAssumption DEF Files, NoPath
  <1>2. PlaceInv /\ WriteInv
    BY <1>1 DEF Init, PlaceInv, WriteInv, NoDetails, NoWrite
  <1>3. LoadInv /\ JobsInv
    BY <1>1 DEF Init, LoadInv, NoLoad, JobsInv, JobsFine, Silent, NoJob, NoWrite, NoPath
  <1>4. DecodesInv /\ RatingsInv /\ ReadInv /\ DetailsInv
    BY <1>1 DEF Init, DecodesInv, DecodeFine, RatingsInv, RatingFine, Known, ReadInv, DetailsInv,
                NoDetails, NoDiscovery
  <1> QED BY <1>2, <1>3, <1>4 DEF FolderInv, ViewInv

LEMMA NoPathIsNoFile == NoPath \notin Files
  BY FolderAssumption DEF Files, NoPath

-----------------------------------------------------------------------------
(* Jobs.                                                                     *)

(* PrefetchSchedule::allow silences the job of its file.                     *)
LEMMA AllowSilences ==
    ASSUME NEW STATE js, NEW STATE silent, NEW f \in Files, JobsFine(js, silent)
    PROVE  JobsFine(Allowed(js, f), silent \cup {f})
  <1> DEFINE after == Allowed(js, f)
  <1>1. /\ DOMAIN after = Files
        /\ \A g \in Files : g # f => after[g] = js[g]
    BY DEF Allowed, JobsFine
  <1>2. /\ after[f] = [at |-> after[f].at, version |-> after[f].version]
        /\ after[f].version \in {Unread, disk[f]}
        /\ Silent(after[f])
    <2>1. CASE js[f].at \in {"run", "cancelled"}
      BY <2>1 DEF Allowed, JobsFine, Silent
    <2>2. CASE js[f].at = "done"
      BY <2>2 DEF Allowed, JobsFine, Silent
    <2>3. CASE js[f].at \notin {"run", "cancelled", "done"}
      BY <2>3 DEF Allowed, JobsFine, Silent
    <2> QED BY <2>1, <2>2, <2>3
  <1> QED BY <1>1, <1>2 DEF JobsFine, Silent

(* kick_prefetch starts nothing of the current file or of the one written.   *)
LEMMA KickFine ==
    ASSUME NEW STATE js, NEW STATE silent, JobsFine(js, silent), Kick(js), disk' = disk,
           \A f \in Files : f \in {index', write'.path} => f \in silent
    PROVE  JobsInv'
  <1>1. CASE load'.at # "none"
    BY <1>1 DEF Kick, JobsInv, JobsFine
  <1>2. CASE load'.at = "none"
    <2>1. /\ DOMAIN jobs' = Files
          /\ \A f \in Files :
               \/ jobs'[f] = js[f]
               \/ js[f].at = "run" /\ jobs'[f] = [js[f] EXCEPT !.at = "cancelled"]
               \/ f \notin {index', write'.path} /\ jobs'[f] = [at |-> "run", version |-> Unread]
      BY <1>2 DEF Kick, Candidates, NoJob
    <2> QED BY <2>1 DEF JobsInv, JobsFine, Silent
  <1> QED BY <1>1, <1>2

-----------------------------------------------------------------------------
(* The picture.                                                              *)

(* What a handler may have done before it changes the view.                  *)
Calm == UNCHANGED <<disk, doubted, files, write>>
RatingsKept(shown) ==
    /\ DOMAIN ratings' = Files
    /\ \A f \in Files : RatingFine(f, ratings'[f])
    /\ presented # NoPath => RatingFine(presented, shown)

(* display_loaded_image of what is fine to show.                             *)
LEMMA PresentFine ==
    ASSUME FolderInv, NEW STATE f, f \in files, NEW STATE version, NEW ACTION shown,
           Calm, RatingsKept(shown), index' = f, selected' = f,
           DecodeFine(f, version), JobsInv',
           DOMAIN cache' = Files, \A g \in Files : DecodeFine(g, cache'[g]),
           Present(f, version, shown)
    PROVE  ViewInv'
  <1>1. f # NoPath /\ f \in Files
    BY NoPathIsNoFile DEF FolderInv, ViewInv, PlaceInv
  <1>2. PlaceInv' /\ LoadInv'
    BY <1>1 DEF FolderInv, ViewInv, PlaceInv, LoadInv, Calm, Present, NoLoad
  <1>3. DecodesInv' /\ DetailsInv'
    BY DEF FolderInv, ViewInv, DecodesInv, DetailsInv, Calm, Present, DecodeFine, Changed
  <1>4. RatingsInv'
    BY <1>1 DEF RatingsInv, RatingsKept, Calm, Present, RatingFine, Changed
  <1> QED BY <1>2, <1>3, <1>4 DEF ViewInv

(* spawn_image_load of a file that is not being written.                     *)
LEMMA ShowOrLoadFine ==
    ASSUME FolderInv, NEW STATE f, f \in files, f # write.path, NEW ACTION shown,
           Calm, RatingsKept(shown), index' = f, selected' = f, JobsInv',
           DOMAIN cache' = Files, \A g \in Files : DecodeFine(g, cache'[g]),
           ShowOrLoad(f, shown)
    PROVE  ViewInv'
  <1>1. CASE cache[f] # Unread /\ Present(f, cache[f], shown)
    <2>1. DecodeFine(f, cache[f])
      BY DEF FolderInv, ViewInv, DecodesInv, PlaceInv
    <2> QED BY <1>1, <2>1, PresentFine
  <1>2. CASE /\ load' = [at |-> "open", path |-> f, version |-> Unread]
             /\ details' = NoDetails
             /\ shownRating' = shown
             /\ UNCHANGED <<presented, source>>
    <2>1. f # NoPath /\ f \in Files
      BY NoPathIsNoFile DEF FolderInv, ViewInv, PlaceInv
    <2>2. PlaceInv' /\ LoadInv' /\ DetailsInv'
      BY <1>2, <2>1 DEF FolderInv, ViewInv, PlaceInv, LoadInv, DetailsInv, Calm, NoDetails, NoLoad
    <2>3. DecodesInv'
      BY <1>2 DEF FolderInv, ViewInv, DecodesInv, Calm, DecodeFine, Changed
    <2>4. RatingsInv'
      BY <1>2 DEF RatingsInv, RatingsKept, Calm, RatingFine, Changed
    <2> QED BY <2>2, <2>3, <2>4 DEF ViewInv
  <1> QED BY <1>1, <1>2 DEF ShowOrLoad

(* The picture stays while the ratings or the filter changed.                *)
LEMMA KeepPictureFine ==
    ASSUME FolderInv, NEW ACTION shown, Calm, RatingsKept(shown), index' = index, JobsInv',
           KeepPicture(shown)
    PROVE  ViewInv'
  <1>1. PlaceInv' /\ LoadInv' /\ DetailsInv'
    BY DEF FolderInv, ViewInv, PlaceInv, LoadInv, DetailsInv, Calm, KeepPicture, session, NoLoad,
           RatingFine, Changed
  <1>2. DecodesInv'
    BY DEF FolderInv, ViewInv, DecodesInv, Calm, KeepPicture, session, DecodeFine, Changed
  <1>3. RatingsInv'
    BY DEF RatingsInv, RatingsKept, Calm, KeepPicture, session, RatingFine, Changed
  <1> QED BY <1>1, <1>2, <1>3 DEF ViewInv

(* The jobs before kick_prefetch, when `silent` names the files gone to.     *)
LEMMA JobsBefore ==
    ASSUME FolderInv, NEW f \in Files
    PROVE  /\ JobsFine(Allowed(jobs, f), {index, write.path} \cup {f})
           /\ presented \in Files =>
                JobsFine(Allowed(Allowed(jobs, presented), f),
                         {index, write.path} \cup {presented} \cup {f})
  <1>1. JobsFine(jobs, {index, write.path})
    BY DEF FolderInv, ViewInv, JobsInv
  <1>2. JobsFine(Allowed(jobs, f), {index, write.path} \cup {f})
    BY <1>1, AllowSilences
  <1>3. ASSUME presented \in Files
        PROVE  JobsFine(Allowed(Allowed(jobs, presented), f), {index, write.path} \cup {presented} \cup {f})
    <2>1. JobsFine(Allowed(jobs, presented), {index, write.path} \cup {presented})
      BY <1>1, <1>3, AllowSilences
    <2> QED BY <2>1, AllowSilences
  <1> QED BY <1>2, <1>3

(* go_to_index_ready of a file that is not being written.                    *)
LEMMA GoReadyFine ==
    ASSUME FolderInv, NEW f \in files, f # write.path, NEW ACTION shown,
           Calm, RatingsKept(shown), GoReady(f, shown)
    PROVE  ViewInv'
  <1>1. /\ f \in Files /\ index' = f /\ selected' = f /\ disk' = disk /\ write' = write
        /\ f # NoPath
    BY NoPathIsNoFile DEF FolderInv, ViewInv, PlaceInv, GoReady, Calm
  <1>2. DOMAIN cache = Files /\ \A g \in Files : DecodeFine(g, cache[g])
    BY DEF FolderInv, ViewInv, DecodesInv
  <1>3. CASE /\ presented = f /\ reusable
             /\ cache' = [cache EXCEPT ![f] = Unread]
             /\ details' = [at |-> "read", rating |-> "Loading"]
             /\ shownRating' = shown
             /\ load' = NoLoad
             /\ UNCHANGED <<presented, source>>
             /\ Kick(Allowed(jobs, f))
    <2>1. JobsInv'
      <3>1. JobsFine(Allowed(jobs, f), {index, write.path} \cup {f})
        BY <1>1, JobsBefore
      <3>2. \A g \in Files : g \in {index', write'.path} => g \in {index, write.path} \cup {f}
        BY <1>1
      <3> QED BY <1>1, <1>3, <3>1, <3>2, KickFine
    <2>2. PlaceInv' /\ LoadInv' /\ DetailsInv'
      BY <1>1, <1>3 DEF FolderInv, ViewInv, PlaceInv, LoadInv, DetailsInv, Calm, NoLoad
    <2>3. DecodesInv'
      BY <1>1, <1>2, <1>3 DEF FolderInv, ViewInv, DecodesInv, Calm, DecodeFine, Changed
    <2>4. RatingsInv'
      BY <1>1, <1>3 DEF RatingsInv, RatingsKept, Calm, RatingFine, Changed
    <2> QED BY <2>1, <2>2, <2>3, <2>4 DEF ViewInv
  <1>4. CASE /\ \E retained \in {FALSE, MayRetain(f)} :
                 /\ cache' = [g \in Files |->
                                CASE g = f                     -> Unread
                                  [] g = presented /\ retained -> source
                                  [] OTHER                     -> cache[g]]
                 /\ ShowOrLoad(f, shown)
                 /\ Kick(Allowed(IF retained THEN Allowed(jobs, presented) ELSE jobs, f))
    <2>1. PICK retained \in {FALSE, MayRetain(f)} :
                 /\ cache' = [g \in Files |->
                                CASE g = f                     -> Unread
                                  [] g = presented /\ retained -> source
                                  [] OTHER                     -> cache[g]]
                 /\ ShowOrLoad(f, shown)
                 /\ Kick(Allowed(IF retained THEN Allowed(jobs, presented) ELSE jobs, f))
      BY <1>4
    <2>2. retained => presented \in Files /\ presented # NoPath
      BY <2>1, NoPathIsNoFile DEF MayRetain, FolderInv, ViewInv, PlaceInv
    <2>3. JobsInv'
      <3>1. CASE retained
        <4>1. Kick(Allowed(Allowed(jobs, presented), f))
          BY <2>1, <3>1
        <4>2. JobsFine(Allowed(Allowed(jobs, presented), f),
                       {index, write.path} \cup {presented} \cup {f})
          BY <1>1, <2>2, <3>1, JobsBefore
        <4>3. \A g \in Files : g \in {index', write'.path} =>
                 g \in {index, write.path} \cup {presented} \cup {f}
          BY <1>1
        <4> QED BY <1>1, <4>1, <4>2, <4>3, KickFine
      <3>2. CASE ~retained
        <4>1. Kick(Allowed(jobs, f))
          BY <2>1, <3>2
        <4>2. JobsFine(Allowed(jobs, f), {index, write.path} \cup {f})
          BY <1>1, JobsBefore
        <4>3. \A g \in Files : g \in {index', write'.path} => g \in {index, write.path} \cup {f}
          BY <1>1
        <4> QED BY <1>1, <4>1, <4>2, <4>3, KickFine
      <3> QED BY <3>1, <3>2
    <2>4. DOMAIN cache' = Files /\ \A g \in Files : DecodeFine(g, cache'[g])
      <3>1. retained => DecodeFine(presented, source)
        BY <2>2 DEF FolderInv, ViewInv, DecodesInv
      <3>2. \A g \in Files : DecodeFine(g, Unread)
        BY DEF DecodeFine
      <3> QED BY <1>2, <2>1, <3>1, <3>2
    <2> QED BY <1>1, <2>1, <2>3, <2>4, ShowOrLoadFine
  <1> QED BY <1>3, <1>4 DEF GoReady

(* apply_filter_selection while nothing is written, or with nothing to show. *)
LEMMA ApplySelectionFine ==
    ASSUME FolderInv, NEW ACTION shown, Calm, RatingsKept(shown),
           write = NoWrite \/ VisibleIn(files', ratings', filter') = {},
           ApplySelection(shown)
    PROVE  ViewInv'
  <1> DEFINE visible == VisibleIn(files', ratings', filter')
  <1>1. visible \subseteq files
    BY DEF VisibleIn, Calm
  <1>2. /\ index \in files /\ index \in Files /\ disk' = disk /\ write' = write
        /\ NoPath \notin files /\ files \subseteq Files
    BY NoPathIsNoFile DEF FolderInv, ViewInv, PlaceInv, Calm
  <1>3. JobsFine(jobs, {index, write.path})
    BY DEF FolderInv, ViewInv, JobsInv
  <1>4. CASE /\ index' = index /\ ShowNothing /\ Kick([f \in Files |-> NoJob])
    <2>1. JobsFine([f \in Files |-> NoJob], Files)
      BY DEF JobsFine, NoJob, Silent
    <2>2. JobsInv'
      BY <1>2, <1>4, <2>1, KickFine
    <2>3. PlaceInv' /\ LoadInv' /\ DetailsInv'
      BY <1>2, <1>4 DEF PlaceInv, LoadInv, DetailsInv, Calm, ShowNothing, NoLoad, NoDetails
    <2>4. DecodesInv' /\ RatingsInv'
      BY <1>2, <1>4 DEF FolderInv, ViewInv, DecodesInv, RatingsInv, RatingsKept, Calm, ShowNothing,
                        DecodeFine, RatingFine, Changed
    <2> QED BY <2>2, <2>3, <2>4 DEF ViewInv
  <1>5. CASE index' = index /\ KeepPicture(shown) /\ Kick(jobs)
    <2>1. JobsInv'
      BY <1>2, <1>3, <1>5, KickFine
    <2> QED BY <1>5, <2>1, KeepPictureFine
  <1>6. CASE /\ index \in visible /\ index' = index /\ selected' = index
             /\ cache' = [cache EXCEPT ![index] = Unread]
             /\ ShowOrLoad(index, shown)
             /\ Kick(Allowed(jobs, index))
    <2>1. index # write.path
      BY <1>2, <1>6 DEF NoWrite
    <2>2. JobsInv'
      BY <1>2, <1>6, JobsBefore, KickFine
    <2>3. DOMAIN cache' = Files /\ \A g \in Files : DecodeFine(g, cache'[g])
      BY <1>6 DEF FolderInv, ViewInv, DecodesInv, DecodeFine
    <2> QED BY <1>2, <1>6, <2>1, <2>2, <2>3, ShowOrLoadFine
  <1>7. CASE \E f \in visible : GoReady(f, shown)
    <2>1. PICK f \in visible : GoReady(f, shown)
      BY <1>7
    <2>2. f \in files /\ f # write.path
      BY <1>1, <1>2 DEF NoWrite
    <2> QED BY <2>1, <2>2, GoReadyFine
  <1> QED BY <1>4, <1>5, <1>6, <1>7 DEF ApplySelection

-----------------------------------------------------------------------------
(* The steps of a decode, in a thread or in the handler that polls it.        *)
LEMMA JobRunsFine ==
    ASSUME FolderInv, JobRuns
    PROVE  FolderInv'
  <1>1. PICK f \in Files :
          \/ /\ jobs[f].at \in {"run", "cancelled"}
             /\ jobs' = [jobs EXCEPT ![f] = [at |-> "done", version |-> disk[f]]]
          \/ /\ jobs[f].at \in {"cancelled", "overtaken"}
             /\ jobs' = [jobs EXCEPT ![f].at = "done"]
    BY DEF JobRuns
  <1>2. UNCHANGED <<disk, doubted, playlist, session, picture, discovery, write, cache>>
    BY DEF JobRuns
  <1>3. JobsInv'
    BY <1>1, <1>2 DEF FolderInv, ViewInv, JobsInv, JobsFine, Silent, playlist
  <1>4. PlaceInv' /\ LoadInv' /\ DecodesInv' /\ RatingsInv' /\ DetailsInv' /\ WriteInv' /\ ReadInv'
    BY <1>2 DEF FolderInv, ViewInv, PlaceInv, LoadInv, DecodesInv, RatingsInv, DetailsInv, WriteInv,
                ReadInv, playlist, session, picture, NoLoad, NoWrite, DecodeFine, RatingFine, Changed
  <1> QED BY <1>3, <1>4 DEF FolderInv, ViewInv

LEMMA DecodeSelectedFine ==
    ASSUME FolderInv, DecodeSelected
    PROVE  FolderInv'
  <1>1. LoadInv'
    <2>1. /\ load.at = "open" /\ load = [at |-> load.at, path |-> load.path, version |-> load.version]
          /\ load.path = selected /\ selected # NoPath /\ load.path # write.path
          /\ load.version \in {Unread, disk[load.path]}
      BY DEF DecodeSelected, FolderInv, ViewInv, LoadInv, NoLoad
    <2>2. UNCHANGED <<disk, selected, write>>
      BY DEF DecodeSelected
    <2>3. \E version \in {Unread, disk[load.path]} :
             load' = [at |-> "done", path |-> load.path, version |-> version]
      BY <2>1 DEF DecodeSelected
    <2> QED BY <2>1, <2>2, <2>3 DEF LoadInv
  <1>2. PlaceInv' /\ JobsInv' /\ DecodesInv' /\ RatingsInv' /\ DetailsInv' /\ WriteInv' /\ ReadInv'
    BY DEF DecodeSelected, FolderInv, ViewInv, PlaceInv, JobsInv, JobsFine, DecodesInv, RatingsInv,
           DetailsInv, WriteInv, ReadInv, playlist, picture, decodes, NoWrite, Silent, DecodeFine,
           RatingFine, Changed
  <1> QED BY <1>1, <1>2 DEF FolderInv, ViewInv

(* What neither the writer nor the scan of the ratings did.                  *)
LEMMA CalmFine ==
    ASSUME FolderInv, Calm, UNCHANGED <<ratings, discovery>>
    PROVE  WriteInv' /\ ReadInv' /\ \A shown : shown = shownRating => RatingsKept(shown)
  BY DEF FolderInv, ViewInv, Calm, WriteInv, ReadInv, NoWrite, RatingsInv, RatingsKept, Changed

LEMMA PollLoadFine ==
    ASSUME FolderInv, PollLoad
    PROVE  FolderInv'
  <1>1. /\ load.at = "done" /\ Calm /\ UNCHANGED <<ratings, discovery, index, selected, cache>>
        /\ disk' = disk /\ write' = write
    BY DEF PollLoad, Calm, playlist
  <1>2. /\ load.path = selected /\ selected = index /\ selected \in files /\ selected \in Files
        /\ DecodeFine(selected, load.version)
    BY <1>1 DEF FolderInv, ViewInv, PlaceInv, LoadInv, NoLoad, DecodeFine
  <1>3. WriteInv' /\ ReadInv' /\ RatingsKept(shownRating)
    BY <1>1, CalmFine
  <1>4. CASE Present(load.path, load.version, shownRating) /\ Kick(Allowed(jobs, load.path))
    <2>1. JobsFine(Allowed(jobs, selected), {index, write.path} \cup {selected})
      BY <1>2, JobsBefore
    <2>2. \A g \in Files : g \in {index', write'.path} => g \in {index, write.path} \cup {selected}
      BY <1>1
    <2>3. JobsInv'
      BY <1>1, <1>2, <1>4, <2>1, <2>2, KickFine
    <2>4. DOMAIN cache' = Files /\ \A g \in Files : DecodeFine(g, cache'[g])
      BY <1>1 DEF FolderInv, ViewInv, DecodesInv
    <2>5. Present(selected, load.version, shownRating) /\ index' = selected /\ selected' = selected
      BY <1>1, <1>2, <1>4
    <2>6. ViewInv'
      BY <1>1, <1>2, <1>3, <2>3, <2>4, <2>5, PresentFine
    <2> QED BY <1>3, <2>6 DEF FolderInv
  <1>5. CASE load' = NoLoad /\ UNCHANGED <<presented, picture, jobs>>
    <2>1. PlaceInv' /\ LoadInv' /\ DetailsInv'
      BY <1>1, <1>5 DEF FolderInv, ViewInv, PlaceInv, LoadInv, DetailsInv, picture, Calm, NoLoad,
                        RatingFine, Changed
    <2>2. JobsInv' /\ DecodesInv' /\ RatingsInv'
      BY <1>1, <1>5 DEF FolderInv, ViewInv, JobsInv, JobsFine, Silent, DecodesInv, RatingsInv,
                        picture, Calm, DecodeFine, RatingFine, Changed
    <2> QED BY <1>3, <2>1, <2>2 DEF FolderInv, ViewInv
  <1> QED BY <1>4, <1>5 DEF PollLoad

LEMMA PollPrefetchFine ==
    ASSUME FolderInv, PollPrefetch
    PROVE  FolderInv'
  <1>1. PICK f \in Files :
          /\ \/ /\ selected = f
                /\ Present(f, jobs[f].version, shownRating)
                /\ UNCHANGED cache
             \/ /\ cache' = [cache EXCEPT ![f] = jobs[f].version]
                /\ UNCHANGED <<session, picture>>
             \/ KeepPicture(shownRating)
          /\ Kick([jobs EXCEPT ![f] = NoJob])
    BY DEF PollPrefetch
  <1>2. /\ Calm /\ UNCHANGED <<ratings, discovery, index, selected>>
        /\ disk' = disk /\ write' = write
    BY DEF PollPrefetch, Calm, playlist
  <1>3. WriteInv' /\ ReadInv' /\ RatingsKept(shownRating)
    BY <1>2, CalmFine
  <1>4. JobsInv'
    <2>1. JobsFine([jobs EXCEPT ![f] = NoJob], {index, write.path})
      BY DEF FolderInv, ViewInv, JobsInv, JobsFine, Silent, NoJob
    <2>2. \A g \in Files : g \in {index', write'.path} => g \in {index, write.path}
      BY <1>2
    <2> QED BY <1>1, <1>2, <2>1, <2>2, KickFine
  <1>5. DecodeFine(f, jobs[f].version)
    BY DEF FolderInv, ViewInv, JobsInv, JobsFine, DecodeFine
  <1>6. DOMAIN cache = Files /\ \A g \in Files : DecodeFine(g, cache[g])
    BY DEF FolderInv, ViewInv, DecodesInv
  <1>7. CASE selected = f /\ Present(f, jobs[f].version, shownRating) /\ UNCHANGED cache
    <2>1. index = f /\ f \in files
      BY <1>7, NoPathIsNoFile DEF FolderInv, ViewInv, PlaceInv
    <2>2. ViewInv'
      BY <1>2, <1>3, <1>4, <1>5, <1>6, <1>7, <2>1, PresentFine
    <2> QED BY <1>3, <2>2 DEF FolderInv
  <1>8. CASE cache' = [cache EXCEPT ![f] = jobs[f].version] /\ UNCHANGED <<session, picture>>
    <2>1. DecodesInv'
      BY <1>2, <1>5, <1>6, <1>8 DEF FolderInv, ViewInv, DecodesInv, session, picture, Calm,
                                   DecodeFine, Changed
    <2>2. PlaceInv' /\ LoadInv' /\ RatingsInv' /\ DetailsInv'
      BY <1>2, <1>8 DEF FolderInv, ViewInv, PlaceInv, LoadInv, RatingsInv, DetailsInv, session,
                        picture, Calm, NoLoad, RatingFine, Changed
    <2> QED BY <1>3, <1>4, <2>1, <2>2 DEF FolderInv, ViewInv
  <1>9. CASE KeepPicture(shownRating)
    BY <1>2, <1>3, <1>4, <1>9, KeepPictureFine DEF FolderInv
  <1> QED BY <1>1, <1>7, <1>8, <1>9

-----------------------------------------------------------------------------
(* The steps of the filter and of browsing.                                  *)
LEMMA BrowseFine ==
    ASSUME FolderInv, Browse
    PROVE  FolderInv'
  <1>1. Calm /\ UNCHANGED <<ratings, discovery>>
    BY DEF Browse, Calm
  <1>2. WriteInv' /\ ReadInv' /\ RatingsKept(shownRating)
    BY <1>1, CalmFine
  <1>3. PICK f \in files : f # write.path /\ GoReady(f, shownRating)
    BY DEF Browse, Browsable, Visible, VisibleIn
  <1>4. ViewInv'
    BY <1>1, <1>2, <1>3, GoReadyFine
  <1> QED BY <1>2, <1>4 DEF FolderInv

(* A scan that is dropped or starts anew has read nothing.                   *)
LEMMA NothingRead ==
    ASSUME discovery' = NoDiscovery \/ StartDiscovery
    PROVE  ReadInv'
  <1>1. /\ discovery' = [running |-> discovery'.running, read |-> discovery'.read,
                        of |-> discovery'.of]
        /\ discovery'.read = [f \in Files |-> "Loading"]
    BY DEF NoDiscovery, StartDiscovery
  <1> QED BY <1>1 DEF ReadInv

LEMMA ShowAllFine ==
    ASSUME FolderInv, ShowAll
    PROVE  FolderInv'
  <1>1. Calm /\ UNCHANGED ratings /\ discovery' = NoDiscovery
    BY DEF ShowAll, Calm
  <1>2. RatingsKept(shownRating) /\ WriteInv'
    BY <1>1 DEF FolderInv, ViewInv, RatingsInv, RatingsKept, Calm, WriteInv, NoWrite
  <1>3. write = NoWrite
    BY DEF ShowAll, FolderInv, WriteInv
  <1>4. ViewInv'
    BY <1>1, <1>2, <1>3, ApplySelectionFine DEF ShowAll
  <1> QED BY <1>1, <1>2, <1>4, NothingRead DEF FolderInv

LEMMA SetFilterFine ==
    ASSUME FolderInv, SetFilter
    PROVE  FolderInv'
  <1>1. Calm /\ UNCHANGED ratings
    BY DEF SetFilter, Calm
  <1>2. RatingsKept(shownRating) /\ WriteInv'
    BY <1>1 DEF FolderInv, ViewInv, RatingsInv, RatingsKept, Calm, WriteInv, NoWrite
  <1>3. write = NoWrite
    BY DEF SetFilter, FolderInv, WriteInv
  <1>4. CASE discovery' = NoDiscovery /\ ApplySelection(shownRating)
    <2>1. ViewInv'
      BY <1>1, <1>2, <1>3, <1>4, ApplySelectionFine
    <2> QED BY <1>2, <1>4, <2>1, NothingRead DEF FolderInv
  <1>5. CASE /\ UNCHANGED discovery \/ StartDiscovery
             /\ UNCHANGED <<index, session, picture, decodes>>
    <2>1. ReadInv'
      <3>1. CASE UNCHANGED discovery
        BY <1>1, <3>1, CalmFine
      <3>2. CASE StartDiscovery
        BY <3>2, NothingRead
      <3> QED BY <1>5, <3>1, <3>2
    <2>2. ViewInv'
      BY <1>1, <1>5 DEF FolderInv, ViewInv, PlaceInv, LoadInv, JobsInv, JobsFine, DecodesInv,
         RatingsInv, DetailsInv, session, picture, decodes, Calm, NoLoad, Silent, DecodeFine,
         RatingFine, Changed
    <2> QED BY <1>2, <2>1, <2>2 DEF FolderInv
  <1> QED BY <1>4, <1>5 DEF SetFilter

LEMMA BrowseNowhereFine ==
    ASSUME FolderInv, BrowseNowhere
    PROVE  FolderInv'
  <1>1. Calm /\ UNCHANGED <<ratings, discovery>>
    BY DEF BrowseNowhere, Calm
  <1>2. WriteInv' /\ ReadInv' /\ RatingsKept(shownRating)
    BY <1>1, CalmFine
  <1>3. write = NoWrite \/ VisibleIn(files', ratings', filter') = {}
    BY DEF BrowseNowhere, Visible, VisibleIn, FolderInv, WriteInv
  <1>4. ViewInv'
    BY <1>1, <1>2, <1>3, ApplySelectionFine DEF BrowseNowhere
  <1> QED BY <1>2, <1>4 DEF FolderInv

-----------------------------------------------------------------------------
(* The steps of the folder's ratings and of the details.                     *)

(* A picture and a place nothing was done to.                                *)
LEMMA ViewStays ==
    ASSUME FolderInv, Calm, UNCHANGED <<ratings, index, session, picture, decodes>>
    PROVE  ViewInv'
  BY DEF FolderInv, ViewInv, PlaceInv, LoadInv, JobsInv, JobsFine, DecodesInv,
         RatingsInv, DetailsInv, session, picture, decodes, Calm, NoLoad, Silent, DecodeFine,
         RatingFine, Changed

LEMMA ReadRatingFine ==
    ASSUME FolderInv, ReadRating
    PROVE  FolderInv'
  <1>1. Calm /\ UNCHANGED <<ratings, index, session, picture, decodes>>
    BY DEF ReadRating, Calm, playlist
  <1>2. WriteInv'
    BY <1>1 DEF FolderInv, WriteInv, Calm, NoWrite
  <1>3. PICK f : discovery' = [discovery EXCEPT !.read[f] = RatingOf(f, disk[f])]
    BY DEF ReadRating
  <1>4. ReadInv'
    <2>1. /\ discovery' = [running |-> discovery'.running, read |-> discovery'.read,
                           of |-> discovery'.of]
          /\ discovery'.read = [discovery.read EXCEPT ![f] = RatingOf(f, disk[f])]
      BY <1>3 DEF FolderInv, ReadInv
    <2> QED BY <1>1, <2>1 DEF FolderInv, ReadInv, Calm, Changed
  <1> QED BY <1>1, <1>2, <1>4, ViewStays DEF FolderInv

(* What the scan found fills in what nobody knew.                            *)
LEMMA PollDiscoveryFine ==
    ASSUME FolderInv, PollDiscovery
    PROVE  FolderInv'
  <1> DEFINE shown == IF presented \in files THEN ratings'[presented] ELSE shownRating
  <1>1. Calm /\ discovery' = NoDiscovery /\ ratings' = Filled /\ ApplySelection(shown)
    BY DEF PollDiscovery, Calm
  <1>2. write = NoWrite
    BY DEF PollDiscovery, FolderInv, WriteInv
  <1>3. DOMAIN ratings' = Files /\ \A f \in Files : RatingFine(f, ratings'[f])
    <2>1. ASSUME NEW f \in Files PROVE RatingFine(f, ratings'[f])
      <3>1. RatingFine(f, ratings[f]) /\ ~Changed(f)
        BY <1>2, <2>1 DEF FolderInv, ViewInv, RatingsInv, Changed, NoWrite
      <3>2. ratings[f] = "Loading" => discovery.read[f] \in {"Loading", RatingOf(f, disk[f])}
        BY <3>1 DEF FolderInv, ReadInv
      <3> QED BY <1>1, <3>1, <3>2 DEF Filled, RatingFine, Known
    <2> QED BY <1>1, <2>1 DEF Filled
  <1>4. RatingsKept(shown)
    <2>1. presented # NoPath => presented \in Files /\ presented \in files
      BY DEF FolderInv, ViewInv, PlaceInv
    <2> QED BY <1>3, <2>1 DEF RatingsKept
  <1>5. ViewInv'
    BY <1>1, <1>2, <1>4, ApplySelectionFine
  <1>6. WriteInv'
    BY <1>1 DEF FolderInv, WriteInv, Calm, NoWrite
  <1> QED BY <1>1, <1>5, <1>6, NothingRead DEF FolderInv

LEMMA LoseDiscoveryFine ==
    ASSUME FolderInv, LoseDiscovery
    PROVE  FolderInv'
  <1>1. Calm /\ UNCHANGED <<ratings, index, session, picture, decodes>> /\ discovery' = NoDiscovery
    BY DEF LoseDiscovery, Calm
  <1>2. WriteInv'
    BY <1>1 DEF FolderInv, WriteInv, Calm, NoWrite
  <1> QED BY <1>1, <1>2, ViewStays, NothingRead DEF FolderInv

LEMMA ArriveFine ==
    ASSUME FolderInv, Arrive
    PROVE  FolderInv'
  <1>1. /\ UNCHANGED <<disk, doubted, ratings, index, session, picture, write, cache>>
        /\ files' = Files /\ Kick(jobs)
        /\ StartDiscovery \/ discovery' = NoDiscovery
    BY DEF Arrive, RestartDiscovery
  <1>2. JobsInv'
    <2>1. JobsFine(jobs, {index, write.path})
      BY DEF FolderInv, ViewInv, JobsInv
    <2>2. \A g \in Files : g \in {index', write'.path} => g \in {index, write.path}
      BY <1>1
    <2> QED BY <1>1, <2>1, <2>2, KickFine
  <1>3. PlaceInv' /\ LoadInv' /\ WriteInv'
    BY <1>1 DEF FolderInv, ViewInv, PlaceInv, LoadInv, WriteInv, session, picture, NoLoad, NoWrite
  <1>4. DecodesInv' /\ RatingsInv' /\ DetailsInv'
    BY <1>1 DEF FolderInv, ViewInv, DecodesInv, RatingsInv, DetailsInv, session, picture,
                DecodeFine, RatingFine, Changed
  <1> QED BY <1>1, <1>2, <1>3, <1>4, NothingRead DEF FolderInv, ViewInv

LEMMA RatingsOfVersions == \A f, version : RatingOf(f, version) \in {"rated", "unrated"}
  BY DEF RatingOf

LEMMA ReadDetailsFine ==
    ASSUME FolderInv, ReadDetails
    PROVE  FolderInv'
  <1>1. /\ Calm /\ UNCHANGED <<disk, ratings, discovery, index, session, source, shownRating, decodes>>
        /\ details.at = "read"
        /\ details' = [at |-> "done", rating |-> IF source = disk[presented]
                                                 THEN RatingOf(presented, source)
                                                 ELSE "Unreadable"]
    BY DEF ReadDetails, Calm, playlist
  <1>2. WriteInv' /\ ReadInv'
    BY <1>1, CalmFine
  <1>3. DetailsInv'
    BY <1>1, RatingsOfVersions DEF DetailsInv, session, RatingFine, Known
  <1>4. PlaceInv' /\ LoadInv' /\ JobsInv'
    BY <1>1 DEF FolderInv, ViewInv, PlaceInv, LoadInv, JobsInv, JobsFine, Silent, session, decodes,
                Calm, NoLoad
  <1>5. DecodesInv' /\ RatingsInv'
    BY <1>1 DEF FolderInv, ViewInv, DecodesInv, RatingsInv, session, decodes, Calm, DecodeFine,
                RatingFine, Changed
  <1> QED BY <1>2, <1>3, <1>4, <1>5 DEF FolderInv, ViewInv

(* poll_auxiliary_load: only a true rating puts a doubt at rest.             *)
LEMMA PollDetailsFine ==
    ASSUME FolderInv, PollDetails
    PROVE  FolderInv'
  <1> DEFINE p == presented
  <1>1. PICK rating \in IF details.at = "done" THEN {details.rating} ELSE {"Unreadable"} :
           SetRating(p, rating) /\ shownRating' = rating
    BY DEF PollDetails
  <1>2. /\ details.at # "none" /\ details' = NoDetails
        /\ doubted' = IF ratings'[p] \in {"Unreadable", RatingOf(p, disk[p])}
                      THEN doubted \ {p} ELSE doubted
        /\ UNCHANGED <<disk, session, source, discovery, write, decodes>>
    BY DEF PollDetails
  <1>3. p \in files /\ p \in Files /\ p # NoPath
    BY <1>2 DEF FolderInv, ViewInv, PlaceInv
  <1>4. RatingFine(p, rating) /\ rating # "Loading"
    BY <1>1 DEF FolderInv, ViewInv, DetailsInv, RatingFine, Known
  <1>5. /\ ratings' = [ratings EXCEPT ![p] = rating] /\ ratings'[p] = rating
        /\ UNCHANGED <<files, index>>
    BY <1>1, <1>3 DEF SetRating, FolderInv, ViewInv, RatingsInv
  <1>6. RatingsInv'
    BY <1>1, <1>2, <1>3, <1>4, <1>5 DEF FolderInv, ViewInv, RatingsInv, RatingFine, Known, Changed,
                                        session
  <1>7. ReadInv'
    BY <1>2, <1>4, <1>5 DEF FolderInv, ReadInv, Changed, ViewInv, RatingsInv
  <1>8. PlaceInv' /\ LoadInv' /\ DetailsInv' /\ WriteInv'
    BY <1>2, <1>5 DEF FolderInv, ViewInv, PlaceInv, LoadInv, DetailsInv, WriteInv, session, NoLoad,
                      NoDetails, NoWrite
  <1>9. JobsInv' /\ DecodesInv'
    BY <1>2, <1>5 DEF FolderInv, ViewInv, JobsInv, JobsFine, Silent, DecodesInv, session, decodes,
                      DecodeFine, Changed
  <1> QED BY <1>6, <1>7, <1>8, <1>9 DEF FolderInv, ViewInv

-----------------------------------------------------------------------------
(* The steps of a write.                                                     *)
LEMMA RateFine ==
    ASSUME FolderInv, Rate
    PROVE  FolderInv'
  <1>1. /\ UNCHANGED <<disk, doubted, playlist, session, picture, discovery, decodes>>
        /\ write' = [at |-> "run", path |-> presented, result |-> "none"]
        /\ presented # NoPath /\ selected = presented /\ write.at = "none" /\ load.at = "none"
    BY DEF Rate
  <1>2. load = NoLoad /\ presented = index /\ presented \in files /\ write = NoWrite
    BY <1>1 DEF FolderInv, ViewInv, LoadInv, PlaceInv, WriteInv
  <1>3. WriteInv' /\ PlaceInv' /\ LoadInv'
    BY <1>1, <1>2 DEF FolderInv, ViewInv, WriteInv, PlaceInv, LoadInv, playlist, session, picture,
                      NoLoad
  <1>4. JobsInv'
    BY <1>1, <1>2 DEF FolderInv, ViewInv, JobsInv, JobsFine, playlist, decodes, Silent
  <1>5. \A f : ~Changed(f) /\ ~Changed(f)'
    BY <1>1 DEF Changed
  <1>6. DecodesInv' /\ RatingsInv' /\ ReadInv' /\ DetailsInv'
    BY <1>1, <1>5 DEF FolderInv, ViewInv, DecodesInv, RatingsInv, ReadInv, DetailsInv, playlist,
                      session, picture, decodes, DecodeFine, RatingFine
  <1> QED BY <1>3, <1>4, <1>6 DEF FolderInv, ViewInv

(* The file may change: nobody reads it, and what is held of it is Changed.  *)
LEMMA WriteFileFine ==
    ASSUME FolderInv, WriteFile
    PROVE  FolderInv'
  <1> DEFINE p == write.path
  <1>1. /\ write.at = "run"
        /\ UNCHANGED <<doubted, playlist, session, picture, discovery, decodes>>
    BY DEF WriteFile
  <1>2. PICK result \in {"ok", "refused", "lost"} :
          /\ write' = [write EXCEPT !.at = "done", !.result = result]
          /\ disk' \in CASE result = "ok"      -> {[disk EXCEPT ![p] = @ + 1]}
                         [] result = "refused" -> {disk}
                         [] OTHER -> {disk, [disk EXCEPT ![p] = @ + 1]}
    BY DEF WriteFile
  <1>3. write' = [at |-> "done", path |-> p, result |-> result] /\ p \in files
    <2>1. write = [at |-> write.at, path |-> p, result |-> write.result]
      BY DEF FolderInv, WriteInv
    <2>2. write # NoWrite
      BY <1>1 DEF NoWrite
    <2> QED BY <1>2, <2>1, <2>2 DEF FolderInv, WriteInv
  <1>4. /\ DOMAIN disk' = Files /\ \A f \in Files : f # p => disk'[f] = disk[f]
        /\ result = "refused" => disk' = disk
    BY <1>2 DEF FolderInv, ViewInv, DecodesInv
  <1>5. /\ \A f \in Files : disk'[f] = disk[f] \/ Changed(f)'
        /\ \A f : ~Changed(f)
    BY <1>1, <1>3, <1>4 DEF Changed
  <1>6. WriteInv' /\ PlaceInv'
    BY <1>1, <1>3 DEF FolderInv, ViewInv, WriteInv, PlaceInv, playlist, session, picture
  <1>7. LoadInv'
    <2>1. UNCHANGED <<load, selected>> /\ write'.path = p
      BY <1>1, <1>3 DEF session
    <2>2. load # NoLoad => load.path \in Files
      BY DEF FolderInv, ViewInv, LoadInv, PlaceInv
    <2> QED BY <1>4, <2>1, <2>2 DEF FolderInv, ViewInv, LoadInv, NoLoad
  <1>8. JobsInv'
    BY <1>1, <1>3, <1>4 DEF FolderInv, ViewInv, JobsInv, JobsFine, playlist, decodes, Silent
  <1>9. \A f \in Files : \A x : DecodeFine(f, x) => DecodeFine(f, x)'
    BY <1>5 DEF DecodeFine
  <1>10. \A f \in Files : \A x : RatingFine(f, x) => RatingFine(f, x)'
    BY <1>1, <1>5 DEF RatingFine
  <1>11. presented # NoPath => presented \in Files
    BY DEF FolderInv, ViewInv, PlaceInv
  <1>12. DecodesInv'
    BY <1>1, <1>4, <1>9, <1>11 DEF FolderInv, ViewInv, DecodesInv, session, picture, decodes
  <1>13. RatingsInv'
    BY <1>1, <1>10, <1>11 DEF FolderInv, ViewInv, RatingsInv, playlist, session, picture
  <1>14. DetailsInv'
    BY <1>1, <1>10, <1>11 DEF FolderInv, ViewInv, DetailsInv, PlaceInv, session, picture
  <1>15. ReadInv'
    BY <1>1, <1>5 DEF FolderInv, ReadInv, playlist
  <1> QED BY <1>6, <1>7, <1>8, <1>12, <1>13, <1>14, <1>15 DEF FolderInv, ViewInv

(* What settling changes of the view is of the written file only.            *)
LEMMA PollWriteFine ==
    ASSUME FolderInv, PollWrite
    PROVE  FolderInv'
  <1> DEFINE p == write.path
  <1>1. /\ write.at = "done" /\ write' = NoWrite /\ Kick(jobs)
        /\ UNCHANGED <<disk, session, discovery>>
        /\ doubted' = CASE write.result = "ok"   -> doubted \ {p}
                        [] write.result = "lost" -> doubted \cup {p}
                        [] OTHER                 -> doubted
        /\ \/ write.result = "ok" /\ Adopt(p)
           \/ write.result = "lost" /\ Distrust(p)
           \/ write.result = "refused" /\ UNCHANGED <<playlist, picture, cache>>
    BY DEF PollWrite
  <1>2. p \in files /\ p \in Files /\ p # NoPath
    BY <1>1, NoPathIsNoFile DEF FolderInv, ViewInv, PlaceInv, WriteInv, NoWrite
  <1>3. UNCHANGED <<files, index>>
    BY <1>1 DEF Adopt, Distrust, SetRating, playlist
  <1>4. JobsInv'
    <2>1. JobsFine(jobs, {index, p})
      BY DEF FolderInv, ViewInv, JobsInv
    <2>2. \A g \in Files : g \in {index', write'.path} => g \in {index, p}
      BY <1>1, <1>3, NoPathIsNoFile DEF NoWrite
    <2> QED BY <1>1, <2>1, <2>2, KickFine
  <1>5. \A f : f # p => ~Changed(f)
    BY DEF Changed
  <1>6. WriteInv' /\ LoadInv'
    BY <1>1, NoPathIsNoFile DEF FolderInv, ViewInv, PlaceInv, LoadInv, WriteInv, session, NoLoad,
                                NoWrite
  <1>7. details.at # "none" => presented = selected /\ presented # NoPath
    BY DEF FolderInv, ViewInv, PlaceInv
  <1>8. CASE write.result = "ok" /\ Adopt(p)
    <2>1. /\ ratings' = [ratings EXCEPT ![p] = RatingOf(p, disk[p])]
          /\ cache' = [cache EXCEPT ![p] = Unread]
          /\ doubted' = doubted \ {p}
      BY <1>1, <1>2, <1>8 DEF Adopt, SetRating, Forget
    <2>2. presented = p => /\ shownRating' = RatingOf(p, disk[p]) /\ source' = disk[p]
                           /\ details' = IF selected = p THEN [at |-> "read", rating |-> "Loading"]
                                         ELSE details
      BY <1>8 DEF Adopt
    <2>3. presented # p => UNCHANGED <<shownRating, source, details>>
      BY <1>8 DEF Adopt
    <2>4. PlaceInv'
      BY <1>1, <1>2, <1>3, <1>7, <2>2, <2>3 DEF FolderInv, ViewInv, PlaceInv, session
    <2>5. DecodesInv'
      BY <1>1, <1>2, <1>5, <2>1, <2>2, <2>3 DEF FolderInv, ViewInv, DecodesInv, DecodeFine, session
    <2>6. RatingsInv'
      BY <1>1, <1>2, <1>5, <2>1, <2>2, <2>3 DEF FolderInv, ViewInv, RatingsInv, RatingFine, session
    <2>7. ReadInv'
      BY <1>1, <1>2, <1>5, <2>1, RatingsOfVersions DEF FolderInv, ViewInv, RatingsInv, ReadInv
    <2>8. DetailsInv'
      BY <1>1, <1>5, <1>7, <2>1, <2>2, <2>3 DEF FolderInv, ViewInv, DetailsInv, RatingFine, session
    <2> QED BY <1>4, <1>6, <2>4, <2>5, <2>6, <2>7, <2>8 DEF FolderInv, ViewInv
  <1>9. CASE write.result = "lost" /\ Distrust(p)
    <2>1. /\ ratings' = [ratings EXCEPT ![p] = "Unreadable"]
          /\ cache' = [cache EXCEPT ![p] = Unread]
          /\ doubted' = doubted \cup {p} /\ UNCHANGED details
      BY <1>1, <1>2, <1>9 DEF Distrust, SetRating, Forget
    <2>2. presented = p => shownRating' = "Unreadable" /\ source' = Unread
      BY <1>9 DEF Distrust
    <2>3. presented # p => UNCHANGED <<shownRating, source>>
      BY <1>9 DEF Distrust
    <2>4. PlaceInv'
      BY <1>1, <1>3, <2>1 DEF FolderInv, ViewInv, PlaceInv, session
    <2>5. DecodesInv'
      BY <1>1, <1>2, <1>5, <2>1, <2>2, <2>3 DEF FolderInv, ViewInv, DecodesInv, DecodeFine, session
    <2>6. RatingsInv'
      BY <1>1, <1>2, <1>5, <2>1, <2>2, <2>3 DEF FolderInv, ViewInv, RatingsInv, RatingFine, session
    <2>7. ReadInv'
      BY <1>1, <1>2, <1>5, <2>1 DEF FolderInv, ViewInv, RatingsInv, ReadInv
    <2>8. DetailsInv'
      BY <1>1, <1>5, <2>1 DEF FolderInv, ViewInv, DetailsInv, RatingFine, session
    <2> QED BY <1>4, <1>6, <2>4, <2>5, <2>6, <2>7, <2>8 DEF FolderInv, ViewInv
  <1>10. CASE write.result = "refused" /\ UNCHANGED <<playlist, picture, cache>>
    <2>1. doubted' = doubted /\ \A f : ~Changed(f)
      BY <1>1, <1>10 DEF Changed
    <2>2. PlaceInv' /\ DecodesInv'
      BY <1>1, <1>3, <1>10, <2>1 DEF FolderInv, ViewInv, PlaceInv, DecodesInv, DecodeFine, session, picture
    <2>3. RatingsInv' /\ ReadInv' /\ DetailsInv'
      BY <1>1, <1>10, <2>1 DEF FolderInv, ViewInv, RatingsInv, ReadInv, DetailsInv, RatingFine,
                               playlist, session, picture
    <2> QED BY <1>4, <1>6, <2>2, <2>3 DEF FolderInv, ViewInv
  <1> QED BY <1>1, <1>8, <1>9, <1>10

-----------------------------------------------------------------------------
LEMMA StepKeepsFolder == FolderInv /\ [Next]_vars => FolderInv'
  <1> SUFFICES ASSUME FolderInv, [Next]_vars PROVE FolderInv'
    OBVIOUS
  <1>1. CASE UNCHANGED vars
    <2>1. Calm /\ UNCHANGED <<ratings, discovery, index, session, picture, decodes>>
      BY <1>1 DEF vars, playlist, Calm
    <2> QED BY <2>1, ViewStays, CalmFine DEF FolderInv
  <1>2. CASE Next
    BY <1>2, JobRunsFine, DecodeSelectedFine, PollLoadFine, PollPrefetchFine, BrowseFine, ShowAllFine,
       SetFilterFine, BrowseNowhereFine, ReadRatingFine, PollDiscoveryFine, LoseDiscoveryFine,
       ArriveFine, ReadDetailsFine, PollDetailsFine, RateFine, WriteFileFine, PollWriteFine DEF Next
  <1> QED BY <1>1, <1>2

(* In every reachable state of any folder, what the window holds of a file is *)
(* the file as it is, unless a write of it happened and is not settled: the  *)
(* handlers of app.rs between start_auxiliary_load and poll_prefetch.        *)
THEOREM FolderIsInvariant == Spec => []FolderInv
  <1>1. Spec => Init /\ [][Next]_vars
    BY DEF Spec
  <1> QED BY <1>1, InitFolder, StepKeepsFolder, PTL

(* No rating read before a write replaces the one the write left, neither in *)
(* the folder's list nor under the picture: set_discovered_ratings and       *)
(* poll_rating_write.                                                        *)
THEOREM RatingsStayTrue == Spec => []RatingsAreTrue
  <1>1. FolderInv => RatingsAreTrue
    BY DEF FolderInv, ViewInv, RatingsInv, RatingFine, Changed, RatingsAreTrue
  <1> QED BY <1>1, FolderIsInvariant, PTL

(* No decode from before a settled write is kept for later or believed to be *)
(* the file: kick_prefetch, PrefetchSchedule::allow and poll_rating_write.   *)
THEOREM DecodesStayTrue == Spec => []DecodesAreTrue
  <1>1. FolderInv => DecodesAreTrue
    BY DEF FolderInv, ViewInv, DecodesInv, DecodeFine, Changed, DecodesAreTrue
  <1> QED BY <1>1, FolderIsInvariant, PTL

(* No neighbour decode and no navigation reads the file until the write       *)
(* settles: kick_prefetch and block_browse_while_busy.                        *)
THEOREM WrittenFileStaysAlone == Spec => []WrittenFileIsLeftAlone
  <1>1. ASSUME FolderInv PROVE WrittenFileIsLeftAlone
    <2>1. SUFFICES ASSUME write.at # "none"
                   PROVE  load.path # write.path /\ jobs[write.path].at # "run"
      BY DEF WrittenFileIsLeftAlone
    <2>2. write.path \in Files /\ write.path # NoPath
      BY <1>1, <2>1, NoPathIsNoFile DEF FolderInv, ViewInv, PlaceInv, WriteInv, NoWrite
    <2>3. load.path # write.path
      BY <1>1, <2>2 DEF FolderInv, ViewInv, LoadInv, NoLoad
    <2>4. jobs[write.path].at # "run"
      BY <1>1, <2>2 DEF FolderInv, ViewInv, JobsInv, JobsFine, Silent
    <2> QED BY <2>3, <2>4
  <1> QED BY <1>1, FolderIsInvariant, PTL

-----------------------------------------------------------------------------
(* A picture that comes on screen has its details read.                      *)
Comes == presented' # presented /\ presented' # NoPath => details'.at = "read"

LEMMA GoReadyComes ==
    ASSUME NEW STATE f, NEW ACTION shown, GoReady(f, shown)
    PROVE  Comes
  BY DEF GoReady, ShowOrLoad, Present, Comes

LEMMA ApplySelectionComes ==
    ASSUME NEW ACTION shown, ApplySelection(shown)
    PROVE  Comes
  <1>1. CASE ShowNothing
    BY <1>1 DEF ShowNothing, Comes
  <1>2. CASE KeepPicture(shown)
    BY <1>2 DEF KeepPicture, session, Comes
  <1>3. CASE ShowOrLoad(index, shown)
    BY <1>3 DEF ShowOrLoad, Present, Comes
  <1>4. CASE \E f : GoReady(f, shown)
    BY <1>4, GoReadyComes
  <1> QED BY <1>1, <1>2, <1>3, <1>4 DEF ApplySelection

LEMMA StepComes == [Next]_vars => Comes
  <1> SUFFICES ASSUME [Next]_vars PROVE Comes
    OBVIOUS
  <1>1. CASE UNCHANGED vars
    BY <1>1 DEF vars, session, Comes
  <1>2. CASE JobRuns \/ ReadRating \/ LoseDiscovery \/ Arrive \/ PollDetails \/ Rate \/ WriteFile
             \/ PollWrite \/ ReadDetails \/ DecodeSelected
    BY <1>2 DEF JobRuns, ReadRating, LoseDiscovery, Arrive, PollDetails, Rate, WriteFile, PollWrite,
                ReadDetails, DecodeSelected, session, Comes
  <1>3. CASE PollLoad
    BY <1>3 DEF PollLoad, Present, Comes
  <1>4. CASE PollPrefetch
    BY <1>4 DEF PollPrefetch, Present, KeepPicture, session, Comes
  <1>5. CASE Browse
    BY <1>5, GoReadyComes DEF Browse
  <1>6. CASE ShowAll \/ BrowseNowhere \/ PollDiscovery
    BY <1>6, ApplySelectionComes DEF ShowAll, BrowseNowhere, PollDiscovery
  <1>7. CASE SetFilter
    <2>1. CASE ApplySelection(shownRating)
      BY <2>1, ApplySelectionComes
    <2>2. CASE UNCHANGED session
      BY <2>2 DEF session, Comes
    <2> QED BY <1>7, <2>1, <2>2 DEF SetFilter
  <1> QED BY <1>1, <1>2, <1>3, <1>4, <1>5, <1>6, <1>7 DEF Next

(* A decode that arrives late is never shown for another file than the        *)
(* selected one: poll_foreground_image_load and prefetch_destination.         *)
THEOREM OnlyTheSelectedComes == Spec => OnlyTheSelectedIsShown
  <1>1. FolderInv' /\ Comes => (presented' # presented /\ presented' # NoPath => presented' = selected')
    BY DEF FolderInv, ViewInv, PlaceInv, Comes
  <1>2. FolderInv /\ [Next]_vars =>
          [presented' # presented /\ presented' # NoPath => presented' = selected']_vars
    BY <1>1, StepKeepsFolder, StepComes
  <1>3. Spec => [][Next]_vars
    BY DEF Spec
  <1> QED BY <1>2, <1>3, FolderIsInvariant, PTL DEF OnlyTheSelectedIsShown
=============================================================================
