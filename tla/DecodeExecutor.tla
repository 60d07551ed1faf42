---------------------------- MODULE DecodeExecutor ----------------------------
(***************************************************************************)
(* The process-wide decode executor and the load of the selected image     *)
(* (crates/viewr/src/decode.rs, LatestJobQueue to DecodeGate;              *)
(* crates/viewr/src/app.rs, spawn_image_load_with_cached and               *)
(* poll_foreground_image_load; crates/viewr/src/session.rs).               *)
(*                                                                         *)
(* The event loop offers the newest load to a queue that holds one job; a  *)
(* job it displaces is dropped, and with it the sending end of its result  *)
(* channel.  Foreground threads take the offer, pass the gate, and ask at  *)
(* several points whether their generation is still the session's.         *)
(* Background threads serve a bounded channel and meet the foreground at   *)
(* the gate only.  A job may unwind in a build that unwinds; the last      *)
(* foreground thread to go closes the queue.                               *)
(***************************************************************************)
EXTENDS DecodeGate

CONSTANTS
    QueueCapacity,  (* BACKGROUND_DECODE_QUEUE_CAPACITY                      *)
    MaxGeneration   (* bound of the model: selections made                   *)

ASSUME ExecutorAssumption ==
    /\ Foreground # {}
    /\ QueueCapacity \in Nat \ {0}
    /\ MaxGeneration \in Nat

(* A load is named by the generation it was started with; 0 is none.         *)
Loads == 1..MaxGeneration
NoLoad == 0

VARIABLES
    (* the event loop *)
    generation,  (* Session::generation                                      *)
    receiver,    (* the load whose channel Session::receiver is, or none     *)
    shows,       (* what the last load ended with, and which it was          *)
    notifying,   (* it has left the queue's mutex and not yet notified       *)
    (* between the threads *)
    offer,       (* LatestJobQueueState::job                                 *)
    closed,      (* LatestJobQueueState::closed                              *)
    channel,     (* the channel of that receiver; of others nobody hears     *)
    queued,      (* jobs in the background channel                           *)
    changed,     (* the newest load found its source changed after decoding  *)
    (* the threads *)
    doing,       (* the step each thread takes next                          *)
    job          (* the load each foreground thread works on                 *)

loop    == <<generation, receiver, shows, notifying>>
between == <<offer, closed, channel, queued, changed>>
threads == <<doing, job>>
vars    == <<gate, loop, between, threads>>

Init ==
    /\ GateInit
    /\ generation = 0
    /\ receiver = NoLoad
    /\ shows = [load |-> NoLoad, how |-> "nothing"]
    /\ notifying = FALSE
    /\ offer = NoLoad
    /\ closed = FALSE
    /\ channel = "none"
    /\ queued = 0
    /\ changed = FALSE
    /\ doing = [t \in Threads |-> "taking"]
    /\ job = [t \in Foreground |-> NoLoad]

Live == {t \in Foreground : doing[t] # "gone"}

SomeJobUnwound == \E t \in Foreground : doing[t] \in {"leaving", "gone"}

IsCurrent(t) == job[t] = generation

(* The sending end of a load is used or dropped; only the newest load's      *)
(* receiving end still exists.                                               *)
Sent(g, how) == IF g # NoLoad /\ g = receiver THEN how ELSE channel
Dropped(g)   == Sent(g, "closed")

-----------------------------------------------------------------------------
(* The event loop.  Between replace leaving the mutex and notify_one it does *)
(* nothing else.                                                             *)

LoopKeeps == UNCHANGED <<gate, queued, changed, threads>>

(* Wrong on purpose: the receiver of the load before is kept.                *)
SupersedeQuietly ==
    /\ ~notifying
    /\ generation < MaxGeneration
    /\ generation' = generation + 1
    /\ changed' = FALSE
    /\ UNCHANGED <<receiver, shows, notifying, offer, closed, channel>>
    /\ UNCHANGED <<gate, queued, threads>>

(* A load from the cache, or cancel_pending_load: no job is scheduled.       *)
Supersede ==
    /\ ~notifying
    /\ generation < MaxGeneration
    /\ generation' = generation + 1
    /\ receiver' = NoLoad
    /\ channel' = "none"
    /\ shows' = [load |-> NoLoad, how |-> "nothing"]
    /\ changed' = FALSE
    /\ UNCHANGED <<notifying, offer, closed>>
    /\ UNCHANGED <<gate, queued, threads>>

(* spawn_image_load_with_cached with nothing cached, to the end of the       *)
(* critical section of replace.  A closed queue returns the job, and the     *)
(* failure is shown at once.                                                 *)
StartLoad ==
    LET g == generation + 1 IN
    /\ ~notifying
    /\ generation < MaxGeneration
    /\ generation' = g
    /\ \/ /\ ~closed
          /\ receiver' = g
          /\ shows' = [load |-> NoLoad, how |-> "nothing"]
          /\ channel' = "open"
          /\ offer' = g
          /\ notifying' = TRUE
       \/ /\ closed
          /\ receiver' = NoLoad
          /\ shows' = [load |-> g, how |-> "notStarted"]
          /\ channel' = "none"
          /\ UNCHANGED <<offer, notifying>>
    /\ changed' = FALSE
    /\ UNCHANGED <<closed, gate, queued, threads>>

(* ready.notify_one() wakes one of the threads that sleep in take, if any.   *)
Notify ==
    /\ notifying
    /\ notifying' = FALSE
    /\ \/ \E t \in Foreground : doing[t] = "parked" /\ doing' = [doing EXCEPT ![t] = "taking"]
       \/ (\A t \in Foreground : doing[t] # "parked") /\ UNCHANGED doing
    /\ UNCHANGED <<gate, between, generation, receiver, shows, job>>

(* poll_foreground_image_load.                                               *)
PollLoad ==
    /\ ~notifying
    /\ receiver # NoLoad
    /\ channel # "open"
    /\ receiver' = NoLoad
    /\ shows' = [load |-> receiver, how |-> IF channel = "closed" THEN "lost" ELSE channel]
    /\ channel' = "none"
    /\ UNCHANGED <<generation, notifying, offer, closed>>
    /\ LoopKeeps

(* try_schedule_background: a full channel rejects the job.                  *)
StartBackground ==
    /\ ~notifying
    /\ queued < QueueCapacity
    /\ queued' = queued + 1
    /\ UNCHANGED <<gate, loop, offer, closed, channel, changed, threads>>

-----------------------------------------------------------------------------
(* Every thread.                                                             *)

Goes(t, step) == doing' = [doing EXCEPT ![t] = step]

AskPermit(t) ==
    /\ doing[t] = "permit"
    /\ Enter(t) \/ Retry(t)
    /\ Goes(t, IF permit'[t] = "held" THEN "check" ELSE "permit")
    /\ UNCHANGED <<loop, between, job>>

Spurious(t) ==
    /\ WakeSpuriously(t)
    /\ UNCHANGED <<loop, between, threads>>

-----------------------------------------------------------------------------
(* The background threads.  Their jobs catch what unwinds.                   *)

TakeBackground(t) ==
    /\ doing[t] = "taking"
    /\ queued > 0
    /\ queued' = queued - 1
    /\ Goes(t, "permit")
    /\ UNCHANGED <<gate, loop, offer, closed, channel, changed, job>>

DecodeAhead(t) ==
    /\ doing[t] = "check"
    /\ Release(t)
    /\ Goes(t, "taking")
    /\ UNCHANGED <<loop, between, job>>

-----------------------------------------------------------------------------
(* The foreground threads.                                                   *)

(* LatestJobQueue::take.                                                     *)
TakeOffer(t) ==
    /\ doing[t] = "taking"
    /\ \/ /\ offer # NoLoad
          /\ job' = [job EXCEPT ![t] = offer]
          /\ offer' = NoLoad
          /\ Goes(t, "permit")
       \/ offer = NoLoad /\ ~closed /\ Goes(t, "parked") /\ UNCHANGED <<job, offer>>
       \/ offer = NoLoad /\ closed /\ Goes(t, "leaving") /\ UNCHANGED <<job, offer>>
    /\ UNCHANGED <<gate, loop, closed, channel, queued, changed>>

ParkSpuriously(t) ==
    /\ doing[t] = "parked"
    /\ Goes(t, "taking")
    /\ UNCHANGED <<gate, loop, between, job>>

(* load_file_if_current ends in None: the permit is dropped, then the        *)
(* closure with the sending end.                                             *)
GiveUp(t) ==
    /\ Release(t)
    /\ Goes(t, "taking")
    /\ channel' = Dropped(job[t])
    /\ job' = [job EXCEPT ![t] = NoLoad]

(* The first question, and open_while, which asks again.                     *)
OpenSource(t) ==
    /\ doing[t] = "check"
    /\ \/ IsCurrent(t) /\ Goes(t, "decode") /\ UNCHANGED <<gate, channel, job>>
       \/ ~IsCurrent(t) /\ GiveUp(t)
    /\ UNCHANGED <<loop, offer, closed, queued, changed>>

(* The decoder returns, whatever it returns, or it unwinds.                  *)
Decode(t) ==
    /\ doing[t] = "decode"
    /\ Goes(t, "confirm")
    /\ UNCHANGED <<gate, loop, between, job>>

(* version_is_current_while: a changed source, and a superseded load whose   *)
(* reader was interrupted, end in None.  The permit is dropped when the      *)
(* function returns, before anything is sent.                                *)
ConfirmVersion(t) ==
    /\ doing[t] = "confirm"
    /\ \/ /\ IsCurrent(t)
          /\ Release(t)
          /\ Goes(t, "send")
          /\ UNCHANGED <<channel, job, changed>>
       \/ IsCurrent(t) /\ GiveUp(t) /\ changed' = TRUE
       \/ ~IsCurrent(t) /\ GiveUp(t) /\ UNCHANGED changed
    /\ UNCHANGED <<loop, offer, closed, queued>>

(* tx.send.  The receiver may be gone; the wake-up is sent all the same.     *)
SendResult(t) ==
    /\ doing[t] = "send"
    /\ \E how \in {"image", "error"} : channel' = Sent(job[t], how)
    /\ Goes(t, "taking")
    /\ job' = [job EXCEPT ![t] = NoLoad]
    /\ UNCHANGED <<gate, loop, offer, closed, queued, changed>>

(* Unwinding drops the permit and the sending end, and then the thread's     *)
(* guard.                                                                    *)
Unwind(t) ==
    /\ doing[t] = "decode"
    /\ Release(t)
    /\ channel' = Dropped(job[t])
    /\ job' = [job EXCEPT ![t] = NoLoad]
    /\ Goes(t, "leaving")
    /\ UNCHANGED <<loop, offer, closed, queued, changed>>

(* Wrong on purpose: no guard closes the queue.                              *)
LeaveOpen(t) ==
    /\ doing[t] = "leaving"
    /\ Goes(t, "gone")
    /\ UNCHANGED <<gate, loop, between, job>>

(* CloseLatestJobQueueOnLastExit: close drops the offer and wakes everybody, *)
(* and nobody is left to wake.                                               *)
Leave(t) ==
    /\ doing[t] = "leaving"
    /\ Goes(t, "gone")
    /\ \/ /\ Live = {t}
          /\ closed' = TRUE
          /\ channel' = Dropped(offer)
          /\ offer' = NoLoad
       \/ Live # {t} /\ UNCHANGED <<closed, channel, offer>>
    /\ UNCHANGED <<gate, loop, queued, changed, job>>

-----------------------------------------------------------------------------
ForegroundStep(t) ==
    \/ AskPermit(t)
    \/ TakeOffer(t)
    \/ OpenSource(t)
    \/ Decode(t)
    \/ ConfirmVersion(t)
    \/ SendResult(t)
    \/ Leave(t)

BackgroundStep(t) ==
    \/ AskPermit(t)
    \/ TakeBackground(t)
    \/ DecodeAhead(t)

Next ==
    \/ Supersede
    \/ StartLoad
    \/ Notify
    \/ PollLoad
    \/ StartBackground
    \/ \E t \in Foreground : ForegroundStep(t) \/ ParkSpuriously(t) \/ Unwind(t)
    \/ \E t \in Background : BackgroundStep(t)
    \/ \E t \in Threads : Spurious(t)

(* A thread that can run runs, and the loop turns while a load is pending:   *)
(* the spinner it shows asks for the next frame.                             *)
Fairness ==
    /\ WF_vars(Notify)
    /\ WF_vars(PollLoad)
    /\ \A t \in Foreground : WF_vars(ForegroundStep(t))
    /\ \A t \in Background : WF_vars(BackgroundStep(t))

Spec == Init /\ [][Next]_vars /\ Fairness

-----------------------------------------------------------------------------
(* A background thread takes a permit only while no foreground thread waits  *)
(* for one.                                                                  *)
ForegroundGoesFirst ==
    [][\A t \in Background : permit[t] # "held" /\ permit'[t] = "held" => Waiting = {}]_vars

(* An offered load is never left to threads that all sleep or are gone: the  *)
(* loop is about to notify one, or one is awake and comes back to the queue. *)
OfferHasATaker ==
    offer # NoLoad =>
        \/ notifying /\ Live # {}
        \/ \E t \in Foreground : doing[t] \notin {"parked", "gone"}

(* Dropping a load is silent.  A load that was displaced in the queue, or    *)
(* gave up because it was superseded, has its channel closed too; what the   *)
(* session shows is always the end of the newest load, and it reports a loss *)
(* only if that load's source changed or a job unwound.                      *)
OnlyTheNewestIsReported ==
    /\ shows.load \in {NoLoad, generation}
    /\ shows.how = "lost" => changed \/ SomeJobUnwound

(* A load that is started ends, or gives way to another.                     *)
LoadSettles == \A g \in Loads : receiver = g ~> receiver # g
=============================================================================
