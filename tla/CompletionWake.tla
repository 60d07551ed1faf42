--------------------------- MODULE CompletionWake ---------------------------
(***************************************************************************)
(* How speculative background work wakes the event loop: JobCompletion,    *)
(* OneShotJob, CompletionWake and try_schedule_one_shot of                 *)
(* crates/viewr/src/job.rs, as prefetch.rs and thumbs.rs use them.         *)
(*                                                                         *)
(* The loop sleeps until an event comes.  It submits a request to a        *)
(* bounded executor, installs the owner of its result only if the executor *)
(* accepted it, and polls the owners in every turn.  A worker may publish, *)
(* or drop the request unrun, at any moment, also before the owner is      *)
(* installed; a wake-up sent then would find nothing to poll, and one that *)
(* is never sent would leave the result, and its slot, behind for good.    *)
(* CompletionWake is the atomic both threads decide the wake-up with.      *)
(*                                                                         *)
(* The executor is shared with other requests, so it may accept or refuse  *)
(* any request; the order in which it starts them is left open.            *)
(***************************************************************************)
EXTENDS Naturals, FiniteSets

CONSTANTS
    Requests,    (* the requests that are made, each with a wake of its own  *)
    NoRequest,   (* no request                                               *)
    MaxActive    (* bound on installed owners: MAX_ACTIVE_JOBS, 4            *)

ASSUME WakeAssumption ==
    /\ NoRequest \notin Requests
    /\ MaxActive \in Nat

VARIABLES
    at,        (* what the event loop does                                   *)
    back,      (* where in its turn it goes on after a submission            *)
    current,   (* the request it is submitting                               *)
    unpolled,  (* owners it has yet to poll in this turn                     *)
    mail,      (* a UserEvent::Wake is waiting                               *)
    owner,     (* OneShotJob of a request, while the loop has it             *)
    channel,   (* the single-slot result channel, as a receiver finds it     *)
    task,      (* where the executor is with a request                       *)
    wake,      (* CompletionWake::state                                      *)
    notify,    (* CompletionWake::notify.is_some()                           *)
    woken      (* how often the request has woken the loop                   *)

wakeVars == <<at, back, current, unpolled, mail, owner, channel, task, wake, notify, woken>>

Installed == {r \in Requests : owner[r] = "installed"}

WakeTypeOK ==
    /\ at \in {"asleep", "awake", "polled", "schedule", "reject", "install", "arm", "fire",
               "call"}
    /\ back \in {"awake", "polled"}
    /\ current \in Requests \cup {NoRequest}
    /\ unpolled \subseteq Requests
    /\ mail \in BOOLEAN
    /\ owner \in [Requests -> {"none", "held", "installed", "collected", "discarded"}]
    /\ channel \in [Requests -> {"empty", "result", "closed"}]
    /\ task \in [Requests -> {"none", "queued", "running", "signal", "fire", "call", "done"}]
    /\ wake \in [Requests -> {"pending", "armed", "signaled", "rejected", "fired"}]
    /\ notify \in [Requests -> BOOLEAN]
    /\ woken \in [Requests -> Nat]

WakeInit ==
    /\ at = "asleep"
    /\ back = "polled"
    /\ current = NoRequest
    /\ unpolled = {}
    /\ mail = FALSE
    /\ owner = [r \in Requests |-> "none"]
    /\ channel = [r \in Requests |-> "empty"]
    /\ task = [r \in Requests |-> "none"]
    /\ wake = [r \in Requests |-> "pending"]
    /\ notify = [r \in Requests |-> TRUE]
    /\ woken = [r \in Requests |-> 0]

(* The callback of a request: it posts UserEvent::Wake, at most once.        *)
Call(r) ==
    /\ notify' = [notify EXCEPT ![r] = FALSE]
    /\ IF notify[r]
       THEN /\ mail' = TRUE
            /\ woken' = [woken EXCEPT ![r] = @ + 1]
       ELSE UNCHANGED <<mail, woken>>

-----------------------------------------------------------------------------
(* A turn of the event loop.  It takes the waiting events, polls each owner  *)
(* there is, submits what it wants, and sleeps.                              *)

TakeEvents ==
    /\ at = "asleep"
    /\ at' = "awake"
    /\ mail' = FALSE
    /\ UNCHANGED <<back, current, unpolled, owner, channel, task, wake, notify, woken>>

BeginPoll ==
    /\ at = "awake"
    /\ at' = "polled"
    /\ unpolled' = Installed
    /\ UNCHANGED <<back, current, mail, owner, channel, task, wake, notify, woken>>

(* PrefetchSchedule::poll: an owner with a result, or whose sender is gone,  *)
(* gives up its slot.                                                        *)
PollOne(r) ==
    /\ at = "polled"
    /\ r \in unpolled
    /\ unpolled' = unpolled \ {r}
    /\ IF channel[r] = "empty" THEN UNCHANGED owner
       ELSE owner' = [owner EXCEPT ![r] = "collected"]
    /\ UNCHANGED <<at, back, current, mail, channel, task, wake, notify, woken>>

Sleep ==
    /\ at = "polled"
    /\ unpolled = {}
    /\ at' = "asleep"
    /\ UNCHANGED <<back, current, unpolled, mail, owner, channel, task, wake, notify, woken>>

-----------------------------------------------------------------------------
(* try_schedule_one_shot.                                                    *)

(* request_with, under the cap on owners: while the loop redraws, or after   *)
(* one of the two schedules (prefetch and thumbnails) was polled.            *)
Request(r) ==
    /\ at \in {"awake", "polled"}
    /\ owner[r] = "none"
    /\ task[r] = "none"
    /\ Cardinality(Installed) < MaxActive
    /\ at' = "schedule"
    /\ back' = at
    /\ current' = r
    /\ owner' = [owner EXCEPT ![r] = "held"]
    /\ UNCHANGED <<unpolled, mail, channel, task, wake, notify, woken>>

(* Wrong on purpose: armed before the owner is installed.                    *)
AcceptedAndArmed ==
    /\ at = "schedule"
    /\ at' = "install"
    /\ task' = [task EXCEPT ![current] = "queued"]
    /\ wake' = [wake EXCEPT ![current] = "armed"]
    /\ UNCHANGED <<back, current, unpolled, mail, owner, channel, notify, woken>>

Accepted ==
    /\ at = "schedule"
    /\ at' = "install"
    /\ task' = [task EXCEPT ![current] = "queued"]
    /\ UNCHANGED <<back, current, unpolled, mail, owner, channel, wake, notify, woken>>

(* The refused closure is dropped, which signals, before reject is reached.  *)
Refused ==
    /\ at = "schedule"
    /\ at' = "reject"
    /\ task' = [task EXCEPT ![current] = "done"]
    /\ channel' = [channel EXCEPT ![current] = "closed"]
    /\ wake' = [wake EXCEPT ![current] = "signaled"]
    /\ UNCHANGED <<back, current, unpolled, mail, owner, notify, woken>>

RejectWake ==
    /\ at = "reject"
    /\ at' = back
    /\ wake' = [wake EXCEPT ![current] = "rejected"]
    /\ notify' = [notify EXCEPT ![current] = FALSE]
    /\ owner' = [owner EXCEPT ![current] = "discarded"]
    /\ current' = NoRequest
    /\ UNCHANGED <<back, unpolled, mail, channel, task, woken>>

Install ==
    /\ at = "install"
    /\ at' = "arm"
    /\ owner' = [owner EXCEPT ![current] = "installed"]
    /\ UNCHANGED <<back, current, unpolled, mail, channel, task, wake, notify, woken>>

(* Wrong on purpose: a signal that came first is overwritten.                *)
ArmWithoutLooking ==
    /\ at = "arm"
    /\ wake' = [wake EXCEPT ![current] = "armed"]
    /\ at' = back
    /\ current' = NoRequest
    /\ UNCHANGED <<back, unpolled, mail, owner, channel, task, notify, woken>>

(* CompletionWake::arm: one compare_exchange.                                *)
Arm ==
    /\ at = "arm"
    /\ IF wake[current] = "pending"
       THEN /\ wake' = [wake EXCEPT ![current] = "armed"]
            /\ at' = back
            /\ current' = NoRequest
       ELSE /\ at' = "fire"
            /\ UNCHANGED <<wake, current>>
    /\ UNCHANGED <<back, unpolled, mail, owner, channel, task, notify, woken>>

(* fire_from(WAKE_SIGNALED): whoever moves the state to fired calls.         *)
ArmFires ==
    /\ at = "fire"
    /\ IF wake[current] = "signaled"
       THEN /\ wake' = [wake EXCEPT ![current] = "fired"]
            /\ at' = "call"
            /\ UNCHANGED current
       ELSE /\ at' = back
            /\ current' = NoRequest
            /\ UNCHANGED wake
    /\ UNCHANGED <<back, unpolled, mail, owner, channel, task, notify, woken>>

ArmCalls ==
    /\ at = "call"
    /\ at' = back
    /\ Call(current)
    /\ current' = NoRequest
    /\ UNCHANGED <<back, unpolled, owner, channel, task, wake>>

-----------------------------------------------------------------------------
(* The executor's threads.                                                   *)

Start(r) ==
    /\ task[r] = "queued"
    /\ task' = [task EXCEPT ![r] = "running"]
    /\ UNCHANGED <<at, back, current, unpolled, mail, owner, channel, wake, notify, woken>>

(* JobCompletion::complete.  The work catches its own panics, and an owner   *)
(* stays until it has been polled, so the receiver is always there.          *)
Complete(r) ==
    /\ task[r] = "running"
    /\ task' = [task EXCEPT ![r] = "signal"]
    /\ channel' = [channel EXCEPT ![r] = "result"]
    /\ UNCHANGED <<at, back, current, unpolled, mail, owner, wake, notify, woken>>

(* JobCompletion::drop of an accepted request that no thread is left to run. *)
DropCompletion(r) ==
    /\ task[r] = "queued"
    /\ task' = [task EXCEPT ![r] = "signal"]
    /\ channel' = [channel EXCEPT ![r] = "closed"]
    /\ UNCHANGED <<at, back, current, unpolled, mail, owner, wake, notify, woken>>

(* CompletionWake::signal: one compare_exchange.                             *)
Signal(r) ==
    /\ task[r] = "signal"
    /\ wake' = IF wake[r] = "pending" THEN [wake EXCEPT ![r] = "signaled"] ELSE wake
    /\ task' = [task EXCEPT ![r] = IF wake[r] = "armed" THEN "fire" ELSE "done"]
    /\ UNCHANGED <<at, back, current, unpolled, mail, owner, channel, notify, woken>>

(* fire_from(WAKE_ARMED).                                                    *)
SignalFires(r) ==
    /\ task[r] = "fire"
    /\ wake' = IF wake[r] = "armed" THEN [wake EXCEPT ![r] = "fired"] ELSE wake
    /\ task' = [task EXCEPT ![r] = IF wake[r] = "armed" THEN "call" ELSE "done"]
    /\ UNCHANGED <<at, back, current, unpolled, mail, owner, channel, notify, woken>>

SignalCalls(r) ==
    /\ task[r] = "call"
    /\ task' = [task EXCEPT ![r] = "done"]
    /\ Call(r)
    /\ UNCHANGED <<at, back, current, unpolled, owner, channel, wake>>

-----------------------------------------------------------------------------
Work(r) ==
    \/ Start(r)
    \/ Complete(r)
    \/ DropCompletion(r)
    \/ Signal(r)
    \/ SignalFires(r)
    \/ SignalCalls(r)

Schedule ==
    \/ Accepted
    \/ Refused
    \/ RejectWake
    \/ Install
    \/ Arm
    \/ ArmFires
    \/ ArmCalls

Poll == BeginPoll \/ \E r \in Requests : PollOne(r)

WakeNext ==
    \/ TakeEvents
    \/ Poll
    \/ Sleep
    \/ Schedule
    \/ \E r \in Requests : Request(r) \/ Work(r)

(* Threads run.  The loop ends its turns, and begins one only for an event   *)
(* that waits: no user is obliged to touch the window.                       *)
WakeFairness ==
    /\ \A r \in Requests : WF_wakeVars(Work(r))
    /\ WF_wakeVars(Poll)
    /\ WF_wakeVars(Sleep)
    /\ WF_wakeVars(Schedule)
    /\ WF_wakeVars(mail /\ TakeEvents)

WakeSpec == WakeInit /\ [][WakeNext]_wakeVars /\ WakeFairness

-----------------------------------------------------------------------------
(* "notify exactly once after install has run" and "rejected work installs   *)
(* no owner and stays silent" (job.rs): a request wakes the loop at most     *)
(* once, and then there is an owner to poll and something for it to find.    *)
WakeFindsItsResult ==
    \A r \in Requests :
        /\ woken[r] <= 1
        /\ woken[r] = 1 => owner[r] \notin {"none", "held"} /\ channel[r] # "empty"
        /\ wake[r] = "rejected" => woken[r] = 0

(* The two threads never both believe the call is theirs, and the one that   *)
(* won it still finds the callback; arm never meets a rejected wake, which   *)
(* the code calls unreachable.                                               *)
CallIsClaimedOnce ==
    \A r \in Requests :
        /\ ~(task[r] \in {"fire", "call"} /\ current = r /\ at \in {"fire", "call"})
        /\ (task[r] = "call" \/ (at = "call" /\ current = r)) => notify[r]
        /\ at = "arm" /\ current = r => wake[r] \in {"pending", "signaled"}

(* The inductive strengthening: where a request's wake is, by where the two  *)
(* threads are with it.  Until the owner is installed and arm has run, the   *)
(* wake is pending exactly while the worker has not signaled; after that it  *)
(* is armed exactly until one side claims the call.                          *)
LoopInv ==
    /\ at \in {"asleep", "awake", "polled"} <=> current = NoRequest
    /\ \A r \in Requests : owner[r] = "held" => current = r

Unsubmitted(r) ==
    /\ task[r] = "none"
    /\ wake[r] = "pending"
    /\ notify[r]
    /\ woken[r] = 0
    /\ channel[r] = "empty"

SubmittingInv(r) ==
    /\ woken[r] = 0
    /\ notify[r]
    /\ at = "schedule" => owner[r] = "held" /\ Unsubmitted(r)
    /\ at = "reject" => owner[r] = "held" /\ task[r] = "done" /\ wake[r] = "signaled"
    /\ at \in {"install", "arm"} =>
        /\ owner[r] = IF at = "arm" THEN "installed" ELSE "held"
        /\ \/ task[r] \in {"queued", "running", "signal"} /\ wake[r] = "pending"
           \/ task[r] = "done" /\ wake[r] = "signaled"
    /\ at = "fire" => owner[r] = "installed" /\ task[r] = "done" /\ wake[r] = "signaled"
    /\ at = "call" => owner[r] = "installed" /\ task[r] = "done" /\ wake[r] = "fired"

SubmittedInv(r) ==
    \/ wake[r] = "rejected" /\ task[r] = "done" /\ woken[r] = 0
    \/ wake[r] = "armed" /\ task[r] # "none" /\ task[r] # "call" /\ notify[r] /\ woken[r] = 0
    \/ wake[r] = "fired" /\ task[r] = "call" /\ notify[r] /\ woken[r] = 0
    \/ wake[r] = "fired" /\ task[r] = "done" /\ ~notify[r] /\ woken[r] = 1

ChannelInv(r) ==
    /\ task[r] \in {"none", "queued", "running"} => channel[r] = "empty"
    /\ task[r] \in {"signal", "fire", "call"} => channel[r] # "empty"
    /\ wake[r] \in {"signaled", "fired"} => channel[r] # "empty"

WakeInv ==
    /\ WakeTypeOK
    /\ LoopInv
    /\ \A r \in Requests :
        /\ owner[r] = "none" => current # r /\ Unsubmitted(r)
        /\ current = r => SubmittingInv(r)
        /\ current # r /\ owner[r] # "none" => SubmittedInv(r)
        /\ ChannelInv(r)

(* An installed request always gives its slot back: a result is never left   *)
(* behind by a loop that went to sleep just before, or just after, it came.  *)
SlotIsReleased ==
    \A r \in Requests : owner[r] = "installed" ~> owner[r] # "installed"
=============================================================================
