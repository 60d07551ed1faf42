---------------------------- MODULE WorkerRequests ----------------------------
(***************************************************************************)
(* Requests to isolated decode processes (crates/viewr/src/sandbox.rs,     *)
(* load_via_worker and below; crates/viewr/src/worker_limit.rs).           *)
(*                                                                         *)
(* A request takes an idle process from the pool or starts one, and hands  *)
(* it to a thread of its own that writes the request and reads the answer. *)
(* Meanwhile the decode thread waits for that thread, for the deadline and *)
(* for the request to be superseded; then it kills the process and waits a *)
(* grace period, after which it leaves the thread to itself.  A worker     *)
(* that nobody owns any more is killed and reaped (Drop for DaemonWorker). *)
(*                                                                         *)
(* A request may be superseded at any time, so the model does not keep     *)
(* when it was.  A process is named by its id, which the system gives away *)
(* again once the process is reaped.                                       *)
(***************************************************************************)
EXTENDS Naturals, FiniteSets, Sequences

CONSTANTS
    Requests,    (* the requests that are made, each once                    *)
    NoRequest,
    Ids,         (* process ids                                              *)
    NoProcess,
    Callers,     (* decode threads, so requests at a time                    *)
    MaxIdle      (* MAX_IDLE_WORKERS                                         *)

ASSUME RequestAssumption ==
    /\ NoRequest \notin Requests /\ Requests \cap {"none", "error"} = {}
    /\ NoProcess \notin Ids
    /\ IsFiniteSet(Requests)
    /\ Callers \in Nat \ {0}
    /\ MaxIdle \in Nat

VARIABLES
    pool,        (* WORKER_POOL                                              *)
    process,     (* what runs under each id                                  *)
    stage,       (* the decode thread of each request                        *)
    exchange,    (* the request thread of each request                       *)
    worker,      (* the id of the process the request was given              *)
    got,         (* whose pixels the request thread read                     *)
    result       (* what the decode thread returned: whose pixels, or not    *)

vars == <<pool, process, stage, exchange, worker, got, result>>

(* user: the request it was given to, if it is not idle; decoding: what it   *)
(* works on; unread: whose pixels are in its pipe; stopped: its user killed  *)
(* it.                                                                       *)
Free == [life |-> "free", user |-> NoRequest, decoding |-> NoRequest,
         unread |-> NoRequest, stopped |-> FALSE]

Started(r) == [Free EXCEPT !.life = "alive", !.user = r]

Init ==
    /\ pool = <<>>
    /\ process = [p \in Ids |-> Free]
    /\ stage = [r \in Requests |-> "new"]
    /\ exchange = [r \in Requests |-> "none"]
    /\ worker = [r \in Requests |-> NoProcess]
    /\ got = [r \in Requests |-> NoRequest]
    /\ result = [r \in Requests |-> "none"]

Mine(r) == process[worker[r]]

HostKeeps    == UNCHANGED got
ThreadKeeps  == UNCHANGED <<pool, stage, worker, result>>
ProcessKeeps == UNCHANGED <<pool, stage, exchange, worker, got, result>>

At(r, s)    == stage[r] = s
Goes(r, s)  == stage' = [stage EXCEPT ![r] = s]
Runs(r, s)  == exchange' = [exchange EXCEPT ![r] = s]

Returns(r, what) ==
    /\ Goes(r, "returned")
    /\ result' = [result EXCEPT ![r] = what]

(* Drop for DaemonWorker: kill and wait.                                     *)
Reaped(p) == [process EXCEPT ![p] = Free]

-----------------------------------------------------------------------------
(* The decode thread.                                                        *)

(* load_via_worker, the input read and the request still current.            *)
Begin(r) ==
    /\ At(r, "new")
    /\ Cardinality({q \in Requests : stage[q] \notin {"new", "returned"}}) < Callers
    /\ Goes(r, "get")
    /\ UNCHANGED <<pool, process, exchange, worker, result>> /\ HostKeeps

(* get_worker: the youngest idle process that still runs.                    *)
TakeIdle(r) ==
    LET p == pool[Len(pool)] IN
    /\ At(r, "get")
    /\ pool # <<>>
    /\ pool' = SubSeq(pool, 1, Len(pool) - 1)
    /\ \/ /\ process[p].life = "alive"
          /\ process' = [process EXCEPT ![p].user = r]
          /\ worker' = [worker EXCEPT ![r] = p]
          /\ Goes(r, "ready")
       \/ /\ process[p].life = "dead"
          /\ process' = Reaped(p)
          /\ UNCHANGED <<worker, stage>>
    /\ UNCHANGED <<exchange, result>> /\ HostKeeps

Spawn(r) ==
    /\ At(r, "get")
    /\ pool = <<>>
    /\ \/ \E p \in Ids :
            /\ process[p] = Free
            /\ process' = [process EXCEPT ![p] = Started(r)]
            /\ worker' = [worker EXCEPT ![r] = p]
            /\ Goes(r, "ready")
            /\ UNCHANGED result
       \/ Returns(r, "error") /\ UNCHANGED <<process, worker>>
    /\ UNCHANGED <<pool, exchange>> /\ HostKeeps

(* The worker of a request that is superseded by now, or whose thread does   *)
(* not start, is dropped.                                                    *)
StartExchange(r) ==
    /\ At(r, "ready")
    /\ \/ /\ Goes(r, "waiting")
          /\ Runs(r, "send")
          /\ UNCHANGED <<process, result>>
       \/ /\ process' = Reaped(worker[r])
          /\ Returns(r, "error")
          /\ UNCHANGED exchange
    /\ UNCHANGED <<pool, worker>> /\ HostKeeps

-----------------------------------------------------------------------------
(* The request thread: exchange_with_worker.                                 *)

(* Wrong on purpose: the worker is kept whatever became of the exchange.     *)
FailKeepingWorker(r) ==
    /\ Runs(r, "done")
    /\ UNCHANGED process

(* An error drops the worker before the result is sent.                      *)
FailExchange(r) ==
    /\ Runs(r, "failed")
    /\ process' = Reaped(worker[r])

SendInput(r) ==
    /\ exchange[r] = "send"
    /\ \/ /\ Mine(r).life = "alive"
          /\ process' = [process EXCEPT ![worker[r]].decoding = r]
          /\ Runs(r, "receive")
       \/ Mine(r).life = "dead" /\ FailExchange(r)
    /\ UNCHANGED got /\ ThreadKeeps

(* The whole answer is read and acknowledged; or it is not, because it is an *)
(* error, or too large for the host's memory, or the process is gone.        *)
ReceiveOutput(r) ==
    /\ exchange[r] = "receive"
    /\ \/ /\ Mine(r).life = "alive"
          /\ Mine(r).unread # NoRequest
          /\ process' = [process EXCEPT ![worker[r]].unread = NoRequest]
          /\ got' = [got EXCEPT ![r] = Mine(r).unread]
          /\ Runs(r, "done")
       \/ /\ Mine(r).unread # NoRequest \/ Mine(r).life = "dead"
          /\ FailExchange(r)
          /\ UNCHANGED got
    /\ ThreadKeeps

(* The thread unwinds; the host finds the channel disconnected.              *)
UnwindExchange(r) ==
    /\ exchange[r] \in {"send", "receive"}
    /\ Runs(r, "failed")
    /\ process' = Reaped(worker[r])
    /\ UNCHANGED got /\ ThreadKeeps

(* Nobody receives any more: what is sent is dropped, and the worker with it.*)
DropLateWorker(r) ==
    /\ At(r, "returned")
    /\ exchange[r] = "done"
    /\ Runs(r, "failed")
    /\ process' = Reaped(worker[r])
    /\ UNCHANGED got /\ ThreadKeeps

-----------------------------------------------------------------------------
(* The decode thread while it waits: run_worker_operation_with_cancellation. *)

(* return_worker.  A full pool drops the worker.                             *)
Pooled(p) ==
    IF Len(pool) < MaxIdle
    THEN /\ pool' = Append(pool, p)
         /\ process' = [process EXCEPT ![p].user = NoRequest]
    ELSE /\ process' = Reaped(p)
         /\ UNCHANGED pool

FinishExchange(r) ==
    /\ At(r, "waiting")
    /\ \/ /\ exchange[r] = "done"
          /\ Pooled(worker[r])
          /\ Returns(r, got[r])
          /\ Runs(r, "ended")
       \/ /\ exchange[r] = "failed"
          /\ Returns(r, "error")
          /\ UNCHANGED <<pool, process, exchange>>
    /\ UNCHANGED worker /\ HostKeeps

(* WorkerKiller::terminate.  It kills what runs under the id now, and may    *)
(* fail to.  An id nobody has is no error.                                   *)
Terminate(r) ==
    LET p == worker[r] IN
    \/ UNCHANGED process
    \/ /\ process[p].life = "alive"
       /\ process' = [process EXCEPT ![p].life = "dead",
                                      ![p].stopped = (process[p].user = r)]

(* Wrong on purpose: the decode thread waits for its answer only.            *)
NeverStop(r) == FALSE

(* Superseded at any time, or out of time, whether or not the answer is      *)
(* there: both are asked before the channel is.                              *)
StopExchange(r) ==
    /\ At(r, "waiting")
    /\ Goes(r, "stopping")
    /\ Terminate(r)
    /\ UNCHANGED <<pool, exchange, worker, got, result>>

(* Wrong on purpose: a worker whose answer came is kept for the next one.    *)
ReturnStopped(r) ==
    /\ At(r, "stopping")
    /\ \/ /\ exchange[r] = "done"
          /\ Pooled(worker[r])
          /\ Runs(r, "ended")
       \/ UNCHANGED <<pool, process, exchange>>
    /\ Returns(r, "error")
    /\ UNCHANGED worker /\ HostKeeps

(* The rest of stop_worker_operation: an answer that comes within the grace  *)
(* period is dropped with its worker; after it the thread is left alone.     *)
DropStopped(r) ==
    /\ At(r, "stopping")
    /\ \/ /\ exchange[r] = "done"
          /\ process' = Reaped(worker[r])
          /\ Runs(r, "ended")
       \/ UNCHANGED <<process, exchange>>
    /\ Returns(r, "error")
    /\ UNCHANGED <<pool, worker>> /\ HostKeeps

-----------------------------------------------------------------------------
(* The processes.                                                            *)

Answer(p) ==
    /\ process[p].life = "alive"
    /\ process[p].decoding # NoRequest
    /\ process[p].unread = NoRequest
    /\ process' = [process EXCEPT ![p].unread = process[p].decoding,
                                   ![p].decoding = NoRequest]
    /\ ProcessKeeps

Die(p) ==
    /\ process[p].life = "alive"
    /\ process' = [process EXCEPT ![p].life = "dead"]
    /\ ProcessKeeps

-----------------------------------------------------------------------------
HostStep(r) ==
    \/ TakeIdle(r)
    \/ Spawn(r)
    \/ StartExchange(r)
    \/ FinishExchange(r)
    \/ StopExchange(r)
    \/ DropStopped(r)

ThreadStep(r) ==
    \/ SendInput(r)
    \/ ReceiveOutput(r)
    \/ DropLateWorker(r)

Next ==
    \/ \E r \in Requests : Begin(r) \/ HostStep(r) \/ ThreadStep(r)
                             \/ UnwindExchange(r)
    \/ \E p \in Ids : Answer(p) \/ Die(p)

(* Threads run and the clock goes on; a process owes nobody an answer.       *)
Fairness == \A r \in Requests : WF_vars(HostStep(r)) /\ WF_vars(ThreadStep(r))

Spec == Init /\ [][Next]_vars /\ Fairness

-----------------------------------------------------------------------------
InPool == {pool[i] : i \in 1..Len(pool)}

(* The pixels a request returns are the answer to that request, however the  *)
(* ones before it ended with the same process.                               *)
PixelsAreOwn == \A r, q \in Requests : result[r] = q => q = r

(* A request still owns its process: its decode thread before the exchange,  *)
(* its request thread during and after it.                                   *)
Owns(r) ==
    \/ At(r, "ready")
    \/ exchange[r] \in {"send", "receive", "done"}

(* Every process is idle in the pool, once, or given to one request that     *)
(* still owns it, so that none outlives viewr's interest in it; and an idle  *)
(* one was not stopped and has nothing to say.                               *)
EveryProcessHasOneOwner ==
    /\ Len(pool) <= MaxIdle
    /\ \A i, j \in 1..Len(pool) : pool[i] = pool[j] => i = j
    /\ \A r \in Requests : Owns(r) => Mine(r).life # "free" /\ Mine(r).user = r
    /\ \A p \in Ids :
         /\ p \in InPool <=> process[p].life # "free" /\ process[p].user = NoRequest
         /\ process[p].user # NoRequest =>
              Owns(process[p].user) /\ worker[process[p].user] = p
         /\ p \in InPool =>
              /\ ~process[p].stopped
              /\ process[p].decoding = NoRequest
              /\ process[p].unread = NoRequest

(* The decode thread gets its answer or its error, and so drops its permit,  *)
(* even if the process hangs and cannot be killed.                           *)
RequestReturns == \A r \in Requests : At(r, "get") ~> At(r, "returned")
=============================================================================
