------------------------- MODULE WorkerRequestsProofs -------------------------
(***************************************************************************)
(* Who owns a decode process and whose pixels it holds, for any number of    *)
(* requests, processes and decode threads.                                   *)
(*                                                                           *)
(* The hard fact is that a process returns to the pool only after a whole    *)
(* exchange that nobody stopped; the invariant therefore ties what is in     *)
(* the pipes of a process to the step its request is at.                     *)
(***************************************************************************)
EXTENDS WorkerRequests, TLAPS

Processes ==
    [life : {"free", "alive", "dead"}, user : Requests \cup {NoRequest},
     decoding : Requests \cup {NoRequest}, unread : Requests \cup {NoRequest},
     stopped : BOOLEAN]

TypeOK ==
    /\ pool \in Seq(Ids)
    /\ process \in [Ids -> Processes]
    /\ stage \in [Requests -> {"new", "get", "ready", "waiting", "stopping", "returned"}]
    /\ exchange \in [Requests -> {"none", "send", "receive", "done", "failed", "ended"}]
    /\ worker \in [Requests -> Ids \cup {NoProcess}]
    /\ got \in [Requests -> Requests \cup {NoRequest}]
    /\ result \in [Requests -> Requests \cup {NoRequest, "none", "error"}]

(* The two threads of a request.                                             *)
StageInv ==
    \A r \in Requests :
        /\ stage[r] \in {"new", "get", "ready"} => exchange[r] = "none"
        /\ stage[r] \in {"waiting", "stopping"} =>
             exchange[r] \in {"send", "receive", "done", "failed"}

(* What is in the pipes of a request's process, and what its thread has read.*)
PipeInv ==
    \A r \in Requests :
        /\ Owns(r) => worker[r] \in Ids
        /\ stage[r] = "ready" \/ exchange[r] \in {"send", "done"} =>
             Mine(r).decoding = NoRequest /\ Mine(r).unread = NoRequest
        /\ exchange[r] = "receive" =>
             \/ Mine(r).decoding \in {r, NoRequest} /\ Mine(r).unread = NoRequest
             \/ Mine(r).decoding = NoRequest /\ Mine(r).unread = r
        /\ exchange[r] = "done" => got[r] = r

(* A process is stopped by the request that uses it, which then lets it go.  *)
StopInv ==
    \A p \in Ids :
        /\ process[p].life = "free" => process[p] = Free
        /\ process[p].stopped =>
             /\ process[p].life = "dead"
             /\ process[p].user \in Requests
             /\ stage[process[p].user] \in {"stopping", "returned"}

(* EveryProcessHasOneOwner, part by part.                                    *)
PoolInv ==
    /\ Len(pool) <= MaxIdle
    /\ \A i, j \in 1..Len(pool) : pool[i] = pool[j] => i = j

UserInv ==
    \A r \in Requests : Owns(r) => Mine(r).life # "free" /\ Mine(r).user = r

OwnerInv ==
    \A p \in Ids :
        /\ p \in InPool <=> process[p].life # "free" /\ process[p].user = NoRequest
        /\ process[p].user # NoRequest =>
             Owns(process[p].user) /\ worker[process[p].user] = p
        /\ p \in InPool =>
             /\ ~process[p].stopped
             /\ process[p].decoding = NoRequest
             /\ process[p].unread = NoRequest

WorkerInv ==
    /\ TypeOK
    /\ StageInv
    /\ PipeInv
    /\ StopInv
    /\ PoolInv
    /\ UserInv
    /\ OwnerInv
    /\ PixelsAreOwn

USE DEF TypeOK, StageInv, PipeInv, StopInv, PoolInv, UserInv, OwnerInv, PixelsAreOwn,
        Processes, Free, Mine, Owns, At, Goes, Runs, HostKeeps, ThreadKeeps,
        ProcessKeeps, Returns, Reaped

(* At first no request has begun and no process runs.                        *)
LEMMA InitHolds == Init => WorkerInv
  BY RequestAssumption DEF Init, WorkerInv, InPool

(* A free id carries nothing of the process that had it last.                *)
LEMMA FreeIsBlank == ASSUME WorkerInv PROVE \A q \in Ids : process[q].life = "free" => process[q] = Free
  BY DEF WorkerInv

(* A request that gives up its process, which is killed and reaped.          *)
LEMMA ReapingKeeps ==
  ASSUME WorkerInv,
         NEW r \in Requests, Owns(r),
         NEW s \in {"waiting", "stopping", "returned"},
         NEW x \in {"none", "failed", "ended"},
         NEW v \in {result[r], "error"},
         s = "returned" \/ (s = stage[r] /\ x = "failed"),
         x = "none" => stage[r] = "ready",
         process' = Reaped(worker[r]),
         stage' = [stage EXCEPT ![r] = s],
         exchange' = [exchange EXCEPT ![r] = x],
         result' = [result EXCEPT ![r] = v],
         UNCHANGED <<pool, worker, got>>
  PROVE  WorkerInv'
  <1>. /\ worker[r] \in Ids
       /\ process[worker[r]].user = r
    BY DEF WorkerInv
  <1>1. TypeOK'
    BY RequestAssumption DEF WorkerInv, InPool
  <1>2. StageInv'
    BY RequestAssumption DEF WorkerInv, InPool
  <1>3. PipeInv'
    BY RequestAssumption DEF WorkerInv, InPool
  <1>4. StopInv'
    BY RequestAssumption DEF WorkerInv, InPool
  <1>5. PoolInv'
    BY RequestAssumption DEF WorkerInv, InPool
  <1>6. UserInv'
    BY RequestAssumption DEF WorkerInv, InPool
  <1>7. OwnerInv'
    BY RequestAssumption DEF WorkerInv, InPool
  <1>8. PixelsAreOwn'
    BY RequestAssumption DEF WorkerInv, InPool
  <1>. QED  BY <1>1, <1>2, <1>3, <1>4, <1>5, <1>6, <1>7, <1>8 DEF WorkerInv

(* A new request has no process.                                             *)
LEMMA BeginKeeps == ASSUME WorkerInv, NEW r \in Requests, Begin(r) PROVE WorkerInv'
  <1>1. TypeOK'
    BY RequestAssumption DEF WorkerInv, Begin, InPool
  <1>2. StageInv'
    BY RequestAssumption DEF WorkerInv, Begin, InPool
  <1>3. PipeInv'
    BY RequestAssumption DEF WorkerInv, Begin, InPool
  <1>4. StopInv'
    BY RequestAssumption DEF WorkerInv, Begin, InPool
  <1>5. PoolInv'
    BY RequestAssumption DEF WorkerInv, Begin, InPool
  <1>6. UserInv'
    BY RequestAssumption DEF WorkerInv, Begin, InPool
  <1>7. OwnerInv'
    BY RequestAssumption DEF WorkerInv, Begin, InPool
  <1>8. PixelsAreOwn'
    BY RequestAssumption DEF WorkerInv, Begin, InPool
  <1>. QED  BY <1>1, <1>2, <1>3, <1>4, <1>5, <1>6, <1>7, <1>8 DEF WorkerInv

(* A process started under a free id is the request's own.                   *)
LEMMA SpawnKeeps == ASSUME WorkerInv, NEW r \in Requests, Spawn(r) PROVE WorkerInv'
  <1>1. CASE Returns(r, "error") /\ UNCHANGED <<process, worker>>
    <2>1. TypeOK'
      BY RequestAssumption, <1>1 DEF WorkerInv, Spawn, InPool
    <2>2. StageInv'
      BY RequestAssumption, <1>1 DEF WorkerInv, Spawn, InPool
    <2>3. PipeInv'
      BY RequestAssumption, <1>1 DEF WorkerInv, Spawn, InPool
    <2>4. StopInv'
      BY RequestAssumption, <1>1 DEF WorkerInv, Spawn, InPool
    <2>5. PoolInv'
      BY RequestAssumption, <1>1 DEF WorkerInv, Spawn, InPool
    <2>6. UserInv'
      BY RequestAssumption, <1>1 DEF WorkerInv, Spawn, InPool
    <2>7. OwnerInv'
      BY RequestAssumption, <1>1 DEF WorkerInv, Spawn, InPool
    <2>8. PixelsAreOwn'
      BY RequestAssumption, <1>1 DEF WorkerInv, Spawn, InPool
    <2>. QED  BY <2>1, <2>2, <2>3, <2>4, <2>5, <2>6, <2>7, <2>8 DEF WorkerInv
  <1>2. ASSUME NEW p \in Ids, process[p] = Free,
               process' = [process EXCEPT ![p] = Started(r)],
               worker' = [worker EXCEPT ![r] = p],
               Goes(r, "ready"),
               UNCHANGED result
        PROVE  WorkerInv'
    <2>. UNCHANGED <<pool, exchange, got, result>> /\ stage[r] = "get"
      BY <1>2 DEF Spawn
    <2>. /\ Started(r).life = "alive"
         /\ Started(r).user = r
         /\ Started(r).decoding = NoRequest
         /\ Started(r).unread = NoRequest
         /\ Started(r).stopped = FALSE
         /\ Started(r) \in Processes
      BY DEF Started
    <2>1. TypeOK'
      BY RequestAssumption, <1>2 DEF WorkerInv, InPool
    <2>2. StageInv'
      BY RequestAssumption, <1>2 DEF WorkerInv, InPool
    <2>3. PipeInv'
      BY RequestAssumption, <1>2 DEF WorkerInv, InPool
    <2>4. StopInv'
      <3>1. /\ process'[p].life # "free"
            /\ ~process'[p].stopped
            /\ \A q \in Ids \ {p} : process'[q] = process[q]
        BY <1>2 DEF WorkerInv
      <3>2. \A q \in Ids : process'[q].life = "free" => process'[q] = Free
        BY <3>1, FreeIsBlank
      <3>3. ASSUME NEW q \in Ids, process'[q].stopped
            PROVE  /\ process'[q].life = "dead"
                   /\ process'[q].user \in Requests
                   /\ stage'[process'[q].user] \in {"stopping", "returned"}
        BY <3>1, <3>3, <1>2 DEF WorkerInv
      <3>. QED  BY <3>2, <3>3
    <2>5. PoolInv'
      BY RequestAssumption, <1>2 DEF WorkerInv, InPool
    <2>6. UserInv'
      BY RequestAssumption, <1>2 DEF WorkerInv, InPool
    <2>7. OwnerInv'
      BY RequestAssumption, <1>2 DEF WorkerInv, InPool
    <2>8. PixelsAreOwn'
      BY RequestAssumption, <1>2 DEF WorkerInv, InPool
    <2>. QED  BY <2>1, <2>2, <2>3, <2>4, <2>5, <2>6, <2>7, <2>8 DEF WorkerInv
  <1>. QED  BY <1>1, <1>2 DEF Spawn

(* A worker that is not used after all is dropped.                           *)
LEMMA StartExchangeKeeps ==
  ASSUME WorkerInv, NEW r \in Requests, StartExchange(r) PROVE WorkerInv'
  <1>1. CASE Goes(r, "waiting") /\ Runs(r, "send") /\ UNCHANGED <<process, result>>
    <2>1. TypeOK'
      BY RequestAssumption, <1>1 DEF WorkerInv, StartExchange, InPool
    <2>2. StageInv'
      BY RequestAssumption, <1>1 DEF WorkerInv, StartExchange, InPool
    <2>3. PipeInv'
      BY RequestAssumption, <1>1 DEF WorkerInv, StartExchange, InPool
    <2>4. StopInv'
      BY RequestAssumption, <1>1 DEF WorkerInv, StartExchange, InPool
    <2>5. PoolInv'
      BY RequestAssumption, <1>1 DEF WorkerInv, StartExchange, InPool
    <2>6. UserInv'
      BY RequestAssumption, <1>1 DEF WorkerInv, StartExchange, InPool
    <2>7. OwnerInv'
      BY RequestAssumption, <1>1 DEF WorkerInv, StartExchange, InPool
    <2>8. PixelsAreOwn'
      BY RequestAssumption, <1>1 DEF WorkerInv, StartExchange, InPool
    <2>. QED  BY <2>1, <2>2, <2>3, <2>4, <2>5, <2>6, <2>7, <2>8 DEF WorkerInv
  <1>2. CASE process' = Reaped(worker[r]) /\ Returns(r, "error") /\ UNCHANGED exchange
    <2>1. /\ stage[r] = "ready"
          /\ Owns(r)
          /\ exchange[r] = "none"
          /\ exchange' = [exchange EXCEPT ![r] = "none"]
      BY <1>2 DEF WorkerInv, StartExchange
    <2>. QED  BY <1>2, <2>1, ReapingKeeps DEF StartExchange
  <1>. QED  BY <1>1, <1>2 DEF StartExchange

(* A request thread that gives up gives up its worker.                       *)
LEMMA FailKeeps ==
  ASSUME WorkerInv, NEW r \in Requests,
         exchange[r] \in {"send", "receive", "done"},
         process' = Reaped(worker[r]),
         Runs(r, "failed"),
         UNCHANGED got, ThreadKeeps
  PROVE  WorkerInv'
  <1>1. /\ Owns(r)
        /\ stage[r] \in {"waiting", "stopping", "returned"}
        /\ stage' = [stage EXCEPT ![r] = stage[r]]
        /\ result' = [result EXCEPT ![r] = result[r]]
    BY DEF WorkerInv
  <1>. QED  BY <1>1, ReapingKeeps

(* The process now works on its user's request and no other.                 *)
LEMMA SendInputKeeps == ASSUME WorkerInv, NEW r \in Requests, SendInput(r) PROVE WorkerInv'
  <1>1. CASE /\ process' = [process EXCEPT ![worker[r]].decoding = r]
             /\ Mine(r).life = "alive"
             /\ Runs(r, "receive")
    <2>. /\ worker[r] \in Ids
         /\ process[worker[r]] \in Processes
         /\ process[worker[r]].user = r
         /\ exchange[r] = "send"
         /\ UNCHANGED <<pool, stage, worker, got, result>>
      BY <1>1 DEF WorkerInv, SendInput
    <2>1. TypeOK'
      BY RequestAssumption, <1>1 DEF WorkerInv, InPool
    <2>2. StageInv'
      BY RequestAssumption, <1>1 DEF WorkerInv, InPool
    <2>3. PipeInv'
      BY RequestAssumption, <1>1 DEF WorkerInv, InPool
    <2>4. StopInv'
      <3>1. /\ process'[worker[r]].life # "free"
            /\ process'[worker[r]].user = r /\ process'[worker[r]].life = process[worker[r]].life /\ process'[worker[r]].stopped = process[worker[r]].stopped
            /\ \A q \in Ids \ {worker[r]} : process'[q] = process[q]
        BY <1>1 DEF WorkerInv
      <3>2. \A q \in Ids : process'[q].life = "free" => process'[q] = Free
        BY <3>1, FreeIsBlank
      <3>3. ASSUME NEW q \in Ids, process'[q].stopped
            PROVE  /\ process'[q].life = "dead"
                   /\ process'[q].user \in Requests
                   /\ stage'[process'[q].user] \in {"stopping", "returned"}
        BY <3>1, <3>3, <1>1 DEF WorkerInv
      <3>. QED  BY <3>2, <3>3
    <2>5. PoolInv'
      BY RequestAssumption, <1>1 DEF WorkerInv, InPool
    <2>6. UserInv'
      BY RequestAssumption, <1>1 DEF WorkerInv, InPool
    <2>7. OwnerInv'
      BY RequestAssumption, <1>1 DEF WorkerInv, InPool
    <2>8. PixelsAreOwn'
      BY RequestAssumption, <1>1 DEF WorkerInv, InPool
    <2>. QED  BY <2>1, <2>2, <2>3, <2>4, <2>5, <2>6, <2>7, <2>8 DEF WorkerInv
  <1>2. CASE FailExchange(r)
    BY <1>2, FailKeeps DEF SendInput, FailExchange
  <1>. QED  BY <1>1, <1>2 DEF SendInput

(* What is read from a request's process is the answer to that request.      *)
LEMMA ReceiveOutputKeeps ==
  ASSUME WorkerInv, NEW r \in Requests, ReceiveOutput(r) PROVE WorkerInv'
  <1>1. CASE /\ Mine(r).unread # NoRequest
             /\ process' = [process EXCEPT ![worker[r]].unread = NoRequest]
             /\ got' = [got EXCEPT ![r] = Mine(r).unread]
             /\ Runs(r, "done")
    <2>. /\ worker[r] \in Ids
         /\ process[worker[r]] \in Processes
         /\ process[worker[r]].user = r
         /\ exchange[r] = "receive"
         /\ Mine(r).unread = r /\ Mine(r).decoding = NoRequest
         /\ UNCHANGED <<pool, stage, worker, result>>
      BY <1>1, RequestAssumption DEF WorkerInv, ReceiveOutput
    <2>1. TypeOK'
      BY RequestAssumption, <1>1 DEF WorkerInv, InPool
    <2>2. StageInv'
      BY RequestAssumption, <1>1 DEF WorkerInv, InPool
    <2>3. PipeInv'
      BY RequestAssumption, <1>1 DEF WorkerInv, InPool
    <2>4. StopInv'
      <3>1. /\ process'[worker[r]].life # "free"
            /\ process'[worker[r]].user = r /\ process'[worker[r]].life = process[worker[r]].life /\ process'[worker[r]].stopped = process[worker[r]].stopped
            /\ \A q \in Ids \ {worker[r]} : process'[q] = process[q]
        BY <1>1 DEF WorkerInv
      <3>2. \A q \in Ids : process'[q].life = "free" => process'[q] = Free
        BY <3>1, FreeIsBlank
      <3>3. ASSUME NEW q \in Ids, process'[q].stopped
            PROVE  /\ process'[q].life = "dead"
                   /\ process'[q].user \in Requests
                   /\ stage'[process'[q].user] \in {"stopping", "returned"}
        BY <3>1, <3>3, <1>1 DEF WorkerInv
      <3>. QED  BY <3>2, <3>3
    <2>5. PoolInv'
      BY RequestAssumption, <1>1 DEF WorkerInv, InPool
    <2>6. UserInv'
      BY RequestAssumption, <1>1 DEF WorkerInv, InPool
    <2>7. OwnerInv'
      BY RequestAssumption, <1>1 DEF WorkerInv, InPool
    <2>8. PixelsAreOwn'
      BY RequestAssumption, <1>1 DEF WorkerInv, InPool
    <2>. QED  BY <2>1, <2>2, <2>3, <2>4, <2>5, <2>6, <2>7, <2>8 DEF WorkerInv
  <1>2. CASE FailExchange(r) /\ UNCHANGED got
    BY <1>2, FailKeeps DEF ReceiveOutput, FailExchange
  <1>. QED  BY <1>1, <1>2 DEF ReceiveOutput

(* An exchange that unwinds gives up its worker.                             *)
LEMMA UnwindExchangeKeeps ==
  ASSUME WorkerInv, NEW r \in Requests, UnwindExchange(r) PROVE WorkerInv'
  BY FailKeeps DEF UnwindExchange

(* A worker that was started too late is given up.                           *)
LEMMA DropLateWorkerKeeps ==
  ASSUME WorkerInv, NEW r \in Requests, DropLateWorker(r) PROVE WorkerInv'
  BY FailKeeps DEF DropLateWorker

(* Only a process the request still uses is marked as stopped.               *)
LEMMA StopExchangeKeeps ==
  ASSUME WorkerInv, NEW r \in Requests, StopExchange(r) PROVE WorkerInv'
  <1>. DEFINE p == worker[r]
  <1>. /\ UNCHANGED <<pool, exchange, worker, got, result>>
       /\ stage[r] = "waiting"
       /\ stage' = [stage EXCEPT ![r] = "stopping"]
    BY DEF StopExchange
  <1>1. CASE UNCHANGED process
    <2>1. TypeOK'
      BY RequestAssumption, <1>1 DEF WorkerInv, InPool
    <2>2. StageInv'
      BY RequestAssumption, <1>1 DEF WorkerInv, InPool
    <2>3. PipeInv'
      BY RequestAssumption, <1>1 DEF WorkerInv, InPool
    <2>4. StopInv'
      BY RequestAssumption, <1>1 DEF WorkerInv, InPool
    <2>5. PoolInv'
      BY RequestAssumption, <1>1 DEF WorkerInv, InPool
    <2>6. UserInv'
      BY RequestAssumption, <1>1 DEF WorkerInv, InPool
    <2>7. OwnerInv'
      BY RequestAssumption, <1>1 DEF WorkerInv, InPool
    <2>8. PixelsAreOwn'
      BY RequestAssumption, <1>1 DEF WorkerInv, InPool
    <2>. QED  BY <2>1, <2>2, <2>3, <2>4, <2>5, <2>6, <2>7, <2>8 DEF WorkerInv
  <1>2. CASE /\ process[p].life = "alive"
             /\ process' = [process EXCEPT ![p].life = "dead",
                                            ![p].stopped = (process[p].user = r)]
    <2>. SUFFICES ASSUME p \in Ids PROVE WorkerInv'
      <3>1. ASSUME p \notin Ids PROVE process' = process
        <4>1. process \in [Ids -> Processes]
          BY DEF WorkerInv, TypeOK
        <4>. QED  BY <1>2, <3>1, <4>1
      <3>. QED  BY <1>1, <3>1
    <2>0. /\ process[p] \in Processes
         /\ process[p].stopped = FALSE
         /\ process'[p] = [process[p] EXCEPT !.life = "dead", !.stopped = (process[p].user = r)]
         /\ \A q \in Ids \ {p} : process'[q] = process[q]
      BY <1>2 DEF WorkerInv
    <2>1. TypeOK'
      <3>1. (process[p].user = r) \in BOOLEAN
        OBVIOUS
      <3>2. [process[p] EXCEPT !.life = "dead", !.stopped = (process[p].user = r)] \in Processes
        BY <2>0, <3>1
      <3>. QED  BY <1>2, <2>0, <3>2 DEF WorkerInv
    <2>2. StageInv'
      BY RequestAssumption, <1>2, <2>0 DEF WorkerInv, InPool
    <2>3. PipeInv'
      BY RequestAssumption, <1>2, <2>0 DEF WorkerInv, InPool
    <2>4. StopInv'
      <3>1. /\ process'[p].life # "free"
            /\ process'[p].life = "dead" /\ process'[p].stopped = (process[p].user = r)
            /\ \A q \in Ids \ {p} : process'[q] = process[q]
        BY <1>2 DEF WorkerInv
      <3>2. \A q \in Ids : process'[q].life = "free" => process'[q] = Free
        BY <3>1, FreeIsBlank
      <3>3. ASSUME NEW q \in Ids, process'[q].stopped
            PROVE  /\ process'[q].life = "dead"
                   /\ process'[q].user \in Requests
                   /\ stage'[process'[q].user] \in {"stopping", "returned"}
        BY <3>1, <3>3, <1>2 DEF WorkerInv
      <3>. QED  BY <3>2, <3>3
    <2>5. PoolInv'
      BY RequestAssumption, <1>2, <2>0 DEF WorkerInv, InPool
    <2>6. UserInv'
      BY RequestAssumption, <1>2, <2>0 DEF WorkerInv, InPool
    <2>7. OwnerInv'
      BY RequestAssumption, <1>2, <2>0 DEF WorkerInv, InPool
    <2>8. PixelsAreOwn'
      BY RequestAssumption, <1>2, <2>0 DEF WorkerInv, InPool
    <2>. QED  BY <2>1, <2>2, <2>3, <2>4, <2>5, <2>6, <2>7, <2>8 DEF WorkerInv
  <1>. QED  BY <1>1, <1>2 DEF StopExchange, Terminate

(* A late answer is dropped with its worker.                                 *)
LEMMA DropStoppedKeeps ==
  ASSUME WorkerInv, NEW r \in Requests, DropStopped(r) PROVE WorkerInv'
  <1>1. CASE exchange[r] = "done" /\ process' = Reaped(worker[r]) /\ Runs(r, "ended")
    BY <1>1, ReapingKeeps DEF DropStopped
  <1>2. CASE UNCHANGED <<process, exchange>>
    <2>1. TypeOK'
      BY RequestAssumption, <1>2 DEF WorkerInv, DropStopped, InPool
    <2>2. StageInv'
      BY RequestAssumption, <1>2 DEF WorkerInv, DropStopped, InPool
    <2>3. PipeInv'
      BY RequestAssumption, <1>2 DEF WorkerInv, DropStopped, InPool
    <2>4. StopInv'
      BY RequestAssumption, <1>2 DEF WorkerInv, DropStopped, InPool
    <2>5. PoolInv'
      BY RequestAssumption, <1>2 DEF WorkerInv, DropStopped, InPool
    <2>6. UserInv'
      BY RequestAssumption, <1>2 DEF WorkerInv, DropStopped, InPool
    <2>7. OwnerInv'
      BY RequestAssumption, <1>2 DEF WorkerInv, DropStopped, InPool
    <2>8. PixelsAreOwn'
      BY RequestAssumption, <1>2 DEF WorkerInv, DropStopped, InPool
    <2>. QED  BY <2>1, <2>2, <2>3, <2>4, <2>5, <2>6, <2>7, <2>8 DEF WorkerInv
  <1>. QED  BY <1>1, <1>2 DEF DropStopped

(* A process answers the request it works on.                                *)
LEMMA AnswerKeeps == ASSUME WorkerInv, NEW p \in Ids, Answer(p) PROVE WorkerInv'
  <1>1. TypeOK'
    BY RequestAssumption DEF WorkerInv, Answer, InPool
  <1>2. StageInv'
    BY RequestAssumption DEF WorkerInv, Answer, InPool
  <1>3. PipeInv'
    BY RequestAssumption DEF WorkerInv, Answer, InPool
  <1>4. StopInv'
    BY RequestAssumption DEF WorkerInv, Answer, InPool
  <1>5. PoolInv'
    BY RequestAssumption DEF WorkerInv, Answer, InPool
  <1>6. UserInv'
    BY RequestAssumption DEF WorkerInv, Answer, InPool
  <1>7. OwnerInv'
    BY RequestAssumption DEF WorkerInv, Answer, InPool
  <1>8. PixelsAreOwn'
    BY RequestAssumption DEF WorkerInv, Answer, InPool
  <1>. QED  BY <1>1, <1>2, <1>3, <1>4, <1>5, <1>6, <1>7, <1>8 DEF WorkerInv

(* A process may die at any time, the idle ones too.                         *)
LEMMA DieKeeps == ASSUME WorkerInv, NEW p \in Ids, Die(p) PROVE WorkerInv'
  <1>1. TypeOK'
    BY RequestAssumption DEF WorkerInv, Die, InPool
  <1>2. StageInv'
    BY RequestAssumption DEF WorkerInv, Die, InPool
  <1>3. PipeInv'
    BY RequestAssumption DEF WorkerInv, Die, InPool
  <1>4. StopInv'
    BY RequestAssumption DEF WorkerInv, Die, InPool
  <1>5. PoolInv'
    BY RequestAssumption DEF WorkerInv, Die, InPool
  <1>6. UserInv'
    BY RequestAssumption DEF WorkerInv, Die, InPool
  <1>7. OwnerInv'
    BY RequestAssumption DEF WorkerInv, Die, InPool
  <1>8. PixelsAreOwn'
    BY RequestAssumption DEF WorkerInv, Die, InPool
  <1>. QED  BY <1>1, <1>2, <1>3, <1>4, <1>5, <1>6, <1>7, <1>8 DEF WorkerInv

(* Taking the last of a pool of distinct processes.                          *)
LEMMA Popping ==
  ASSUME NEW s \in Seq(Ids), s # <<>>,
         \A i, j \in 1..Len(s) : s[i] = s[j] => i = j,
         NEW t, t = SubSeq(s, 1, Len(s) - 1)
  PROVE  /\ t \in Seq(Ids)
         /\ Len(t) = Len(s) - 1
         /\ s[Len(s)] \in Ids
         /\ \A i, j \in 1..Len(t) : t[i] = t[j] => i = j
         /\ \A p : p \in {t[i] : i \in 1..Len(t)} <=>
                      p \in {s[i] : i \in 1..Len(s)} /\ p # s[Len(s)]
  <1>1. Len(s) \in Nat \ {0} /\ s \in [1..Len(s) -> Ids]
    OBVIOUS
  <1>2. Len(t) = Len(s) - 1 /\ t \in Seq(Ids)
    BY <1>1
  <1>3. \A i \in 1..Len(t) : t[i] = s[i]
    BY <1>1, <1>2
  <1>. QED  BY <1>1, <1>2, <1>3

(* Adding another process to a pool of distinct ones.                        *)
LEMMA Pushing ==
  ASSUME NEW s \in Seq(Ids),
         \A i, j \in 1..Len(s) : s[i] = s[j] => i = j,
         NEW p \in Ids, p \notin {s[i] : i \in 1..Len(s)},
         NEW t, t = Append(s, p)
  PROVE  /\ t \in Seq(Ids)
         /\ Len(t) = Len(s) + 1
         /\ \A i, j \in 1..Len(t) : t[i] = t[j] => i = j
         /\ \A q : q \in {t[i] : i \in 1..Len(t)} <=>
                      q \in {s[i] : i \in 1..Len(s)} \/ q = p
  <1>1. Len(s) \in Nat /\ s \in [1..Len(s) -> Ids]
    OBVIOUS
  <1>2. Len(t) = Len(s) + 1 /\ t \in Seq(Ids)
    BY <1>1
  <1>3. t[Len(s) + 1] = p /\ \A i \in 1..Len(s) : t[i] = s[i]
    BY <1>1
  <1>. QED  BY <1>1, <1>2, <1>3

(* The process taken from the pool was idle, with nothing in its pipes.      *)
LEMMA TakeIdleKeeps == ASSUME WorkerInv, NEW r \in Requests, TakeIdle(r) PROVE WorkerInv'
  <1>. DEFINE p == pool[Len(pool)]
  <1>0. /\ pool # <<>> /\ pool \in Seq(Ids)
        /\ pool' = SubSeq(pool, 1, Len(pool) - 1)
        /\ \A i, j \in 1..Len(pool) : pool[i] = pool[j] => i = j
        /\ UNCHANGED <<exchange, result, got>>
        /\ stage[r] = "get"
    BY DEF WorkerInv, TakeIdle
  <1>1. /\ pool' \in Seq(Ids)
        /\ Len(pool') = Len(pool) - 1
        /\ p \in Ids
        /\ \A i, j \in 1..Len(pool') : pool'[i] = pool'[j] => i = j
        /\ \A q : q \in InPool' <=> q \in InPool /\ q # p
    <2>1. /\ pool' \in Seq(Ids)
          /\ Len(pool') = Len(pool) - 1
      <3>1. \A t : pool # <<>> /\ t = SubSeq(pool, 1, Len(pool) - 1)
                      => t \in Seq(Ids) /\ Len(t) = Len(pool) - 1
        BY <1>0, Popping
      <3>. QED  BY <1>0, <3>1
    <2>3. p \in Ids
      BY <1>0
    <2>4. \A i, j \in 1..Len(pool') : pool'[i] = pool'[j] => i = j
      BY <1>0, Popping
    <2>2. \A q : q \in {pool'[i] : i \in 1..Len(pool')} <=>
                   q \in {pool[i] : i \in 1..Len(pool)} /\ q # p
      BY <1>0, Popping
    <2>. QED  BY <2>1, <2>2, <2>3, <2>4 DEF InPool
  <1>2. p \in InPool
    <2>1. Len(pool) \in 1..Len(pool)
      BY <1>0
    <2>. QED  BY <2>1 DEF InPool
  <1>3. /\ process[p] \in Processes
        /\ process[p].user = NoRequest
        /\ process[p].stopped = FALSE
        /\ process[p].decoding = NoRequest
        /\ process[p].unread = NoRequest
    BY <1>1, <1>2 DEF WorkerInv
  <1>4. CASE /\ process[p].life = "alive"
             /\ process' = [process EXCEPT ![p].user = r]
             /\ worker' = [worker EXCEPT ![r] = p]
             /\ Goes(r, "ready")
    <2>1. TypeOK'
      BY RequestAssumption, <1>0, <1>1, <1>2, <1>3, <1>4 DEF WorkerInv
    <2>2. StageInv'
      BY RequestAssumption, <1>0, <1>1, <1>2, <1>3, <1>4 DEF WorkerInv
    <2>3. PipeInv'
      BY RequestAssumption, <1>0, <1>1, <1>2, <1>3, <1>4 DEF WorkerInv
    <2>4. StopInv'
      <3>1. /\ process'[p].life # "free"
            /\ ~process'[p].stopped
            /\ \A q \in Ids \ {p} : process'[q] = process[q]
        BY <1>0, <1>1, <1>2, <1>3, <1>4 DEF WorkerInv
      <3>2. \A q \in Ids : process'[q].life = "free" => process'[q] = Free
        BY <3>1, FreeIsBlank
      <3>3. ASSUME NEW q \in Ids, process'[q].stopped
            PROVE  /\ process'[q].life = "dead"
                   /\ process'[q].user \in Requests
                   /\ stage'[process'[q].user] \in {"stopping", "returned"}
        BY <3>1, <3>3, <1>0, <1>1, <1>2, <1>3, <1>4 DEF WorkerInv
      <3>. QED  BY <3>2, <3>3
    <2>5. PoolInv'
      BY RequestAssumption, <1>0, <1>1, <1>2, <1>3, <1>4 DEF WorkerInv
    <2>6. UserInv'
      BY RequestAssumption, <1>0, <1>1, <1>2, <1>3, <1>4 DEF WorkerInv
    <2>7. OwnerInv'
      BY RequestAssumption, <1>0, <1>1, <1>2, <1>3, <1>4 DEF WorkerInv
    <2>8. PixelsAreOwn'
      BY RequestAssumption, <1>0, <1>1, <1>2, <1>3, <1>4 DEF WorkerInv
    <2>. QED  BY <2>1, <2>2, <2>3, <2>4, <2>5, <2>6, <2>7, <2>8 DEF WorkerInv
  <1>5. CASE process' = Reaped(p) /\ UNCHANGED <<worker, stage>>
    <2>1. TypeOK'
      BY RequestAssumption, <1>0, <1>1, <1>2, <1>3, <1>5 DEF WorkerInv
    <2>2. StageInv'
      BY RequestAssumption, <1>0, <1>1, <1>2, <1>3, <1>5 DEF WorkerInv
    <2>3. PipeInv'
      BY RequestAssumption, <1>0, <1>1, <1>2, <1>3, <1>5 DEF WorkerInv
    <2>4. StopInv'
      BY RequestAssumption, <1>0, <1>1, <1>2, <1>3, <1>5 DEF WorkerInv
    <2>5. PoolInv'
      BY RequestAssumption, <1>0, <1>1, <1>2, <1>3, <1>5 DEF WorkerInv
    <2>6. UserInv'
      BY RequestAssumption, <1>0, <1>1, <1>2, <1>3, <1>5 DEF WorkerInv
    <2>7. OwnerInv'
      BY RequestAssumption, <1>0, <1>1, <1>2, <1>3, <1>5 DEF WorkerInv
    <2>8. PixelsAreOwn'
      BY RequestAssumption, <1>0, <1>1, <1>2, <1>3, <1>5 DEF WorkerInv
    <2>. QED  BY <2>1, <2>2, <2>3, <2>4, <2>5, <2>6, <2>7, <2>8 DEF WorkerInv
  <1>. QED  BY <1>4, <1>5 DEF TakeIdle

(* Only a whole exchange nobody stopped returns its process.                 *)
LEMMA FinishExchangeKeeps ==
  ASSUME WorkerInv, NEW r \in Requests, FinishExchange(r) PROVE WorkerInv'
  <1>. DEFINE p == worker[r]
  <1>. UNCHANGED <<worker, got>> /\ stage[r] = "waiting"
    BY DEF FinishExchange
  <1>1. CASE exchange[r] = "done" /\ Pooled(p) /\ Returns(r, got[r]) /\ Runs(r, "ended")
    <2>1. /\ p \in Ids
          /\ process[p] \in Processes
          /\ process[p].user = r
          /\ process[p].life # "free"
          /\ process[p].stopped = FALSE
          /\ process[p].decoding = NoRequest
          /\ process[p].unread = NoRequest
          /\ got[r] = r
          /\ p \notin InPool
      BY <1>1, RequestAssumption DEF WorkerInv
    <2>2. CASE /\ Len(pool) < MaxIdle
               /\ pool' = Append(pool, p)
               /\ process' = [process EXCEPT ![p].user = NoRequest]
      <3>a. /\ pool \in Seq(Ids)
            /\ p \notin {pool[i] : i \in 1..Len(pool)}
            /\ \A i, j \in 1..Len(pool) : pool[i] = pool[j] => i = j
        BY <2>1 DEF WorkerInv, InPool
      <3>. /\ pool' \in Seq(Ids)
           /\ Len(pool') = Len(pool) + 1
           /\ \A i, j \in 1..Len(pool') : pool'[i] = pool'[j] => i = j
           /\ \A q : q \in InPool' <=> q \in InPool \/ q = p
        BY <3>a, <2>1, <2>2, Pushing DEF InPool
      <3>1. TypeOK'
        <4>1. [process[p] EXCEPT !.user = NoRequest] \in Processes
          BY <2>1
        <4>. QED  BY <4>1, <1>1, <2>1, <2>2 DEF WorkerInv
      <3>2. StageInv'
        BY RequestAssumption, <1>1, <2>1, <2>2 DEF WorkerInv
      <3>3. PipeInv'
        BY RequestAssumption, <1>1, <2>1, <2>2 DEF WorkerInv
      <3>4. StopInv'
        <4>1. /\ process'[p].life # "free"
              /\ ~process'[p].stopped
              /\ \A q \in Ids \ {p} : process'[q] = process[q]
          BY <1>1, <2>1, <2>2 DEF WorkerInv
        <4>2. \A q \in Ids : process'[q].life = "free" => process'[q] = Free
          BY <4>1, FreeIsBlank
        <4>3. ASSUME NEW q \in Ids, process'[q].stopped
              PROVE  /\ process'[q].life = "dead"
                     /\ process'[q].user \in Requests
                     /\ stage'[process'[q].user] \in {"stopping", "returned"}
          BY <4>1, <4>3, <1>1, <2>1, <2>2 DEF WorkerInv
        <4>. QED  BY <4>2, <4>3
      <3>5. PoolInv'
        BY RequestAssumption, <1>1, <2>1, <2>2 DEF WorkerInv
      <3>6. UserInv'
        BY RequestAssumption, <1>1, <2>1, <2>2 DEF WorkerInv
      <3>7. OwnerInv'
        BY RequestAssumption, <1>1, <2>1, <2>2 DEF WorkerInv
      <3>8. PixelsAreOwn'
        BY RequestAssumption, <1>1, <2>1, <2>2 DEF WorkerInv
      <3>. QED  BY <3>1, <3>2, <3>3, <3>4, <3>5, <3>6, <3>7, <3>8 DEF WorkerInv
    <2>3. CASE process' = Reaped(p) /\ UNCHANGED pool
      <3>1. TypeOK'
        BY RequestAssumption, <1>1, <2>1, <2>3 DEF WorkerInv, InPool
      <3>2. StageInv'
        BY RequestAssumption, <1>1, <2>1, <2>3 DEF WorkerInv, InPool
      <3>3. PipeInv'
        BY RequestAssumption, <1>1, <2>1, <2>3 DEF WorkerInv, InPool
      <3>4. StopInv'
        BY RequestAssumption, <1>1, <2>1, <2>3 DEF WorkerInv, InPool
      <3>5. PoolInv'
        BY RequestAssumption, <1>1, <2>1, <2>3 DEF WorkerInv, InPool
      <3>6. UserInv'
        BY RequestAssumption, <1>1, <2>1, <2>3 DEF WorkerInv, InPool
      <3>7. OwnerInv'
        BY RequestAssumption, <1>1, <2>1, <2>3 DEF WorkerInv, InPool
      <3>8. PixelsAreOwn'
        BY RequestAssumption, <1>1, <2>1, <2>3 DEF WorkerInv, InPool
      <3>. QED  BY <3>1, <3>2, <3>3, <3>4, <3>5, <3>6, <3>7, <3>8 DEF WorkerInv
    <2>. QED  BY <1>1, <2>2, <2>3 DEF Pooled
  <1>2. CASE exchange[r] = "failed" /\ Returns(r, "error") /\ UNCHANGED <<pool, process, exchange>>
    <2>1. TypeOK'
      BY RequestAssumption, <1>2 DEF WorkerInv, InPool
    <2>2. StageInv'
      BY RequestAssumption, <1>2 DEF WorkerInv, InPool
    <2>3. PipeInv'
      BY RequestAssumption, <1>2 DEF WorkerInv, InPool
    <2>4. StopInv'
      BY RequestAssumption, <1>2 DEF WorkerInv, InPool
    <2>5. PoolInv'
      BY RequestAssumption, <1>2 DEF WorkerInv, InPool
    <2>6. UserInv'
      BY RequestAssumption, <1>2 DEF WorkerInv, InPool
    <2>7. OwnerInv'
      BY RequestAssumption, <1>2 DEF WorkerInv, InPool
    <2>8. PixelsAreOwn'
      BY RequestAssumption, <1>2 DEF WorkerInv, InPool
    <2>. QED  BY <2>1, <2>2, <2>3, <2>4, <2>5, <2>6, <2>7, <2>8 DEF WorkerInv
  <1>. QED  BY <1>1, <1>2 DEF FinishExchange

(* A stutter changes nothing.                                                *)
LEMMA StutterKeeps == ASSUME WorkerInv, UNCHANGED vars PROVE WorkerInv'
  BY DEF WorkerInv, vars, InPool

(* Every step keeps the invariant, action by action.                         *)
LEMMA NextKeeps == ASSUME WorkerInv, [Next]_vars PROVE WorkerInv'
  <1>1. CASE UNCHANGED vars
    BY <1>1, StutterKeeps
  <1>2. ASSUME NEW r \in Requests,
               Begin(r) \/ HostStep(r) \/ ThreadStep(r) \/ UnwindExchange(r)
        PROVE  WorkerInv'
    BY <1>2, BeginKeeps, TakeIdleKeeps, SpawnKeeps, StartExchangeKeeps,
       FinishExchangeKeeps, StopExchangeKeeps, DropStoppedKeeps, SendInputKeeps,
       ReceiveOutputKeeps, DropLateWorkerKeeps, UnwindExchangeKeeps
       DEF HostStep, ThreadStep
  <1>3. ASSUME NEW p \in Ids, Answer(p) \/ Die(p) PROVE WorkerInv'
    BY <1>3, AnswerKeeps, DieKeeps
  <1>. QED  BY <1>1, <1>2, <1>3 DEF Next

-----------------------------------------------------------------------------
HIDE DEF OwnerInv, UserInv, PoolInv, PixelsAreOwn

(* The invariant, for any number of requests, ids and decode threads.        *)
THEOREM WorkerIsInvariant == Spec => []WorkerInv
  BY InitHolds, NextKeeps, PTL DEF Spec

(* A request never returns the pixels of another, whichever requests its     *)
(* process served before and however they ended (receive_worker_output).     *)
THEOREM PixelsAreAlwaysOwn == Spec => []PixelsAreOwn
  <1>1. WorkerInv => PixelsAreOwn
    BY DEF WorkerInv
  <1>. QED  BY <1>1, WorkerIsInvariant, PTL

(* No process is idle and in use, used twice, or left running without an     *)
(* owner (return_worker, Drop for DaemonWorker).                             *)
THEOREM ProcessesAreAlwaysOwned == Spec => []EveryProcessHasOneOwner
  <1>1. WorkerInv => EveryProcessHasOneOwner
    BY DEF WorkerInv, EveryProcessHasOneOwner, OwnerInv, UserInv, PoolInv
  <1>. QED  BY <1>1, WorkerIsInvariant, PTL
=============================================================================
