------------------------ MODULE DecodeExecutorProofs ------------------------
(***************************************************************************)
(* What DecodeGate and DecodeExecutor promise, for every set of threads,   *)
(* every limit and every number of selections.                             *)
(*                                                                         *)
(* First the gate alone: one lemma per operation on the permits.  Then the *)
(* executor, whose every step is one of these or leaves the gate alone.    *)
(***************************************************************************)
EXTENDS DecodeExecutor, FiniteSetTheorems, TLAPS

GateTypeOK ==
    /\ permit \in [Threads -> {"outside", "asleep", "woken", "held"}]
    /\ active \in Nat
    /\ waiting_foreground \in Nat

(* The counters are what they count and somebody will wake the sleepers.     *)
GateInv == GateTypeOK /\ PermitsAreCounted /\ SleeperHasAWaker

(* What the gate does in one step of one thread.                             *)
GateStep ==
    \/ \E t \in Threads : Enter(t) \/ Retry(t) \/ Release(t) \/ WakeSpuriously(t)
    \/ UNCHANGED gate

-----------------------------------------------------------------------------
(* Counting.                                                                 *)

(* One member more.                                                          *)
LEMMA OneMore ==
    ASSUME NEW S, NEW T, IsFiniteSet(S), NEW x, x \notin S, T = S \cup {x}
    PROVE  /\ IsFiniteSet(T)
           /\ Cardinality(T) = Cardinality(S) + 1
BY FS_AddElement

(* One member less.                                                          *)
LEMMA OneLess ==
    ASSUME NEW S, NEW T, IsFiniteSet(S), NEW x \in S, T = S \ {x}
    PROVE  /\ IsFiniteSet(T)
           /\ Cardinality(S) \in Nat /\ Cardinality(T) \in Nat
           /\ Cardinality(T) = Cardinality(S) - 1
BY FS_RemoveElement, FS_CardinalityType

(* The threads are finitely many, and so are those in any state.             *)
LEMMA FinitelyMany ==
    /\ IsFiniteSet(Threads)
    /\ IsFiniteSet(Holding) /\ IsFiniteSet(Waiting)
    /\ Cardinality(Holding) \in Nat /\ Cardinality(Waiting) \in Nat
<1>1. IsFiniteSet(Threads)
  BY FS_Union, GateAssumption DEF Threads
<1>2. Holding \subseteq Threads /\ Waiting \subseteq Threads
  BY DEF Holding, Waiting, Threads
<1> QED BY <1>1, <1>2, FS_Subset, FS_CardinalityType

(* A counter that is zero counts nobody.                                     *)
LEMMA NobodyCounted ==
    ASSUME PermitsAreCounted
    PROVE  /\ active = 0 <=> Holding = {}
           /\ waiting_foreground = 0 <=> Waiting = {}
BY FinitelyMany, FS_EmptySet DEF PermitsAreCounted

(* A thread takes a permit: the holders are one more.                        *)
LEMMA PassCounts ==
    ASSUME GateInv, NEW t \in Threads, permit[t] # "held", Pass(t)
    PROVE  /\ Holding' = Holding \cup {t}
           /\ active' = Cardinality(Holding') /\ active' <= Limit /\ active' \in Nat
           /\ SleeperHasAWaker'
<1>1. Holding' = Holding \cup {t}
  BY DEF GateInv, GateTypeOK, Pass, Holding
<1>2. t \notin Holding
  BY DEF Holding
<1>3. Cardinality(Holding') = Cardinality(Holding) + 1
  BY <1>1, <1>2, FinitelyMany, OneMore
<1>4. active' = active + 1 /\ active < Limit
  BY DEF Pass, MayPass
<1>5. active' = Cardinality(Holding') /\ active' <= Limit /\ active' \in Nat
  BY <1>3, <1>4, GateAssumption DEF GateInv, GateTypeOK, PermitsAreCounted
<1>6. SleeperHasAWaker'
  BY <1>1 DEF SleeperHasAWaker
<1> QED BY <1>1, <1>5, <1>6

(* A thread goes to sleep: the holders are the same, and it has a waker.     *)
LEMMA SleepIsSafe ==
    ASSUME GateInv, NEW t \in Threads, permit[t] \in {"outside", "woken"}, Sleep(t)
    PROVE  /\ Holding' = Holding
           /\ SleeperHasAWaker'
<1>1. Holding' = Holding
  BY DEF GateInv, GateTypeOK, Sleep, Holding
<1>2. CASE Holding # {}
  BY <1>1, <1>2 DEF SleeperHasAWaker
<1>3. CASE Holding = {}
  <2>1. active = 0 /\ active < Limit
    BY <1>3, NobodyCounted, GateAssumption DEF GateInv
  <2>2. t \in Background /\ waiting_foreground # 0
    BY <2>1 DEF Sleep, MayPass
  <2>3. PICK f \in Waiting : TRUE
    BY <2>2, NobodyCounted DEF GateInv
  <2>4. \E g \in Foreground : permit[g] = "woken"
    BY <1>3, <2>3 DEF Waiting, GateInv, SleeperHasAWaker, Threads
  <2>5. PICK g \in Foreground : permit[g] = "woken"
    BY <2>4
  <2>6. g # t
    BY <2>2, GateAssumption
  <2>7. permit'[g] = "woken"
    BY <2>5, <2>6 DEF Sleep, GateInv, GateTypeOK, Threads
  <2> QED BY <1>1, <2>7 DEF SleeperHasAWaker
<1> QED BY <1>2, <1>3

(* Who waits after a step of one thread that is awake.                       *)
LEMMA WaitingAfter ==
    ASSUME GateInv, NEW t \in Threads, NEW p \in {"asleep", "held"},
           permit' = [permit EXCEPT ![t] = p]
    PROVE  Waiting' = IF t \in Foreground /\ p = "asleep" THEN Waiting \cup {t}
                      ELSE Waiting \ {t}
BY GateAssumption DEF GateInv, GateTypeOK, Waiting, Threads

(* acquire_decode_permit_from, its first look.                               *)
LEMMA EnterKeeps ==
    ASSUME GateInv, NEW t \in Threads, Enter(t)
    PROVE  GateInv'
<1>1. permit[t] = "outside" /\ t \notin Waiting
  BY DEF Enter, Waiting
<1>2. CASE Pass(t) /\ UNCHANGED waiting_foreground
  <2>1. permit' = [permit EXCEPT ![t] = "held"]
    BY <1>2 DEF Pass
  <2>2. Waiting' = Waiting
    BY <1>1, <2>1, WaitingAfter
  <2>3. GateTypeOK'
    BY <1>1, <1>2, <2>1, PassCounts DEF GateInv, GateTypeOK
  <2>4. PermitsAreCounted'
    BY <1>1, <1>2, <2>2, PassCounts DEF GateInv, PermitsAreCounted
  <2> QED BY <1>1, <1>2, <2>3, <2>4, PassCounts DEF GateInv
<1>3. CASE /\ Sleep(t)
           /\ waiting_foreground' = waiting_foreground + (IF t \in Foreground THEN 1 ELSE 0)
  <2>1. permit' = [permit EXCEPT ![t] = "asleep"] /\ active' = active
    BY <1>3 DEF Sleep
  <2>2. waiting_foreground' = Cardinality(Waiting')
    <3>1. CASE t \in Foreground
      <4>1. Waiting' = Waiting \cup {t}
        BY <2>1, <3>1, WaitingAfter
      <4>2. Cardinality(Waiting') = Cardinality(Waiting) + 1
        BY <1>1, <4>1, FinitelyMany, OneMore
      <4> QED BY <1>3, <3>1, <4>2 DEF GateInv, PermitsAreCounted
    <3>2. CASE t \notin Foreground
      <4>1. Waiting' = Waiting
        BY <1>1, <2>1, <3>2, WaitingAfter
      <4> QED BY <1>3, <3>2, <4>1 DEF GateInv, GateTypeOK, PermitsAreCounted
    <3> QED BY <3>1, <3>2
  <2>3. GateTypeOK'
    BY <1>3, <2>1 DEF GateInv, GateTypeOK
  <2>4. PermitsAreCounted'
    BY <1>1, <1>3, <2>1, <2>2, SleepIsSafe DEF GateInv, PermitsAreCounted
  <2> QED BY <1>1, <1>3, <2>3, <2>4, SleepIsSafe DEF GateInv
<1> QED BY <1>2, <1>3 DEF Enter

(* acquire_decode_permit_from, after a wake-up.                              *)
LEMMA RetryKeeps ==
    ASSUME GateInv, NEW t \in Threads, Retry(t)
    PROVE  GateInv'
<1>1. permit[t] = "woken" /\ (t \in Waiting <=> t \in Foreground)
  BY DEF Retry, Waiting
<1>2. CASE /\ Pass(t)
           /\ waiting_foreground' = waiting_foreground - (IF t \in Foreground THEN 1 ELSE 0)
  <2>1. permit' = [permit EXCEPT ![t] = "held"]
    BY <1>2 DEF Pass
  <2>2. Waiting' = Waiting \ {t}
    BY <2>1, WaitingAfter
  <2>3. waiting_foreground' = Cardinality(Waiting') /\ waiting_foreground' \in Nat
    <3>1. CASE t \in Foreground
      <4>1. /\ Cardinality(Waiting') = Cardinality(Waiting) - 1
            /\ Cardinality(Waiting') \in Nat
        BY <1>1, <2>2, <3>1, FinitelyMany, OneLess
      <4> QED BY <1>2, <3>1, <4>1 DEF GateInv, PermitsAreCounted
    <3>2. CASE t \notin Foreground
      <4>1. Waiting' = Waiting
        BY <1>1, <2>2, <3>2
      <4> QED BY <1>2, <3>2, <4>1 DEF GateInv, GateTypeOK, PermitsAreCounted
    <3> QED BY <3>1, <3>2
  <2>4. GateTypeOK'
    BY <1>1, <1>2, <2>1, <2>3, PassCounts DEF GateInv, GateTypeOK
  <2>5. PermitsAreCounted'
    BY <1>1, <1>2, <2>3, PassCounts DEF GateInv, PermitsAreCounted
  <2> QED BY <1>1, <1>2, <2>4, <2>5, PassCounts DEF GateInv
<1>3. CASE Sleep(t) /\ UNCHANGED waiting_foreground
  <2>1. permit' = [permit EXCEPT ![t] = "asleep"] /\ active' = active
    BY <1>3 DEF Sleep
  <2>2. Waiting' = Waiting
    <3>1. CASE t \in Foreground
      <4>1. Waiting' = Waiting \cup {t}
        BY <2>1, <3>1, WaitingAfter
      <4> QED BY <1>1, <3>1, <4>1
    <3>2. CASE t \notin Foreground
      BY <1>1, <2>1, <3>2, WaitingAfter
    <3> QED BY <3>1, <3>2
  <2>3. GateTypeOK'
    BY <1>3, <2>1 DEF GateInv, GateTypeOK
  <2>4. PermitsAreCounted'
    BY <1>1, <1>3, <2>1, <2>2, SleepIsSafe DEF GateInv, PermitsAreCounted
  <2> QED BY <1>1, <1>3, <2>3, <2>4, SleepIsSafe DEF GateInv
<1> QED BY <1>2, <1>3 DEF Retry

(* Drop for DecodePermit.                                                    *)
LEMMA ReleaseKeeps ==
    ASSUME GateInv, NEW t \in Threads, Release(t)
    PROVE  GateInv'
<1>1. /\ t \in Holding
      /\ permit' = [u \in Threads |-> IF u = t THEN "outside"
                                      ELSE IF permit[u] = "asleep" THEN "woken" ELSE permit[u]]
      /\ active' = active - 1 /\ waiting_foreground' = waiting_foreground
  BY DEF Release, Holding
<1>2. Holding' = Holding \ {t}
  BY <1>1 DEF Holding
<1>3. Waiting' = Waiting
  BY <1>1 DEF Waiting, Threads, Holding
<1>4. /\ Cardinality(Holding') = Cardinality(Holding) - 1
      /\ Cardinality(Holding') \in Nat
  BY <1>1, <1>2, FinitelyMany, OneLess
<1>5. GateTypeOK'
  BY <1>1, <1>4 DEF GateInv, GateTypeOK, PermitsAreCounted
<1>6. PermitsAreCounted'
  BY <1>1, <1>3, <1>4, GateAssumption DEF GateInv, GateTypeOK, PermitsAreCounted
<1>7. SleeperHasAWaker'
  BY <1>1 DEF SleeperHasAWaker
<1> QED BY <1>5, <1>6, <1>7 DEF GateInv

(* A condition variable wakes a thread for no reason.                        *)
LEMMA WakeSpuriouslyKeeps ==
    ASSUME GateInv, NEW t \in Threads, WakeSpuriously(t)
    PROVE  GateInv'
<1>1. /\ permit[t] = "asleep" /\ permit' = [permit EXCEPT ![t] = "woken"]
      /\ active' = active /\ waiting_foreground' = waiting_foreground
  BY DEF WakeSpuriously
<1>2. Holding' = Holding /\ Waiting' = Waiting
  BY <1>1 DEF Holding, Waiting, Threads, GateInv, GateTypeOK
<1>3. GateTypeOK' /\ PermitsAreCounted'
  BY <1>1, <1>2 DEF GateInv, GateTypeOK, PermitsAreCounted
<1>4. ASSUME NEW u \in Threads, permit'[u] = "asleep"
      PROVE  Holding' # {} \/ \E f \in Foreground : permit'[f] = "woken"
  <2>1. permit[u] = "asleep"
    BY <1>1, <1>4 DEF GateInv, GateTypeOK
  <2>2. CASE Holding # {}
    BY <1>2, <2>2
  <2>3. CASE \E f \in Foreground : permit[f] = "woken"
    BY <1>1, <2>3 DEF GateInv, GateTypeOK, Threads
  <2> QED BY <2>1, <2>2, <2>3 DEF GateInv, SleeperHasAWaker
<1> QED BY <1>3, <1>4 DEF GateInv, SleeperHasAWaker

(* Every step of the gate keeps its invariant.                               *)
LEMMA GateStepKeeps == GateInv /\ GateStep => GateInv'
<1> SUFFICES ASSUME GateInv, GateStep PROVE GateInv'
  OBVIOUS
<1>1. CASE UNCHANGED gate
  BY <1>1 DEF gate, GateInv, GateTypeOK, PermitsAreCounted, SleeperHasAWaker, Holding, Waiting
<1> QED
  BY <1>1, EnterKeeps, RetryKeeps, ReleaseKeeps, WakeSpuriouslyKeeps DEF GateStep
-----------------------------------------------------------------------------
(* The executor.                                                             *)

(* The queue is closed exactly when nobody is left to serve it, and an offer *)
(* nobody is told of any more finds a thread at the queue, or none parked.   *)
QueueInv ==
    /\ doing \in [Threads -> {"taking", "parked", "permit", "check", "decode", "confirm",
                              "send", "leaving", "gone"}]
    /\ closed \in BOOLEAN /\ notifying \in BOOLEAN
    /\ closed <=> Live = {}
    /\ offer # NoLoad => ~closed
    /\ offer # NoLoad /\ ~notifying =>
         \/ \E t \in Foreground : doing[t] = "taking"
         \/ \A t \in Foreground : doing[t] # "parked"

(* Only the newest load can be waited for, and its channel is closed only    *)
(* behind a changed source or a job that unwound.                            *)
ReportInv ==
    /\ generation \in Nat
    /\ receiver \in {NoLoad, generation}
    /\ channel # "lost"
    /\ channel = "closed" => changed \/ SomeJobUnwound
    /\ OnlyTheNewestIsReported

ExecutorInv == GateInv /\ QueueInv /\ ReportInv

(* At first nobody holds a permit, waits for one or runs a job.              *)
LEMMA ExecutorInitially == Init => ExecutorInv
<1> SUFFICES ASSUME Init PROVE ExecutorInv
  OBVIOUS
<1>1. Holding = {} /\ Waiting = {} /\ Live = Foreground
  BY DEF Init, GateInit, Holding, Waiting, Live, Threads
<1>2. GateInv
  BY <1>1, FS_EmptySet, GateAssumption DEF Init, GateInit, GateInv, GateTypeOK,
     PermitsAreCounted, SleeperHasAWaker
<1>3. QueueInv
  BY <1>1, ExecutorAssumption DEF Init, QueueInv, Threads
<1>4. ReportInv
  BY DEF Init, ReportInv, OnlyTheNewestIsReported, NoLoad
<1> QED BY <1>2, <1>3, <1>4 DEF ExecutorInv

(* No step of the executor does anything else to the gate.                   *)
LEMMA OnlyGateSteps == Next => GateStep
<1> SUFFICES ASSUME Next PROVE GateStep
  OBVIOUS
<1> USE DEF gate
<1>1. CASE Supersede \/ StartLoad \/ Notify \/ PollLoad \/ StartBackground
  BY <1>1 DEF Supersede, StartLoad, Notify, PollLoad, StartBackground, LoopKeeps, GateStep
<1>2. ASSUME NEW t \in Foreground, ForegroundStep(t) \/ ParkSpuriously(t) \/ Unwind(t)
      PROVE  GateStep
  <2>1. t \in Threads
    BY DEF Threads
  <2>2. CASE AskPermit(t)
    BY <2>1, <2>2 DEF AskPermit, GateStep
  <2>3. CASE OpenSource(t)
    BY <2>1, <2>3 DEF OpenSource, GiveUp, GateStep
  <2>4. CASE ConfirmVersion(t)
    BY <2>1, <2>4 DEF ConfirmVersion, GiveUp, GateStep
  <2>5. CASE Unwind(t)
    BY <2>1, <2>5 DEF Unwind, GateStep
  <2>6. CASE TakeOffer(t) \/ Decode(t) \/ SendResult(t) \/ Leave(t) \/ ParkSpuriously(t)
    BY <2>6 DEF TakeOffer, Decode, SendResult, Leave, ParkSpuriously, GateStep
  <2> QED BY <1>2, <2>2, <2>3, <2>4, <2>5, <2>6 DEF ForegroundStep
<1>3. ASSUME NEW t \in Background, BackgroundStep(t)
      PROVE  GateStep
  <2>1. t \in Threads
    BY DEF Threads
  <2>2. CASE AskPermit(t)
    BY <2>1, <2>2 DEF AskPermit, GateStep
  <2>3. CASE TakeBackground(t)
    BY <2>3 DEF TakeBackground, GateStep
  <2>4. CASE DecodeAhead(t)
    BY <2>1, <2>4 DEF DecodeAhead, GateStep
  <2> QED BY <1>3, <2>2, <2>3, <2>4 DEF BackgroundStep
<1>4. ASSUME NEW t \in Threads, Spurious(t)
      PROVE  GateStep
  BY <1>4 DEF Spurious, GateStep
<1> QED BY <1>1, <1>2, <1>3, <1>4 DEF Next

(* A step of one thread that neither parks it nor ends it, and leaves the    *)
(* queue alone, keeps the queue's invariant.                                 *)
LEMMA WorkingKeepsQueue ==
    ASSUME QueueInv, NEW t \in Threads,
           doing[t] \notin {"taking", "parked", "gone"},
           NEW step \in {"taking", "permit", "check", "decode", "confirm", "send", "leaving"},
           Goes(t, step), UNCHANGED <<offer, closed, notifying>>
    PROVE  QueueInv'
<1>1. doing' = [doing EXCEPT ![t] = step]
  BY DEF Goes
<1>2. Live' = Live
  BY <1>1 DEF QueueInv, Live, Threads
<1>3. \A u \in Threads : u # t => doing'[u] = doing[u]
  BY <1>1 DEF QueueInv
<1>4. doing'[t] # "parked"
  BY <1>1 DEF QueueInv
<1>5. \A u \in Foreground : doing[u] = "taking" => doing'[u] = "taking"
  BY <1>3 DEF Threads
<1>6. \A u \in Foreground : doing[u] # "parked" => doing'[u] # "parked"
  BY <1>3, <1>4 DEF Threads
<1> QED BY <1>1, <1>2, <1>5, <1>6 DEF QueueInv

(* Every step keeps the replace-latest queue's invariant.                    *)
LEMMA QueueKept == QueueInv /\ Next => QueueInv'
<1> SUFFICES ASSUME QueueInv, Next PROVE QueueInv'
  OBVIOUS
<1> USE DEF NoLoad
<1>1. CASE Supersede \/ PollLoad \/ StartBackground
  BY <1>1 DEF Supersede, PollLoad, StartBackground, LoopKeeps, QueueInv, threads, loop, Live
<1>2. CASE StartLoad
  BY <1>2, ExecutorAssumption DEF StartLoad, QueueInv, threads, Live
<1>3. CASE Notify
  <2>1. CASE \E t \in Foreground :
                doing[t] = "parked" /\ doing' = [doing EXCEPT ![t] = "taking"]
    <3>1. PICK t \in Foreground :
             doing[t] = "parked" /\ doing' = [doing EXCEPT ![t] = "taking"]
      BY <2>1
    <3>2. Live' = Live /\ doing'[t] = "taking"
      BY <3>1 DEF QueueInv, Live, Threads
    <3> QED BY <1>3, <3>1, <3>2 DEF Notify, between, QueueInv
  <2>2. CASE (\A t \in Foreground : doing[t] # "parked") /\ UNCHANGED doing
    BY <1>3, <2>2 DEF Notify, between, QueueInv, Live
  <2> QED BY <1>3, <2>1, <2>2 DEF Notify
<1>4. ASSUME NEW t \in Threads, AskPermit(t)
      PROVE  QueueInv'
  BY <1>4, WorkingKeepsQueue DEF AskPermit, loop, between
<1>5. ASSUME NEW t \in Foreground, TakeOffer(t)
      PROVE  QueueInv'
  <2>1. CASE offer # NoLoad
    <3>1. offer' = NoLoad /\ doing' = [doing EXCEPT ![t] = "permit"]
      BY <1>5, <2>1 DEF TakeOffer, Goes
    <3>2. Live' = Live
      BY <1>5, <3>1 DEF TakeOffer, QueueInv, Live, Threads
    <3> QED BY <1>5, <3>1, <3>2 DEF TakeOffer, QueueInv, loop
  <2>2. CASE offer = NoLoad /\ ~closed
    <3>1. offer' = NoLoad /\ doing' = [doing EXCEPT ![t] = "parked"]
      BY <1>5, <2>2 DEF TakeOffer, Goes
    <3>2. Live' = Live
      BY <1>5, <3>1 DEF TakeOffer, QueueInv, Live, Threads
    <3> QED BY <1>5, <3>1, <3>2 DEF TakeOffer, QueueInv, loop
  <2>3. ~closed
    BY <1>5 DEF TakeOffer, QueueInv, Live
  <2> QED BY <2>1, <2>2, <2>3
<1>6. ASSUME NEW t \in Foreground, OpenSource(t)
      PROVE  QueueInv'
  BY <1>6, WorkingKeepsQueue DEF OpenSource, GiveUp, Threads, loop
<1>7. ASSUME NEW t \in Foreground, Decode(t)
      PROVE  QueueInv'
  BY <1>7, WorkingKeepsQueue DEF Decode, Threads, loop, between
<1>8. ASSUME NEW t \in Foreground, ConfirmVersion(t)
      PROVE  QueueInv'
  BY <1>8, WorkingKeepsQueue DEF ConfirmVersion, GiveUp, Threads, loop
<1>9. ASSUME NEW t \in Foreground, SendResult(t)
      PROVE  QueueInv'
  BY <1>9, WorkingKeepsQueue DEF SendResult, Threads, loop
<1>10. ASSUME NEW t \in Foreground, Unwind(t)
       PROVE  QueueInv'
  BY <1>10, WorkingKeepsQueue DEF Unwind, Threads, loop
<1>11. ASSUME NEW t \in Foreground, Leave(t)
       PROVE  QueueInv'
  <2>1. doing[t] = "leaving" /\ doing' = [doing EXCEPT ![t] = "gone"] /\ notifying' = notifying
    BY <1>11 DEF Leave, Goes, loop
  <2>2. Live' = Live \ {t} /\ t \in Live
    BY <2>1 DEF Live, QueueInv, Threads
  <2>3. CASE Live = {t}
    BY <1>11, <2>1, <2>2, <2>3 DEF Leave, QueueInv
  <2>4. CASE Live # {t}
    <3>1. Live' # {} /\ Live # {} /\ UNCHANGED <<closed, offer>>
      BY <1>11, <2>2, <2>4 DEF Leave
    <3>2. \A u \in Foreground : doing[u] = "taking" => doing'[u] = "taking"
      BY <2>1 DEF QueueInv, Threads
    <3>3. \A u \in Foreground : doing[u] # "parked" => doing'[u] # "parked"
      BY <2>1 DEF QueueInv, Threads
    <3> QED BY <2>1, <3>1, <3>2, <3>3 DEF QueueInv
  <2> QED BY <2>3, <2>4
<1>12. ASSUME NEW t \in Foreground, ParkSpuriously(t)
       PROVE  QueueInv'
  <2>1. doing[t] = "parked" /\ doing' = [doing EXCEPT ![t] = "taking"]
    BY <1>12 DEF ParkSpuriously, Goes
  <2>2. Live' = Live /\ doing'[t] = "taking"
    BY <2>1 DEF QueueInv, Live, Threads
  <2> QED BY <1>12, <2>1, <2>2 DEF ParkSpuriously, QueueInv, loop, between
<1>13. ASSUME NEW t \in Background, TakeBackground(t)
       PROVE  QueueInv'
  <2>1. doing' = [doing EXCEPT ![t] = "permit"] /\ UNCHANGED <<offer, closed, notifying>>
    BY <1>13 DEF TakeBackground, Goes, loop
  <2>2. \A u \in Foreground : doing'[u] = doing[u]
    BY <2>1, GateAssumption DEF QueueInv, Threads
  <2>3. Live' = Live
    BY <2>2 DEF Live
  <2> QED BY <2>1, <2>2, <2>3 DEF QueueInv
<1>14. ASSUME NEW t \in Background, DecodeAhead(t)
       PROVE  QueueInv'
  BY <1>14, WorkingKeepsQueue DEF DecodeAhead, Threads, loop, between
<1>15. ASSUME NEW t \in Threads, Spurious(t)
       PROVE  QueueInv'
  BY <1>15 DEF Spurious, loop, between, threads, QueueInv, Live
<1> QED
  BY <1>1, <1>2, <1>3, <1>4, <1>5, <1>6, <1>7, <1>8, <1>9, <1>10, <1>11, <1>12, <1>13, <1>14,
     <1>15 DEF Next, ForegroundStep, BackgroundStep, Threads

(* A job that unwound stays on record: its thread never comes back.          *)
LEMMA UnwoundForGood == QueueInv /\ Next /\ SomeJobUnwound => SomeJobUnwound'
<1> SUFFICES ASSUME QueueInv, Next, NEW u \in Foreground, doing[u] \in {"leaving", "gone"}
             PROVE  doing'[u] \in {"leaving", "gone"}
  BY DEF SomeJobUnwound
<1> USE DEF Goes
<1>1. CASE Supersede \/ StartLoad \/ PollLoad \/ StartBackground
  BY <1>1 DEF Supersede, StartLoad, PollLoad, StartBackground, LoopKeeps, threads
<1>2. CASE Notify
  <2>1. CASE \E t \in Foreground :
                doing[t] = "parked" /\ doing' = [doing EXCEPT ![t] = "taking"]
    BY <2>1 DEF QueueInv, Threads
  <2> QED BY <1>2, <2>1 DEF Notify
<1>3. ASSUME NEW t \in Foreground, ForegroundStep(t) \/ ParkSpuriously(t) \/ Unwind(t)
      PROVE  doing'[u] \in {"leaving", "gone"}
  <2>1. \A v \in Foreground : doing'[v] = doing[v] \/ v = t
    BY <1>3 DEF ForegroundStep, AskPermit, TakeOffer, OpenSource, Decode, ConfirmVersion,
       SendResult, Leave, ParkSpuriously, Unwind, GiveUp, QueueInv, threads, Threads
  <2>2. CASE u = t
    BY <1>3, <2>2 DEF ForegroundStep, AskPermit, TakeOffer, OpenSource, Decode, ConfirmVersion,
       SendResult, Leave, ParkSpuriously, Unwind, GiveUp, QueueInv, Threads
  <2> QED BY <2>1, <2>2
<1>4. ASSUME NEW t \in Background, BackgroundStep(t)
      PROVE  doing'[u] \in {"leaving", "gone"}
  BY <1>4, GateAssumption DEF BackgroundStep, AskPermit, TakeBackground, DecodeAhead,
     QueueInv, Threads
<1>5. ASSUME NEW t \in Threads, Spurious(t)
      PROVE  doing'[u] \in {"leaving", "gone"}
  BY <1>5 DEF Spurious, threads
<1> QED BY <1>1, <1>2, <1>3, <1>4, <1>5 DEF Next

(* A step that leaves the session alone may close the channel only behind a  *)
(* changed source or a job that unwound.                                     *)
LEMMA QuietStepKeepsReport ==
    ASSUME ReportInv, QueueInv, Next, UNCHANGED loop,
           changed => changed',
           channel' # "lost",
           channel' = "closed" => channel = "closed" \/ changed' \/ SomeJobUnwound'
    PROVE  ReportInv'
BY UnwoundForGood DEF ReportInv, OnlyTheNewestIsReported, loop

(* Every step keeps what is known of the loads that were reported.           *)
LEMMA ReportKept == QueueInv /\ ReportInv /\ Next => ReportInv'
<1> SUFFICES ASSUME QueueInv, ReportInv, Next PROVE ReportInv'
  OBVIOUS
<1> USE DEF NoLoad
<1>1. CASE Supersede
  BY <1>1 DEF Supersede, ReportInv, OnlyTheNewestIsReported
<1>2. CASE StartLoad
  BY <1>2 DEF StartLoad, ReportInv, OnlyTheNewestIsReported
<1>3. CASE Notify
  BY <1>3, UnwoundForGood DEF Notify, between, ReportInv, OnlyTheNewestIsReported
<1>4. CASE PollLoad
  <2>1. SomeJobUnwound => SomeJobUnwound'
    BY UnwoundForGood
  <2>2. /\ UNCHANGED <<generation, changed>>
        /\ receiver' = NoLoad /\ channel' = "none"
        /\ shows' = [load |-> receiver,
                     how |-> IF channel = "closed" THEN "lost" ELSE channel]
    BY <1>4 DEF PollLoad, LoopKeeps
  <2>3. shows'.how = "lost" => channel = "closed"
    BY <2>2 DEF ReportInv
  <2> QED BY <2>1, <2>2, <2>3 DEF ReportInv, OnlyTheNewestIsReported
<1>5. CASE StartBackground
  BY <1>5, QuietStepKeepsReport DEF ReportInv, StartBackground
<1>6. ASSUME NEW t \in Threads, AskPermit(t)
      PROVE  ReportInv'
  BY <1>6, QuietStepKeepsReport DEF ReportInv, AskPermit, between
<1>7. ASSUME NEW t \in Foreground, TakeOffer(t)
      PROVE  ReportInv'
  BY <1>7, QuietStepKeepsReport DEF ReportInv, TakeOffer
<1>8. ASSUME NEW t \in Foreground, OpenSource(t)
      PROVE  ReportInv'
  <2>1. channel' = channel /\ UNCHANGED <<loop, changed>>
    BY <1>8 DEF OpenSource, GiveUp, Dropped, Sent, IsCurrent, ReportInv
  <2> QED BY <2>1, QuietStepKeepsReport DEF ReportInv
<1>9. ASSUME NEW t \in Foreground, Decode(t)
      PROVE  ReportInv'
  BY <1>9, QuietStepKeepsReport DEF ReportInv, Decode, between
<1>10. ASSUME NEW t \in Foreground, ConfirmVersion(t)
       PROVE  ReportInv'
  <2>1. UNCHANGED loop
    BY <1>10 DEF ConfirmVersion
  <2>2. CASE IsCurrent(t) /\ UNCHANGED <<channel, job, changed>>
    BY <2>1, <2>2, QuietStepKeepsReport DEF ReportInv
  <2>3. CASE IsCurrent(t) /\ GiveUp(t) /\ changed' = TRUE
    BY <2>1, <2>3, QuietStepKeepsReport DEF GiveUp, Dropped, Sent, ReportInv
  <2>4. CASE ~IsCurrent(t) /\ GiveUp(t) /\ UNCHANGED changed
    <3>1. channel' = channel
      BY <2>4 DEF GiveUp, Dropped, Sent, IsCurrent, ReportInv
    <3> QED BY <2>1, <2>4, <3>1, QuietStepKeepsReport DEF ReportInv
  <2> QED BY <1>10, <2>2, <2>3, <2>4 DEF ConfirmVersion
<1>11. ASSUME NEW t \in Foreground, SendResult(t)
       PROVE  ReportInv'
  <2>1. UNCHANGED <<loop, changed>> /\ channel' \in {channel, "image", "error"}
    BY <1>11 DEF SendResult, Sent
  <2> QED BY <2>1, QuietStepKeepsReport DEF ReportInv
<1>12. ASSUME NEW t \in Foreground, Unwind(t)
       PROVE  ReportInv'
  <2>1. /\ UNCHANGED <<loop, changed>> /\ channel' \in {channel, "closed"}
        /\ doing'[t] = "leaving"
    BY <1>12 DEF Unwind, Dropped, Sent, Goes, QueueInv, Threads
  <2> QED BY <2>1, QuietStepKeepsReport DEF ReportInv, SomeJobUnwound
<1>13. ASSUME NEW t \in Foreground, Leave(t)
       PROVE  ReportInv'
  <2>1. /\ UNCHANGED <<loop, changed>> /\ channel' \in {channel, "closed"}
        /\ doing'[t] = "gone"
    BY <1>13 DEF Leave, Dropped, Sent, Goes, QueueInv, Threads
  <2> QED BY <2>1, QuietStepKeepsReport DEF ReportInv, SomeJobUnwound
<1>14. ASSUME NEW t \in Foreground, ParkSpuriously(t)
       PROVE  ReportInv'
  BY <1>14, QuietStepKeepsReport DEF ReportInv, ParkSpuriously, between
<1>15. ASSUME NEW t \in Background, TakeBackground(t) \/ DecodeAhead(t)
       PROVE  ReportInv'
  BY <1>15, QuietStepKeepsReport DEF ReportInv, TakeBackground, DecodeAhead, between
<1>16. ASSUME NEW t \in Threads, Spurious(t)
       PROVE  ReportInv'
  BY <1>16, QuietStepKeepsReport DEF ReportInv, Spurious, between
<1> QED
  BY <1>1, <1>2, <1>3, <1>4, <1>5, <1>6, <1>7, <1>8, <1>9, <1>10, <1>11, <1>12, <1>13, <1>14,
     <1>15, <1>16 DEF Next, ForegroundStep, BackgroundStep, Threads

(* What the executor's invariant rests on, kept by every step.               *)
THEOREM ExecutorIsInvariant == Spec => []ExecutorInv
<1>1. Init => ExecutorInv
  BY ExecutorInitially
<1>2. ExecutorInv /\ [Next]_vars => ExecutorInv'
  <2>1. CASE Next
    BY <2>1, OnlyGateSteps, GateStepKeeps, QueueKept, ReportKept DEF ExecutorInv
  <2>2. CASE UNCHANGED vars
    BY <2>2 DEF vars, gate, loop, between, threads, ExecutorInv, GateInv, GateTypeOK,
       PermitsAreCounted, SleeperHasAWaker, Holding, Waiting, QueueInv, Live, ReportInv,
       OnlyTheNewestIsReported, SomeJobUnwound
  <2> QED BY <2>1, <2>2
<1> QED BY <1>1, <1>2, PTL DEF Spec

(* Never more than Limit threads decode, and DecodeGateState counts right,   *)
(* whichever jobs unwind.                                                    *)
THEOREM PermitsAreAlwaysCounted == Spec => []PermitsAreCounted
<1>1. ExecutorInv => PermitsAreCounted
  BY DEF ExecutorInv, GateInv
<1> QED BY <1>1, ExecutorIsInvariant, PTL

(* No thread sleeps at the gate with nobody to wake it.                      *)
THEOREM NoWakeUpIsLost == Spec => []SleeperHasAWaker
<1>1. ExecutorInv => SleeperHasAWaker
  BY DEF ExecutorInv, GateInv
<1> QED BY <1>1, ExecutorIsInvariant, PTL

(* The load in the queue is about to be announced or has a thread to take it.*)
THEOREM OfferIsNeverStranded == Spec => []OfferHasATaker
<1>1. ExecutorInv => OfferHasATaker
  <2> SUFFICES ASSUME ExecutorInv, offer # NoLoad
               PROVE  \/ notifying /\ Live # {}
                      \/ \E t \in Foreground : doing[t] \notin {"parked", "gone"}
    BY DEF OfferHasATaker
  <2>1. PICK t \in Live : TRUE
    BY DEF ExecutorInv, QueueInv
  <2> QED BY <2>1 DEF ExecutorInv, QueueInv, Live
<1> QED BY <1>1, ExecutorIsInvariant, PTL

(* The session reports the newest load only, and its loss only for a reason. *)
THEOREM OldLoadsAreSilent == Spec => []OnlyTheNewestIsReported
<1>1. ExecutorInv => OnlyTheNewestIsReported
  BY DEF ExecutorInv, ReportInv
<1> QED BY <1>1, ExecutorIsInvariant, PTL

(* A background thread never takes a permit a foreground thread waits for.   *)
THEOREM BackgroundYields == Spec => ForegroundGoesFirst
<1>1. ExecutorInv /\ [Next]_vars =>
        \/ \A t \in Background : permit[t] # "held" /\ permit'[t] = "held" => Waiting = {}
        \/ UNCHANGED vars
  <2> SUFFICES ASSUME ExecutorInv, Next, NEW t \in Background,
                      permit[t] # "held", permit'[t] = "held"
               PROVE  Waiting = {}
    OBVIOUS
  <2>1. GateStep /\ GateInv
    BY OnlyGateSteps DEF ExecutorInv
  <2>2. t \in Threads
    BY DEF Threads
  <2>3. ASSUME NEW u \in Threads, Enter(u) \/ Retry(u)
        PROVE  MayPass(t)
    <3>1. u = t
      BY <2>1, <2>2, <2>3 DEF Enter, Retry, Pass, Sleep, GateInv, GateTypeOK
    <3> QED BY <2>1, <2>2, <2>3, <3>1 DEF Enter, Retry, Pass, Sleep, GateInv, GateTypeOK
  <2>4. ASSUME NEW u \in Threads, Release(u) \/ WakeSpuriously(u)
        PROVE  FALSE
    BY <2>1, <2>2, <2>4 DEF Release, WakeSpuriously, GateInv, GateTypeOK
  <2>5. MayPass(t)
    BY <2>1, <2>3, <2>4 DEF GateStep, gate
  <2> QED BY <2>1, <2>5, NobodyCounted DEF MayPass, GateInv
<1>2. ExecutorInv /\ [Next]_vars =>
        [\A t \in Background : permit[t] # "held" /\ permit'[t] = "held" => Waiting = {}]_vars
  BY <1>1
<1> QED BY <1>2, ExecutorIsInvariant, PTL DEF Spec, ForegroundGoesFirst
=============================================================================
