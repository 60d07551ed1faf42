------------------------------ MODULE DecodeGate ------------------------------
(***************************************************************************)
(* The permits under which files are decoded                               *)
(* (crates/viewr/src/decode.rs, DecodeGate).                               *)
(*                                                                         *)
(* At most Limit threads decode at once.  A thread that may not pass       *)
(* sleeps on one condition variable; a permit that is dropped, also by a   *)
(* job that unwinds, wakes everybody who sleeps.  A foreground thread      *)
(* waits for a permit only, a background thread also until no foreground   *)
(* thread is waiting, and nobody is told when that comes true.             *)
(***************************************************************************)
EXTENDS Naturals, FiniteSets

CONSTANTS
    Foreground,  (* the threads that decode what the user selected           *)
    Background,  (* the threads that decode ahead, thumbnails and details    *)
    Limit        (* max_concurrent_file_decodes                              *)

ASSUME GateAssumption ==
    /\ IsFiniteSet(Foreground) /\ IsFiniteSet(Background)
    /\ Foreground \cap Background = {}
    /\ Limit \in Nat \ {0}

Threads == Foreground \cup Background

VARIABLES
    permit,              (* where each thread is at the gate                 *)
    active,              (* DecodeGateState::active                          *)
    waiting_foreground   (* DecodeGateState::waiting_foreground              *)

gate == <<permit, active, waiting_foreground>>

GateInit ==
    /\ permit = [t \in Threads |-> "outside"]
    /\ active = 0
    /\ waiting_foreground = 0

Holding == {t \in Threads : permit[t] = "held"}
Waiting == {t \in Foreground : permit[t] \in {"asleep", "woken"}}

MayPass(t) ==
    /\ active < Limit
    /\ t \in Background => waiting_foreground = 0

(* acquire_decode_permit_from: asleep releases the mutex, so the first look  *)
(* and the decision to sleep are one step.                                   *)
Pass(t) ==
    /\ MayPass(t)
    /\ permit' = [permit EXCEPT ![t] = "held"]
    /\ active' = active + 1

Sleep(t) ==
    /\ ~MayPass(t)
    /\ permit' = [permit EXCEPT ![t] = "asleep"]
    /\ UNCHANGED active

Enter(t) ==
    /\ permit[t] = "outside"
    /\ \/ Pass(t) /\ UNCHANGED waiting_foreground
       \/ /\ Sleep(t)
          /\ waiting_foreground' = waiting_foreground + (IF t \in Foreground THEN 1 ELSE 0)

Retry(t) ==
    /\ permit[t] = "woken"
    /\ \/ /\ Pass(t)
          /\ waiting_foreground' = waiting_foreground - (IF t \in Foreground THEN 1 ELSE 0)
       \/ Sleep(t) /\ UNCHANGED waiting_foreground

(* Wrong on purpose: one sleeper is woken, which may be one that must not    *)
(* pass.                                                                     *)
WakeOne(t) ==
    /\ permit[t] = "held"
    /\ \E woken \in SUBSET Threads :
         /\ Cardinality(woken) <= 1
         /\ \A u \in woken : permit[u] = "asleep"
         /\ woken = {} => \A u \in Threads : permit[u] # "asleep"
         /\ permit' = [u \in Threads |-> IF u = t THEN "outside"
                                         ELSE IF u \in woken THEN "woken" ELSE permit[u]]
    /\ active' = active - 1
    /\ UNCHANGED waiting_foreground

(* Drop for DecodePermit.                                                    *)
Release(t) ==
    /\ permit[t] = "held"
    /\ permit' = [u \in Threads |-> IF u = t THEN "outside"
                                    ELSE IF permit[u] = "asleep" THEN "woken" ELSE permit[u]]
    /\ active' = active - 1
    /\ UNCHANGED waiting_foreground

(* A condition variable may wake a thread for no reason.                     *)
WakeSpuriously(t) ==
    /\ permit[t] = "asleep"
    /\ permit' = [permit EXCEPT ![t] = "woken"]
    /\ UNCHANGED <<active, waiting_foreground>>

-----------------------------------------------------------------------------
(* The counters are the threads they count, whatever job unwound.            *)
PermitsAreCounted ==
    /\ active = Cardinality(Holding)
    /\ active <= Limit
    /\ waiting_foreground = Cardinality(Waiting)

(* No wake-up is lost: while a thread sleeps there is a permit to be dropped,*)
(* or a woken foreground thread that will take one.                          *)
SleeperHasAWaker ==
    \A t \in Threads : permit[t] = "asleep" =>
        \/ Holding # {}
        \/ \E f \in Foreground : permit[f] = "woken"
=============================================================================
