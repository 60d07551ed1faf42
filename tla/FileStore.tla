------------------------------ MODULE FileStore ------------------------------
(***************************************************************************)
(* The directory in which viewr replaces a file: a rating write            *)
(* (crates/viewr/src/ratings.rs) replaces the photo it shows, Save As      *)
(* (crates/viewr/src/edit.rs) the destination the user chose.              *)
(*                                                                         *)
(* A name holds a file object or nothing.  Renaming, linking and removing  *)
(* change names; writing changes an object's bytes whatever names it has.  *)
(* The private names of a transaction are random, so other programs meddle *)
(* only with the target, with the open photo and, by mistake or not, with  *)
(* the staging name.  Nothing in viewr runs at start-up to finish or undo  *)
(* a transaction: what a crash leaves is the state it happened in.         *)
(***************************************************************************)
EXTENDS Naturals

CONSTANT MaxMeddling     (* bound of the model: acts of other programs       *)

ASSUME FileStoreAssumption == MaxMeddling \in Nat

(* photo: in a rating write a second link of the target, if there is one;    *)
(* in Save As the image that is open.                                        *)
Names    == {"target", "photo", "work", "backup", "displaced"}
Objects  == {"old", "new", "other", "source"}
NoObject == "none"

(* Bytes: as they were when viewr opened or finished the object, or not.     *)
Bytes == {"nothing", "whole", "edited"}

VARIABLES
    names,       (* what each name holds                                     *)
    content,     (* the bytes of each object                                 *)
    operation,   (* "rate" or "save", and the build it runs in               *)
    platform,    (* "unix" or "windows"                                      *)
    at,          (* the call the transaction makes next                      *)
    phase,       (* what it has done to the target so far                    *)
    verdict,     (* what it returned                                         *)
    held,        (* what its thread remembers of the disk                    *)
    parentHeld,  (* the target's directory is the one that was captured      *)
    seen,        (* nobody touched the target after viewr last checked it    *)
    taken,       (* objects a name of which other programs removed           *)
    meddling     (* how often they acted                                     *)

vars == <<names, content, operation, platform, at, phase, verdict, held,
          parentHeld, seen, taken, meddling>>

disk   == <<names, content, phase>>
others == <<operation, platform, parentHeld, taken, meddling>>

Linked(o) == \E n \in Names : names[n] = o

Links(n) == \E m \in Names \ {n} : names[m] = names[n] /\ names[n] # NoObject

-----------------------------------------------------------------------------
(* File system calls.                                                        *)

Unlinked(n)      == [names EXCEPT ![n] = NoObject]
Renamed(from, to) == [names EXCEPT ![to] = names[from], ![from] = NoObject]
Bound(n, o)      == [names EXCEPT ![n] = o]
Written(o, b)    == [content EXCEPT ![o] = b]

-----------------------------------------------------------------------------
(* The transaction's thread.                                                 *)

Go(call) == at' = call /\ UNCHANGED verdict

Return(v) == at' = "returned" /\ verdict' = v

(* The temporary file is removed when its owner is dropped, by its name.     *)
WorkDropped == IF parentHeld THEN Unlinked("work") ELSE names

(* An early return before anything was installed.                            *)
ReturnAndDropWork(v) ==
    /\ Return(v)
    /\ names' = WorkDropped
    /\ UNCHANGED <<content, phase>>

(* The process dies, or the machine does.  Nothing is dropped or undone.     *)
Crash ==
    /\ at # "returned"
    /\ Return("crashed")
    /\ UNCHANGED <<disk, held, others, seen>>

-----------------------------------------------------------------------------
(* Other programs.  Their acts on the target make it unseen.                 *)

Meddle ==
    /\ at # "returned"
    /\ meddling < MaxMeddling
    /\ meddling' = meddling + 1
    /\ UNCHANGED <<operation, platform, at, phase, verdict, held>>

TakeTarget ==
    taken' = taken \cup ({names["target"]} \ {NoObject})

(* Another program saves its own file under the target name.                 *)
OthersReplace ==
    /\ ~Linked("other")
    /\ Meddle
    /\ TakeTarget
    /\ names' = Bound("target", "other")
    /\ seen' = FALSE
    /\ UNCHANGED <<content, parentHeld>>

OthersRemove ==
    /\ names["target"] # NoObject
    /\ Meddle
    /\ TakeTarget
    /\ names' = Unlinked("target")
    /\ seen' = FALSE
    /\ UNCHANGED <<content, parentHeld>>

(* It writes in place, or through a handle it opened before the object was   *)
(* set aside: the object and its names stay.                                 *)
OthersEdit ==
    /\ Meddle
    /\ \E n \in {"target", "photo", "backup"} :
         /\ names[n] # NoObject
         /\ content' = Written(names[n], "edited")
         /\ seen' = (seen /\ names[n] # names["target"])
    /\ UNCHANGED <<names, parentHeld, taken>>

(* It puts a file of its own under the staging name.                         *)
OthersSubstitute ==
    /\ names["work"] # NoObject
    /\ ~Linked("other")
    /\ Meddle
    /\ names' = Bound("work", "other")
    /\ UNCHANGED <<content, parentHeld, seen, taken>>

(* The open photo is renamed onto the destination.                           *)
OthersMovePhoto ==
    /\ operation = "save"
    /\ names["photo"] # NoObject
    /\ Meddle
    /\ taken' = taken \cup ({names["target"]} \ {NoObject})
    /\ names' = Renamed("photo", "target")
    /\ seen' = FALSE
    /\ UNCHANGED <<content, parentHeld>>

(* The directory is moved and another one takes its name.                    *)
OthersMoveParent ==
    /\ operation = "save"
    /\ at # "capture"
    /\ parentHeld
    /\ Meddle
    /\ parentHeld' = FALSE
    /\ seen' = FALSE
    /\ UNCHANGED <<names, content, taken>>

Others ==
    \/ OthersReplace
    \/ OthersRemove
    \/ OthersEdit
    \/ OthersSubstitute
    \/ OthersMovePhoto
    \/ OthersMoveParent
=============================================================================
