------------------------------ MODULE MCStack -------------------------------
(***************************************************************************)
(* Instances of the value stack: the windows of the calls, and the         *)
(* upvalues that point into it.  Each model has a stack of its own, and    *)
(* part is the one that runs in a behaviour.  The instance of Upvalues     *)
(* comes with its proofs, for StackTheorems.                               *)
(***************************************************************************)
EXTENDS CallStack

CONSTANTS Variable, Assigned, Unread, MaxSlots, MaxFrames, MaxClosures

VARIABLES
  part,
  slots, activations, upvalues, openUpvalues, closures, read, scope, held

shared == <<slots, activations, upvalues, openUpvalues, closures, read, scope, held>>

U == INSTANCE UpvaluesProofs WITH
  Data <- Assigned, Nothing <- Unread, stack <- slots, frames <- activations

(* The programs the theorems about CallStack are of. *)
ASSUME StackAssumption == NeverFull /\ NoExtraArguments

ASSUME NamesAssumption == U!UpvaluesAssumption

PartInit == part \in {"calls", "upvalues"} /\ Init /\ U!Init

PartNext ==
  \/ part = "calls" /\ Next /\ UNCHANGED <<part, shared>>
  \/ part = "upvalues" /\ U!Next /\ UNCHANGED <<part, vars>>

PartSpec == PartInit /\ [][PartNext]_<<part, vars, shared>>

-----------------------------------------------------------------------------
(* The properties of Upvalues, when it runs. *)

(* vm.openUpvalues is sorted and without doubles (captureUpvalue). *)
OpenSorted == part = "upvalues" => U!OpenSorted
(* A local and its closures are one variable (closeUpvalues). *)
ImplementsSharing == U!ImplementsSharing
=============================================================================
