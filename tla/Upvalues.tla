------------------------------- MODULE Upvalues -----------------------------
(***************************************************************************)
(* Upvalues of src/vm.c: how a closure goes on using a local of a function *)
(* that may have returned.  While the local is on the stack an open        *)
(* upvalue points at its slot; openUpvalues links the open ones through    *)
(* next, the one of the highest slot first, so that a second closure finds *)
(* the upvalue of the first and a range of slots is closed from the front. *)
(***************************************************************************)
EXTENDS Naturals, FiniteSetsExt, SequencesExt

CONSTANTS
  Variable,     (* Numbers that name the variables of an execution.       *)
  Data,         (* Values.                                                *)
  Nothing,      (* No value has been read.                                *)
  MaxSlots,     (* Bound: slots of the stack.                             *)
  MaxFrames,    (* Bound: activations.                                    *)
  MaxClosures   (* Bound: closures, and hence upvalues.                   *)

VARIABLES
  stack,        (* vm.stack: the locals of all activations.               *)
  frames,       (* frame->slots of every activation, counted from 1.      *)
  upvalues,     (* Every upvalue: slot (0 once closed), closed and next.  *)
  openUpvalues, (* The first of the list, or 0.                           *)
  closures,     (* closure->upvalues[0] of every closure.                 *)
  read,         (* What was read last.                                    *)
  scope,        (* The variable that each slot is, to the program.        *)
  held          (* The variable that each closure captures, to it.        *)

(* Names are numbered, so that one can be chosen. *)
UpvaluesAssumption == Variable \subseteq Nat

machine == <<stack, frames, upvalues, openUpvalues, closures>>
vars == <<stack, frames, upvalues, openUpvalues, closures, read, scope, held>>

None == 0

-----------------------------------------------------------------------------
(* The list of open upvalues. *)

Location(u) == upvalues[u].slot

(* The list from u on: what each set with u holds that no next leaves.     *)
Follows(S) == \A v \in S : upvalues[v].next \in S \cup {None}
From(u) ==
  {v \in DOMAIN upvalues :
     u # None /\ \A S \in SUBSET DOMAIN upvalues : u \in S /\ Follows(S) => v \in S}
List == From(openUpvalues)

(* A search from the front stops at the first upvalue of one of the slots, *)
(* or at the end.                                                          *)
FirstAt(slots) ==
  LET stops == {u \in List : Location(u) \in slots}
  IN IF stops = {} THEN None ELSE CHOOSE u \in stops : stops \subseteq From(u)

(* What it has passed when it stops at u. *)
Before(u) == List \ From(u)

(* Mutant: the search passes the upvalue of the slot itself. *)
SearchPast(slot) == FirstAt(1 .. slot - 1)
Search(slot) == FirstAt(1 .. slot)

(* *upvalue->location *)
Dereferenced(u) ==
  IF Location(u) = None THEN upvalues[u].closed ELSE stack[Location(u)]

(* captureUpvalue: the upvalue of the slot, an old one or a new one that   *)
(* is linked in front of the first of a lower slot.                        *)
CaptureUpvalue(slot) ==
  LET found == Search(slot)
      created == Len(upvalues) + 1
      new == [slot |-> slot, closed |-> Nothing, next |-> found]
      linked == [u \in DOMAIN upvalues |->
                   IF u \in Before(found) /\ upvalues[u].next = found
                     THEN [upvalues[u] EXCEPT !.next = created] ELSE upvalues[u]]
  IN IF found # None /\ Location(found) = slot
       THEN /\ closures' = Append(closures, found)
            /\ UNCHANGED <<upvalues, openUpvalues>>
       ELSE /\ closures' = Append(closures, created)
            /\ upvalues' = Append(linked, new)
            /\ openUpvalues' = IF Before(found) = {} THEN created ELSE openUpvalues

(* The upvalues before first are closed: they take their slots' values.    *)
Closed(first) ==
  [u \in DOMAIN upvalues |->
     IF u \in Before(first)
       THEN [upvalues[u] EXCEPT !.slot = None, !.closed = stack[Location(u)]]
       ELSE upvalues[u]]

(* Mutant: the upvalue of the first slot that is given up stays open. *)
CloseUpvaluesAbove(last) ==
  /\ upvalues' = Closed(FirstAt(1 .. last))
  /\ openUpvalues' = FirstAt(1 .. last)

(* closeUpvalues: from the front of the list, as far as the slots go. *)
CloseUpvalues(last) ==
  /\ upvalues' = Closed(FirstAt(1 .. last - 1))
  /\ openUpvalues' = FirstAt(1 .. last - 1)

-----------------------------------------------------------------------------
(* Instructions. *)

Running == frames # <<>>
FrameSlots == IF Running THEN Last(frames) .. Len(stack) ELSE {}
Cut(n) == stack' = SubSeq(stack, 1, n) /\ scope' = SubSeq(scope, 1, n)

(* interpret, call: the callee's variables come next. *)
Call ==
  /\ Len(frames) < MaxFrames
  /\ frames' = Append(frames, Len(stack) + 1)
  /\ UNCHANGED <<stack, upvalues, openUpvalues, closures, read, scope, held>>

(* A value that is left on the stack is a new local; which of the unused   *)
(* names it has makes no difference.                                       *)
Unused == Variable \ (Range(scope) \cup Range(held))

Declare ==
  /\ Running /\ Len(stack) < MaxSlots
  /\ Unused # {}
  /\ \E v \in Data : stack' = Append(stack, v)
  /\ scope' = Append(scope, Min(Unused))
  /\ UNCHANGED <<frames, upvalues, openUpvalues, closures, read, held>>

GetLocal ==
  /\ \E slot \in FrameSlots : read' = stack[slot]
  /\ UNCHANGED <<machine, scope, held>>

SetLocal ==
  /\ \E slot \in FrameSlots, v \in Data : stack' = [stack EXCEPT ![slot] = v]
  /\ UNCHANGED <<frames, upvalues, openUpvalues, closures, read, scope, held>>

(* OP_CLOSURE with a local of the function that executes it. *)
CaptureLocal ==
  /\ Len(closures) < MaxClosures
  /\ \E slot \in FrameSlots :
       /\ CaptureUpvalue(slot)
       /\ held' = Append(held, scope[slot])
  /\ UNCHANGED <<stack, frames, read, scope>>

(* OP_CLOSURE with an upvalue of the closure that executes it. *)
CaptureEnclosing ==
  /\ Running /\ Len(closures) < MaxClosures
  /\ \E c \in DOMAIN closures :
       /\ closures' = Append(closures, closures[c])
       /\ held' = Append(held, held[c])
  /\ UNCHANGED <<stack, frames, upvalues, openUpvalues, read, scope>>

GetUpvalue ==
  /\ Running
  /\ \E c \in DOMAIN closures : read' = Dereferenced(closures[c])
  /\ UNCHANGED <<machine, scope, held>>

SetUpvalue ==
  /\ Running
  /\ \E c \in DOMAIN closures, v \in Data :
       LET u == closures[c]
       IN IF Location(u) = None
            THEN /\ upvalues' = [upvalues EXCEPT ![u].closed = v]
                 /\ UNCHANGED stack
            ELSE /\ stack' = [stack EXCEPT ![Location(u)] = v]
                 /\ UNCHANGED upvalues
  /\ UNCHANGED <<frames, openUpvalues, closures, read, scope, held>>

(* The compiler pops a local that no closure can have captured (Scopes). *)
IsOpen(slot) == \E u \in DOMAIN upvalues : Location(u) = slot

PopLocal ==
  /\ FrameSlots # {} /\ ~IsOpen(Len(stack))
  /\ Cut(Len(stack) - 1)
  /\ UNCHANGED <<frames, upvalues, openUpvalues, closures, read, held>>

CloseLocal ==
  /\ FrameSlots # {}
  /\ CloseUpvalues(Len(stack))
  /\ Cut(Len(stack) - 1)
  /\ UNCHANGED <<frames, closures, read, held>>

Return ==
  /\ Running
  /\ CloseUpvalues(Last(frames))
  /\ Cut(Last(frames) - 1)
  /\ frames' = Front(frames)
  /\ UNCHANGED <<closures, read, held>>

(* runtimeError: stack_reset. *)
RuntimeError ==
  /\ Running
  /\ CloseUpvalues(1)
  /\ Cut(0)
  /\ frames' = <<>>
  /\ UNCHANGED <<closures, read, held>>

Init ==
  /\ stack = <<>> /\ frames = <<>>
  /\ upvalues = <<>> /\ openUpvalues = None /\ closures = <<>>
  /\ read = Nothing /\ scope = <<>> /\ held = <<>>

Next ==
  \/ Call \/ Declare \/ GetLocal \/ SetLocal
  \/ CaptureLocal \/ CaptureEnclosing \/ GetUpvalue \/ SetUpvalue
  \/ PopLocal \/ CloseLocal \/ Return \/ RuntimeError

Spec == Init /\ [][Next]_vars

-----------------------------------------------------------------------------
(* The list holds the open upvalues and no other, no two for one slot, the *)
(* highest slot first, and they point at slots that are in use.            *)
OpenSorted ==
  /\ List = {u \in DOMAIN upvalues : Location(u) # None}
  /\ \A u \in List : upvalues[u].next = None \/ Location(upvalues[u].next) < Location(u)
  /\ \A u \in DOMAIN upvalues : Location(u) <= Len(stack)

(* A local and the closures that captured it are one variable: what any of *)
(* them assigns the others read, while the local is on the stack and after *)
(* it is gone, whatever comes to its slot next.                            *)
ValueOf(x) ==
  IF x \in Range(scope) THEN stack[CHOOSE i \in DOMAIN scope : scope[i] = x]
  ELSE Dereferenced(closures[CHOOSE c \in DOMAIN held : held[c] = x])
Abstract == INSTANCE SharedVariables WITH
  values <- [x \in Range(scope) \cup Range(held) |-> ValueOf(x)]
ImplementsSharing == Abstract!Spec

=============================================================================
