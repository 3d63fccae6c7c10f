------------------------------ MODULE CallStack -----------------------------
(***************************************************************************)
(* The value stack and the call frames of src/vm.c.  A frame is a window   *)
(* on the one stack of values, from its callee upwards; the instructions   *)
(* name the slots of the window by the numbers the compiler gave them.     *)
(***************************************************************************)
EXTENDS Integers, Sequences

CONSTANTS
  Data,         (* Values.                                                *)
  Nil,          (* NIL_VAL.                                               *)
  Arity,        (* The arities of the program's functions.                *)
  ArgCount,     (* The numbers of arguments its calls have.               *)
  MaxDepth,     (* Bound: locals and temporaries of one activation.       *)
  FramesMax,    (* FRAMES_MAX, small.                                     *)
  StackMax      (* STACK_MAX_SIZE, small.                                 *)

ASSUME CallStackAssumption ==
  /\ Nil \in Data
  /\ Arity \subseteq Nat /\ ArgCount \subseteq Nat
  /\ {MaxDepth, FramesMax, StackMax} \subseteq Nat \ {0}

(* The programs for which the compiler and the machine agree: FramesMax    *)
(* activations fit on the stack, and no call has an extra argument.        *)
NeverFull == StackMax > FramesMax * MaxDepth
NoExtraArguments == \A argCount \in ArgCount, arity \in Arity : argCount <= arity

VARIABLES
  stack,        (* vm.stack up to vm.stackTop.                            *)
  frames,       (* vm.frames up to vm.frameCount: where the slots of each *)
                (* begin, and how many of them the compiler has numbered. *)
  frame,        (* The index of the frame that run() executes, or 0.      *)
  reported      (* This execution has reported a runtime error.           *)

vars == <<stack, frames, frame, reported>>

(* After an overflow in stack_push, run() goes on with a frame that is no  *)
(* longer counted; what C does with it is not modelled any further.        *)
Running == frame \in 1 .. Len(frames) /\ frames[frame].base > 0

Base == frames[frame].base
Depth == frames[frame].depth
Top == stack[Len(stack)]
Pop(s, n) == SubSeq(s, 1, Len(s) - n)
Deepened(n) == [frames EXCEPT ![frame].depth = @ + n]
Nils(n) == [i \in 1 .. n |-> Nil]

-----------------------------------------------------------------------------
(* stack_push: the last slot of the stack is written, then the stack is    *)
(* reset and the error reported; the instruction does not learn of it.     *)
StackPush(value) ==
  IF Len(stack) + 1 < StackMax
    THEN /\ stack' = Append(stack, value)
         /\ frames' = Deepened(1)
         /\ UNCHANGED <<frame, reported>>
    ELSE /\ stack' = <<>> /\ frames' = <<>>
         /\ reported' = TRUE
         /\ UNCHANGED frame

(* Mutant: the caller of call() does not look at its result. *)
RuntimeErrorIgnored ==
  /\ stack' = <<>> /\ frames' = <<>>
  /\ reported' = TRUE
  /\ UNCHANGED frame

(* runtimeError, after which run() returns. *)
RuntimeError ==
  /\ stack' = <<>> /\ frames' = <<>> /\ frame' = 0
  /\ reported' = TRUE

(* interpret; the REPL resets the stack after every execution. *)
Interpret ==
  /\ frame = 0
  /\ \E script \in Data : stack' = <<script>>
  /\ frames' = <<[base |-> 1, depth |-> 1]>>
  /\ frame' = 1
  /\ reported' = FALSE

(* OP_CONSTANT, OP_NIL, ... *)
PushValue ==
  /\ Running /\ Depth < MaxDepth
  /\ \E value \in Data : StackPush(value)

GetLocal ==
  /\ Running /\ Depth < MaxDepth
  /\ \E i \in 0 .. Depth - 1 : StackPush(stack[Base + i])

SetLocal ==
  /\ Running
  /\ \E i \in 1 .. Depth - 1 : stack' = [stack EXCEPT ![Base + i] = Top]
  /\ UNCHANGED <<frames, frame, reported>>

PopValue ==
  /\ Running /\ Depth > 1
  /\ stack' = Pop(stack, 1)
  /\ frames' = Deepened(-1)
  /\ UNCHANGED <<frame, reported>>

-----------------------------------------------------------------------------
(* call *)

(* vm.stackTop - argCount - 1, counted from 1. *)
Slots(height, argCount) == height - argCount

(* Mutant: missing arguments are not pushed. *)
AdaptedExtra(argCount, arity) ==
  IF argCount <= arity THEN stack
  ELSE Pop(stack, argCount - arity) \o Nils(argCount - arity)

(* Missing arguments are pushed one by one; the extra ones become nil and  *)
(* stay on the stack.                                                      *)
Adapted(argCount, arity) ==
  IF argCount <= arity THEN stack \o Nils(arity - argCount)
  ELSE Pop(stack, argCount - arity) \o Nils(argCount - arity)

EnterFrame(argCount, arity) ==
  LET adapted == Adapted(argCount, arity)
      count == IF argCount <= arity THEN arity ELSE argCount
  IN IF argCount >= arity \/ Len(adapted) < StackMax
       THEN /\ stack' = adapted
            /\ frames' = Append(Deepened(- argCount - 1),
                                [base |-> Slots(Len(adapted), count),
                                 depth |-> arity + 1])
            /\ frame' = frame + 1
            /\ UNCHANGED reported
       ELSE (* stack_push resets the stack under call. *)
            LET rest == Len(adapted) - StackMax
            IN /\ stack' = Nils(rest)
               /\ frames' = <<[base |-> Slots(rest, count), depth |-> arity + 1]>>
               /\ frame' = 1
               /\ reported' = TRUE

(* A closure, or a bound method, whose receiver takes the callee's slot. *)
CallClosure ==
  /\ Running
  /\ \E argCount \in ArgCount, arity \in Arity :
       /\ argCount <= Depth - 2 /\ arity < MaxDepth
       /\ IF Len(frames) = FramesMax THEN RuntimeError
          ELSE EnterFrame(argCount, arity)

(* call_native *)
CallNative ==
  /\ Running
  /\ \E argCount \in ArgCount, result \in Data :
       /\ argCount <= Depth - 2
       /\ stack' = Append(Pop(stack, argCount + 1), result)
       /\ frames' = Deepened(- argCount)
  /\ UNCHANGED <<frame, reported>>

(* Mutant: the result is not stored over the callee. *)
ReturnCallee ==
  /\ Running /\ Depth > 1 /\ frame > 1
  /\ stack' = SubSeq(stack, 1, Base)
  /\ frames' = [Pop(frames, 1) EXCEPT ![frame - 1].depth = @ + 1]
  /\ frame' = frame - 1
  /\ UNCHANGED reported

Return ==
  /\ Running /\ Depth > 1 /\ frame > 1
  /\ stack' = Append(SubSeq(stack, 1, Base - 1), Top)
  /\ frames' = [Pop(frames, 1) EXCEPT ![frame - 1].depth = @ + 1]
  /\ frame' = frame - 1
  /\ UNCHANGED reported

(* The script's own OP_RETURN, which follows an OP_NIL at its end; pops    *)
(* the result and the script.                                              *)
ReturnScript ==
  /\ Running /\ Depth = 2 /\ frame = 1
  /\ stack' = Pop(stack, 2)
  /\ frames' = <<>> /\ frame' = 0
  /\ UNCHANGED reported

Fail == Running /\ RuntimeError

Init ==
  /\ stack = <<>> /\ frames = <<>>
  /\ frame = 0 /\ reported = FALSE

Next ==
  \/ Interpret \/ PushValue \/ GetLocal \/ SetLocal \/ PopValue
  \/ CallClosure \/ CallNative \/ Return \/ ReturnScript \/ Fail

Spec == Init /\ [][Next]_vars

-----------------------------------------------------------------------------
(* The value on top of the stack is in the slot of the highest number that *)
(* the compiler has given: the next declaration initialises its own local. *)
SlotsAgree == Running => Base + Depth - 1 = Len(stack)

(* run() executes the innermost counted frame, all windows lie in the      *)
(* stack one above the other, and between executions nothing is left.      *)
FramesOK ==
  /\ stack \in Seq(Data) /\ Len(stack) < StackMax
  /\ frame = Len(frames) /\ frame <= FramesMax
  /\ frame = 0 => stack = <<>>
  /\ \A k \in 1 .. Len(frames) :
       /\ frames[k].base >= 1
       /\ frames[k].base + frames[k].depth - 1 <= Len(stack)
       /\ k < Len(frames) => frames[k].base + frames[k].depth = frames[k + 1].base
  /\ SlotsAgree

(* An execution that has reported an error is over: it ran no instruction  *)
(* since.                                                                  *)
ErrorsEnd == reported => frame = 0

(* The windows implement activations with variables of their own: every    *)
(* slot number means the same variable to the compiler and at run time,    *)
(* whatever the callees did.                                               *)
Window(f) == [i \in 1 .. f.depth |-> stack[f.base + i - 1]]
ActivationsOnStack == [k \in 1 .. Len(frames) |-> Window(frames[k])]
Abstract == INSTANCE Activations WITH activations <- ActivationsOnStack
ImplementsActivations == Abstract!Spec

=============================================================================
