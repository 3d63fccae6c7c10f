-------------------------------- MODULE Heap --------------------------------
(***************************************************************************)
(* The object heap of the virtual machine: the objects its instructions    *)
(* allocate and link together (src/object.c, src/vm.c) and the flip-mark,  *)
(* stop-the-world collector that an allocation may start (src/memory.c,    *)
(* src/gc.c).                                                              *)
(*                                                                         *)
(* A value is a heap object or Nil, which stands for every value the       *)
(* collector skips: nil, booleans, numbers, strings, functions, natives.   *)
(* An instruction that allocates is split at its allocation points: its C  *)
(* locals are kept in op while a collection runs, and used afterwards.     *)
(* The call stack, open upvalue list and tables are modelled only as far   *)
(* as they keep objects alive; CallStack, Upvalues and Table model them.   *)
(***************************************************************************)
EXTENDS Naturals, Sequences

CONSTANTS
  Obj,          (* The memory slots an object can occupy.                 *)
  Nil,          (* Every value that is not a collected object.            *)
  Name,         (* Property and method names (interned strings).          *)
  InitName,     (* vm.initString, "init".                                 *)
  UpIndex,      (* Indices into closure->upvalues.                        *)
  Global,       (* Names of global variables.                             *)
  MaxStack,     (* Bound: values on the stack.                            *)
  MaxFrames,    (* FRAMES_MAX, small.                                     *)
  Opcodes       (* Instructions the modelled program uses.                *)

(* Names of the pointers an object holds besides its table entries. *)
Pointer == {"klass", "receiver", "method", "closed", "initializer"}

ASSUME ConstantsAssumption ==
  /\ Nil \notin Obj
  /\ InitName \in Name
  /\ Name \cap UpIndex = {}
  /\ (Name \cup UpIndex) \cap Pointer = {}
  /\ MaxStack \in Nat \ {0}
  /\ MaxFrames \in Nat \ {0}

VARIABLES
  objects,      (* vm.objects: the objects linked in the list.            *)
  kind,         (* object->type, "free" for a slot that holds no object.  *)
  ref,          (* ref[o][f]: the value o holds in pointer or entry f.    *)
  mark,         (* object->isMarked.                                      *)
  gcMark,       (* vm.gcMark: the value of isMarked that means "reached". *)
  gcWorking,    (* vm.gcWorking.                                          *)
  gray,         (* vm.grayStack, as a set.                                *)
  stack,        (* vm.stack up to vm.stackTop.                            *)
  frames,       (* vm.frames up to vm.frameCount: closure and slots.      *)
  open,         (* vm.openUpvalues, as a set.                             *)
  loc,          (* upvalue->location: a stack index, 0 once closed.       *)
  globals,      (* vm.globals.fields.                                     *)
  op            (* The instruction being executed and its C locals.       *)

mutator == <<stack, frames, open, loc, globals>>
marking == <<mark, gcMark, gcWorking, gray>>
vars == <<objects, kind, ref, marking, mutator, op>>

Kind == {"closure", "upvalue", "class", "instance", "bound"}
Field == Pointer \cup Name \cup UpIndex
Value == Obj \cup {Nil}
NoRefs == [f \in Field |-> Nil]
Frame == [closure : Obj, base : 1 .. MaxStack]

(***************************************************************************)
(* op.name is "run" between instructions.  During one, fresh is the slot   *)
(* claimed for a new object, val and aux are C locals that hold objects,   *)
(* field, todo and slot are operands, and checks counts the allocations    *)
(* of the instruction that have not yet tested the collector's threshold.  *)
(***************************************************************************)
Idle == [name |-> "run", fresh |-> Nil, val |-> Nil, aux |-> Nil,
         field |-> InitName, todo |-> {}, slot |-> 0, checks |-> 0]
Op == [name : Opcodes \cup {"run", "capture", "interpret", "OP_CALL", "error"},
       fresh : Value, val : Value, aux : Value, field : Field,
       todo : SUBSET Field, slot : 0 .. MaxStack, checks : 0 .. 2]

Running == op = Idle /\ frames # <<>>
Executes(code) == code \in Opcodes /\ Running
Ready(code) == op.name = code /\ op.checks = 0 /\ ~gcWorking

-----------------------------------------------------------------------------
(* Helpers. *)

Top == stack[Len(stack)]
Under == stack[Len(stack) - 1]
TopFrame == frames[Len(frames)]
Base == TopFrame.base
Pop(s, n) == SubSeq(s, 1, Len(s) - n)
IsKind(v, k) == v \in Obj /\ kind[v] = k

(* Slots the allocator may hand out: nothing lives there. *)
Free == Obj \ objects

(* *upvalue->location *)
Captured(u) == IF u \in open THEN stack[loc[u]] ELSE ref[u]["closed"]

(* closeUpvalues: the open upvalues at or above `last` take their values. *)
Closing(last) == {u \in open : loc[u] >= last}
Closed(C) ==
  [o \in Obj |-> IF o \in C THEN [ref[o] EXCEPT !["closed"] = stack[loc[o]]]
                            ELSE ref[o]]
CloseUpvalues(last) ==
  /\ ref' = Closed(Closing(last))
  /\ loc' = [u \in Obj |-> IF u \in Closing(last) THEN 0 ELSE loc[u]]
  /\ open' = open \ Closing(last)

(* Mutant: the new object carries the current mark. *)
LinkMarked(k, fields) ==
  /\ objects' = objects \cup {op.fresh}
  /\ kind' = [kind EXCEPT ![op.fresh] = k]
  /\ mark' = [mark EXCEPT ![op.fresh] = gcMark]
  /\ ref' = [ref EXCEPT ![op.fresh] = fields]
  /\ UNCHANGED <<gcMark, gcWorking, gray>>

(* allocateObject_slab: link the claimed slot; unmarked for the next cycle. *)
Link(k, fields) ==
  /\ objects' = objects \cup {op.fresh}
  /\ kind' = [kind EXCEPT ![op.fresh] = k]
  /\ mark' = [mark EXCEPT ![op.fresh] = ~gcMark]
  /\ ref' = [ref EXCEPT ![op.fresh] = fields]
  /\ UNCHANGED <<gcMark, gcWorking, gray>>

LinkAndStore(k, fields, o, f) ==
  /\ objects' = objects \cup {op.fresh}
  /\ kind' = [kind EXCEPT ![op.fresh] = k]
  /\ mark' = [mark EXCEPT ![op.fresh] = ~gcMark]
  /\ ref' = [ref EXCEPT ![op.fresh] = fields, ![o][f] = op.fresh]
  /\ UNCHANGED <<gcMark, gcWorking, gray>>

Mutates(unchanged) == UNCHANGED <<objects, kind, marking>> /\ unchanged

-----------------------------------------------------------------------------
(* The collector: garbageCollect, run inside an allocation. *)

Roots ==
  ({stack[i] : i \in 1 .. Len(stack)}
    \cup {frames[i].closure : i \in 1 .. Len(frames)}
    \cup open
    \cup {globals[g] : g \in Global}) \ {Nil}

(* Mutant: a class is blackened through its methods' cache only. *)
TracedInitializer(k) ==
  CASE k = "upvalue"  -> {"closed"}
    [] k = "closure"  -> UpIndex
    [] k = "bound"    -> {"receiver", "method"}
    [] k = "class"    -> {"initializer"}
    [] k = "instance" -> {"klass"} \cup Name
    [] OTHER          -> {}

(* The pointers blackenObject follows, by object->type. *)
Traced(k) ==
  CASE k = "upvalue"  -> {"closed"}
    [] k = "closure"  -> UpIndex
    [] k = "bound"    -> {"receiver", "method"}
    [] k = "class"    -> {"initializer"} \cup Name
    [] k = "instance" -> {"klass"} \cup Name
    [] OTHER          -> {}

Children(o) == {ref[o][f] : f \in Traced(kind[o])} \ {Nil}

(* markObject on each member of S: skip the marked, gray the others. *)
MarkObjects(S) == [o \in Obj |-> IF o \in S THEN gcMark ELSE mark[o]]
(* Mutant: markObject without its early return. *)
UnmarkedOrNot(S) == S
Unmarked(S) == {o \in S : mark[o] # gcMark}

(* The live bytes are below vm.nextGC: no collection at this allocation. *)
NoCollection ==
  /\ op.checks > 0 /\ ~gcWorking
  /\ op' = [op EXCEPT !.checks = @ - 1]
  /\ UNCHANGED <<objects, kind, ref, marking, mutator>>

(* Mutant: the list of open upvalues is not a root. *)
MarkRootsClosed ==
  /\ op.checks > 0 /\ ~gcWorking
  /\ gcWorking' = TRUE
  /\ gray' = Unmarked(Roots \ open)
  /\ mark' = MarkObjects(Roots \ open)
  /\ UNCHANGED <<objects, kind, ref, gcMark, mutator, op>>

MarkRoots ==
  /\ op.checks > 0 /\ ~gcWorking
  /\ gcWorking' = TRUE
  /\ gray' = Unmarked(Roots)
  /\ mark' = MarkObjects(Roots)
  /\ UNCHANGED <<objects, kind, ref, gcMark, mutator, op>>

BlackenObject ==
  /\ gcWorking
  /\ \E o \in gray :
       /\ gray' = (gray \ {o}) \cup Unmarked(Children(o))
       /\ mark' = MarkObjects(Children(o))
  /\ UNCHANGED <<objects, kind, ref, gcMark, gcWorking, mutator, op>>

Survivors == {o \in objects : mark[o] = gcMark}

(* Mutant: the mark is not flipped. *)
SweepUnflipped ==
  /\ gcWorking /\ gray = {}
  /\ objects' = Survivors
  /\ kind' = [o \in Obj |-> IF o \in Survivors THEN kind[o] ELSE "free"]
  /\ ref' = [o \in Obj |-> IF o \in Survivors THEN ref[o] ELSE NoRefs]
  /\ gcWorking' = FALSE
  /\ op' = [op EXCEPT !.checks = @ - 1]
  /\ mark' = [o \in Obj |-> IF o \in Survivors THEN mark[o] ELSE ~gcMark]
  /\ UNCHANGED <<gcMark, gray, mutator>>

(* sweep, then flip the mark.  What a freed slot held is dead: reset here. *)
Sweep ==
  /\ gcWorking /\ gray = {}
  /\ objects' = Survivors
  /\ kind' = [o \in Obj |-> IF o \in Survivors THEN kind[o] ELSE "free"]
  /\ ref' = [o \in Obj |-> IF o \in Survivors THEN ref[o] ELSE NoRefs]
  /\ gcMark' = ~gcMark
  /\ gcWorking' = FALSE
  /\ op' = [op EXCEPT !.checks = @ - 1]
  /\ mark' = [o \in Obj |-> IF o \in Survivors THEN mark[o] ELSE gcMark]
  /\ UNCHANGED <<gray, mutator>>

Collector == NoCollection \/ MarkRoots \/ BlackenObject \/ Sweep

-----------------------------------------------------------------------------
(* Instructions that move values and never allocate.                        *)

(* The n values an instruction consumes are temporaries above the locals   *)
(* of the frame: the compiler emits no capture of a temporary.             *)
Operands(n) == Len(stack) >= Base + n /\ Closing(Len(stack) - n + 1) = {}

PushNil ==
  /\ Executes("OP_NIL") /\ Len(stack) < MaxStack
  /\ stack' = Append(stack, Nil)
  /\ Mutates(UNCHANGED <<ref, frames, open, loc, globals, op>>)

GetLocal ==
  /\ Executes("OP_GET_LOCAL") /\ Len(stack) < MaxStack
  /\ \E i \in Base .. Len(stack) : stack' = Append(stack, stack[i])
  /\ Mutates(UNCHANGED <<ref, frames, open, loc, globals, op>>)

SetLocal ==
  /\ Executes("OP_SET_LOCAL") /\ Operands(1)
  /\ \E i \in Base + 1 .. Len(stack) - 1 : stack' = [stack EXCEPT ![i] = Top]
  /\ Mutates(UNCHANGED <<ref, frames, open, loc, globals, op>>)

PopValue ==
  /\ Executes("OP_POP") /\ Operands(1)
  /\ stack' = Pop(stack, 1)
  /\ Mutates(UNCHANGED <<ref, frames, open, loc, globals, op>>)

(* How the compiler pops a captured local. *)
CloseUpvalue ==
  /\ Executes("OP_CLOSE_UPVALUE") /\ Len(stack) > Base
  /\ CloseUpvalues(Len(stack))
  /\ stack' = Pop(stack, 1)
  /\ Mutates(UNCHANGED <<frames, globals, op>>)

GetGlobal ==
  /\ Executes("OP_GET_GLOBAL") /\ Len(stack) < MaxStack
  /\ \E g \in Global : stack' = Append(stack, globals[g])
  /\ Mutates(UNCHANGED <<ref, frames, open, loc, globals, op>>)

SetGlobal ==
  /\ Executes("OP_SET_GLOBAL") /\ Operands(1)
  /\ \E g \in Global : globals' = [globals EXCEPT ![g] = Top]
  /\ Mutates(UNCHANGED <<ref, stack, frames, open, loc, op>>)

(* frame->closure->upvalues[i], for i < upvalueCount. *)
Upvalue(i) == ref[TopFrame.closure][i]
HasUpvalue(i) == Upvalue(i) # Nil

GetUpvalue ==
  /\ Executes("OP_GET_UPVALUE") /\ Len(stack) < MaxStack
  /\ \E i \in UpIndex :
       HasUpvalue(i) /\ stack' = Append(stack, Captured(Upvalue(i)))
  /\ Mutates(UNCHANGED <<ref, frames, open, loc, globals, op>>)

SetUpvalue ==
  /\ Executes("OP_SET_UPVALUE") /\ Operands(1)
  /\ \E i \in UpIndex :
       /\ HasUpvalue(i)
       /\ IF Upvalue(i) \in open
            THEN /\ stack' = [stack EXCEPT ![loc[Upvalue(i)]] = Top]
                 /\ UNCHANGED ref
            ELSE /\ ref' = [ref EXCEPT ![Upvalue(i)]["closed"] = Top]
                 /\ UNCHANGED stack
  /\ Mutates(UNCHANGED <<frames, open, loc, globals, op>>)

(* instance->klass->methods[n] *)
Method(instance, n) ==
  IF ref[instance]["klass"] = Nil THEN Nil ELSE ref[ref[instance]["klass"]][n]

(* A field, which may be Nil and hide a method, replaces the instance; so   *)
(* does nil where no method is found.                                      *)
GetField ==
  /\ Executes("OP_GET_PROPERTY") /\ Operands(1) /\ IsKind(Top, "instance")
  /\ \E n \in Name : stack' = [stack EXCEPT ![Len(stack)] = ref[Top][n]]
  /\ Mutates(UNCHANGED <<ref, frames, open, loc, globals, op>>)

-----------------------------------------------------------------------------
(* Calls.  p is the stack index of the callee, the arguments lie above it. *)

Callee(p) ==
  \/ Executes("OP_CALL") /\ Operands(Len(stack) - p + 1)
  \/ op.name = "OP_INVOKE" /\ p = op.slot

(* call(): pad missing arguments with nil, clear the extra ones, push.     *)
(* The arity belongs to the function, which the heap does not hold.        *)
Arguments(s, p, arity) ==
  LET argCount == Len(s) - p
      padding == IF arity > argCount THEN arity - argCount ELSE 0
  IN [i \in 1 .. Len(s) + padding |->
        IF i <= Len(s) /\ i <= p + arity THEN s[i] ELSE Nil]

Call(s, p, closure) ==
  \E arity \in 0 .. MaxStack :
    /\ Len(Arguments(s, p, arity)) <= MaxStack
    /\ Len(frames) < MaxFrames
    /\ stack' = Arguments(s, p, arity)
    /\ frames' = Append(frames, [closure |-> closure, base |-> p])

CallClosure ==
  /\ \E p \in 1 .. Len(stack) :
       /\ Callee(p) /\ IsKind(stack[p], "closure")
       /\ Call(stack, p, stack[p])
  /\ op' = Idle
  /\ Mutates(UNCHANGED <<ref, open, loc, globals>>)

CallBoundMethod ==
  /\ \E p \in 1 .. Len(stack) :
       /\ Callee(p) /\ IsKind(stack[p], "bound")
       /\ Call([stack EXCEPT ![p] = ref[stack[p]]["receiver"]], p,
               ref[stack[p]]["method"])
  /\ op' = Idle
  /\ Mutates(UNCHANGED <<ref, open, loc, globals>>)

(* call_native: the result, no object, replaces callee and arguments. *)
CallNative ==
  /\ \E p \in 1 .. Len(stack) :
       /\ Callee(p) /\ stack[p] = Nil
       /\ stack' = Append(SubSeq(stack, 1, p - 1), Nil)
  /\ op' = Idle
  /\ Mutates(UNCHANGED <<ref, frames, open, loc, globals>>)

(* Mutant: the field is called as a closure, not through callValue. *)
InvokeFieldAsClosure ==
  /\ Executes("OP_INVOKE")
  /\ \E p \in 1 .. Len(stack), n \in Name :
       /\ Operands(Len(stack) - p + 1)
       /\ IsKind(stack[p], "instance") /\ ref[stack[p]][n] # Nil
       /\ Call(stack, p, ref[stack[p]][n])
  /\ Mutates(UNCHANGED <<ref, open, loc, globals, op>>)

(* OP_INVOKE on a field: callValue is applied to the value of the field,    *)
(* which may be a native or no callable at all.                            *)
InvokeField ==
  /\ Executes("OP_INVOKE")
  /\ \E p \in 1 .. Len(stack), n \in Name :
       /\ Operands(Len(stack) - p + 1)
       /\ IsKind(stack[p], "instance")
       /\ stack' = [stack EXCEPT ![p] = ref[stack[p]][n]]
       /\ op' = [Idle EXCEPT !.name = "OP_INVOKE", !.slot = p]
  /\ Mutates(UNCHANGED <<ref, frames, open, loc, globals>>)

InvokeMethod ==
  /\ Executes("OP_INVOKE")
  /\ \E p \in 1 .. Len(stack), n \in Name :
       /\ Operands(Len(stack) - p + 1)
       /\ IsKind(stack[p], "instance") /\ ref[stack[p]][n] = Nil
       /\ Method(stack[p], n) # Nil
       /\ Call(stack, p, Method(stack[p], n))
  /\ Mutates(UNCHANGED <<ref, open, loc, globals, op>>)

(* The superclass is read through the upvalue `super` and popped. *)
SuperInvoke ==
  /\ Executes("OP_SUPER_INVOKE")
  /\ \E p \in 1 .. Len(stack), n \in Name, i \in UpIndex :
       /\ Operands(Len(stack) - p + 1)
       /\ HasUpvalue(i) /\ IsKind(Captured(Upvalue(i)), "class")
       /\ ref[Captured(Upvalue(i))][n] # Nil
       /\ Call(stack, p, ref[Captured(Upvalue(i))][n])
  /\ Mutates(UNCHANGED <<ref, open, loc, globals, op>>)

(* Mutant: the callee's captured locals stay open. *)
ReturnOpen ==
  /\ Executes("OP_RETURN") /\ Operands(1)
  /\ frames' = Pop(frames, 1)
  /\ IF Len(frames) = 1
       THEN Len(stack) = 2 /\ stack' = <<>>
       ELSE stack' = Append(SubSeq(stack, 1, Base - 1), Top)
  /\ Mutates(UNCHANGED <<ref, open, loc, globals, op>>)

Return ==
  /\ Executes("OP_RETURN") /\ Operands(1)
  /\ CloseUpvalues(Base)
  /\ frames' = Pop(frames, 1)
  /\ IF Len(frames) = 1
       THEN Len(stack) = 2 /\ stack' = <<>>
       ELSE stack' = Append(SubSeq(stack, 1, Base - 1), Top)
  /\ Mutates(UNCHANGED <<globals, op>>)

(* Mutant: the stack is reset and its captured slots stay open. *)
RuntimeErrorOpen ==
  /\ Running \/ op.name \in {"OP_INVOKE", "error"}
  /\ stack' = <<>> /\ frames' = <<>> /\ op' = Idle
  /\ Mutates(UNCHANGED <<ref, open, loc, globals>>)

(* runtimeError, from any instruction that checks its operands: stack_reset. *)
RuntimeError ==
  /\ Running \/ op.name \in {"OP_INVOKE", "error"}
  /\ CloseUpvalues(1)
  /\ stack' = <<>> /\ frames' = <<>> /\ op' = Idle
  /\ Mutates(UNCHANGED globals)

-----------------------------------------------------------------------------
(* Instructions that allocate.  The first action of each claims the slot   *)
(* and saves the C locals; the collector may run; the last one finishes.   *)

Starts(o) == o \in Free /\ Mutates(UNCHANGED <<ref, mutator>>)
StartsTable == Mutates(UNCHANGED <<ref, mutator>>)

(* interpret and OP_CLOSURE: newClosure allocates the array of upvalues    *)
(* (when there are any) and then the closure; both may collect.            *)
StartInterpret ==
  /\ op = Idle /\ frames = <<>> /\ stack = <<>>
  /\ \E o \in Obj :
       /\ Starts(o)
       /\ op' = [Idle EXCEPT !.name = "interpret", !.fresh = o, !.checks = 1]

FinishInterpret ==
  /\ Ready("interpret")
  /\ Link("closure", NoRefs)
  /\ stack' = <<op.fresh>>
  /\ frames' = <<[closure |-> op.fresh, base |-> 1]>>
  /\ op' = Idle
  /\ UNCHANGED <<open, loc, globals>>

StartClosure ==
  /\ Executes("OP_CLOSURE") /\ Len(stack) < MaxStack
  /\ \E o \in Obj, upvalues \in SUBSET UpIndex :
       /\ Starts(o)
       /\ op' = [Idle EXCEPT !.name = "OP_CLOSURE", !.fresh = o,
                             !.todo = upvalues,
                             !.checks = IF upvalues = {} THEN 1 ELSE 2]

(* The closure is pushed before its upvalues are captured one by one. *)
Capturing(closure, todo) ==
  IF todo = {} THEN Idle
  ELSE [Idle EXCEPT !.name = "capture", !.val = closure, !.todo = todo]

FinishClosure ==
  /\ Ready("OP_CLOSURE")
  /\ Link("closure", NoRefs)
  /\ stack' = Append(stack, op.fresh)
  /\ op' = Capturing(op.fresh, op.todo)
  /\ UNCHANGED <<frames, open, loc, globals>>

CaptureEnclosing ==
  /\ Ready("capture") /\ op.fresh = Nil
  /\ \E i \in op.todo, j \in UpIndex :
       /\ HasUpvalue(j)
       /\ ref' = [ref EXCEPT ![op.val][i] = Upvalue(j)]
       /\ op' = Capturing(op.val, op.todo \ {i})
  /\ Mutates(UNCHANGED <<mutator>>)

CaptureOpen ==
  /\ Ready("capture") /\ op.fresh = Nil
  /\ \E i \in op.todo, u \in open :
       /\ loc[u] >= Base
       /\ ref' = [ref EXCEPT ![op.val][i] = u]
       /\ op' = Capturing(op.val, op.todo \ {i})
  /\ Mutates(UNCHANGED <<mutator>>)

StartCapture ==
  /\ Ready("capture") /\ op.fresh = Nil
  /\ \E o \in Obj, i \in op.todo, local \in Base .. Len(stack) :
       /\ \A u \in open : loc[u] # local
       /\ Starts(o)
       /\ op' = [op EXCEPT !.fresh = o, !.field = i, !.slot = local,
                           !.checks = 1]

FinishCapture ==
  /\ Ready("capture") /\ op.fresh # Nil
  /\ LinkAndStore("upvalue", NoRefs, op.val, op.field)
  /\ open' = open \cup {op.fresh}
  /\ loc' = [loc EXCEPT ![op.fresh] = op.slot]
  /\ op' = Capturing(op.val, op.todo \ {op.field})
  /\ UNCHANGED <<stack, frames, globals>>

(* Mutant: the limit of the stack is not tested. *)
StartNewUnchecked ==
  \E o \in Obj, code \in {"OP_CLASS", "OP_NEW_OBJECT"} :
    /\ Executes(code)
    /\ Starts(o)
    /\ op' = [Idle EXCEPT !.name = code, !.fresh = o, !.checks = 1]

(* OP_CLASS and OP_NEW_OBJECT push a new class, a new literal object; the  *)
(* static emptyClass of a literal owns no object and is Nil here.          *)
StartNew ==
  /\ Len(stack) < MaxStack
  /\ \E o \in Obj, code \in {"OP_CLASS", "OP_NEW_OBJECT"} :
       /\ Executes(code)
       /\ Starts(o)
       /\ op' = [Idle EXCEPT !.name = code, !.fresh = o, !.checks = 1]

FinishNew ==
  /\ Ready("OP_CLASS") \/ Ready("OP_NEW_OBJECT")
  /\ Link(IF op.name = "OP_CLASS" THEN "class" ELSE "instance", NoRefs)
  /\ stack' = Append(stack, op.fresh)
  /\ op' = Idle
  /\ UNCHANGED <<frames, open, loc, globals>>

(* callValue on a class: klass stays on the stack until the instance is    *)
(* allocated and takes its place, then the initializer is called; without  *)
(* one, arguments are an error.                                            *)
StartInstance ==
  /\ \E o \in Obj, p \in 1 .. Len(stack) :
       /\ Callee(p) /\ IsKind(stack[p], "class")
       /\ Starts(o)
       /\ op' = [Idle EXCEPT !.name = "OP_CALL", !.fresh = o,
                             !.val = stack[p], !.slot = p, !.checks = 1]

Initializer == ref[op.val]["initializer"]
WithInstance == [stack EXCEPT ![op.slot] = op.fresh]

FinishInstance ==
  /\ Ready("OP_CALL")
  /\ Link("instance", [NoRefs EXCEPT !["klass"] = op.val])
  /\ \/ /\ Initializer # Nil
        /\ Call(WithInstance, op.slot, Initializer)
        /\ op' = Idle
     \/ /\ Initializer = Nil \/ Len(frames) = MaxFrames
        /\ stack' = WithInstance
        /\ op' = IF Initializer = Nil /\ op.slot = Len(stack)
                   THEN Idle ELSE [Idle EXCEPT !.name = "error"]
        /\ UNCHANGED frames
  /\ UNCHANGED <<open, loc, globals>>

(* bindMethod(instance->klass, n): `method` is read before newBoundMethod  *)
(* allocates, the receiver stays on top of the stack.                      *)
StartBindMethod ==
  /\ Executes("OP_GET_PROPERTY") /\ Operands(1) /\ IsKind(Top, "instance")
  /\ \E o \in Obj, n \in Name :
       /\ ref[Top][n] = Nil /\ Method(Top, n) # Nil
       /\ Starts(o)
       /\ op' = [Idle EXCEPT !.name = "OP_GET_PROPERTY", !.fresh = o,
                             !.val = Top, !.aux = Method(Top, n), !.checks = 1]

(* OP_GET_SUPER: the superclass, read through the upvalue `super`, is      *)
(* popped before its method is bound to the receiver below it.             *)
StartGetSuper ==
  /\ Executes("OP_GET_SUPER") /\ Operands(1)
  /\ \E o \in Obj, n \in Name, i \in UpIndex :
       /\ HasUpvalue(i) /\ IsKind(Captured(Upvalue(i)), "class")
       /\ ref[Captured(Upvalue(i))][n] # Nil
       /\ Starts(o)
       /\ op' = [Idle EXCEPT !.name = "OP_GET_SUPER", !.fresh = o,
                             !.val = Top, !.aux = ref[Captured(Upvalue(i))][n],
                             !.checks = 1]

FinishBindMethod ==
  /\ Ready("OP_GET_PROPERTY") \/ Ready("OP_GET_SUPER")
  /\ Link("bound", [NoRefs EXCEPT !["receiver"] = op.val, !["method"] = op.aux])
  /\ stack' = [stack EXCEPT ![Len(stack)] = op.fresh]
  /\ op' = Idle
  /\ UNCHANGED <<frames, open, loc, globals>>

-----------------------------------------------------------------------------
(* Instructions that store in a table, which may have to grow: one          *)
(* allocation, or none.  The key is a string, which is never collected.     *)
(* Nil in a field is a plain value, or none: to assign nil is to delete     *)
(* the entry, which allocates nothing.                                     *)

StartSetField ==
  /\ \E n \in Name, growth \in 0 .. 1, code \in {"OP_SET_PROPERTY",
                                  "OP_SET_PROPERTY_POP", "OP_NEW_PROPERTY"} :
       /\ Executes(code) /\ Operands(2)
       /\ IsKind(Under, "instance")
       /\ op' = [Idle EXCEPT !.name = code, !.val = Under, !.aux = Top,
                             !.field = n, !.checks = growth]
  /\ StartsTable

FinishSetField ==
  /\ \/ /\ Ready("OP_SET_PROPERTY")
        /\ stack' = Append(Pop(stack, 2), Top)
     \/ /\ Ready("OP_SET_PROPERTY_POP")
        /\ stack' = Pop(stack, 2)
     \/ /\ Ready("OP_NEW_PROPERTY")
        /\ stack' = Pop(stack, 1)
  /\ ref' = [ref EXCEPT ![op.val][op.field] = op.aux]
  /\ op' = Idle
  /\ Mutates(UNCHANGED <<frames, open, loc, globals>>)

(* Mutant: the value is popped before the table stores it. *)
StartDefineGlobalPopped ==
  /\ Executes("OP_DEFINE_GLOBAL") /\ Operands(1)
  /\ \E growth \in 0 .. 1 :
       op' = [Idle EXCEPT !.name = "OP_DEFINE_GLOBAL", !.aux = Top,
                          !.checks = growth]
  /\ stack' = [stack EXCEPT ![Len(stack)] = Nil]
  /\ Mutates(UNCHANGED <<ref, frames, open, loc, globals>>)

StartDefineGlobal ==
  /\ Executes("OP_DEFINE_GLOBAL") /\ Operands(1)
  /\ \E growth \in 0 .. 1 :
       op' = [Idle EXCEPT !.name = "OP_DEFINE_GLOBAL", !.aux = Top,
                          !.checks = growth]
  /\ StartsTable

FinishDefineGlobal ==
  /\ Ready("OP_DEFINE_GLOBAL")
  /\ \E g \in Global : globals' = [globals EXCEPT ![g] = op.aux]
  /\ stack' = Pop(stack, 1)
  /\ op' = Idle
  /\ Mutates(UNCHANGED <<ref, frames, open, loc>>)

(* Mutant: the method is popped before the table stores it. *)
StartMethodPopped ==
  /\ Executes("OP_METHOD") /\ Operands(2)
  /\ IsKind(Under, "class") /\ IsKind(Top, "closure")
  /\ \E n \in Name, growth \in 0 .. 1 :
       op' = [Idle EXCEPT !.name = "OP_METHOD", !.val = Under, !.aux = Top,
                          !.field = n, !.checks = growth]
  /\ stack' = [stack EXCEPT ![Len(stack)] = Nil]
  /\ Mutates(UNCHANGED <<ref, frames, open, loc, globals>>)

(* defineMethod, with the class's cache of its initializer. *)
StartMethod ==
  /\ Executes("OP_METHOD") /\ Operands(2)
  /\ IsKind(Under, "class") /\ IsKind(Top, "closure")
  /\ \E n \in Name, growth \in 0 .. 1 :
       op' = [Idle EXCEPT !.name = "OP_METHOD", !.val = Under, !.aux = Top,
                          !.field = n, !.checks = growth]
  /\ StartsTable

WithMethod(klass, n, method) ==
  IF n = InitName
    THEN [klass EXCEPT ![n] = method, !["initializer"] = method]
    ELSE [klass EXCEPT ![n] = method]

FinishMethod ==
  /\ Ready("OP_METHOD")
  /\ ref' = [ref EXCEPT ![op.val] = WithMethod(@, op.field, op.aux)]
  /\ stack' = Pop(stack, 1)
  /\ op' = Idle
  /\ Mutates(UNCHANGED <<frames, open, loc, globals>>)

(* OP_INHERIT: tableAddAll stores the methods of the superclass one by     *)
(* one, each store may grow the table; then the initializer is copied.     *)
(* The compiler emits it before any method of the new subclass.            *)
MethodNames(klass) == {n \in Name : ref[klass][n] # Nil}

StartInherit ==
  /\ Executes("OP_INHERIT") /\ Len(stack) > Base + 1 /\ Operands(1)
  /\ IsKind(Under, "class") /\ IsKind(Top, "class")
  /\ MethodNames(Top) = {}
  /\ \E growth \in 0 .. 1 :
       op' = [Idle EXCEPT !.name = "OP_INHERIT", !.val = Top, !.aux = Under,
                          !.todo = MethodNames(Under), !.checks = growth]
  /\ StartsTable

InheritMethod ==
  /\ Ready("OP_INHERIT")
  /\ \E n \in op.todo, growth \in 0 .. 1 :
       /\ ref' = [ref EXCEPT ![op.val][n] = ref[op.aux][n]]
       /\ op' = [op EXCEPT !.todo = @ \ {n}, !.checks = growth]
  /\ Mutates(UNCHANGED <<mutator>>)

(* Mutant: the cached initializer is not copied. *)
UninitializedClass == ref[op.val]

InheritedClass ==
  IF ref[op.val]["initializer"] = Nil
    THEN [ref[op.val] EXCEPT !["initializer"] = ref[op.aux]["initializer"]]
    ELSE ref[op.val]

FinishInherit ==
  /\ Ready("OP_INHERIT") /\ op.todo = {}
  /\ ref' = [ref EXCEPT ![op.val] = InheritedClass]
  /\ stack' = Pop(stack, 1)
  /\ op' = Idle
  /\ Mutates(UNCHANGED <<frames, open, loc, globals>>)

-----------------------------------------------------------------------------
(* Specification. *)

(* vm_init *)
Init ==
  /\ objects = {}
  /\ kind = [o \in Obj |-> "free"]
  /\ ref = [o \in Obj |-> NoRefs]
  /\ mark = [o \in Obj |-> FALSE]
  /\ gcMark = TRUE /\ gcWorking = FALSE /\ gray = {}
  /\ stack = <<>> /\ frames = <<>> /\ open = {}
  /\ loc = [o \in Obj |-> 0]
  /\ globals = [g \in Global |-> Nil]
  /\ op = Idle

Moves ==
  PushNil \/ GetLocal \/ SetLocal \/ PopValue \/ CloseUpvalue \/ GetGlobal
    \/ SetGlobal \/ GetUpvalue \/ SetUpvalue \/ GetField

Calls ==
  CallClosure \/ CallBoundMethod \/ CallNative \/ InvokeField \/ InvokeMethod
    \/ SuperInvoke \/ Return \/ RuntimeError

Starting ==
  StartInterpret \/ StartClosure \/ StartCapture \/ StartNew \/ StartInstance
    \/ StartBindMethod \/ StartGetSuper \/ StartSetField \/ StartDefineGlobal
    \/ StartMethod \/ StartInherit

Finishing ==
  FinishInterpret \/ FinishClosure \/ CaptureEnclosing \/ CaptureOpen
    \/ FinishCapture \/ FinishNew \/ FinishInstance \/ FinishBindMethod
    \/ FinishSetField \/ FinishDefineGlobal \/ FinishMethod \/ InheritMethod
    \/ FinishInherit

Next == Moves \/ Calls \/ Starting \/ Finishing \/ Collector

Spec == Init /\ [][Next]_vars

(* The collector runs to its end inside the allocation that starts it: the *)
(* interpreter's only thread executes nothing else meanwhile.              *)
FairSpec == Spec /\ WF_vars(Collector)

-----------------------------------------------------------------------------
(* Properties. *)

(* The variables keep their types: no instruction pushes a value or a      *)
(* frame beyond the limits.                                                *)
TypeOK ==
  /\ objects \subseteq Obj
  /\ kind \in [Obj -> Kind \cup {"free"}]
  /\ ref \in [Obj -> [Field -> Value]]
  /\ mark \in [Obj -> BOOLEAN] /\ gcMark \in BOOLEAN /\ gcWorking \in BOOLEAN
  /\ gray \subseteq Obj
  /\ stack \in Seq(Value) /\ Len(stack) <= MaxStack
  /\ frames \in Seq(Frame) /\ Len(frames) <= MaxFrames
  /\ open \subseteq Obj
  /\ loc \in [Obj -> 0 .. MaxStack]
  /\ globals \in [Global -> Value]
  /\ op \in Op

(* No object in use is ever freed: what the stack, a frame, the open list, *)
(* a global, another object or a C local held across an allocation refers  *)
(* to is still in vm.objects.                                              *)
NoDangling ==
  /\ Roots \subseteq objects
  /\ \A o \in objects, f \in Field : ref[o][f] \in objects \cup {Nil}
  /\ {op.val, op.aux} \subseteq objects \cup {Nil}

(* The casts the interpreter makes without looking at the type tag: what   *)
(* it calls, follows as an upvalue or takes for a class is one.            *)
Holds(v, k) == v = Nil \/ IsKind(v, k)
TypedRoots ==
  /\ \A i \in 1 .. Len(frames) : IsKind(frames[i].closure, "closure")
  /\ \A u \in open : IsKind(u, "upvalue")
TypedObjects ==
  \A o \in objects :
    /\ kind[o] = "closure" => \A i \in UpIndex : Holds(ref[o][i], "upvalue")
    /\ kind[o] = "bound" => IsKind(ref[o]["method"], "closure")
    /\ kind[o] = "instance" => Holds(ref[o]["klass"], "class")
    /\ kind[o] = "class" =>
         \A n \in Name \cup {"initializer"} : Holds(ref[o][n], "closure")
UncheckedCasts == TypedRoots /\ TypedObjects

(* Open upvalues point into the live stack, no two of them to one slot: a  *)
(* captured local is read and written through a single upvalue.            *)
OpenUpvalues ==
  /\ \A u \in open : loc[u] \in 1 .. Len(stack)
  /\ \A u, v \in open : loc[u] = loc[v] => u = v

(* The class's cached initializer is its method "init", inherited or not,  *)
(* except between the copied method and the copied cache of OP_INHERIT.    *)
InitializerCache ==
  \A o \in objects :
    kind[o] = "class" /\ ~(op.name = "OP_INHERIT" /\ op.val = o)
      => ref[o]["initializer"] = ref[o][InitName]

(* A collection frees exactly the garbage: what it leaves in vm.objects is *)
(* what every set closed under references that holds the roots contains.   *)
ClosedUnderReferences(S) ==
  Roots \subseteq S /\ \A o \in S : Children(o) \subseteq S
Reachable ==
  {o \in objects : \A S \in SUBSET objects : ClosedUnderReferences(S) => o \in S}
FreesGarbage == gcWorking /\ ~gcWorking' => objects' = Reachable
CollectsExactly == [][FreesGarbage]_vars

(* Every collection ends, cycles of objects or not.                        *)
CollectionEnds == gcWorking ~> ~gcWorking

=============================================================================
