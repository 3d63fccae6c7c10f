---------------------------- MODULE HeapInvariant ----------------------------
(***************************************************************************)
(* The inductive strengthening of Heap's safety invariants: why no object  *)
(* in use is freed.  Between collections every object of vm.objects refers *)
(* to objects of vm.objects only and none carries the current mark; during *)
(* one the marked objects contain the roots and, gray objects aside, all   *)
(* they refer to; and every C local held across an allocation is either a  *)
(* root or at most three references away from one.                         *)
(***************************************************************************)
EXTENDS Heap

(* The objects at most one more reference away. *)
Step(S) == S \cup UNION {Children(o) : o \in S}

Live(v) == v \in objects \cup {Nil}

(* What the interpreter can name directly. *)
StackLive == \A i \in 1 .. Len(stack) : Live(stack[i])
FramesLive == \A i \in 1 .. Len(frames) : frames[i].closure \in objects
OpenLive == open \subseteq objects
GlobalsLive == \A g \in Global : Live(globals[g])
HeldLive == Live(op.val) /\ Live(op.aux) /\ op.fresh \notin objects
RootsLive == StackLive /\ FramesLive /\ OpenLive /\ GlobalsLive

(* What objects refer to. *)
RefsLive == \A o \in objects, f \in Field : Live(ref[o][f])

(* An object uses only the pointers blackenObject follows for its type;    *)
(* a free slot uses none.                                                  *)
Shape ==
  /\ \A o \in Obj : o \in objects <=> kind[o] # "free"
  /\ \A o \in Obj : \A f \in Field \ Traced(kind[o]) : ref[o][f] = Nil

(* The marks: the current one is on no object between two collections; in  *)
(* a collection it spreads from the roots and never stops at a black one.  *)
Marked == {o \in objects : mark[o] = gcMark}
Marks ==
  IF gcWorking
    THEN /\ Roots \subseteq Marked
         /\ gray \subseteq Marked
         /\ \A o \in Marked \ gray : Children(o) \subseteq Marked
         /\ op.checks > 0
    ELSE Marked = {} /\ gray = {}

(* The operands on the stack that the rest of an instruction still needs. *)
Temporaries(n) ==
  /\ Len(stack) >= n
  /\ \A u \in open : loc[u] <= Len(stack) - n

Pending ==
  /\ op.name \notin {"run", "interpret"} => frames # <<>>
  /\ op.name \in {"run", "OP_INVOKE", "error"} =>
       op.checks = 0 /\ op.fresh = Nil /\ op.val = Nil /\ op.aux = Nil
  /\ op.name \in {"OP_CALL", "OP_INVOKE"} =>
       op.slot \in 1 .. Len(stack) /\ Temporaries(Len(stack) - op.slot + 1)
  /\ op.name = "interpret" => stack = <<>> /\ frames = <<>> /\ open = {}
  /\ op.name \in {"OP_CLOSURE", "OP_CLASS", "OP_NEW_OBJECT"} =>
       Len(stack) < MaxStack
  /\ op.name = "OP_CLOSURE" => op.todo \subseteq UpIndex
  /\ op.name = "capture" =>
       /\ op.todo \subseteq UpIndex /\ IsKind(op.val, "closure")
       /\ stack # <<>> /\ op.val = Top /\ op.aux = Nil
       /\ op.fresh # Nil =>
            /\ op.slot \in 1 .. Len(stack) /\ op.field \in op.todo
            /\ \A u \in open : loc[u] # op.slot
       /\ op.fresh = Nil => op.checks = 0
  /\ op.name \in {"OP_CALL", "OP_GET_PROPERTY", "OP_GET_SUPER"} => op.checks <= 1
  /\ op.name = "OP_CALL" => IsKind(op.val, "class")
  /\ op.name \in {"OP_GET_PROPERTY", "OP_GET_SUPER"} =>
       Temporaries(1) /\ IsKind(op.aux, "closure")
  /\ op.name \in {"OP_SET_PROPERTY", "OP_SET_PROPERTY_POP", "OP_NEW_PROPERTY"} =>
       Temporaries(2) /\ op.field \in Name /\ IsKind(op.val, "instance")
  /\ op.name = "OP_DEFINE_GLOBAL" => Temporaries(1)
  /\ op.name \in {"OP_METHOD", "OP_INHERIT"} =>
       Temporaries(1) /\ IsKind(op.val, "class")
  /\ op.name = "OP_METHOD" => op.field \in Name /\ IsKind(op.aux, "closure")
  /\ op.name = "OP_INHERIT" =>
       /\ op.todo \subseteq Name /\ IsKind(op.aux, "class")
       /\ Len(stack) >= 2 /\ op.val = Top /\ op.aux = Under
  /\ op.name \in {"interpret", "OP_CLOSURE", "OP_CLASS", "OP_NEW_OBJECT",
                  "OP_CALL", "OP_GET_PROPERTY", "OP_GET_SUPER"} => op.fresh # Nil

(* A C local held across an allocation is a root, or the method bindMethod *)
(* found through the receiver's class or through the upvalue `super`.      *)
Binding == op.name \in {"OP_GET_PROPERTY", "OP_GET_SUPER"}
HeldRooted ==
  op.checks > 0 =>
    /\ op.val \in Roots \cup {Nil}
    /\ op.aux \in (IF Binding THEN Step(Step(Step(Roots))) ELSE Roots) \cup {Nil}

IInv ==
  /\ TypeOK /\ RootsLive /\ HeldLive /\ RefsLive /\ Shape /\ UncheckedCasts
  /\ Marks /\ OpenUpvalues /\ Pending /\ HeldRooted

(* What a collection has marked, it has reached from the roots: until it   *)
(* sweeps, every set closed under references that holds the roots holds    *)
(* the marked objects.                                                     *)
MarksReached == gcWorking => Marked \subseteq Reachable

(* The classes' caches, while OP_INHERIT copies the methods one by one:    *)
(* the subclass had no method before and has no initializer yet.           *)
Inheriting ==
  op.name = "OP_INHERIT" =>
    /\ ref[op.val]["initializer"] = Nil
    /\ InitName \in op.todo \/ ref[op.val][InitName] = ref[op.aux][InitName]
    /\ op.val = op.aux => ref[op.val][InitName] = Nil /\ op.todo = {}
CacheInv == InitializerCache /\ Inheriting

=============================================================================
