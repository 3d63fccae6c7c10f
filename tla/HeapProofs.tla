----------------------------- MODULE HeapProofs -----------------------------
(***************************************************************************)
(* Proofs about Heap, for any number of objects, names, globals, stack     *)
(* slots and frames, any program and any choice of the allocations at      *)
(* which a collection runs: HeapInvariant's IInv is inductive, hence no    *)
(* object in use is freed, no unchecked cast goes wrong and every captured *)
(* local has one open upvalue.  From it follow that a collection frees all *)
(* that is not in use and that a class's cached initializer is its own     *)
(* init.  One lemma per action of Heap; the shared ones say what the       *)
(* common kinds of step (a value moved, an instruction started, an object  *)
(* linked, a table entry stored) preserve.                                 *)
(***************************************************************************)
EXTENDS HeapInvariant, SequenceTheorems, TLAPS

USE ConstantsAssumption

(* Between instructions no operand is out of range. *)
LEMMA IdleOp == Idle \in Op
BY DEF Op, Idle, Field, Value

-----------------------------------------------------------------------------
(* Between two collections nothing is marked. *)
LEMMA NotWorking ==
  ASSUME IInv, op.checks = 0
  PROVE  ~gcWorking /\ Marked = {} /\ gray = {}
BY DEF IInv, Marks, TypeOK, Op

(* A step that ends an instruction and leaves the collector alone has to   *)
(* preserve only what the instruction can disturb.                         *)
LEMMA EndsInstruction ==
  ASSUME IInv, op.checks = 0, op' = Idle,
         UNCHANGED <<objects, kind, marking>>,
         TypeOK', RootsLive', RefsLive', Shape', UncheckedCasts', OpenUpvalues'
  PROVE  IInv'
<1>1. HeldLive'
  BY DEF Idle, HeldLive, Live, TypeOK
<1>2. Marks'
  BY NotWorking DEF IInv, Marks, Marked, marking
<1>3. Pending' /\ HeldRooted'
  BY DEF Idle, Pending, HeldRooted
<1> QED BY <1>1, <1>2, <1>3 DEF IInv

(* A step that only moves values between stack and globals. *)
LEMMA MovesValue ==
  ASSUME IInv, op = Idle,
         UNCHANGED <<objects, kind, marking, ref, frames, open, loc, op>>,
         stack' \in Seq(Value), Len(stack') <= MaxStack, StackLive',
         \A u \in open : loc[u] <= Len(stack'),
         globals' \in [Global -> Value], GlobalsLive'
  PROVE  IInv'
<1>1. op.checks = 0 /\ op' = Idle
  BY DEF Idle
<1>2. TypeOK'
  BY DEF IInv, TypeOK, marking
<1>3. RootsLive'
  BY DEF IInv, RootsLive, FramesLive, OpenLive
<1>4. RefsLive' /\ Shape'
  BY DEF IInv, RefsLive, Shape, Live
<1>5. UncheckedCasts'
  BY DEF IInv, UncheckedCasts, TypedRoots, TypedObjects, IsKind, Holds
<1>6. OpenUpvalues'
  BY DEF IInv, OpenUpvalues, TypeOK
<1> QED BY <1>1, <1>2, <1>3, <1>4, <1>5, <1>6, EndsInstruction

(* A live value is pushed. *)
LEMMA PushesValue ==
  ASSUME IInv, NEW v, Live(v), Len(stack) < MaxStack,
         stack' = Append(stack, v), UNCHANGED objects
  PROVE  /\ stack' \in Seq(Value)
         /\ Len(stack') = Len(stack) + 1
         /\ Len(stack') <= MaxStack
         /\ StackLive'
         /\ \A u \in open : loc[u] <= Len(stack)
<1>1. stack \in Seq(Value) /\ v \in Value
  BY DEF IInv, TypeOK, Live, Value
<1>2. stack' \in Seq(Value) /\ Len(stack') = Len(stack) + 1
  BY <1>1
<1>3. \A i \in 1 .. Len(stack') :
        stack'[i] = IF i = Len(stack') THEN v ELSE stack[i]
  BY <1>1, <1>2
<1>4. StackLive'
  BY <1>1, <1>2, <1>3 DEF IInv, RootsLive, StackLive, Live
<1>5. \A u \in open : loc[u] <= Len(stack)
  BY DEF IInv, OpenUpvalues
<1> QED BY <1>1, <1>2, <1>4, <1>5

(* A live value replaces a slot. *)
LEMMA ReplacesValue ==
  ASSUME IInv, NEW v, Live(v), NEW i \in 1 .. Len(stack),
         stack' = [stack EXCEPT ![i] = v], UNCHANGED objects
  PROVE  /\ stack' \in Seq(Value)
         /\ Len(stack') = Len(stack)
         /\ Len(stack') <= MaxStack
         /\ StackLive'
         /\ \A u \in open : loc[u] <= Len(stack')
<1>1. stack \in Seq(Value) /\ v \in Value /\ Len(stack) <= MaxStack
  BY DEF IInv, TypeOK, Live, Value
<1>2. stack' \in Seq(Value) /\ Len(stack') = Len(stack)
  BY <1>1
<1>3. \A j \in 1 .. Len(stack) : stack'[j] = IF j = i THEN v ELSE stack[j]
  BY <1>1
<1>4. StackLive'
  BY <1>2, <1>3 DEF IInv, RootsLive, StackLive, Live
<1>5. \A u \in open : loc[u] <= Len(stack)
  BY DEF IInv, OpenUpvalues
<1> QED BY <1>1, <1>2, <1>4, <1>5

(* The first n elements of a sequence. *)
LEMMA Prefix ==
  ASSUME NEW S, NEW s \in Seq(S), NEW n \in 0 .. Len(s)
  PROVE  /\ SubSeq(s, 1, n) \in Seq(S)
         /\ Len(SubSeq(s, 1, n)) = n
         /\ \A j \in 1 .. n : SubSeq(s, 1, n)[j] = s[j]
OBVIOUS

(* An instruction replaces its two operands by the upper one. *)
LEMMA PopsUnder ==
  ASSUME IInv, Temporaries(2), stack' = Append(Pop(stack, 2), Top),
         UNCHANGED objects
  PROVE  /\ stack' \in Seq(Value)
         /\ Len(stack') = Len(stack) - 1
         /\ Len(stack') <= MaxStack
         /\ StackLive'
         /\ \A u \in open : loc[u] <= Len(stack')
<1>1. stack \in Seq(Value) /\ Len(stack) \in Nat /\ Len(stack) >= 2
  BY DEF IInv, TypeOK, Temporaries
<1>2. Top \in Value /\ Live(Top)
  BY <1>1 DEF IInv, RootsLive, StackLive, Top
<1> DEFINE s == SubSeq(stack, 1, Len(stack) - 2)
<1>3. /\ s \in Seq(Value) /\ Len(s) = Len(stack) - 2
      /\ \A j \in 1 .. Len(stack) - 2 : s[j] = stack[j]
      /\ stack' = Append(s, Top)
  <2>1. Len(stack) - 2 \in 0 .. Len(stack)
    BY <1>1
  <2> QED BY <1>1, <2>1, Prefix DEF Pop
<1> HIDE DEF s
<1>4. stack' \in Seq(Value) /\ Len(stack') = Len(stack) - 1
  <2>1. Append(s, Top) \in Seq(Value) /\ Len(Append(s, Top)) = Len(s) + 1
    BY <1>2, <1>3, AppendProperties
  <2>2. stack' \in Seq(Value) /\ Len(stack') = Len(s) + 1
    BY <1>3, <2>1, Zenon
  <2>3. Len(s) + 1 = Len(stack) - 1
    BY <1>1, <1>3
  <2> QED BY <2>2, <2>3, Zenon
<1>5. \A j \in 1 .. Len(stack') :
        stack'[j] = IF j = Len(stack') THEN Top ELSE stack[j]
  <2>1. stack'[Len(s) + 1] = Top /\ \A j \in 1 .. Len(s) : stack'[j] = s[j]
    BY <1>2, <1>3, AppendProperties
  <2> QED BY <1>1, <1>3, <1>4, <2>1
<1>6. StackLive'
  <2>1. \A j \in 1 .. Len(stack') : j = Len(stack') \/ j \in 1 .. Len(stack)
    BY <1>1, <1>4
  <2>2. \A j \in 1 .. Len(stack) : Live(stack[j])
    BY DEF IInv, RootsLive, StackLive
  <2>3. \A j \in 1 .. Len(stack') : Live(stack'[j])
    BY <1>2, <1>5, <2>1, <2>2
  <2> QED BY <2>3 DEF StackLive, Live
<1>7. Len(stack') <= MaxStack
  BY <1>1, <1>4 DEF IInv, TypeOK
<1>8. \A u \in open : loc[u] <= Len(stack')
  BY <1>1, <1>4 DEF IInv, OpenUpvalues, Temporaries
<1> QED BY <1>4, <1>6, <1>7, <1>8

(* n values are popped. *)
LEMMA PopsValues ==
  ASSUME IInv, NEW n \in 0 .. Len(stack), stack' = Pop(stack, n),
         UNCHANGED objects
  PROVE  /\ stack' \in Seq(Value)
         /\ Len(stack') = Len(stack) - n
         /\ Len(stack') <= MaxStack
         /\ StackLive'
<1>1. stack \in Seq(Value) /\ Len(stack) <= MaxStack /\ Len(stack) \in Nat
  BY DEF IInv, TypeOK
<1>2. stack' = SubSeq(stack, 1, Len(stack) - n)
  BY DEF Pop
<1>3. stack' \in Seq(Value) /\ Len(stack') = Len(stack) - n
  BY <1>1, <1>2
<1>4. \A j \in 1 .. Len(stack') : stack'[j] = stack[j]
  BY <1>1, <1>2, <1>3
<1>5. StackLive'
  BY <1>1, <1>3, <1>4 DEF IInv, RootsLive, StackLive, Live
<1> QED BY <1>1, <1>3, <1>5

(* The frame of the running function is a frame of the stack, its operands *)
(* lie above every captured local.                                         *)
LEMMA RunningFrame ==
  ASSUME IInv, frames # <<>>
  PROVE  /\ TopFrame.closure \in objects
         /\ kind[TopFrame.closure] = "closure"
         /\ Base \in 1 .. MaxStack
<1>1. Len(frames) \in 1 .. Len(frames) /\ frames[Len(frames)] \in Frame
  BY DEF IInv, TypeOK
<1> QED BY <1>1 DEF IInv, RootsLive, FramesLive, UncheckedCasts, TypedRoots,
                    IsKind, TopFrame, Base, Frame

(* The operands of an instruction lie above the captured slots. *)
LEMMA OperandsAreTemporaries ==
  ASSUME IInv, frames # <<>>, NEW n \in Nat, Operands(n)
  PROVE  n \in 0 .. Len(stack) /\ n < Len(stack) /\ Temporaries(n)
<1>1. Base \in 1 .. MaxStack
  BY RunningFrame
<1>2. Len(stack) \in Nat /\ loc \in [Obj -> Nat] /\ open \subseteq Obj
  BY DEF IInv, TypeOK
<1> QED BY <1>1, <1>2 DEF Operands, Closing, Temporaries

(* What the stack's top refers to is an object. *)
LEMMA TopIsLive ==
  ASSUME IInv, stack # <<>>
  PROVE  Live(Top) /\ Len(stack) \in 1 .. Len(stack)
BY DEF IInv, TypeOK, RootsLive, StackLive, Top

(* What an upvalue of the running closure refers to. *)
LEMMA UpvalueIsLive ==
  ASSUME IInv, frames # <<>>, NEW i \in UpIndex, HasUpvalue(i)
  PROVE  /\ Upvalue(i) \in objects
         /\ kind[Upvalue(i)] = "upvalue"
         /\ Live(Captured(Upvalue(i)))
<1>1. Upvalue(i) \in objects /\ kind[Upvalue(i)] = "upvalue"
  BY RunningFrame DEF IInv, RefsLive, Live, UncheckedCasts, TypedObjects, Holds,
     IsKind, HasUpvalue, Upvalue, Field
<1>2. Live(Captured(Upvalue(i)))
  <2>1. CASE Upvalue(i) \in open
    BY <2>1 DEF IInv, OpenUpvalues, RootsLive, StackLive, Captured
  <2>2. CASE Upvalue(i) \notin open
    BY <1>1, <2>2 DEF IInv, RefsLive, Captured, Field, Pointer
  <2> QED BY <2>1, <2>2
<1> QED BY <1>1, <1>2

(* A live value of the expected kind is stored in an object. *)
LEMMA StoresRef ==
  ASSUME IInv, UNCHANGED <<objects, kind>>,
         NEW o \in objects, NEW f \in Field \cap Traced(kind[o]), NEW v, Live(v),
         ref' = [ref EXCEPT ![o][f] = v],
         kind[o] # "bound",
         kind[o] = "closure" => Holds(v, "upvalue"),
         kind[o] = "instance" /\ f = "klass" => Holds(v, "class"),
         kind[o] = "class" => Holds(v, "closure")
  PROVE  /\ ref' \in [Obj -> [Field -> Value]]
         /\ RefsLive' /\ Shape' /\ TypedObjects'
<1>1. o \in Obj /\ ref \in [Obj -> [Field -> Value]] /\ v \in Value
  BY DEF IInv, TypeOK, Live, Value
<1>2. \A p \in Obj, g \in Field :
        ref'[p][g] = IF p = o /\ g = f THEN v ELSE ref[p][g]
  BY <1>1
<1>3. ref' \in [Obj -> [Field -> Value]]
  BY <1>1
<1>4. RefsLive'
  BY <1>1, <1>2 DEF IInv, TypeOK, RefsLive, Live
<1>5. Shape'
  BY <1>1, <1>2 DEF IInv, Shape
<1>6. TypedObjects'
  BY <1>1, <1>2 DEF IInv, TypeOK, UncheckedCasts, TypedObjects, Holds, IsKind,
     Field, Pointer
<1> QED BY <1>3, <1>4, <1>5, <1>6

(* closeUpvalues keeps objects typed and the rest of the list open. *)
LEMMA ClosesUpvalues ==
  ASSUME IInv, NEW last \in Nat, CloseUpvalues(last), UNCHANGED <<objects, kind>>
  PROVE  /\ ref' \in [Obj -> [Field -> Value]]
         /\ loc' \in [Obj -> 0 .. MaxStack]
         /\ open' \subseteq open
         /\ \A u \in open' : loc'[u] = loc[u] /\ loc[u] < last
         /\ RefsLive' /\ Shape' /\ TypedObjects'
<1> DEFINE C == Closing(last)
<1>0. C \subseteq open /\ open \subseteq objects /\ objects \subseteq Obj
  BY DEF Closing, IInv, TypeOK, RootsLive, OpenLive
<1>1. ref \in [Obj -> [Field -> Value]] /\ loc \in [Obj -> 0 .. MaxStack]
  BY DEF IInv, TypeOK
<1>2. \A u \in C : Live(stack[loc[u]]) /\ stack[loc[u]] \in Value
  BY <1>0 DEF IInv, OpenUpvalues, RootsLive, StackLive, TypeOK
<1>3. \A p \in Obj, g \in Field :
        ref'[p][g] = IF p \in C /\ g = "closed" THEN stack[loc[p]] ELSE ref[p][g]
  BY <1>1 DEF CloseUpvalues, Closed
<1>4. ref' \in [Obj -> [Field -> Value]]
  BY <1>1, <1>2 DEF CloseUpvalues, Closed
<1>5. loc' \in [Obj -> 0 .. MaxStack] /\ open' \subseteq open
  BY <1>1 DEF CloseUpvalues, IInv, TypeOK
<1>6. \A u \in open' : loc'[u] = loc[u] /\ loc[u] < last
  BY <1>0, <1>1 DEF CloseUpvalues, Closing
<1>7. RefsLive'
  BY <1>0, <1>2, <1>3 DEF IInv, RefsLive, Live
<1>8. \A u \in C : kind[u] = "upvalue"
  BY <1>0 DEF IInv, UncheckedCasts, TypedRoots, IsKind
<1>9. Shape'
  <2>1. \A p \in Obj : \A g \in Field \ Traced(kind[p]) : ref[p][g] = Nil
    BY DEF IInv, Shape
  <2>2. \A p \in C : "closed" \in Traced(kind[p])
    BY <1>8 DEF Traced
  <2>3. \A p \in Obj : \A g \in Field \ Traced(kind[p]) : ref'[p][g] = Nil
    BY <1>3, <2>1, <2>2
  <2> QED BY <2>3 DEF IInv, Shape
<1>10. TypedObjects'
  <2>1. \A p \in objects, g \in Field \ {"closed"} : ref'[p][g] = ref[p][g]
    BY <1>0, <1>3
  <2>2. UpIndex \cup Name \cup {"method", "klass", "initializer"}
          \subseteq Field \ {"closed"}
    BY DEF Field, Pointer
  <2>3. TypedObjects
    BY DEF IInv, UncheckedCasts
  <2> QED BY <1>0, <2>1, <2>2, <2>3 DEF TypedObjects, Holds, IsKind
<1> QED BY <1>4, <1>5, <1>6, <1>7, <1>9, <1>10

-----------------------------------------------------------------------------
(* Instructions that move values. *)

LEMMA PushNilPreserves == IInv /\ PushNil => IInv'
<1> SUFFICES ASSUME IInv, PushNil PROVE IInv'
  OBVIOUS
<1> USE DEF PushNil, Executes, Running, Mutates
<1> QED BY PushesValue, MovesValue DEF IInv, TypeOK, RootsLive, GlobalsLive, Live

LEMMA GetLocalPreserves == IInv /\ GetLocal => IInv'
<1> SUFFICES ASSUME IInv, GetLocal PROVE IInv'
  OBVIOUS
<1> USE DEF GetLocal, Executes, Running, Mutates
<1>0. PICK i \in Base .. Len(stack) : stack' = Append(stack, stack[i])
  OBVIOUS
<1>1. i \in 1 .. Len(stack)
  BY RunningFrame DEF IInv, TypeOK
<1>2. Live(stack[i])
  BY <1>1 DEF IInv, RootsLive, StackLive
<1> QED BY <1>0, <1>2, PushesValue, MovesValue
        DEF IInv, TypeOK, RootsLive, GlobalsLive, Live

LEMMA SetLocalPreserves == IInv /\ SetLocal => IInv'
<1> SUFFICES ASSUME IInv, SetLocal PROVE IInv'
  OBVIOUS
<1> USE DEF SetLocal, Executes, Running, Mutates
<1>0. PICK i \in Base + 1 .. Len(stack) - 1 : stack' = [stack EXCEPT ![i] = Top]
  OBVIOUS
<1>1. i \in 1 .. Len(stack) /\ stack # <<>>
  BY RunningFrame DEF IInv, TypeOK
<1> QED BY <1>0, <1>1, TopIsLive, ReplacesValue, MovesValue
        DEF IInv, TypeOK, RootsLive, GlobalsLive, Live

LEMMA PopValuePreserves == IInv /\ PopValue => IInv'
<1> SUFFICES ASSUME IInv, PopValue PROVE IInv'
  OBVIOUS
<1> USE DEF PopValue, Executes, Running, Mutates
<1>1. 1 \in 0 .. Len(stack) /\ Temporaries(1)
  BY OperandsAreTemporaries
<1> QED BY <1>1, PopsValues, MovesValue
        DEF IInv, TypeOK, RootsLive, GlobalsLive, Live, Temporaries

LEMMA GetGlobalPreserves == IInv /\ GetGlobal => IInv'
<1> SUFFICES ASSUME IInv, GetGlobal PROVE IInv'
  OBVIOUS
<1> USE DEF GetGlobal, Executes, Running, Mutates
<1> QED BY PushesValue, MovesValue DEF IInv, TypeOK, RootsLive, GlobalsLive, Live

LEMMA SetGlobalPreserves == IInv /\ SetGlobal => IInv'
<1> SUFFICES ASSUME IInv, SetGlobal PROVE IInv'
  OBVIOUS
<1> USE DEF SetGlobal, Executes, Running, Mutates
<1>0. PICK g \in Global : globals' = [globals EXCEPT ![g] = Top]
  OBVIOUS
<1>1. stack # <<>>
  BY OperandsAreTemporaries DEF IInv, TypeOK
<1>2. globals' \in [Global -> Value] /\ GlobalsLive'
  BY <1>0, <1>1, TopIsLive DEF IInv, TypeOK, RootsLive, GlobalsLive, Live, Value
<1>3. StackLive' /\ \A u \in open : loc[u] <= Len(stack')
  BY DEF IInv, RootsLive, StackLive, Live, OpenUpvalues
<1> QED BY <1>2, <1>3, MovesValue DEF IInv, TypeOK

LEMMA GetUpvaluePreserves == IInv /\ GetUpvalue => IInv'
<1> SUFFICES ASSUME IInv, GetUpvalue PROVE IInv'
  OBVIOUS
<1> USE DEF GetUpvalue, Executes, Running, Mutates
<1>0. PICK i \in UpIndex :
        HasUpvalue(i) /\ stack' = Append(stack, Captured(Upvalue(i)))
  OBVIOUS
<1> QED BY <1>0, UpvalueIsLive, PushesValue, MovesValue
        DEF IInv, TypeOK, RootsLive, GlobalsLive, Live

LEMMA GetFieldPreserves == IInv /\ GetField => IInv'
<1> SUFFICES ASSUME IInv, GetField PROVE IInv'
  OBVIOUS
<1> USE DEF GetField, Executes, Running, Mutates
<1>0. PICK n \in Name : stack' = [stack EXCEPT ![Len(stack)] = ref[Top][n]]
  OBVIOUS
<1>1. stack # <<>>
  BY OperandsAreTemporaries DEF IInv, TypeOK
<1>2. Live(ref[Top][n])
  BY <1>1, TopIsLive DEF IInv, RefsLive, Live, Field, IsKind
<1> QED BY <1>0, <1>1, <1>2, TopIsLive, ReplacesValue, MovesValue
        DEF IInv, TypeOK, RootsLive, GlobalsLive, Live

LEMMA CloseUpvaluePreserves == IInv /\ CloseUpvalue => IInv'
<1> SUFFICES ASSUME IInv, CloseUpvalue PROVE IInv'
  OBVIOUS
<1> USE DEF CloseUpvalue, Executes, Running, Mutates
<1>1. Len(stack) \in Nat /\ 1 \in 0 .. Len(stack)
  BY RunningFrame DEF IInv, TypeOK
<1>2. /\ stack' \in Seq(Value) /\ Len(stack') <= MaxStack /\ StackLive'
      /\ Len(stack') = Len(stack) - 1
  BY <1>1, PopsValues
<1>3. /\ ref' \in [Obj -> [Field -> Value]] /\ loc' \in [Obj -> 0 .. MaxStack]
      /\ open' \subseteq open /\ RefsLive' /\ Shape' /\ TypedObjects'
      /\ \A u \in open' : loc'[u] = loc[u] /\ loc[u] < Len(stack)
  BY <1>1, ClosesUpvalues
<1>4. TypeOK'
  BY <1>2, <1>3 DEF IInv, TypeOK, marking
<1>5. RootsLive' /\ TypedRoots'
  BY <1>2, <1>3 DEF IInv, RootsLive, FramesLive, OpenLive, GlobalsLive, Live,
     UncheckedCasts, TypedRoots, IsKind
<1>6. OpenUpvalues'
  BY <1>1, <1>2, <1>3 DEF IInv, TypeOK, OpenUpvalues
<1> QED BY <1>3, <1>4, <1>5, <1>6, EndsInstruction DEF UncheckedCasts, Idle

LEMMA SetUpvaluePreserves == IInv /\ SetUpvalue => IInv'
<1> SUFFICES ASSUME IInv, SetUpvalue PROVE IInv'
  OBVIOUS
<1> USE DEF SetUpvalue, Executes, Running, Mutates
<1>0. PICK i \in UpIndex :
        /\ HasUpvalue(i)
        /\ IF Upvalue(i) \in open
             THEN stack' = [stack EXCEPT ![loc[Upvalue(i)]] = Top] /\ UNCHANGED ref
             ELSE ref' = [ref EXCEPT ![Upvalue(i)]["closed"] = Top]
                  /\ UNCHANGED stack
  OBVIOUS
<1>1. stack # <<>> /\ Live(Top)
  BY OperandsAreTemporaries, TopIsLive DEF IInv, TypeOK
<1>2. CASE Upvalue(i) \in open
  <2>1. loc[Upvalue(i)] \in 1 .. Len(stack)
    BY <1>2 DEF IInv, OpenUpvalues
  <2> QED BY <1>0, <1>1, <1>2, <2>1, ReplacesValue, MovesValue
          DEF IInv, TypeOK, RootsLive, GlobalsLive, Live
<1>3. CASE Upvalue(i) \notin open
  <2>1. Upvalue(i) \in objects /\ kind[Upvalue(i)] = "upvalue"
    BY <1>0, UpvalueIsLive
  <2>2. ref' \in [Obj -> [Field -> Value]] /\ RefsLive' /\ Shape' /\ TypedObjects'
    BY <1>0, <1>1, <1>3, <2>1, StoresRef DEF Traced, Field, Pointer
  <2>3. TypeOK' /\ RootsLive' /\ TypedRoots' /\ OpenUpvalues'
    BY <1>0, <1>3, <2>2 DEF IInv, TypeOK, marking, RootsLive, StackLive,
       FramesLive, OpenLive, GlobalsLive, Live, UncheckedCasts, TypedRoots,
       IsKind, OpenUpvalues
  <2> QED BY <2>2, <2>3, EndsInstruction DEF UncheckedCasts, Idle
<1> QED BY <1>2, <1>3

LEMMA MovesPreserve == IInv /\ Moves => IInv'
BY PushNilPreserves, GetLocalPreserves, SetLocalPreserves, PopValuePreserves,
   CloseUpvaluePreserves, GetGlobalPreserves, SetGlobalPreserves,
   GetUpvaluePreserves, SetUpvaluePreserves, GetFieldPreserves
   DEF Moves

-----------------------------------------------------------------------------
(* Calls and returns. *)

(* No captured slot lies at the callee or above. *)
LEMMA CalleeIsTemporary ==
  ASSUME IInv, NEW p \in 1 .. Len(stack), Callee(p)
  PROVE  /\ frames # <<>> /\ op.checks = 0
         /\ \A u \in open : loc[u] < p
<1>0. Len(stack) \in Nat /\ Len(stack) - p + 1 \in Nat
  BY DEF IInv, TypeOK
<1>1. frames # <<>> /\ op.checks = 0
  BY DEF Callee, Executes, Running, Idle, IInv, Pending
<1>2. Temporaries(Len(stack) - p + 1)
  BY <1>0, <1>1, OperandsAreTemporaries DEF Callee, IInv, Pending
<1>3. \A u \in open : loc[u] \in Nat
  BY DEF IInv, TypeOK
<1> QED BY <1>0, <1>1, <1>2, <1>3 DEF Temporaries

(* call() keeps the values below and among the parameters, and pushes nil. *)
LEMMA PreparesArguments ==
  ASSUME IInv, NEW s \in Seq(Value), NEW p \in 1 .. Len(s), NEW c \in Obj,
         Call(s, p, c)
  PROVE  /\ stack' \in Seq(Value) /\ Len(stack') <= MaxStack
         /\ Len(stack') >= p
         /\ \A i \in 1 .. Len(stack') :
              stack'[i] = Nil \/ (i \in 1 .. Len(s) /\ stack'[i] = s[i])
         /\ frames' \in Seq(Frame) /\ Len(frames') <= MaxFrames
         /\ \A i \in 1 .. Len(frames') :
              \/ frames'[i].closure = c
              \/ i \in 1 .. Len(frames) /\ frames'[i] = frames[i]
<1>0. PICK arity \in 0 .. MaxStack :
        /\ Len(Arguments(s, p, arity)) <= MaxStack
        /\ Len(frames) < MaxFrames
        /\ stack' = Arguments(s, p, arity)
        /\ frames' = Append(frames, [closure |-> c, base |-> p])
  BY DEF Call
<1> DEFINE padding == IF arity > Len(s) - p THEN arity - (Len(s) - p) ELSE 0
<1>1. padding \in Nat /\ Len(s) \in Nat
  OBVIOUS
<1> DEFINE n == Len(s) + padding
<1>2. n \in Nat /\ n >= Len(s)
  BY <1>1
<1>3. stack' = [i \in 1 .. n |-> IF i <= Len(s) /\ i <= p + arity THEN s[i] ELSE Nil]
  BY <1>0 DEF Arguments
<1> HIDE DEF n, padding
<1>4. \A i \in 1 .. n : stack'[i] \in Value
  BY <1>1, <1>2, <1>3 DEF Value
<1>5. stack' \in Seq(Value) /\ Len(stack') = n
  <2>1. stack' \in [1 .. n -> Value]
    BY <1>3, <1>4
  <2> QED BY <1>2, <2>1, SeqDef, LenProperties
<1>6. \A i \in 1 .. Len(stack') :
        stack'[i] = Nil \/ (i \in 1 .. Len(s) /\ stack'[i] = s[i])
  <2> TAKE i \in 1 .. Len(stack')
  <2>1. stack'[i] = IF i <= Len(s) /\ i <= p + arity THEN s[i] ELSE Nil
    BY <1>3, <1>5
  <2>2. i \in Nat \ {0} /\ Len(s) \in Nat
    BY <1>1, <1>2, <1>5
  <2>3. CASE i <= Len(s) /\ i <= p + arity
    BY <1>0, <2>1, <2>2, <2>3
  <2> QED BY <2>1, <2>3, Zenon
<1>7. p \in 1 .. MaxStack
  BY <1>0, <1>1, <1>2, <1>5
<1>8. [closure |-> c, base |-> p] \in Frame /\ frames \in Seq(Frame)
  BY <1>7 DEF Frame, IInv, TypeOK
<1>9. frames' \in Seq(Frame) /\ Len(frames') <= MaxFrames
  BY <1>0, <1>8
<1>10. \A i \in 1 .. Len(frames') :
         \/ frames'[i].closure = c
         \/ i \in 1 .. Len(frames) /\ frames'[i] = frames[i]
  BY <1>0, <1>8
<1> QED BY <1>0, <1>1, <1>2, <1>5, <1>6, <1>9, <1>10

(* A call is the last step of its instruction. *)
LEMMA CallEnds ==
  ASSUME IInv, NEW s \in Seq(Value), NEW p \in 1 .. Len(s), NEW c \in objects,
         kind[c] = "closure", Call(s, p, c),
         \A i \in 1 .. Len(s) : Live(s[i]),
         \A u \in open : loc[u] < p,
         op.checks = 0, op' = Idle,
         UNCHANGED <<objects, kind, marking, ref, open, loc, globals>>
  PROVE  IInv'
<1>0. c \in Obj
  BY DEF IInv, TypeOK
<1>1. /\ stack' \in Seq(Value) /\ Len(stack') <= MaxStack /\ Len(stack') >= p
      /\ \A i \in 1 .. Len(stack') :
           stack'[i] = Nil \/ (i \in 1 .. Len(s) /\ stack'[i] = s[i])
      /\ frames' \in Seq(Frame) /\ Len(frames') <= MaxFrames
      /\ \A i \in 1 .. Len(frames') :
           \/ frames'[i].closure = c
           \/ i \in 1 .. Len(frames) /\ frames'[i] = frames[i]
  BY <1>0, PreparesArguments
<1>2. TypeOK'
  BY <1>1, IdleOp DEF IInv, TypeOK, marking
<1>3. RootsLive'
  BY <1>1 DEF IInv, RootsLive, StackLive, FramesLive, OpenLive, GlobalsLive, Live
<1>4. RefsLive' /\ Shape'
  BY DEF IInv, RefsLive, Shape, Live
<1>5. UncheckedCasts'
  BY <1>0, <1>1 DEF IInv, UncheckedCasts, TypedRoots, TypedObjects, IsKind, Holds
<1>6. OpenUpvalues'
  BY <1>1 DEF IInv, TypeOK, OpenUpvalues
<1> QED BY <1>2, <1>3, <1>4, <1>5, <1>6, EndsInstruction

LEMMA CallClosurePreserves == IInv /\ CallClosure => IInv'
<1> SUFFICES ASSUME IInv, CallClosure PROVE IInv'
  OBVIOUS
<1> USE DEF CallClosure, Mutates
<1>0. PICK p \in 1 .. Len(stack) :
        /\ Callee(p) /\ IsKind(stack[p], "closure")
        /\ Call(stack, p, stack[p])
  OBVIOUS
<1>1. stack \in Seq(Value) /\ \A i \in 1 .. Len(stack) : Live(stack[i])
  BY DEF IInv, TypeOK, RootsLive, StackLive
<1>2. stack[p] \in objects /\ kind[stack[p]] = "closure"
  BY <1>0, <1>1 DEF IsKind, Live
<1> QED BY <1>0, <1>1, <1>2, CalleeIsTemporary, CallEnds

LEMMA CallBoundMethodPreserves == IInv /\ CallBoundMethod => IInv'
<1> SUFFICES ASSUME IInv, CallBoundMethod PROVE IInv'
  OBVIOUS
<1> USE DEF CallBoundMethod, Mutates
<1> DEFINE s(p) == [stack EXCEPT ![p] = ref[stack[p]]["receiver"]]
<1>0. PICK p \in 1 .. Len(stack) :
        /\ Callee(p) /\ IsKind(stack[p], "bound")
        /\ Call(s(p), p, ref[stack[p]]["method"])
  OBVIOUS
<1>1. stack \in Seq(Value) /\ \A i \in 1 .. Len(stack) : Live(stack[i])
  BY DEF IInv, TypeOK, RootsLive, StackLive
<1>2. stack[p] \in objects /\ kind[stack[p]] = "bound"
  BY <1>0, <1>1 DEF IsKind, Live
<1>3. Live(ref[stack[p]]["receiver"]) /\ Live(ref[stack[p]]["method"])
  BY <1>2 DEF IInv, RefsLive, Field, Pointer
<1>4. ref[stack[p]]["method"] \in objects
      /\ kind[ref[stack[p]]["method"]] = "closure"
  BY <1>2, <1>3 DEF IInv, UncheckedCasts, TypedObjects, IsKind, Live
<1>5. ref[stack[p]]["receiver"] \in Value
  BY <1>3 DEF IInv, TypeOK, Live, Value
<1>6. /\ s(p) \in Seq(Value) /\ p \in 1 .. Len(s(p))
      /\ \A i \in 1 .. Len(s(p)) : Live(s(p)[i])
  BY <1>1, <1>3, <1>5
<1> HIDE DEF s
<1> QED BY <1>0, <1>4, <1>6, CalleeIsTemporary, CallEnds

LEMMA CallNativePreserves == IInv /\ CallNative => IInv'
<1> SUFFICES ASSUME IInv, CallNative PROVE IInv'
  OBVIOUS
<1> USE DEF CallNative, Mutates
<1>0. PICK p \in 1 .. Len(stack) :
        Callee(p) /\ stack' = Append(SubSeq(stack, 1, p - 1), Nil)
  OBVIOUS
<1> DEFINE s == SubSeq(stack, 1, p - 1)
<1>1. stack \in Seq(Value) /\ Len(stack) \in Nat /\ Len(stack) <= MaxStack
  BY DEF IInv, TypeOK
<1>2. p - 1 \in 0 .. Len(stack) /\ Nil \in Value
  BY <1>1 DEF Value
<1>3. s \in Seq(Value) /\ Len(s) = p - 1 /\ \A i \in 1 .. p - 1 : s[i] = stack[i]
  BY <1>1, <1>2, Prefix
<1> HIDE DEF s
<1>4. /\ stack' \in Seq(Value) /\ Len(stack') = Len(s) + 1
      /\ stack'[Len(s) + 1] = Nil /\ \A i \in 1 .. Len(s) : stack'[i] = s[i]
  BY <1>0, <1>2, <1>3, AppendProperties DEF s
<1>5. Len(stack') = p /\ Len(stack') <= MaxStack
  BY <1>1, <1>3, <1>4
<1>6. StackLive'
  BY <1>1, <1>2, <1>3, <1>4, <1>5 DEF IInv, RootsLive, StackLive, Live
<1>7. frames # <<>> /\ op.checks = 0 /\ \A u \in open : loc[u] < p
  BY <1>0, CalleeIsTemporary
<1>8. TypeOK'
  BY <1>4, <1>5, IdleOp DEF IInv, TypeOK, marking
<1>9. RootsLive' /\ RefsLive' /\ Shape' /\ UncheckedCasts'
  BY <1>6 DEF IInv, RootsLive, FramesLive, OpenLive, GlobalsLive, Live, RefsLive,
     Shape, UncheckedCasts, TypedRoots, TypedObjects, IsKind, Holds
<1>10. OpenUpvalues'
  BY <1>5, <1>7 DEF IInv, TypeOK, OpenUpvalues
<1> QED BY <1>7, <1>8, <1>9, <1>10, EndsInstruction

LEMMA InvokeFieldPreserves == IInv /\ InvokeField => IInv'
<1> SUFFICES ASSUME IInv, InvokeField PROVE IInv'
  OBVIOUS
<1> USE DEF InvokeField, Mutates, Executes, Running
<1>0. PICK p \in 1 .. Len(stack), n \in Name :
        /\ Operands(Len(stack) - p + 1)
        /\ IsKind(stack[p], "instance")
        /\ stack' = [stack EXCEPT ![p] = ref[stack[p]][n]]
        /\ op' = [Idle EXCEPT !.name = "OP_INVOKE", !.slot = p]
  OBVIOUS
<1>1. /\ Len(stack) - p + 1 \in Nat /\ Len(stack) \in Nat /\ p \in 0 .. MaxStack
      /\ loc \in [Obj -> 0 .. MaxStack] /\ open \subseteq Obj
  BY DEF IInv, TypeOK
<1>2. Temporaries(Len(stack) - p + 1)
  BY <1>0, <1>1, OperandsAreTemporaries
<1>3. Live(ref[stack[p]][n])
  BY <1>0 DEF IInv, RootsLive, StackLive, RefsLive, Live, Field, IsKind
<1>4. /\ stack' \in Seq(Value) /\ Len(stack') = Len(stack)
      /\ Len(stack') <= MaxStack /\ StackLive'
  BY <1>0, <1>3, ReplacesValue
<1>5. op' \in Op
  <2>1. op' = [name |-> "OP_INVOKE", fresh |-> Nil, val |-> Nil, aux |-> Nil,
              field |-> InitName, todo |-> {}, slot |-> p, checks |-> 0]
    BY <1>0 DEF Idle
  <2> QED BY <1>1, <2>1 DEF Op, Field, Value
<1>6. TypeOK'
  BY <1>4, <1>5 DEF IInv, TypeOK, marking
<1>7. RootsLive' /\ RefsLive' /\ Shape' /\ UncheckedCasts'
  BY <1>4 DEF IInv, RootsLive, FramesLive, OpenLive, GlobalsLive, Live, RefsLive,
     Shape, UncheckedCasts, TypedRoots, TypedObjects, IsKind, Holds
<1>8. OpenUpvalues'
  BY <1>4 DEF IInv, OpenUpvalues
<1>9. HeldLive' /\ HeldRooted'
  BY <1>0 DEF Idle, HeldLive, HeldRooted, Live, IInv, TypeOK
<1>10. Marks'
  BY NotWorking DEF IInv, Marks, Marked, marking, Idle
<1>11. Pending'
  <2>1. Temporaries(Len(stack) - p + 1)'
    BY <1>2, <1>4 DEF Temporaries
  <2>2. op'.slot = p /\ p \in 1 .. Len(stack')
    BY <1>0, <1>4 DEF Idle
  <2>3. Temporaries(Len(stack) - op.slot + 1)'
    BY <1>4, <2>1, <2>2
  <2> QED BY <1>0, <2>2, <2>3 DEF Idle, Pending
<1> QED BY <1>6, <1>7, <1>8, <1>9, <1>10, <1>11 DEF IInv

(* The methods of a class are closures. *)
LEMMA ClassEntry ==
  ASSUME IInv, NEW k \in objects, kind[k] = "class", NEW n \in Name \cup {"initializer"}
  PROVE  /\ Live(ref[k][n])
         /\ ref[k][n] # Nil => ref[k][n] \in objects /\ kind[ref[k][n]] = "closure"
<1>1. n \in Field
  BY DEF Field, Pointer
<1>2. Live(ref[k][n])
  BY <1>1 DEF IInv, RefsLive
<1> QED BY <1>2 DEF IInv, UncheckedCasts, TypedObjects, Holds, IsKind, Live

(* What the lookup of a method finds. *)
LEMMA MethodIsLive ==
  ASSUME IInv, NEW o \in objects, kind[o] = "instance", NEW n \in Name,
         Method(o, n) # Nil
  PROVE  /\ ref[o]["klass"] \in objects /\ kind[ref[o]["klass"]] = "class"
         /\ Method(o, n) = ref[ref[o]["klass"]][n]
         /\ Method(o, n) \in objects /\ kind[Method(o, n)] = "closure"
<1>1. ref[o]["klass"] # Nil /\ Method(o, n) = ref[ref[o]["klass"]][n]
  BY DEF Method
<1>2. ref[o]["klass"] \in objects
  BY <1>1 DEF IInv, RefsLive, Live, Field, Pointer
<1>3. kind[ref[o]["klass"]] = "class"
  BY <1>1 DEF IInv, UncheckedCasts, TypedObjects, Holds, IsKind
<1> QED BY <1>1, <1>2, <1>3, ClassEntry

LEMMA InvokeMethodPreserves == IInv /\ InvokeMethod => IInv'
<1> SUFFICES ASSUME IInv, InvokeMethod PROVE IInv'
  OBVIOUS
<1> USE DEF InvokeMethod, Mutates, Executes, Running
<1>0. PICK p \in 1 .. Len(stack), n \in Name :
        /\ Operands(Len(stack) - p + 1)
        /\ IsKind(stack[p], "instance")
        /\ Method(stack[p], n) # Nil
        /\ Call(stack, p, Method(stack[p], n))
  OBVIOUS
<1>1. /\ stack \in Seq(Value) /\ Len(stack) \in Nat /\ Len(stack) - p + 1 \in Nat
      /\ \A i \in 1 .. Len(stack) : Live(stack[i])
      /\ \A u \in open : loc[u] \in Nat
  BY DEF IInv, TypeOK, RootsLive, StackLive
<1>2. \A u \in open : loc[u] < p
  BY <1>0, <1>1, OperandsAreTemporaries DEF Temporaries
<1>3. stack[p] \in objects /\ kind[stack[p]] = "instance"
  BY <1>0, <1>1 DEF IsKind, Live
<1>4. Method(stack[p], n) \in objects /\ kind[Method(stack[p], n)] = "closure"
  BY <1>0, <1>3, MethodIsLive
<1>5. op.checks = 0 /\ op' = Idle
  BY DEF Idle
<1> QED BY <1>0, <1>1, <1>2, <1>4, <1>5, CallEnds

LEMMA SuperInvokePreserves == IInv /\ SuperInvoke => IInv'
<1> SUFFICES ASSUME IInv, SuperInvoke PROVE IInv'
  OBVIOUS
<1> USE DEF SuperInvoke, Mutates, Executes, Running
<1>0. PICK p \in 1 .. Len(stack), n \in Name, i \in UpIndex :
        /\ Operands(Len(stack) - p + 1)
        /\ HasUpvalue(i) /\ IsKind(Captured(Upvalue(i)), "class")
        /\ ref[Captured(Upvalue(i))][n] # Nil
        /\ Call(stack, p, ref[Captured(Upvalue(i))][n])
  OBVIOUS
<1>1. /\ stack \in Seq(Value) /\ Len(stack) \in Nat /\ Len(stack) - p + 1 \in Nat
      /\ \A j \in 1 .. Len(stack) : Live(stack[j])
      /\ \A u \in open : loc[u] \in Nat
  BY DEF IInv, TypeOK, RootsLive, StackLive
<1>2. \A u \in open : loc[u] < p
  BY <1>0, <1>1, OperandsAreTemporaries DEF Temporaries
<1> DEFINE k == Captured(Upvalue(i))
<1>3. k \in objects /\ kind[k] = "class"
  BY <1>0, UpvalueIsLive DEF IsKind, Live
<1>4. ref[k][n] \in objects /\ kind[ref[k][n]] = "closure"
  BY <1>0, <1>3, ClassEntry
<1>5. op.checks = 0 /\ op' = Idle
  BY DEF Idle
<1> QED BY <1>0, <1>1, <1>2, <1>4, <1>5, CallEnds

LEMMA ReturnPreserves == IInv /\ Return => IInv'
<1> SUFFICES ASSUME IInv, Return PROVE IInv'
  OBVIOUS
<1> USE DEF Return, Executes, Running, Mutates
<1>1. /\ stack \in Seq(Value) /\ Len(stack) \in Nat /\ Len(stack) <= MaxStack
      /\ frames \in Seq(Frame) /\ Len(frames) \in Nat /\ Len(frames) <= MaxFrames
  BY DEF IInv, TypeOK
<1>2. Base \in 1 .. MaxStack /\ Base - 1 \in 0 .. Len(stack)
      /\ Base + 1 <= Len(stack)
  BY <1>1, RunningFrame DEF Operands
<1>3. /\ ref' \in [Obj -> [Field -> Value]] /\ loc' \in [Obj -> 0 .. MaxStack]
      /\ open' \subseteq open /\ RefsLive' /\ Shape' /\ TypedObjects'
      /\ \A u \in open' : loc'[u] = loc[u] /\ loc[u] < Base
  BY <1>2, ClosesUpvalues
<1>4. Live(Top) /\ Top \in Value
  BY <1>1, <1>2, TopIsLive DEF IInv, TypeOK, Top
<1> DEFINE s == SubSeq(stack, 1, Base - 1)
<1>5. s \in Seq(Value) /\ Len(s) = Base - 1
      /\ \A i \in 1 .. Base - 1 : s[i] = stack[i]
  BY <1>1, <1>2, Prefix
<1> HIDE DEF s
<1>6. /\ Append(s, Top) \in Seq(Value) /\ Len(Append(s, Top)) = Base
      /\ Append(s, Top)[Base] = Top
      /\ \A i \in 1 .. Base - 1 : Append(s, Top)[i] = stack[i]
  <2>1. /\ Append(s, Top) \in Seq(Value) /\ Len(Append(s, Top)) = Len(s) + 1
        /\ Append(s, Top)[Len(s) + 1] = Top
        /\ \A i \in 1 .. Len(s) : Append(s, Top)[i] = s[i]
    BY <1>4, <1>5, AppendProperties
  <2>2. Len(s) + 1 = Base
    BY <1>2, <1>5
  <2> QED BY <1>5, <2>1, <2>2
<1>7. /\ stack' \in Seq(Value) /\ Len(stack') <= MaxStack /\ StackLive'
      /\ \A u \in open' : loc'[u] <= Len(stack')
  <2>1. CASE Len(frames) = 1
    <3>1. stack' = <<>> /\ Base = 1
      <4>1. stack' = <<>> /\ Len(stack) = 2
        BY <2>1
      <4> QED BY <1>2, <4>1
    <3>2. Len(stack') = 0 /\ stack' \in Seq(Value)
      BY <3>1
    <3>3. open' = {}
      BY <1>3, <3>1 DEF IInv, OpenUpvalues
    <3> QED BY <3>2, <3>3 DEF StackLive, ConstantsAssumption
  <2>2. CASE Len(frames) # 1
    <3>1. stack' = Append(s, Top)
      BY <2>2 DEF s
    <3>2. \A i \in 1 .. Len(stack') : stack'[i] = Top \/ (i \in 1 .. Len(stack) /\ stack'[i] = stack[i])
      BY <1>2, <1>6, <3>1
    <3>3. StackLive'
      BY <1>4, <3>2 DEF IInv, RootsLive, StackLive, Live
    <3>4. \A u \in open' : loc'[u] <= Len(stack')
      BY <1>2, <1>3, <1>6, <3>1 DEF IInv, TypeOK
    <3> QED BY <1>2, <1>6, <3>1, <3>3, <3>4
  <2> QED BY <2>1, <2>2
<1>8. frames' \in Seq(Frame) /\ Len(frames') <= MaxFrames
      /\ \A i \in 1 .. Len(frames') : i \in 1 .. Len(frames) /\ frames'[i] = frames[i]
  <2>1. Len(frames) - 1 \in 0 .. Len(frames)
    BY <1>1
  <2>2. frames' = SubSeq(frames, 1, Len(frames) - 1)
    BY DEF Pop
  <2> DEFINE t == SubSeq(frames, 1, Len(frames) - 1)
  <2>3. t \in Seq(Frame) /\ Len(t) = Len(frames) - 1
        /\ \A i \in 1 .. Len(frames) - 1 : t[i] = frames[i]
    BY <1>1, <2>1, Prefix, ZenonT(30)
  <2> HIDE DEF t
  <2>4. t = frames'
    BY <2>2 DEF t
  <2> QED BY <1>1, <2>1, <2>3, <2>4
<1>9. TypeOK'
  BY <1>3, <1>7, <1>8, IdleOp DEF IInv, TypeOK, marking
<1>10. RootsLive' /\ TypedRoots'
  <2>1. objects' = objects /\ kind' = kind /\ globals' = globals
    OBVIOUS
  <2>2. FramesLive'
    BY <1>8, <2>1 DEF IInv, RootsLive, FramesLive
  <2>3. OpenLive' /\ GlobalsLive'
    BY <1>3, <2>1 DEF IInv, RootsLive, OpenLive, GlobalsLive, Live
  <2>4. TypedRoots'
    BY <1>3, <1>8, <2>1 DEF IInv, UncheckedCasts, TypedRoots, IsKind
  <2> QED BY <1>7, <2>2, <2>3, <2>4 DEF RootsLive
<1>11. OpenUpvalues'
  BY <1>3, <1>7 DEF IInv, OpenUpvalues
<1> QED BY <1>3, <1>9, <1>10, <1>11, EndsInstruction DEF UncheckedCasts, Idle

LEMMA RuntimeErrorPreserves == IInv /\ RuntimeError => IInv'
<1> SUFFICES ASSUME IInv, RuntimeError PROVE IInv'
  OBVIOUS
<1> USE DEF RuntimeError, Running, Mutates
<1>1. op.checks = 0
  BY DEF Idle, IInv, Pending
<1>2. /\ ref' \in [Obj -> [Field -> Value]] /\ loc' \in [Obj -> 0 .. MaxStack]
      /\ open' \subseteq open /\ RefsLive' /\ Shape' /\ TypedObjects'
      /\ \A u \in open' : loc'[u] = loc[u] /\ loc[u] < 1
  BY ClosesUpvalues
<1>3. open' = {}
  BY <1>2 DEF IInv, OpenUpvalues
<1>4. stack' \in Seq(Value) /\ Len(stack') = 0 /\ frames' \in Seq(Frame)
      /\ Len(frames') = 0
  OBVIOUS
<1>5. TypeOK'
  BY <1>2, <1>4, IdleOp DEF IInv, TypeOK, marking
<1>6. RootsLive' /\ TypedRoots' /\ OpenUpvalues'
  BY <1>3, <1>4 DEF IInv, RootsLive, StackLive, FramesLive, OpenLive, GlobalsLive,
     Live, TypedRoots, OpenUpvalues
<1> QED BY <1>1, <1>2, <1>5, <1>6, EndsInstruction DEF UncheckedCasts

LEMMA CallsPreserve == IInv /\ Calls => IInv'
BY CallClosurePreserves, CallBoundMethodPreserves, CallNativePreserves,
   InvokeFieldPreserves, InvokeMethodPreserves, SuperInvokePreserves,
   ReturnPreserves, RuntimeErrorPreserves DEF Calls

-----------------------------------------------------------------------------
(* The first step of an instruction that allocates saves C locals. *)

(* What the roots contain. *)
LEMMA RootsContain ==
  ASSUME IInv
  PROVE  /\ \A i \in 1 .. Len(stack) : stack[i] \in Roots \cup {Nil}
         /\ \A i \in 1 .. Len(frames) : frames[i].closure \in Roots
         /\ open \subseteq Roots
         /\ \A g \in Global : globals[g] \in Roots \cup {Nil}
BY DEF Roots, IInv, TypeOK, RootsLive, FramesLive

(* A stack slot holds a root or nil. *)
LEMMA StackValue ==
  ASSUME IInv, NEW i \in 1 .. Len(stack)
  PROVE  stack[i] \in Roots \cup {Nil} /\ Live(stack[i]) /\ stack[i] \in Value
BY RootsContain DEF IInv, TypeOK, RootsLive, StackLive

(* A step that only saves C locals: an instruction starts. *)
LEMMA Begins ==
  ASSUME IInv, op.checks = 0,
         UNCHANGED <<objects, kind, marking, ref, mutator>>,
         op' \in Op, Live(op'.val), Live(op'.aux), op'.fresh \notin objects,
         Pending',
         op'.val \in Roots \cup {Nil},
         \/ op'.aux \in Roots \cup {Nil}
         \/ Binding' /\ op'.aux \in Step(Step(Step(Roots)))
  PROVE  IInv'
<1>1. TypeOK'
  BY DEF IInv, TypeOK, marking, mutator
<1>2. RootsLive' /\ RefsLive' /\ Shape' /\ UncheckedCasts' /\ OpenUpvalues'
  BY DEF IInv, mutator, RootsLive, StackLive, FramesLive, OpenLive, GlobalsLive,
     RefsLive, Live, Shape, UncheckedCasts, TypedRoots, TypedObjects, Holds,
     IsKind, OpenUpvalues
<1>3. HeldLive'
  BY DEF HeldLive, Live
<1>4. Marks'
  BY NotWorking DEF IInv, Marks, Marked, marking
<1>5. Roots' = Roots /\ Step(Step(Step(Roots)))' = Step(Step(Step(Roots)))
  BY SMTT(30) DEF mutator, Roots, Step, Children, Traced
<1>6. HeldRooted'
  <2>1. Roots \subseteq Step(Step(Step(Roots)))
    BY DEF Step
  <2> QED BY <1>5, <2>1 DEF HeldRooted
<1> QED BY <1>1, <1>2, <1>3, <1>4, <1>6 DEF IInv

LEMMA StartInterpretPreserves == IInv /\ StartInterpret => IInv'
<1> SUFFICES ASSUME IInv, StartInterpret PROVE IInv'
  OBVIOUS
<1> USE DEF StartInterpret, Starts, Mutates
<1>0. PICK o \in Free : op' = [Idle EXCEPT !.name = "interpret", !.fresh = o,
                                         !.checks = 1]
  OBVIOUS
<1>1. op' = [name |-> "interpret", fresh |-> o, val |-> Nil, aux |-> Nil,
             field |-> InitName, todo |-> {}, slot |-> 0, checks |-> 1]
  BY <1>0 DEF Idle
<1>2. op' \in Op /\ o \notin objects
  BY <1>1 DEF Op, Value, Field, Free
<1>3. Len(stack) = 0 /\ open = {}
  BY DEF IInv, OpenUpvalues
<1>4. Pending'
  BY <1>0, <1>1, <1>3 DEF mutator, Pending, Free
<1>5. op.checks = 0
  BY DEF Idle
<1> QED BY <1>1, <1>2, <1>4, <1>5, Begins DEF Live

LEMMA StartClosurePreserves == IInv /\ StartClosure => IInv'
<1> SUFFICES ASSUME IInv, StartClosure PROVE IInv'
  OBVIOUS
<1> USE DEF StartClosure, Starts, Mutates, Executes, Running
<1>0. PICK o \in Free, upvalues \in SUBSET UpIndex :
        op' = [Idle EXCEPT !.name = "OP_CLOSURE", !.fresh = o,
                           !.todo = upvalues,
                           !.checks = IF upvalues = {} THEN 1 ELSE 2]
  OBVIOUS
<1> DEFINE n == IF upvalues = {} THEN 1 ELSE 2
<1>1. op' = [name |-> "OP_CLOSURE", fresh |-> o, val |-> Nil, aux |-> Nil,
             field |-> InitName, todo |-> upvalues, slot |-> 0, checks |-> n]
  BY <1>0 DEF Idle
<1>2. op' \in Op /\ o \notin objects /\ o # Nil
  <2>1. upvalues \subseteq Field
    BY <1>0 DEF Field
  <2>2. o \in Value /\ Nil \in Value /\ InitName \in Field /\ 0 \in 0 .. MaxStack
        /\ "OP_CLOSURE" \in Opcodes /\ n \in 0 .. 2
    BY DEF Value, Free, Field
  <2> QED BY <1>1, <2>1, <2>2 DEF Op, Free
<1>4. Pending'
  BY <1>0, <1>1, <1>2 DEF mutator, Pending
<1>5. op.checks = 0
  BY DEF Idle
<1> QED BY <1>1, <1>2, <1>4, <1>5, Begins DEF Live

LEMMA StartNewPreserves == IInv /\ StartNew => IInv'
<1> SUFFICES ASSUME IInv, StartNew PROVE IInv'
  OBVIOUS
<1> USE DEF StartNew, Starts, Mutates, Executes, Running
<1>0. PICK o \in Free, code \in {"OP_CLASS", "OP_NEW_OBJECT"} :
        /\ code \in Opcodes /\ op = Idle /\ frames # <<>>
        /\ op' = [Idle EXCEPT !.name = code, !.fresh = o, !.checks = 1]
  OBVIOUS
<1>1. op' = [name |-> code, fresh |-> o, val |-> Nil, aux |-> Nil,
             field |-> InitName, todo |-> {}, slot |-> 0, checks |-> 1]
  BY <1>0 DEF Idle
<1>2. op' \in Op /\ o \notin objects /\ o # Nil
  BY <1>0, <1>1 DEF Op, Value, Field, Free
<1>4. Pending'
  BY <1>0, <1>1, <1>2 DEF mutator, Pending
<1>5. op.checks = 0
  BY <1>0 DEF Idle
<1> QED BY <1>1, <1>2, <1>4, <1>5, Begins DEF Live, Free

LEMMA StartCapturePreserves == IInv /\ StartCapture => IInv'
<1> SUFFICES ASSUME IInv, StartCapture PROVE IInv'
  OBVIOUS
<1> USE DEF StartCapture, Starts, Mutates, Ready
<1>0. PICK o \in Free, i \in op.todo, local \in Base .. Len(stack) :
        op' = [op EXCEPT !.fresh = o, !.field = i, !.slot = local, !.checks = 1]
  OBVIOUS
<1>1. /\ frames # <<>> /\ op.todo \subseteq UpIndex /\ IsKind(op.val, "closure")
      /\ op \in Op /\ Live(op.val) /\ Live(op.aux) /\ op.checks = 0
  BY DEF IInv, TypeOK, Pending, HeldLive
<1>2. local \in 1 .. Len(stack) /\ local \in 0 .. MaxStack
  BY <1>0, <1>1, RunningFrame DEF IInv, TypeOK
<1>3. op' \in Op /\ o \notin objects /\ o # Nil
  <2>1. o \in Value /\ i \in Field
    BY <1>0, <1>1 DEF Value, Field, Free
  <2>2. op' = [name |-> op.name, fresh |-> o, val |-> op.val, aux |-> op.aux,
               field |-> i, todo |-> op.todo, slot |-> local, checks |-> 1]
    BY <1>0, <1>1 DEF Op
  <2> QED BY <1>0, <1>1, <1>2, <2>1, <2>2 DEF Op, Free
<1>4. /\ op'.name = "capture" /\ op'.fresh = o /\ op'.val = op.val
      /\ op'.aux = op.aux /\ op'.field = i /\ op'.todo = op.todo
      /\ op'.slot = local /\ op'.checks = 1
  BY <1>0, <1>1 DEF Op
<1>5. Pending'
  <2>1. i \in op.todo /\ local \in 1 .. Len(stack)
    BY <1>0, <1>2
  <2>2. op.val = Top /\ op.aux = Nil /\ stack # <<>>
    BY DEF IInv, Pending
  <2> QED BY <1>1, <1>3, <1>4, <2>1, <2>2 DEF mutator, Pending, IsKind, Top
<1>6. op.val \in Roots \cup {Nil} /\ op.aux \in Roots \cup {Nil}
  <2>1. Len(stack) \in 1 .. Len(stack)
    BY <1>1, TopIsLive DEF IInv, Pending
  <2> QED BY <2>1, RootsContain DEF IInv, Pending, Top
<1> QED BY <1>1, <1>3, <1>4, <1>5, <1>6, Begins

LEMMA StartInstancePreserves == IInv /\ StartInstance => IInv'
<1> SUFFICES ASSUME IInv, StartInstance PROVE IInv'
  OBVIOUS
<1> USE DEF StartInstance, Starts, Mutates
<1>0. PICK o \in Free, p \in 1 .. Len(stack) :
        /\ Callee(p) /\ IsKind(stack[p], "class")
        /\ op' = [Idle EXCEPT !.name = "OP_CALL", !.fresh = o,
                              !.val = stack[p], !.slot = p, !.checks = 1]
  OBVIOUS
<1>1. op' = [name |-> "OP_CALL", fresh |-> o, val |-> stack[p], aux |-> Nil,
             field |-> InitName, todo |-> {}, slot |-> p, checks |-> 1]
  BY <1>0 DEF Idle
<1>2. stack[p] \in Value /\ Live(stack[p]) /\ p \in 0 .. MaxStack
  BY DEF IInv, TypeOK, RootsLive, StackLive
<1>3. op' \in Op /\ o \notin objects /\ o # Nil
  <2>1. o \in Value /\ Nil \in Value /\ InitName \in Field
    BY <1>0 DEF Value, Field, Free
  <2> QED BY <1>0, <1>1, <1>2, <2>1 DEF Op, Free
<1>4. /\ frames # <<>> /\ op.checks = 0
      /\ \A u \in open : loc[u] < p
  BY <1>0, CalleeIsTemporary
<1>5. Pending'
  <2>1. Len(stack) \in Nat /\ \A u \in open : loc[u] \in Nat
    BY DEF IInv, TypeOK
  <2>2. Temporaries(Len(stack) - p + 1)'
    BY <1>4, <2>1 DEF mutator, Temporaries
  <2>3. stack' = stack /\ Temporaries(Len(stack) - op.slot + 1)'
    BY <1>1, <2>2 DEF mutator
  <2> QED BY <1>0, <1>1, <1>3, <1>4, <2>3 DEF mutator, Pending, IsKind
<1> QED BY <1>1, <1>2, <1>3, <1>4, <1>5, Begins, RootsContain DEF Live

(* One reference further from a set of objects. *)
LEMMA StepContains ==
  ASSUME NEW S
  PROVE  /\ S \subseteq Step(S)
         /\ \A o \in S : \A f \in Traced(kind[o]) :
              ref[o][f] # Nil => ref[o][f] \in Step(S)
BY DEF Step, Children

(* The method bindMethod holds across the allocation. *)
LEMMA BoundMethodIsNear ==
  ASSUME IInv, NEW o \in objects \cap Roots, kind[o] = "instance", NEW n \in Name,
         Method(o, n) # Nil
  PROVE  Method(o, n) \in Step(Step(Step(Roots)))
<1> DEFINE k == ref[o]["klass"]
<1>1. /\ k \in objects /\ kind[k] = "class"
      /\ Method(o, n) = ref[k][n] /\ Method(o, n) \in objects
  BY MethodIsLive
<1>2. "klass" \in Traced(kind[o]) /\ n \in Traced(kind[k]) /\ k # Nil
  BY <1>1 DEF Traced, IInv, TypeOK
<1>3. k \in Step(Roots)
  BY <1>2, StepContains
<1>4. Method(o, n) \in Step(Step(Roots))
  BY <1>1, <1>2, <1>3, StepContains
<1> QED BY <1>4, StepContains

(* The superclass's method that OP_GET_SUPER holds. *)
LEMMA SuperMethodIsNear ==
  ASSUME IInv, frames # <<>>, NEW i \in UpIndex, NEW n \in Name, HasUpvalue(i),
         IsKind(Captured(Upvalue(i)), "class"),
         ref[Captured(Upvalue(i))][n] # Nil
  PROVE  ref[Captured(Upvalue(i))][n] \in Step(Step(Step(Roots)))
<1> DEFINE u == Upvalue(i)  k == Captured(u)
<1>1. /\ TopFrame.closure \in Roots /\ kind[TopFrame.closure] = "closure"
      /\ u \in objects /\ kind[u] = "upvalue" /\ u # Nil /\ k # Nil
      /\ kind[k] = "class"
  <2>1. TopFrame.closure \in Roots
    BY RootsContain DEF TopFrame, IInv, TypeOK
  <2> QED BY <2>1, RunningFrame, UpvalueIsLive DEF IsKind, HasUpvalue
<1>2. u \in Step(Roots)
  <2>1. i \in Traced(kind[TopFrame.closure])
    BY <1>1 DEF Traced
  <2> QED BY <1>1, <2>1, StepContains DEF Upvalue
<1>3. k \in Step(Step(Roots))
  <2>1. CASE u \in open
    <3>1. k \in Roots
      BY <1>1, <2>1, RootsContain DEF Captured, IInv, OpenUpvalues
    <3> QED BY <3>1, StepContains
  <2>2. CASE u \notin open
    <3>1. k = ref[u]["closed"] /\ "closed" \in Traced(kind[u])
      BY <1>1, <2>2 DEF Captured, Traced
    <3> QED BY <1>1, <1>2, <3>1, StepContains
  <2> QED BY <2>1, <2>2
<1>4. n \in Traced(kind[k])
  BY <1>1 DEF Traced
<1> QED BY <1>3, <1>4, StepContains

LEMMA StartBindMethodPreserves == IInv /\ StartBindMethod => IInv'
<1> SUFFICES ASSUME IInv, StartBindMethod PROVE IInv'
  OBVIOUS
<1> USE DEF StartBindMethod, Starts, Mutates, Executes, Running
<1>0. PICK o \in Free, n \in Name :
        /\ Method(Top, n) # Nil
        /\ op' = [Idle EXCEPT !.name = "OP_GET_PROPERTY", !.fresh = o,
                    !.val = Top, !.aux = Method(Top, n), !.checks = 1]
  OBVIOUS
<1>1. op' = [name |-> "OP_GET_PROPERTY", fresh |-> o, val |-> Top,
             aux |-> Method(Top, n), field |-> InitName, todo |-> {},
             slot |-> 0, checks |-> 1]
  BY <1>0 DEF Idle
<1>2. stack # <<>> /\ Temporaries(1)
  BY OperandsAreTemporaries DEF IInv, TypeOK
<1>3. Live(Top) /\ Top \in Value /\ Top \in Roots \cup {Nil}
  BY <1>2, TopIsLive, RootsContain DEF IInv, TypeOK, Top
<1>4. Top \in objects \cap Roots /\ kind[Top] = "instance"
  BY <1>3 DEF IsKind, Live, IInv, TypeOK
<1>5. /\ Method(Top, n) \in objects /\ kind[Method(Top, n)] = "closure"
      /\ Method(Top, n) \in Step(Step(Step(Roots)))
  BY <1>0, <1>4, MethodIsLive, BoundMethodIsNear
<1>6. op' \in Op /\ o \notin objects /\ o # Nil
  <2>1. o \in Value /\ Method(Top, n) \in Value /\ InitName \in Field
    BY <1>0, <1>5 DEF Value, Field, Free, IInv, TypeOK
  <2> QED BY <1>0, <1>1, <1>3, <2>1 DEF Op, Free
<1>7. Pending'
  <2>1. Temporaries(1)' /\ op'.aux \in Obj /\ kind'[op'.aux] = "closure"
    BY <1>1, <1>2, <1>5 DEF mutator, Temporaries, IInv, TypeOK
  <2> QED BY <1>0, <1>1, <1>6, <2>1 DEF mutator, Pending, IsKind
<1>8. op.checks = 0
  BY DEF Idle
<1> QED BY <1>1, <1>3, <1>5, <1>6, <1>7, <1>8, Begins DEF Live, Binding

LEMMA StartGetSuperPreserves == IInv /\ StartGetSuper => IInv'
<1> SUFFICES ASSUME IInv, StartGetSuper PROVE IInv'
  OBVIOUS
<1> USE DEF StartGetSuper, Starts, Mutates, Executes, Running
<1> DEFINE method(i, n) == ref[Captured(Upvalue(i))][n]
<1>0. PICK o \in Free, n \in Name, i \in UpIndex :
        /\ HasUpvalue(i) /\ IsKind(Captured(Upvalue(i)), "class")
        /\ method(i, n) # Nil
        /\ op' = [Idle EXCEPT !.name = "OP_GET_SUPER", !.fresh = o,
                    !.val = Top, !.aux = method(i, n), !.checks = 1]
  OBVIOUS
<1>1. op' = [name |-> "OP_GET_SUPER", fresh |-> o, val |-> Top,
             aux |-> method(i, n), field |-> InitName, todo |-> {},
             slot |-> 0, checks |-> 1]
  BY <1>0 DEF Idle
<1>2. stack # <<>> /\ Temporaries(1)
  <2>1. 1 < Len(stack) /\ Temporaries(1)
    BY OperandsAreTemporaries
  <2> QED BY <2>1
<1>3. Live(Top) /\ Top \in Value /\ Top \in Roots \cup {Nil}
  BY <1>2, TopIsLive, RootsContain DEF IInv, TypeOK, Top
<1>4. Captured(Upvalue(i)) \in objects /\ kind[Captured(Upvalue(i))] = "class"
  BY <1>0, UpvalueIsLive DEF IsKind, Live
<1>5. /\ method(i, n) \in objects /\ kind[method(i, n)] = "closure"
      /\ method(i, n) \in Step(Step(Step(Roots)))
  BY <1>0, <1>4, ClassEntry, SuperMethodIsNear
<1> HIDE DEF method
<1>6. op' \in Op /\ o \notin objects /\ o # Nil
  <2>1. o \in Value /\ method(i, n) \in Value /\ InitName \in Field
    BY <1>0, <1>5 DEF Value, Field, Free, IInv, TypeOK
  <2> QED BY <1>0, <1>1, <1>3, <2>1 DEF Op, Free
<1>7. Pending'
  <2>1. Temporaries(1)' /\ op'.aux \in Obj /\ kind'[op'.aux] = "closure"
    BY <1>1, <1>2, <1>5 DEF mutator, Temporaries, IInv, TypeOK
  <2> QED BY <1>0, <1>1, <1>6, <2>1 DEF mutator, Pending, IsKind
<1>8. op.checks = 0
  BY DEF Idle
<1> QED BY <1>1, <1>3, <1>5, <1>6, <1>7, <1>8, Begins DEF Live, Binding

(* The top two values are the operands of a store. *)
LEMMA StoreOperands ==
  ASSUME IInv, Temporaries(2)
  PROVE  /\ Under \in Roots \cup {Nil} /\ Live(Under) /\ Under \in Value
         /\ Top \in Roots \cup {Nil} /\ Live(Top) /\ Top \in Value
<1>1. Len(stack) \in 1 .. Len(stack) /\ Len(stack) - 1 \in 1 .. Len(stack)
  BY DEF IInv, TypeOK, Temporaries
<1> QED BY <1>1, RootsContain DEF IInv, TypeOK, RootsLive, StackLive, Under, Top

LEMMA StartSetFieldPreserves == IInv /\ StartSetField => IInv'
<1> SUFFICES ASSUME IInv, StartSetField PROVE IInv'
  OBVIOUS
<1> USE DEF StartSetField, StartsTable, Mutates, Executes, Running
<1>0. PICK n \in Name, growth \in 0 .. 1,
           code \in {"OP_SET_PROPERTY", "OP_SET_PROPERTY_POP", "OP_NEW_PROPERTY"} :
        /\ code \in Opcodes /\ op = Idle /\ frames # <<>> /\ Operands(2)
        /\ IsKind(Under, "instance")
        /\ op' = [Idle EXCEPT !.name = code, !.val = Under, !.aux = Top,
                              !.field = n, !.checks = growth]
  OBVIOUS
<1>1. op' = [name |-> code, fresh |-> Nil, val |-> Under, aux |-> Top,
             field |-> n, todo |-> {}, slot |-> 0, checks |-> growth]
  BY <1>0 DEF Idle
<1>2. Temporaries(2) /\ op.checks = 0
  BY <1>0, OperandsAreTemporaries DEF Idle
<1>3. op' \in Op
  <2>1. Nil \in Value /\ n \in Field
    BY <1>0 DEF Value, Field
  <2> QED BY <1>0, <1>1, <1>2, <2>1, StoreOperands DEF Op
<1>4. Pending'
  <2>1. Temporaries(2)' /\ op'.val \in Obj /\ kind'[op'.val] = "instance"
    BY <1>0, <1>1, <1>2 DEF mutator, Temporaries, IsKind
  <2> QED BY <1>0, <1>1, <2>1 DEF mutator, Pending, IsKind
<1>5. Nil \notin objects
  BY DEF IInv, TypeOK
<1> QED BY <1>1, <1>2, <1>3, <1>4, <1>5, StoreOperands, Begins

LEMMA StartDefineGlobalPreserves == IInv /\ StartDefineGlobal => IInv'
<1> SUFFICES ASSUME IInv, StartDefineGlobal PROVE IInv'
  OBVIOUS
<1> USE DEF StartDefineGlobal, StartsTable, Mutates, Executes, Running
<1>0. PICK growth \in 0 .. 1 :
        op' = [Idle EXCEPT !.name = "OP_DEFINE_GLOBAL", !.aux = Top,
                           !.checks = growth]
  OBVIOUS
<1>1. op' = [name |-> "OP_DEFINE_GLOBAL", fresh |-> Nil, val |-> Nil, aux |-> Top,
             field |-> InitName, todo |-> {}, slot |-> 0, checks |-> growth]
  BY <1>0 DEF Idle
<1>2. 1 < Len(stack) /\ Temporaries(1) /\ op.checks = 0
  BY OperandsAreTemporaries DEF Idle
<1>3. stack # <<>> /\ Len(stack) \in 1 .. Len(stack)
  BY <1>2 DEF IInv, TypeOK
<1>4. Top \in Roots \cup {Nil} /\ Live(Top) /\ Top \in Value
  BY <1>3, StackValue DEF Top
<1>5. op' \in Op
  <2>1. Nil \in Value /\ InitName \in Field
    BY DEF Value, Field
  <2> QED BY <1>0, <1>1, <1>4, <2>1 DEF Op
<1>6. Pending'
  BY <1>1, <1>2 DEF mutator, Pending, Temporaries
<1>7. Nil \notin objects /\ Live(Nil)
  BY DEF IInv, TypeOK, Live
<1> QED BY <1>1, <1>2, <1>4, <1>5, <1>6, <1>7, Begins

LEMMA StartMethodPreserves == IInv /\ StartMethod => IInv'
<1> SUFFICES ASSUME IInv, StartMethod PROVE IInv'
  OBVIOUS
<1> USE DEF StartMethod, StartsTable, Mutates, Executes, Running
<1>0. PICK n \in Name, growth \in 0 .. 1 :
        op' = [Idle EXCEPT !.name = "OP_METHOD", !.val = Under, !.aux = Top,
                           !.field = n, !.checks = growth]
  OBVIOUS
<1>1. op' = [name |-> "OP_METHOD", fresh |-> Nil, val |-> Under, aux |-> Top,
             field |-> n, todo |-> {}, slot |-> 0, checks |-> growth]
  BY <1>0 DEF Idle
<1>2. Temporaries(2) /\ op.checks = 0
  BY OperandsAreTemporaries DEF Idle
<1>3. op' \in Op
  <2>1. Nil \in Value /\ n \in Field
    BY <1>0 DEF Value, Field
  <2> QED BY <1>0, <1>1, <1>2, <2>1, StoreOperands DEF Op
<1>4. Pending'
  <2>1. Temporaries(1)'
    BY <1>2 DEF mutator, Temporaries, IInv, TypeOK
  <2>2. /\ op'.val \in Obj /\ kind'[op'.val] = "class"
        /\ op'.aux \in Obj /\ kind'[op'.aux] = "closure"
    BY <1>1 DEF IsKind
  <2> QED BY <1>0, <1>1, <2>1, <2>2 DEF mutator, Pending, IsKind
<1>5. Nil \notin objects
  BY DEF IInv, TypeOK
<1> QED BY <1>1, <1>2, <1>3, <1>4, <1>5, StoreOperands, Begins

LEMMA StartInheritPreserves == IInv /\ StartInherit => IInv'
<1> SUFFICES ASSUME IInv, StartInherit PROVE IInv'
  OBVIOUS
<1> USE DEF StartInherit, StartsTable, Mutates, Executes, Running
<1> DEFINE names == MethodNames(Under)
<1>0. PICK growth \in 0 .. 1 :
        op' = [Idle EXCEPT !.name = "OP_INHERIT", !.val = Top, !.aux = Under,
                           !.todo = names, !.checks = growth]
  OBVIOUS
<1>1. op' = [name |-> "OP_INHERIT", fresh |-> Nil, val |-> Top, aux |-> Under,
             field |-> InitName, todo |-> names, slot |-> 0, checks |-> growth]
  BY <1>0 DEF Idle
<1>2. Temporaries(1) /\ op.checks = 0 /\ names \subseteq Name
  BY OperandsAreTemporaries DEF Idle, MethodNames
<1> HIDE DEF names
<1>3. Len(stack) \in 1 .. Len(stack) /\ Len(stack) - 1 \in 1 .. Len(stack)
  BY RunningFrame DEF IInv, TypeOK
<1>4. /\ Under \in Roots \cup {Nil} /\ Live(Under) /\ Under \in Value
      /\ Top \in Roots \cup {Nil} /\ Live(Top) /\ Top \in Value
  BY <1>3, StackValue DEF Under, Top
<1>5. op' \in Op
  <2>1. Nil \in Value /\ InitName \in Field /\ names \subseteq Field
    BY <1>2 DEF Value, Field
  <2> QED BY <1>0, <1>1, <1>4, <2>1 DEF Op
<1>6. Pending'
  <2>1. Temporaries(1)'
    BY <1>2 DEF mutator, Temporaries, IInv, TypeOK
  <2>2. /\ op'.val \in Obj /\ kind'[op'.val] = "class"
        /\ op'.aux \in Obj /\ kind'[op'.aux] = "class"
    BY <1>1 DEF IsKind
  <2>3. stack' = stack /\ Len(stack) >= 2
    BY <1>3 DEF mutator
  <2> QED BY <1>1, <1>2, <2>1, <2>2, <2>3 DEF mutator, Pending, IsKind, Top, Under
<1>7. Nil \notin objects
  BY DEF IInv, TypeOK
<1> QED BY <1>1, <1>2, <1>4, <1>5, <1>6, <1>7, Begins

LEMMA StartingPreserves == IInv /\ Starting => IInv'
BY StartInterpretPreserves, StartClosurePreserves, StartCapturePreserves,
   StartNewPreserves, StartInstancePreserves, StartBindMethodPreserves,
   StartGetSuperPreserves, StartSetFieldPreserves, StartDefineGlobalPreserves,
   StartMethodPreserves, StartInheritPreserves DEF Starting

-----------------------------------------------------------------------------
(* The last step of an instruction that allocates uses its C locals. *)

(* A step that moves no value and goes on with the same instruction. *)
(* A step inside an instruction that leaves stack and collector alone. *)
LEMMA Continues ==
  ASSUME IInv, op.checks = 0,
         UNCHANGED <<objects, kind, marking, mutator>>,
         ref' \in [Obj -> [Field -> Value]], RefsLive', Shape', TypedObjects',
         op' \in Op, HeldLive', Pending', HeldRooted'
  PROVE  IInv'
<1>1. TypeOK'
  BY DEF IInv, TypeOK, marking, mutator
<1>2. RootsLive' /\ TypedRoots' /\ OpenUpvalues'
  BY DEF IInv, mutator, RootsLive, StackLive, FramesLive, OpenLive, GlobalsLive,
     Live, UncheckedCasts, TypedRoots, IsKind, OpenUpvalues
<1>3. Marks'
  BY NotWorking DEF IInv, Marks, Marked, marking
<1> QED BY <1>1, <1>2, <1>3 DEF IInv, UncheckedCasts

(* The state between two captures is well typed. *)
LEMMA CapturingOp ==
  ASSUME NEW closure \in Value, NEW todo \in SUBSET UpIndex
  PROVE  Capturing(closure, todo) \in Op
<1>1. CASE todo = {}
  BY <1>1, IdleOp DEF Capturing
<1>2. CASE todo # {}
  <2>1. Capturing(closure, todo) =
          [name |-> "capture", fresh |-> Nil, val |-> closure, aux |-> Nil,
           field |-> InitName, todo |-> todo, slot |-> 0, checks |-> 0]
    BY <1>2 DEF Capturing, Idle
  <2>2. Nil \in Value /\ InitName \in Field /\ todo \subseteq Field
    BY DEF Value, Field
  <2> QED BY <2>1, <2>2 DEF Op
<1> QED BY <1>1, <1>2

(* What the loop over the captured variables of a closure carries on. *)
LEMMA CapturingContinues ==
  ASSUME NEW todo \in SUBSET UpIndex, NEW closure \in Obj,
         kind'[closure] = "closure", closure \in objects',
         Nil \notin objects',
         op' = Capturing(closure, todo), stack' # <<>>, closure = Top', frames' # <<>>
  PROVE  HeldLive' /\ Pending' /\ HeldRooted'
<1>1. CASE todo = {}
  BY <1>1 DEF Capturing, Idle, HeldLive, Live, Pending, HeldRooted
<1>2. CASE todo # {}
  <2>1. op' = [name |-> "capture", fresh |-> Nil, val |-> closure, aux |-> Nil,
               field |-> InitName, todo |-> todo, slot |-> 0, checks |-> 0]
    BY <1>2 DEF Capturing, Idle
  <2>2. IsKind(closure, "closure")'
    BY DEF IsKind
  <2> QED BY <2>1, <2>2 DEF HeldLive, Live, Pending, HeldRooted, IsKind
<1> QED BY <1>1, <1>2

(* A closure stores one captured upvalue. *)
LEMMA CaptureContinues ==
  ASSUME IInv, Ready("capture"), NEW i \in op.todo, NEW u \in objects,
         kind[u] = "upvalue", ref' = [ref EXCEPT ![op.val][i] = u],
         op' = Capturing(op.val, op.todo \ {i}),
         UNCHANGED <<objects, kind, marking, mutator>>
  PROVE  IInv'
<1>1. /\ op.val \in objects /\ kind[op.val] = "closure" /\ op.todo \subseteq UpIndex
      /\ stack # <<>> /\ frames # <<>> /\ op.val = Top /\ op.checks = 0
      /\ objects \subseteq Obj /\ Nil \notin objects
  BY DEF IInv, TypeOK, Pending, HeldLive, Live, Ready, IsKind
<1>2. i \in Field \cap Traced(kind[op.val])
  BY <1>1 DEF Traced, Field
<1>3. ref' \in [Obj -> [Field -> Value]] /\ RefsLive' /\ Shape' /\ TypedObjects'
  BY <1>1, <1>2, StoresRef DEF Holds, IsKind, Live
<1>4. HeldLive' /\ Pending' /\ HeldRooted'
  BY <1>1, CapturingContinues DEF mutator, Top
<1>5. op' \in Op
  BY <1>1, CapturingOp DEF Value
<1> QED BY <1>1, <1>3, <1>4, <1>5, Continues

LEMMA CaptureEnclosingPreserves == IInv /\ CaptureEnclosing => IInv'
<1> SUFFICES ASSUME IInv, CaptureEnclosing PROVE IInv'
  OBVIOUS
<1>0. PICK i \in op.todo, j \in UpIndex :
        /\ HasUpvalue(j)
        /\ ref' = [ref EXCEPT ![op.val][i] = Upvalue(j)]
        /\ op' = Capturing(op.val, op.todo \ {i})
  BY DEF CaptureEnclosing
<1>1. frames # <<>>
  BY DEF CaptureEnclosing, Ready, IInv, Pending
<1> QED BY <1>0, <1>1, UpvalueIsLive, CaptureContinues DEF CaptureEnclosing, Mutates

LEMMA CaptureOpenPreserves == IInv /\ CaptureOpen => IInv'
<1> SUFFICES ASSUME IInv, CaptureOpen PROVE IInv'
  OBVIOUS
<1>0. PICK i \in op.todo, u \in open :
        /\ ref' = [ref EXCEPT ![op.val][i] = u]
        /\ op' = Capturing(op.val, op.todo \ {i})
  BY DEF CaptureOpen
<1>1. u \in objects /\ kind[u] = "upvalue"
  BY DEF IInv, RootsLive, OpenLive, UncheckedCasts, TypedRoots, IsKind
<1> QED BY <1>0, <1>1, CaptureContinues DEF CaptureOpen, Mutates

(* A class gets new methods, or its cached initializer. *)
LEMMA StoresMethods ==
  ASSUME IInv, UNCHANGED <<objects, kind>>,
         NEW k \in objects, kind[k] = "class",
         NEW row \in [Field -> Value], ref' = [ref EXCEPT ![k] = row],
         \A f \in Field :
           \/ row[f] = ref[k][f]
           \/ f \in Name \cup {"initializer"} /\ Live(row[f]) /\ Holds(row[f], "closure")
  PROVE  /\ ref' \in [Obj -> [Field -> Value]]
         /\ RefsLive' /\ Shape' /\ TypedObjects'
<1>1. k \in Obj /\ ref \in [Obj -> [Field -> Value]] /\ objects \subseteq Obj
  BY DEF IInv, TypeOK
<1>2. \A p \in Obj, f \in Field :
        ref'[p][f] = IF p = k THEN row[f] ELSE ref[p][f]
  BY <1>1
<1>3. ref' \in [Obj -> [Field -> Value]]
  BY <1>1
<1>4. RefsLive'
  BY <1>1, <1>2 DEF IInv, RefsLive, Live
<1>5. Shape'
  <2>1. Name \cup {"initializer"} = Traced(kind[k])
    BY DEF Traced
  <2>2. \A p \in Obj : \A f \in Field \ Traced(kind[p]) : ref'[p][f] = Nil
    BY <1>1, <1>2, <2>1 DEF IInv, Shape
  <2> QED BY <2>2 DEF IInv, Shape
<1>6. TypedObjects'
  <2>1. Name \cup UpIndex \cup {"method", "klass", "initializer"} \subseteq Field
    BY DEF Field, Pointer
  <2> QED BY <1>1, <1>2, <2>1 DEF IInv, UncheckedCasts, TypedObjects, Holds, IsKind
<1> QED BY <1>3, <1>4, <1>5, <1>6

LEMMA InheritMethodPreserves == IInv /\ InheritMethod => IInv'
<1> SUFFICES ASSUME IInv, InheritMethod PROVE IInv'
  OBVIOUS
<1> USE DEF InheritMethod, Mutates, Ready
<1>0. PICK n \in op.todo, growth \in 0 .. 1 :
        /\ ref' = [ref EXCEPT ![op.val][n] = ref[op.aux][n]]
        /\ op' = [op EXCEPT !.todo = @ \ {n}, !.checks = growth]
  OBVIOUS
<1>1. /\ op \in Op /\ op.checks = 0 /\ op.todo \subseteq Name
      /\ op.val \in objects /\ kind[op.val] = "class"
      /\ op.aux \in objects /\ kind[op.aux] = "class"
      /\ Len(stack) \in Nat /\ Len(stack) >= 2 /\ op.val = Top /\ op.aux = Under
      /\ objects \subseteq Obj /\ frames # <<>>
  BY DEF IInv, TypeOK, Pending, HeldLive, Live, IsKind
<1>2. n \in Field \cap Traced(kind[op.val]) /\ n \in Name
  BY <1>0, <1>1 DEF Traced, Field
<1>3. Live(ref[op.aux][n]) /\ Holds(ref[op.aux][n], "closure")
  BY <1>1, <1>2, ClassEntry DEF Holds, IsKind, IInv, TypeOK
<1>4. ref' \in [Obj -> [Field -> Value]] /\ RefsLive' /\ Shape' /\ TypedObjects'
  BY <1>0, <1>1, <1>2, <1>3, StoresRef
<1>5. /\ op'.name = "OP_INHERIT" /\ op'.val = op.val /\ op'.aux = op.aux
      /\ op'.fresh = op.fresh /\ op'.todo = op.todo \ {n} /\ op'.checks = growth
      /\ op'.field = op.field /\ op'.slot = op.slot
  BY <1>0, <1>1 DEF Op
<1>6. op' \in Op
  <2>1. op' = [name |-> op.name, fresh |-> op.fresh, val |-> op.val, aux |-> op.aux,
               field |-> op.field, todo |-> op.todo \ {n}, slot |-> op.slot,
               checks |-> growth]
    BY <1>0, <1>1 DEF Op
  <2> QED BY <1>0, <1>1, <2>1 DEF Op
<1>7. HeldLive'
  BY <1>5 DEF IInv, HeldLive, Live
<1>8. Pending'
  <2>1. Temporaries(1)' /\ IsKind(op.val, "class")' /\ IsKind(op.aux, "class")'
    BY <1>1, <1>5 DEF mutator, Temporaries, IsKind, IInv, Pending
  <2> QED BY <1>1, <1>5, <2>1 DEF mutator, Pending, Top, Under
<1>9. HeldRooted'
  <2>1. op.val \in Roots \cup {Nil} /\ op.aux \in Roots \cup {Nil}
    BY <1>1, StackValue DEF Top, Under
  <2>2. Roots' = Roots
    BY DEF Roots, mutator
  <2> QED BY <1>5, <2>1, <2>2 DEF HeldRooted, Binding
<1> QED BY <1>1, <1>4, <1>6, <1>7, <1>8, <1>9, Continues

(* A store ends: the stack loses operands. *)
LEMMA StoreEnds ==
  ASSUME IInv, op.checks = 0, op' = Idle,
         UNCHANGED <<objects, kind, marking, frames, open, loc>>,
         ref' \in [Obj -> [Field -> Value]], RefsLive', Shape', TypedObjects',
         globals' \in [Global -> Value], GlobalsLive',
         stack' \in Seq(Value), Len(stack') <= MaxStack, StackLive',
         \A u \in open : loc[u] <= Len(stack')
  PROVE  IInv'
<1>1. TypeOK'
  BY IdleOp DEF IInv, TypeOK, marking
<1>2. RootsLive' /\ TypedRoots'
  BY DEF IInv, RootsLive, FramesLive, OpenLive, Live, UncheckedCasts, TypedRoots, IsKind
<1>3. OpenUpvalues'
  BY DEF IInv, TypeOK, OpenUpvalues
<1> QED BY <1>1, <1>2, <1>3, EndsInstruction DEF UncheckedCasts

LEMMA FinishInheritPreserves == IInv /\ FinishInherit => IInv'
<1> SUFFICES ASSUME IInv, FinishInherit PROVE IInv'
  OBVIOUS
<1> USE DEF FinishInherit, Mutates, Ready
<1>1. /\ op.checks = 0 /\ Temporaries(1)
      /\ op.val \in objects /\ kind[op.val] = "class"
      /\ op.aux \in objects /\ kind[op.aux] = "class"
      /\ ref \in [Obj -> [Field -> Value]] /\ objects \subseteq Obj
      /\ "initializer" \in Field
  BY DEF IInv, TypeOK, Pending, HeldLive, Live, IsKind, Field, Pointer
<1> DEFINE init == ref[op.aux]["initializer"]
<1>2. Live(init) /\ Holds(init, "closure") /\ init \in Value
  BY <1>1, ClassEntry DEF Holds, IsKind, IInv, TypeOK
<1>3. InheritedClass \in [Field -> Value]
  BY <1>1, <1>2 DEF InheritedClass
<1>4. \A f \in Field :
        \/ InheritedClass[f] = ref[op.val][f]
        \/ f = "initializer" /\ InheritedClass[f] = init
  BY <1>1 DEF InheritedClass
<1> HIDE DEF init
<1>5. ref' \in [Obj -> [Field -> Value]] /\ RefsLive' /\ Shape' /\ TypedObjects'
  <2>1. \A f \in Field :
          \/ InheritedClass[f] = ref[op.val][f]
          \/ /\ f \in Name \cup {"initializer"}
             /\ Live(InheritedClass[f]) /\ Holds(InheritedClass[f], "closure")
    BY <1>2, <1>4
  <2>2. ref' = [ref EXCEPT ![op.val] = InheritedClass]
    OBVIOUS
  <2> QED BY <1>1, <1>3, <2>1, <2>2, StoresMethods, ZenonT(30)
<1>6. /\ stack' \in Seq(Value) /\ Len(stack') = Len(stack) - 1
      /\ Len(stack') <= MaxStack /\ StackLive'
  BY <1>1, PopsValues DEF Temporaries, IInv, TypeOK
<1>7. \A u \in open : loc[u] <= Len(stack')
  BY <1>1, <1>6 DEF Temporaries
<1> QED BY <1>1, <1>5, <1>6, <1>7, StoreEnds
        DEF IInv, TypeOK, RootsLive, GlobalsLive, Live

LEMMA FinishMethodPreserves == IInv /\ FinishMethod => IInv'
<1> SUFFICES ASSUME IInv, FinishMethod PROVE IInv'
  OBVIOUS
<1> USE DEF FinishMethod, Mutates, Ready
<1>1. /\ op.checks = 0 /\ Temporaries(1) /\ op.field \in Name
      /\ op.val \in objects /\ kind[op.val] = "class"
      /\ op.aux \in objects /\ kind[op.aux] = "closure"
      /\ ref \in [Obj -> [Field -> Value]] /\ objects \subseteq Obj
      /\ "initializer" \in Field /\ op.field \in Field /\ op.aux \in Value
  BY DEF IInv, TypeOK, Pending, HeldLive, Live, IsKind, Field, Pointer, Value
<1> DEFINE row == WithMethod(ref[op.val], op.field, op.aux)
<1>3. row \in [Field -> Value]
  BY <1>1 DEF WithMethod
<1>4. \A f \in Field :
        \/ row[f] = ref[op.val][f]
        \/ f \in Name \cup {"initializer"} /\ row[f] = op.aux
  BY <1>1 DEF WithMethod
<1>5. ref' = [ref EXCEPT ![op.val] = row]
  OBVIOUS
<1> HIDE DEF row
<1>6. Live(op.aux) /\ Holds(op.aux, "closure")
  BY <1>1 DEF Live, Holds, IsKind
<1>7. ref' \in [Obj -> [Field -> Value]] /\ RefsLive' /\ Shape' /\ TypedObjects'
  <2>1. \A f \in Field :
          \/ row[f] = ref[op.val][f]
          \/ /\ f \in Name \cup {"initializer"}
             /\ Live(row[f]) /\ Holds(row[f], "closure")
    BY <1>4, <1>6
  <2> QED BY <1>1, <1>3, <1>5, <2>1, StoresMethods
<1>8. /\ stack' \in Seq(Value) /\ Len(stack') = Len(stack) - 1
      /\ Len(stack') <= MaxStack /\ StackLive'
  BY <1>1, PopsValues DEF Temporaries, IInv, TypeOK
<1>9. \A u \in open : loc[u] <= Len(stack')
  BY <1>1, <1>8 DEF Temporaries
<1> QED BY <1>1, <1>7, <1>8, <1>9, StoreEnds
        DEF IInv, TypeOK, RootsLive, GlobalsLive, Live

LEMMA FinishDefineGlobalPreserves == IInv /\ FinishDefineGlobal => IInv'
<1> SUFFICES ASSUME IInv, FinishDefineGlobal PROVE IInv'
  OBVIOUS
<1> USE DEF FinishDefineGlobal, Mutates, Ready
<1>0. PICK g \in Global : globals' = [globals EXCEPT ![g] = op.aux]
  OBVIOUS
<1>1. op.checks = 0 /\ Temporaries(1) /\ Live(op.aux) /\ op.aux \in Value
  BY DEF IInv, TypeOK, Pending, HeldLive, Live, Value
<1>2. /\ stack' \in Seq(Value) /\ Len(stack') = Len(stack) - 1
      /\ Len(stack') <= MaxStack /\ StackLive'
  BY <1>1, PopsValues DEF Temporaries, IInv, TypeOK
<1>3. \A u \in open : loc[u] <= Len(stack')
  BY <1>1, <1>2 DEF Temporaries
<1>4. globals' \in [Global -> Value] /\ GlobalsLive'
  BY <1>0, <1>1 DEF IInv, TypeOK, RootsLive, GlobalsLive, Live
<1>5. ref' \in [Obj -> [Field -> Value]] /\ RefsLive' /\ Shape' /\ TypedObjects'
  BY DEF IInv, TypeOK, RefsLive, Live, Shape, UncheckedCasts, TypedObjects, Holds, IsKind
<1> QED BY <1>1, <1>2, <1>3, <1>4, <1>5, StoreEnds

LEMMA FinishSetFieldPreserves == IInv /\ FinishSetField => IInv'
<1> SUFFICES ASSUME IInv, FinishSetField PROVE IInv'
  OBVIOUS
<1> USE DEF FinishSetField, Mutates, Ready
<1>1. /\ op.checks = 0 /\ Temporaries(2) /\ op.field \in Name
      /\ op.val \in objects /\ kind[op.val] = "instance" /\ Live(op.aux)
      /\ Nil \notin objects /\ \A u \in open : loc[u] \in Nat /\ Len(stack) \in Nat
  BY DEF IInv, TypeOK, Pending, HeldLive, Live, IsKind
<1>2. op.field \in Field \cap Traced(kind[op.val]) /\ op.field # "klass"
  BY <1>1 DEF Traced, Field, ConstantsAssumption, Pointer
<1>3. ref' \in [Obj -> [Field -> Value]] /\ RefsLive' /\ Shape' /\ TypedObjects'
  BY <1>1, <1>2, StoresRef
<1>4. /\ stack' \in Seq(Value) /\ Len(stack') <= MaxStack /\ StackLive'
      /\ \A u \in open : loc[u] <= Len(stack')
  <2>1. CASE stack' = Append(Pop(stack, 2), Top)
    BY <1>1, <2>1, PopsUnder
  <2>2. CASE \E n \in 1 .. 2 : stack' = Pop(stack, n)
    <3>1. PICK n \in 1 .. 2 : stack' = Pop(stack, n)
      BY <2>2
    <3>2. n \in 0 .. Len(stack)
      BY <1>1 DEF Temporaries
    <3>3. /\ stack' \in Seq(Value) /\ Len(stack') = Len(stack) - n
          /\ Len(stack') <= MaxStack /\ StackLive'
      BY <3>1, <3>2, PopsValues
    <3> QED BY <1>1, <3>3 DEF Temporaries
  <2> QED BY <2>1, <2>2
<1> QED BY <1>1, <1>3, <1>4, StoreEnds DEF IInv, TypeOK, RootsLive, GlobalsLive, Live

(* A new object is unmarked, refers to live objects, and from nowhere but  *)
(* the closure that captures it is it referred to.                         *)
LEMMA LinksObject ==
  ASSUME IInv, op.checks = 0, op.fresh # Nil, NEW k \in Kind,
         objects' = objects \cup {op.fresh},
         kind' = [kind EXCEPT ![op.fresh] = k],
         mark' = [mark EXCEPT ![op.fresh] = ~gcMark],
         UNCHANGED <<gcMark, gcWorking, gray>>,
         ref' \in [Obj -> [Field -> Value]],
         \A p \in Obj \ {op.fresh}, f \in Field :
           \/ ref'[p][f] = ref[p][f]
           \/ /\ kind[p] = "closure" /\ f \in UpIndex
              /\ k = "upvalue" /\ ref'[p][f] = op.fresh,
         \A f \in Field : Live(ref'[op.fresh][f]),
         \A f \in Field \ Traced(k) : ref'[op.fresh][f] = Nil,
         k = "closure" => \A i \in UpIndex : ref'[op.fresh][i] = Nil,
         k = "bound" => IsKind(ref'[op.fresh]["method"], "closure"),
         k = "instance" => Holds(ref'[op.fresh]["klass"], "class"),
         k = "class" => \A n \in Name \cup {"initializer"} : ref'[op.fresh][n] = Nil
  PROVE  /\ op.fresh \in Obj \ objects /\ op.fresh \in objects'
         /\ objects' \subseteq Obj /\ objects \subseteq objects'
         /\ kind' \in [Obj -> Kind \cup {"free"}]
         /\ kind'[op.fresh] = k
         /\ \A o \in objects : kind'[o] = kind[o]
         /\ mark' \in [Obj -> BOOLEAN]
         /\ RefsLive' /\ Shape' /\ TypedObjects' /\ Marks'
<1>1. /\ op.fresh \in Obj \ objects /\ objects \subseteq Obj
      /\ kind \in [Obj -> Kind \cup {"free"}] /\ mark \in [Obj -> BOOLEAN]
      /\ gcMark \in BOOLEAN
  BY DEF IInv, TypeOK, HeldLive, Op, Value
<1>2. objects' \subseteq Obj /\ kind' \in [Obj -> Kind \cup {"free"}]
      /\ mark' \in [Obj -> BOOLEAN]
  BY <1>1
<1>3. kind'[op.fresh] = k /\ \A o \in Obj \ {op.fresh} : kind'[o] = kind[o]
  BY <1>1
<1>4. RefsLive'
  BY <1>1, <1>3 DEF IInv, RefsLive, Live
<1>5. Shape'
  <2>1. k # "free"
    BY DEF Kind
  <2>2. \A o \in Obj : o \in objects' <=> kind'[o] # "free"
    BY <1>1, <1>3, <2>1 DEF IInv, Shape
  <2>3. \A p \in Obj : kind[p] = "closure" => UpIndex \subseteq Traced(kind[p])
    BY DEF Traced
  <2>4. \A p \in Obj : \A f \in Field \ Traced(kind[p]) : ref[p][f] = Nil
    BY DEF IInv, Shape
  <2>5. \A p \in Obj : \A f \in Field \ Traced(kind'[p]) : ref'[p][f] = Nil
    <3> SUFFICES ASSUME NEW p \in Obj, NEW f \in Field \ Traced(kind'[p])
                 PROVE  ref'[p][f] = Nil
      OBVIOUS
    <3>1. CASE p = op.fresh
      BY <1>3, <3>1
    <3>2. CASE p # op.fresh
      <4>1. kind'[p] = kind[p]
        BY <1>3, <3>2
      <4> QED BY <2>3, <2>4, <3>2, <4>1
    <3> QED BY <3>1, <3>2
  <2> QED BY <2>2, <2>5 DEF Shape
<1>6. TypedObjects'
  <2>1. /\ Name \cup UpIndex \cup {"method", "klass", "initializer"} \subseteq Field
        /\ UpIndex \cap ({"method", "klass", "initializer"} \cup Name) = {}
    BY DEF Field, Pointer
  <2>2. kind[op.fresh] = "free"
    BY <1>1 DEF IInv, Shape
  <2>3. \A v \in Obj, t \in Kind : kind[v] = t => kind'[v] = t
    BY <1>1, <1>3, <2>2 DEF Kind
  <2>4. TypedObjects /\ ~(kind[op.fresh] \in Kind)
    BY <2>2 DEF Kind, IInv, UncheckedCasts
  <2>5. ASSUME NEW p \in objects
        PROVE  /\ kind'[p] = "closure" =>
                    \A i \in UpIndex : ref'[p][i] = Nil \/ kind'[ref'[p][i]] = "upvalue"
               /\ kind'[p] = "bound" => kind'[ref'[p]["method"]] = "closure"
               /\ kind'[p] = "instance" =>
                    ref'[p]["klass"] = Nil \/ kind'[ref'[p]["klass"]] = "class"
               /\ kind'[p] = "class" => \A n \in Name \cup {"initializer"} :
                    ref'[p][n] = Nil \/ kind'[ref'[p][n]] = "closure"
    <3>1. p \in Obj \ {op.fresh} /\ kind'[p] = kind[p]
      BY <1>1, <1>3
    <3>2. \A f \in Field \ UpIndex : ref'[p][f] = ref[p][f]
      BY <3>1
    <3>3. ASSUME kind[p] = "closure", NEW i \in UpIndex
          PROVE  ref'[p][i] = Nil \/ kind'[ref'[p][i]] = "upvalue"
      <4>1. CASE ref'[p][i] = ref[p][i]
        BY <2>3, <2>4, <3>3, <4>1 DEF TypedObjects, Holds, IsKind, Kind
      <4>2. CASE k = "upvalue" /\ ref'[p][i] = op.fresh
        BY <1>3, <4>2
      <4> QED BY <2>1, <3>1, <4>1, <4>2
    <3>4. kind[p] = "bound" => kind'[ref'[p]["method"]] = "closure"
      BY <2>1, <2>3, <2>4, <3>2 DEF TypedObjects, IsKind, Kind
    <3>5. kind[p] = "instance" =>
            ref'[p]["klass"] = Nil \/ kind'[ref'[p]["klass"]] = "class"
      BY <2>1, <2>3, <2>4, <3>2 DEF TypedObjects, Holds, IsKind, Kind
    <3>6. kind[p] = "class" => \A n \in Name \cup {"initializer"} :
            ref'[p][n] = Nil \/ kind'[ref'[p][n]] = "closure"
      BY <2>1, <2>3, <2>4, <3>2 DEF TypedObjects, Holds, IsKind, Kind
    <3> QED BY <3>1, <3>3, <3>4, <3>5, <3>6
  <2>6. /\ kind'[op.fresh] = "closure" => \A i \in UpIndex : ref'[op.fresh][i] = Nil
        /\ kind'[op.fresh] = "bound" => kind'[ref'[op.fresh]["method"]] = "closure"
        /\ kind'[op.fresh] = "instance" =>
             ref'[op.fresh]["klass"] = Nil \/ kind'[ref'[op.fresh]["klass"]] = "class"
        /\ kind'[op.fresh] = "class" =>
             \A n \in Name \cup {"initializer"} : ref'[op.fresh][n] = Nil
    BY <1>3, <2>3 DEF Holds, IsKind, Kind
  <2>7. \A p \in objects', f \in Field : ref'[p][f] \in objects' \cup {Nil}
    BY <1>4 DEF RefsLive, Live
  <2>8. ASSUME NEW p \in objects'
        PROVE  /\ kind'[p] = "closure" =>
                    \A i \in UpIndex : ref'[p][i] = Nil \/ kind'[ref'[p][i]] = "upvalue"
               /\ kind'[p] = "bound" => kind'[ref'[p]["method"]] = "closure"
               /\ kind'[p] = "instance" =>
                    ref'[p]["klass"] = Nil \/ kind'[ref'[p]["klass"]] = "class"
               /\ kind'[p] = "class" => \A n \in Name \cup {"initializer"} :
                    ref'[p][n] = Nil \/ kind'[ref'[p][n]] = "closure"
    <3>1. CASE p = op.fresh
      BY <2>6, <3>1
    <3>2. CASE p \in objects
      BY <2>5, <3>2
    <3> QED BY <3>1, <3>2
  <2>9. \A p \in objects' : kind'[p] = "bound" => ref'[p]["method"] # Nil
    <3>1. \A p \in objects : kind'[p] = "bound" => ref'[p]["method"] \in Obj
      BY <1>1, <1>3, <2>1, <2>4 DEF TypedObjects, IsKind
    <3>2. kind'[op.fresh] = "bound" => ref'[op.fresh]["method"] \in Obj
      BY <1>3 DEF IsKind
    <3> QED BY <3>1, <3>2
  <2>10. \A p \in objects', f \in Field : ref'[p][f] \in Obj \cup {Nil}
    BY <1>2, <2>7
  <2> QED BY <2>1, <2>8, <2>9, <2>10 DEF TypedObjects, Holds, IsKind
<1>7. Marks'
  <2>1. Marked' = {}
    BY <1>1, NotWorking DEF Marked
  <2> QED BY <2>1, NotWorking DEF Marks
<1> QED BY <1>1, <1>2, <1>3, <1>4, <1>5, <1>6, <1>7

(* What a linked object leaves untouched. *)
LEMMA LinksAndEnds ==
  ASSUME IInv, op.checks = 0, objects \subseteq objects', objects' \subseteq Obj,
         kind' \in [Obj -> Kind \cup {"free"}],
         \A o \in objects : kind'[o] = kind[o],
         mark' \in [Obj -> BOOLEAN], UNCHANGED <<gcMark, gcWorking, gray>>,
         ref' \in [Obj -> [Field -> Value]], RefsLive', Shape', TypedObjects', Marks',
         stack' \in Seq(Value), Len(stack') <= MaxStack,
         \A i \in 1 .. Len(stack') : stack'[i] \in objects' \cup {Nil},
         frames' \in Seq(Frame), Len(frames') <= MaxFrames,
         \A i \in 1 .. Len(frames') : frames'[i].closure \in objects'
                                      /\ kind'[frames'[i].closure] = "closure",
         loc' \in [Obj -> 0 .. MaxStack],
         \A u \in open' : /\ u \in objects' /\ kind'[u] = "upvalue"
                          /\ loc'[u] \in 1 .. Len(stack'),
         \A u, v \in open' : loc'[u] = loc'[v] => u = v,
         UNCHANGED globals, op' \in Op, HeldLive', Pending', HeldRooted'
  PROVE  IInv'
<1>1. TypeOK'
  BY DEF IInv, TypeOK
<1>2. RootsLive' /\ OpenUpvalues'
  BY DEF IInv, RootsLive, StackLive, FramesLive, OpenLive, GlobalsLive, Live, OpenUpvalues
<1>3. UncheckedCasts'
  BY DEF UncheckedCasts, TypedRoots, IsKind
<1> QED BY <1>1, <1>2, <1>3 DEF IInv

(* No C local is left when an instruction ends. *)
LEMMA IdleHolds ==
  ASSUME op' = Idle, Nil \notin objects'
  PROVE  op' \in Op /\ HeldLive' /\ Pending' /\ HeldRooted'
BY IdleOp DEF Idle, HeldLive, Live, Pending, HeldRooted

(* The entries of a new object. *)
LEMMA NoRefsRow ==
  /\ NoRefs \in [Field -> Value] /\ \A f \in Field : NoRefs[f] = Nil
  /\ Name \cup UpIndex \cup {"method", "klass", "receiver", "initializer"} \subseteq Field
BY DEF NoRefs, Value, Field, Pointer

LEMMA FinishInterpretPreserves == IInv /\ FinishInterpret => IInv'
<1> SUFFICES ASSUME IInv, FinishInterpret PROVE IInv'
  OBVIOUS
<1> USE DEF FinishInterpret, Link, Ready
<1>1. op.checks = 0 /\ op.fresh # Nil /\ open = {} /\ op.fresh \in Obj
      /\ ref \in [Obj -> [Field -> Value]] /\ loc \in [Obj -> 0 .. MaxStack]
      /\ Nil \notin Obj
  BY DEF IInv, Pending, TypeOK, Op, Value
<1>2. ref' \in [Obj -> [Field -> Value]] /\ ref'[op.fresh] = NoRefs
      /\ \A p \in Obj \ {op.fresh} : ref'[p] = ref[p]
  BY <1>1, NoRefsRow
<1>3. /\ op.fresh \in objects'
      /\ objects' \subseteq Obj /\ objects \subseteq objects'
      /\ kind' \in [Obj -> Kind \cup {"free"}]
      /\ kind'[op.fresh] = "closure"
      /\ \A o \in objects : kind'[o] = kind[o]
      /\ mark' \in [Obj -> BOOLEAN]
      /\ RefsLive' /\ Shape' /\ TypedObjects' /\ Marks'
  BY <1>1, <1>2, NoRefsRow, LinksObject DEF Live, Kind
<1>4. /\ stack' \in Seq(Value) /\ Len(stack') = 1 /\ stack'[1] = op.fresh
      /\ frames' \in Seq(Frame) /\ Len(frames') = 1
      /\ frames'[1].closure = op.fresh
  BY <1>1 DEF Value, Frame
<1> QED BY <1>1, <1>2, <1>3, <1>4, IdleHolds, LinksAndEnds

(* A value pushed after an allocation. *)
LEMMA PushesObject ==
  ASSUME IInv, NEW v \in Obj, Len(stack) < MaxStack, stack' = Append(stack, v),
         objects \subseteq objects', v \in objects'
  PROVE  /\ stack' \in Seq(Value) /\ Len(stack') <= MaxStack
         /\ Len(stack') = Len(stack) + 1 /\ stack'[Len(stack')] = v
         /\ \A i \in 1 .. Len(stack') : stack'[i] \in objects' \cup {Nil}
<1>1. stack \in Seq(Value) /\ v \in Value
  BY DEF IInv, TypeOK, Value
<1>2. stack' \in Seq(Value) /\ Len(stack') = Len(stack) + 1
  BY <1>1
<1>3. \A i \in 1 .. Len(stack') :
        stack'[i] = IF i = Len(stack') THEN v ELSE stack[i]
  BY <1>1, <1>2
<1>4. \A i \in 1 .. Len(stack) : stack[i] \in objects \cup {Nil}
  BY DEF IInv, RootsLive, StackLive, Live
<1> QED BY <1>1, <1>2, <1>3, <1>4 DEF IInv, TypeOK

(* The roots other than the stack, when a new object is no frame's closure. *)
LEMMA RootsRemain ==
  ASSUME IInv, objects \subseteq objects', \A o \in objects : kind'[o] = kind[o],
         UNCHANGED <<frames, open, loc>>, NEW n \in Nat, n >= Len(stack)
  PROVE  /\ frames' \in Seq(Frame) /\ Len(frames') <= MaxFrames
         /\ \A i \in 1 .. Len(frames') : frames'[i].closure \in objects'
                                      /\ kind'[frames'[i].closure] = "closure"
         /\ loc' \in [Obj -> 0 .. MaxStack]
         /\ \A u \in open' : /\ u \in objects' /\ kind'[u] = "upvalue"
                             /\ loc'[u] \in 1 .. n
         /\ \A u, v \in open' : loc'[u] = loc'[v] => u = v
<1>0. \A u, v \in open : loc[u] = loc[v] => u = v
  BY DEF IInv, OpenUpvalues
<1>1. \A i \in 1 .. Len(frames) : frames[i].closure \in objects
                                 /\ kind[frames[i].closure] = "closure"
  BY DEF IInv, RootsLive, FramesLive, UncheckedCasts, TypedRoots, IsKind
<1>2. \A u \in open : /\ u \in objects /\ kind[u] = "upvalue"
                      /\ loc[u] \in 1 .. n
  BY DEF IInv, TypeOK, RootsLive, OpenLive, UncheckedCasts, TypedRoots, IsKind,
     OpenUpvalues
<1> QED BY <1>0, <1>1, <1>2 DEF IInv, TypeOK

LEMMA FinishClosurePreserves == IInv /\ FinishClosure => IInv'
<1> SUFFICES ASSUME IInv, FinishClosure PROVE IInv'
  OBVIOUS
<1> USE DEF FinishClosure, Link, Ready
<1>1. /\ op.checks = 0 /\ op.fresh # Nil /\ op.fresh \in Obj /\ Nil \notin Obj
      /\ ref \in [Obj -> [Field -> Value]] /\ Len(stack) < MaxStack
      /\ op.todo \subseteq UpIndex /\ frames # <<>> /\ Len(stack) \in Nat
  BY DEF IInv, Pending, TypeOK, Op, Value
<1>2. ref' \in [Obj -> [Field -> Value]] /\ ref'[op.fresh] = NoRefs
      /\ \A p \in Obj \ {op.fresh} : ref'[p] = ref[p]
  BY <1>1, NoRefsRow
<1>3. /\ op.fresh \in objects'
      /\ objects' \subseteq Obj /\ objects \subseteq objects'
      /\ kind' \in [Obj -> Kind \cup {"free"}]
      /\ kind'[op.fresh] = "closure"
      /\ \A o \in objects : kind'[o] = kind[o]
      /\ mark' \in [Obj -> BOOLEAN]
      /\ RefsLive' /\ Shape' /\ TypedObjects' /\ Marks'
  BY <1>1, <1>2, NoRefsRow, LinksObject DEF Live, Kind
<1>4. /\ stack' \in Seq(Value) /\ Len(stack') <= MaxStack
      /\ Len(stack') = Len(stack) + 1 /\ stack'[Len(stack')] = op.fresh
      /\ \A i \in 1 .. Len(stack') : stack'[i] \in objects' \cup {Nil}
  BY <1>1, <1>3, PushesObject
<1>5. /\ frames' \in Seq(Frame) /\ Len(frames') <= MaxFrames
      /\ \A i \in 1 .. Len(frames') : frames'[i].closure \in objects'
                                   /\ kind'[frames'[i].closure] = "closure"
      /\ loc' \in [Obj -> 0 .. MaxStack]
      /\ \A u \in open' : /\ u \in objects' /\ kind'[u] = "upvalue"
                          /\ loc'[u] \in 1 .. Len(stack')
      /\ \A u, v \in open' : loc'[u] = loc'[v] => u = v
  BY <1>1, <1>3, <1>4, RootsRemain
<1>6. op' \in Op
  BY <1>1, CapturingOp DEF Value
<1>7. HeldLive' /\ Pending' /\ HeldRooted'
  <2>1. stack' # <<>> /\ Top' = op.fresh
    BY <1>1, <1>4 DEF Top
  <2>2. Nil \notin objects'
    BY <1>1, <1>3
  <2> QED BY <1>1, <1>3, <2>1, <2>2, CapturingContinues
<1> QED BY <1>1, <1>2, <1>3, <1>4, <1>5, <1>6, <1>7, LinksAndEnds

LEMMA FinishNewPreserves == IInv /\ FinishNew => IInv'
<1> SUFFICES ASSUME IInv, FinishNew PROVE IInv'
  OBVIOUS
<1> USE DEF FinishNew, Link, Ready
<1> DEFINE k == IF op.name = "OP_CLASS" THEN "class" ELSE "instance"
<1>1. /\ op.checks = 0 /\ op.fresh # Nil /\ op.fresh \in Obj /\ Nil \notin Obj
      /\ ref \in [Obj -> [Field -> Value]] /\ Len(stack) < MaxStack
      /\ Len(stack) \in Nat
  BY DEF IInv, Pending, TypeOK, Op, Value
<1>2. ref' \in [Obj -> [Field -> Value]] /\ ref'[op.fresh] = NoRefs
      /\ \A p \in Obj \ {op.fresh} : ref'[p] = ref[p]
  BY <1>1, NoRefsRow
<1>3. /\ op.fresh \in objects'
      /\ objects' \subseteq Obj /\ objects \subseteq objects'
      /\ kind' \in [Obj -> Kind \cup {"free"}]
      /\ \A o \in objects : kind'[o] = kind[o]
      /\ mark' \in [Obj -> BOOLEAN]
      /\ RefsLive' /\ Shape' /\ TypedObjects' /\ Marks'
  <2>1. k \in {"class", "instance"}
    OBVIOUS
  <2>2. kind' = [kind EXCEPT ![op.fresh] = k]
    OBVIOUS
  <2> HIDE DEF k
  <2> QED BY <1>1, <1>2, <2>1, <2>2, NoRefsRow, LinksObject DEF Live, Kind, Holds
<1>4. /\ stack' \in Seq(Value) /\ Len(stack') <= MaxStack
      /\ Len(stack') = Len(stack) + 1
      /\ \A i \in 1 .. Len(stack') : stack'[i] \in objects' \cup {Nil}
  BY <1>1, <1>3, PushesObject
<1>5. /\ frames' \in Seq(Frame) /\ Len(frames') <= MaxFrames
      /\ \A i \in 1 .. Len(frames') : frames'[i].closure \in objects'
                                   /\ kind'[frames'[i].closure] = "closure"
      /\ loc' \in [Obj -> 0 .. MaxStack]
      /\ \A u \in open' : /\ u \in objects' /\ kind'[u] = "upvalue"
                          /\ loc'[u] \in 1 .. Len(stack')
      /\ \A u, v \in open' : loc'[u] = loc'[v] => u = v
  BY <1>1, <1>3, <1>4, RootsRemain
<1> QED BY <1>1, <1>2, <1>3, <1>4, <1>5, IdleHolds, LinksAndEnds

LEMMA FinishBindMethodPreserves == IInv /\ FinishBindMethod => IInv'
<1> SUFFICES ASSUME IInv, FinishBindMethod PROVE IInv'
  OBVIOUS
<1> USE DEF FinishBindMethod, Link, Ready
<1> DEFINE row == [NoRefs EXCEPT !["receiver"] = op.val, !["method"] = op.aux]
<1>1. /\ op.checks = 0 /\ op.fresh # Nil /\ op.fresh \in Obj /\ Nil \notin Obj
      /\ ref \in [Obj -> [Field -> Value]] /\ Len(stack) \in Nat
      /\ stack \in Seq(Value) /\ Len(stack) <= MaxStack
      /\ Live(op.val) /\ Live(op.aux) /\ op.val \in Value /\ op.aux \in Value
  BY DEF IInv, HeldLive, TypeOK, Op, Value, Pending
<1>2. Len(stack) \in 1 .. Len(stack) /\ IsKind(op.aux, "closure")
  BY <1>1 DEF IInv, Pending, Temporaries
<1>3. /\ row \in [Field -> Value] /\ row["receiver"] = op.val /\ row["method"] = op.aux
      /\ \A f \in Field \ {"receiver", "method"} : row[f] = Nil
  BY <1>1, NoRefsRow
<1>4. ref' \in [Obj -> [Field -> Value]] /\ ref'[op.fresh] = row
      /\ \A p \in Obj \ {op.fresh} : ref'[p] = ref[p]
  BY <1>1, <1>3
<1> HIDE DEF row
<1>5. /\ op.fresh \in objects'
      /\ objects' \subseteq Obj /\ objects \subseteq objects'
      /\ kind' \in [Obj -> Kind \cup {"free"}]
      /\ \A o \in objects : kind'[o] = kind[o]
      /\ mark' \in [Obj -> BOOLEAN]
      /\ RefsLive' /\ Shape' /\ TypedObjects' /\ Marks'
  <2>1. Traced("bound") = {"receiver", "method"}
    BY DEF Traced
  <2>2. \A f \in Field : Live(ref'[op.fresh][f])
    BY <1>1, <1>3, <1>4 DEF Live
  <2>3. \A f \in Field \ Traced("bound") : ref'[op.fresh][f] = Nil
    BY <1>3, <1>4, <2>1
  <2> QED BY <1>1, <1>2, <1>3, <1>4, <2>2, <2>3, LinksObject DEF Kind
<1>6. /\ stack' \in Seq(Value) /\ Len(stack') = Len(stack)
      /\ \A i \in 1 .. Len(stack') : stack'[i] \in objects' \cup {Nil}
  <2>1. stack' = [stack EXCEPT ![Len(stack)] = op.fresh] /\ op.fresh \in Value
    BY <1>1 DEF Value
  <2>2. stack' \in Seq(Value) /\ Len(stack') = Len(stack)
    BY <1>1, <1>2, <2>1
  <2>3. \A i \in 1 .. Len(stack) :
          stack'[i] = IF i = Len(stack) THEN op.fresh ELSE stack[i]
    BY <1>1, <1>2, <2>1
  <2>4. \A i \in 1 .. Len(stack) : stack[i] \in objects \cup {Nil}
    BY DEF IInv, RootsLive, StackLive, Live
  <2>5. \A i \in 1 .. Len(stack) : stack'[i] \in objects' \cup {Nil}
    BY <1>5, <2>3, <2>4
  <2> QED BY <2>2, <2>5
<1>7. /\ frames' \in Seq(Frame) /\ Len(frames') <= MaxFrames
      /\ \A i \in 1 .. Len(frames') : frames'[i].closure \in objects'
                                   /\ kind'[frames'[i].closure] = "closure"
      /\ loc' \in [Obj -> 0 .. MaxStack]
      /\ \A u \in open' : /\ u \in objects' /\ kind'[u] = "upvalue"
                          /\ loc'[u] \in 1 .. Len(stack')
      /\ \A u, v \in open' : loc'[u] = loc'[v] => u = v
  <2>1. UNCHANGED <<frames, open, loc>>
    OBVIOUS
  <2> HIDE DEF FinishBindMethod
  <2>2. Len(stack) \in Nat /\ Len(stack) >= Len(stack)
    BY <1>1
  <2> QED BY <1>5, <1>6, <2>1, <2>2, RootsRemain
<1> QED BY <1>1, <1>4, <1>5, <1>6, <1>7, IdleHolds, LinksAndEnds

LEMMA FinishCapturePreserves == IInv /\ FinishCapture => IInv'
<1> SUFFICES ASSUME IInv, FinishCapture PROVE IInv'
  OBVIOUS
<1> USE DEF FinishCapture, LinkAndStore, Ready
<1>1. /\ op.checks = 0 /\ op.fresh # Nil /\ op.fresh \in Obj /\ Nil \notin Obj
      /\ ref \in [Obj -> [Field -> Value]] /\ Len(stack) \in Nat
      /\ op.fresh \notin objects /\ objects \subseteq Obj
      /\ op.slot \in 0 .. MaxStack
  BY DEF IInv, HeldLive, TypeOK, Op, Value
<1>2. /\ op.todo \subseteq UpIndex /\ op.val \in objects /\ kind[op.val] = "closure"
      /\ stack # <<>> /\ op.val = Top /\ frames # <<>>
      /\ op.slot \in 1 .. Len(stack) /\ op.field \in UpIndex
  BY <1>1 DEF IInv, Pending, HeldLive, Live, IsKind
<1>3. /\ ref' \in [Obj -> [Field -> Value]] /\ ref'[op.fresh] = NoRefs
      /\ \A p \in Obj \ {op.fresh}, f \in Field :
           ref'[p][f] = IF p = op.val /\ f = op.field THEN op.fresh ELSE ref[p][f]
  BY <1>1, <1>2, NoRefsRow DEF Value
<1>4. /\ op.fresh \in objects'
      /\ objects' \subseteq Obj /\ objects \subseteq objects'
      /\ kind' \in [Obj -> Kind \cup {"free"}]
      /\ kind'[op.fresh] = "upvalue"
      /\ \A o \in objects : kind'[o] = kind[o]
      /\ mark' \in [Obj -> BOOLEAN]
      /\ RefsLive' /\ Shape' /\ TypedObjects' /\ Marks'
  <2>1. PICK k \in Kind : k = "upvalue"
    BY DEF Kind
  <2>2. \A p \in Obj \ {op.fresh}, f \in Field :
          \/ ref'[p][f] = ref[p][f]
          \/ /\ kind[p] = "closure" /\ f \in UpIndex
             /\ k = "upvalue" /\ ref'[p][f] = op.fresh
    BY <1>2, <1>3, <2>1
  <2>3. \A f \in Field : ref'[op.fresh][f] = Nil /\ Live(ref'[op.fresh][f])
    BY <1>3, NoRefsRow DEF Live
  <2>4. /\ objects' = objects \cup {op.fresh}
        /\ kind' = [kind EXCEPT ![op.fresh] = k]
        /\ mark' = [mark EXCEPT ![op.fresh] = ~gcMark]
        /\ UNCHANGED <<gcMark, gcWorking, gray>>
    BY <2>1
  <2>5. k \notin {"closure", "bound", "instance", "class"}
    BY <2>1
  <2> HIDE DEF FinishCapture
  <2>6. /\ op.fresh \in objects'
        /\ objects' \subseteq Obj /\ objects \subseteq objects'
        /\ kind' \in [Obj -> Kind \cup {"free"}]
        /\ kind'[op.fresh] = k
        /\ \A o \in objects : kind'[o] = kind[o]
        /\ mark' \in [Obj -> BOOLEAN]
        /\ RefsLive' /\ Shape' /\ TypedObjects' /\ Marks'
    BY <1>1, <1>3, <2>2, <2>3, <2>4, <2>5, LinksObject
  <2> QED BY <2>1, <2>6
<1>5. /\ stack \in Seq(Value) /\ Len(stack) <= MaxStack
      /\ \A i \in 1 .. Len(stack) : stack[i] \in objects' \cup {Nil}
  BY <1>4 DEF IInv, TypeOK, RootsLive, StackLive, Live
<1>6. /\ frames' \in Seq(Frame) /\ Len(frames') <= MaxFrames
      /\ \A i \in 1 .. Len(frames') : frames'[i].closure \in objects'
                                   /\ kind'[frames'[i].closure] = "closure"
  BY <1>4 DEF IInv, TypeOK, RootsLive, FramesLive, UncheckedCasts, TypedRoots, IsKind
<1>7. /\ loc' \in [Obj -> 0 .. MaxStack]
      /\ \A u \in open' : /\ u \in objects' /\ kind'[u] = "upvalue"
                          /\ loc'[u] \in 1 .. Len(stack)
      /\ \A u, v \in open' : loc'[u] = loc'[v] => u = v
  <2>1. loc \in [Obj -> 0 .. MaxStack]
    BY DEF IInv, TypeOK
  <2>2. \A u \in open : u \in objects /\ kind[u] = "upvalue" /\ loc[u] \in 1 .. Len(stack)
    BY DEF IInv, RootsLive, OpenLive, UncheckedCasts, TypedRoots, IsKind, OpenUpvalues
  <2>3. loc'[op.fresh] = op.slot /\ \A u \in Obj \ {op.fresh} : loc'[u] = loc[u]
    BY <1>1, <2>1
  <2>4. /\ \A u, v \in open : loc[u] = loc[v] => u = v
        /\ \A u \in open : loc[u] # op.slot /\ u \in Obj \ {op.fresh}
    BY <1>1, <2>2 DEF IInv, Pending, OpenUpvalues
  <2>5. \A u, v \in open' : loc'[u] = loc'[v] => u = v
    BY <2>3, <2>4
  <2>6. loc' \in [Obj -> 0 .. MaxStack]
    BY <1>1, <2>1
  <2>7. \A u \in open' : u \in objects' /\ kind'[u] = "upvalue"
                         /\ loc'[u] \in 1 .. Len(stack)
    BY <1>2, <1>4, <2>2, <2>3, <2>4
  <2> QED BY <2>5, <2>6, <2>7
<1>8. op' \in Op
  BY <1>1, <1>2, CapturingOp DEF Value
<1>9. HeldLive' /\ Pending' /\ HeldRooted'
  <2>1. stack' # <<>> /\ Top' = op.val /\ frames' # <<>>
    BY <1>2 DEF Top
  <2>2. Nil \notin objects' /\ op.val \in Obj /\ op.val \in objects'
        /\ kind'[op.val] = "closure"
    BY <1>1, <1>2, <1>4
  <2> QED BY <1>2, <2>1, <2>2, CapturingContinues
<1> QED BY <1>1, <1>3, <1>4, <1>5, <1>6, <1>7, <1>8, <1>9, LinksAndEnds

LEMMA FinishInstancePreserves == IInv /\ FinishInstance => IInv'
<1> SUFFICES ASSUME IInv, FinishInstance PROVE IInv'
  OBVIOUS
<1> DEFINE row == [NoRefs EXCEPT !["klass"] = op.val]
<1>1. /\ op.checks = 0 /\ op.fresh # Nil /\ op.fresh \in Obj /\ Nil \notin Obj
      /\ ref \in [Obj -> [Field -> Value]] /\ Len(stack) \in Nat
      /\ stack \in Seq(Value) /\ Len(stack) <= MaxStack
      /\ op.val \in objects /\ kind[op.val] = "class" /\ op.val \in Value
      /\ op.slot \in 1 .. Len(stack)
      /\ \A u \in open : loc[u] < op.slot
      /\ frames # <<>>
  <2>1. op.name = "OP_CALL" /\ op.checks = 0
    BY DEF FinishInstance, Ready
  <2>2. op.slot \in 1 .. Len(stack) /\ Temporaries(Len(stack) - op.slot + 1)
    BY <2>1 DEF IInv, Pending
  <2>3. Len(stack) \in Nat /\ \A u \in open : loc[u] \in Nat
    BY DEF IInv, TypeOK
  <2>4. \A u \in open : loc[u] < op.slot
    BY <2>2, <2>3 DEF Temporaries
  <2> QED BY <2>1, <2>2, <2>4
          DEF IInv, HeldLive, Live, TypeOK, Op, Value, Pending, IsKind
<1>2. /\ row \in [Field -> Value] /\ row["klass"] = op.val
      /\ \A f \in Field \ {"klass"} : row[f] = Nil
  BY <1>1, NoRefsRow
<1>3. /\ objects' = objects \cup {op.fresh}
      /\ kind' = [kind EXCEPT ![op.fresh] = "instance"]
      /\ mark' = [mark EXCEPT ![op.fresh] = ~gcMark]
      /\ ref' = [ref EXCEPT ![op.fresh] = row]
      /\ UNCHANGED <<gcMark, gcWorking, gray>>
      /\ UNCHANGED <<open, loc, globals>>
  BY DEF FinishInstance, Link
<1>4. ref' \in [Obj -> [Field -> Value]] /\ ref'[op.fresh] = row
      /\ \A p \in Obj \ {op.fresh} : ref'[p] = ref[p]
  BY <1>1, <1>2, <1>3
<1> HIDE DEF row
<1>5. /\ op.fresh \in objects'
      /\ objects' \subseteq Obj /\ objects \subseteq objects'
      /\ kind' \in [Obj -> Kind \cup {"free"}]
      /\ \A o \in objects : kind'[o] = kind[o]
      /\ mark' \in [Obj -> BOOLEAN]
      /\ RefsLive' /\ Shape' /\ TypedObjects' /\ Marks'
  <2>1. Traced("instance") = {"klass"} \cup Name
    BY DEF Traced
  <2>2. \A f \in Field : Live(ref'[op.fresh][f])
    BY <1>1, <1>2, <1>4 DEF Live
  <2>3. \A f \in Field \ Traced("instance") : ref'[op.fresh][f] = Nil
    BY <1>2, <1>4, <2>1
  <2>4. Holds(ref'[op.fresh]["klass"], "class")
    BY <1>1, <1>2, <1>4 DEF Holds, IsKind, IInv, TypeOK
  <2> QED BY <1>1, <1>3, <1>4, <2>2, <2>3, <2>4, LinksObject DEF Kind
<1>6. /\ WithInstance \in Seq(Value) /\ Len(WithInstance) = Len(stack)
      /\ \A i \in 1 .. Len(stack) : WithInstance[i] \in objects' \cup {Nil}
  <2>1. op.fresh \in Value
    BY <1>1 DEF Value
  <2>2. WithInstance \in Seq(Value) /\ Len(WithInstance) = Len(stack)
    BY <1>1, <2>1 DEF WithInstance
  <2>3. \A i \in 1 .. Len(stack) :
          WithInstance[i] = IF i = op.slot THEN op.fresh ELSE stack[i]
    BY <1>1, <2>1 DEF WithInstance
  <2>4. \A i \in 1 .. Len(stack) : stack[i] \in objects \cup {Nil}
    BY DEF IInv, RootsLive, StackLive, Live
  <2>5. \A i \in 1 .. Len(stack) : WithInstance[i] \in objects' \cup {Nil}
    BY <1>5, <2>3, <2>4
  <2> QED BY <2>2, <2>5
<1>7. /\ Nil \notin objects'
      /\ \A i \in 1 .. Len(frames) : frames[i].closure \in objects'
                                   /\ kind'[frames[i].closure] = "closure"
      /\ loc' \in [Obj -> 0 .. MaxStack]
      /\ \A u \in open' : /\ u \in objects' /\ kind'[u] = "upvalue"
                          /\ loc'[u] \in 1 .. op.slot
      /\ \A u, v \in open' : loc'[u] = loc'[v] => u = v
  <2>0. \A u, v \in open : loc[u] = loc[v] => u = v
    BY DEF IInv, OpenUpvalues
  <2>1. \A i \in 1 .. Len(frames) : frames[i].closure \in objects
                                   /\ kind[frames[i].closure] = "closure"
    BY DEF IInv, RootsLive, FramesLive, UncheckedCasts, TypedRoots, IsKind
  <2>2. \A u \in open : /\ u \in objects /\ kind[u] = "upvalue"
                        /\ loc[u] \in 1 .. op.slot
    BY <1>1 DEF IInv, TypeOK, RootsLive, OpenLive, UncheckedCasts, TypedRoots, IsKind,
       OpenUpvalues
  <2> QED BY <1>1, <1>3, <1>5, <2>0, <2>1, <2>2 DEF IInv, TypeOK
<1>8. CASE /\ Initializer # Nil
           /\ Call(WithInstance, op.slot, Initializer)
           /\ op' = Idle
  <2>1. /\ Initializer \in objects /\ kind[Initializer] = "closure"
        /\ Initializer \in Obj
    BY <1>1, <1>8, ClassEntry DEF Initializer, IInv, TypeOK
  <2>2. /\ stack' \in Seq(Value) /\ Len(stack') <= MaxStack
        /\ Len(stack') >= op.slot
        /\ \A i \in 1 .. Len(stack') :
             stack'[i] = Nil \/ (i \in 1 .. Len(stack) /\ stack'[i] = WithInstance[i])
        /\ frames' \in Seq(Frame) /\ Len(frames') <= MaxFrames
        /\ \A i \in 1 .. Len(frames') :
             \/ frames'[i].closure = Initializer
             \/ i \in 1 .. Len(frames) /\ frames'[i] = frames[i]
    <3>1. op.slot \in 1 .. Len(WithInstance)
      BY <1>1, <1>6
    <3>2. PICK s \in Seq(Value) : s = WithInstance
      BY <1>6
    <3>3. op.slot \in 1 .. Len(s) /\ Call(s, op.slot, Initializer)
      BY <1>8, <3>1, <3>2
    <3>4. /\ stack' \in Seq(Value) /\ Len(stack') <= MaxStack
          /\ Len(stack') >= op.slot
          /\ \A i \in 1 .. Len(stack') :
               stack'[i] = Nil \/ (i \in 1 .. Len(s) /\ stack'[i] = s[i])
          /\ frames' \in Seq(Frame) /\ Len(frames') <= MaxFrames
          /\ \A i \in 1 .. Len(frames') :
               \/ frames'[i].closure = Initializer
               \/ i \in 1 .. Len(frames) /\ frames'[i] = frames[i]
      BY <2>1, <3>3, PreparesArguments
    <3> QED BY <1>6, <3>2, <3>4
  <2>3. \A i \in 1 .. Len(stack') : stack'[i] \in objects' \cup {Nil}
    BY <1>6, <2>2
  <2>4. \A i \in 1 .. Len(frames') : frames'[i].closure \in objects'
                                    /\ kind'[frames'[i].closure] = "closure"
    BY <1>5, <1>7, <2>1, <2>2
  <2>5. \A u \in open' : loc'[u] \in 1 .. Len(stack')
    BY <1>1, <1>7, <2>2
  <2> QED BY <1>1, <1>3, <1>4, <1>5, <1>7, <1>8, <2>2, <2>3, <2>4, <2>5,
             IdleHolds, LinksAndEnds
<1>9. CASE /\ stack' = WithInstance
           /\ op' \in {Idle, [Idle EXCEPT !.name = "error"]}
           /\ UNCHANGED frames
  <2>1. /\ stack' \in Seq(Value) /\ Len(stack') <= MaxStack
        /\ Len(stack') = Len(stack)
        /\ \A i \in 1 .. Len(stack') : stack'[i] \in objects' \cup {Nil}
    BY <1>1, <1>6, <1>9
  <2>2. /\ frames' \in Seq(Frame) /\ Len(frames') <= MaxFrames
        /\ \A i \in 1 .. Len(frames') : frames'[i].closure \in objects'
                                     /\ kind'[frames'[i].closure] = "closure"
    BY <1>7, <1>9 DEF IInv, TypeOK
  <2>3. \A u \in open' : loc'[u] \in 1 .. Len(stack')
    BY <1>1, <1>7, <2>1
  <2>4. op' \in Op /\ HeldLive' /\ Pending' /\ HeldRooted'
    <3>1. CASE op' = Idle
      BY <1>7, <3>1, IdleHolds
    <3>2. CASE op' = [Idle EXCEPT !.name = "error"]
      <4>1. op' = [name |-> "error", fresh |-> Nil, val |-> Nil, aux |-> Nil,
                   field |-> InitName, todo |-> {}, slot |-> 0, checks |-> 0]
        BY <3>2 DEF Idle
      <4>2. op' \in Op
        BY <4>1 DEF Op, Field, Value
      <4> QED BY <1>1, <1>7, <1>9, <4>1, <4>2
              DEF HeldLive, Live, Pending, HeldRooted
    <3> QED BY <1>9, <3>1, <3>2
  <2> QED BY <1>1, <1>3, <1>4, <1>5, <1>7, <2>1, <2>2, <2>3, <2>4, LinksAndEnds
<1> QED BY <1>8, <1>9 DEF FinishInstance

LEMMA FinishingPreserves == IInv /\ Finishing => IInv'
BY FinishInterpretPreserves, FinishClosurePreserves, CaptureEnclosingPreserves,
   CaptureOpenPreserves, FinishCapturePreserves, FinishNewPreserves,
   FinishInstancePreserves, FinishBindMethodPreserves, FinishSetFieldPreserves,
   FinishDefineGlobalPreserves, FinishMethodPreserves, InheritMethodPreserves,
   FinishInheritPreserves DEF Finishing

-----------------------------------------------------------------------------
(* The collector. *)

LEMMA RootsAreObjects == IInv => Roots \subseteq objects
BY DEF IInv, TypeOK, RootsLive, StackLive, FramesLive, OpenLive, GlobalsLive, Live, Roots

LEMMA ChildrenAreObjects == IInv => \A o \in objects : Children(o) \subseteq objects
<1> SUFFICES ASSUME IInv, NEW o \in objects, NEW f \in Traced(kind[o])
             PROVE  Live(ref[o][f])
  BY DEF Children, Live
<1>1. f \in Field
  BY DEF Traced, Field, Pointer
<1> QED BY <1>1 DEF IInv, RefsLive

(* One allocation of the instruction has tested the threshold. *)
LEMMA CountsCheck ==
  ASSUME IInv, op.checks > 0, op' = [op EXCEPT !.checks = @ - 1]
  PROVE  /\ op' \in Op /\ op'.checks = op.checks - 1
         /\ op'.name = op.name /\ op'.fresh = op.fresh /\ op'.val = op.val
         /\ op'.aux = op.aux /\ op'.field = op.field /\ op'.todo = op.todo
         /\ op'.slot = op.slot
<1>1. op \in Op /\ op.checks - 1 \in 0 .. 2
  BY DEF IInv, TypeOK, Op
<1>2. op' = [name |-> op.name, fresh |-> op.fresh, val |-> op.val, aux |-> op.aux,
             field |-> op.field, todo |-> op.todo, slot |-> op.slot,
             checks |-> op.checks - 1]
  BY <1>1 DEF Op
<1>3. op' \in Op
  BY <1>1, <1>2 DEF Op
<1> QED BY <1>2, <1>3

(* An allocation leaves the rest of the instruction pending. *)
LEMMA PendingRemains ==
  ASSUME IInv, op.checks > 0, op' = [op EXCEPT !.checks = @ - 1], UNCHANGED mutator,
         \A v \in {op.val, op.aux} \ {Nil} : kind'[v] = kind[v]
  PROVE  Pending'
<1>1. /\ op'.checks = op.checks - 1 /\ op.checks \in 0 .. 2
      /\ op'.name = op.name /\ op'.fresh = op.fresh /\ op'.val = op.val
      /\ op'.aux = op.aux /\ op'.field = op.field /\ op'.todo = op.todo
      /\ op'.slot = op.slot
  BY CountsCheck DEF IInv, TypeOK, Op
<1>3. \A k \in {"class", "closure", "instance"} :
        /\ IsKind(op.val, k) => op'.val \in Obj /\ kind'[op'.val] = k
        /\ IsKind(op.aux, k) => op'.aux \in Obj /\ kind'[op'.aux] = k
  BY <1>1 DEF IsKind
<1>4. Top' = Top /\ Under' = Under
  BY DEF Top, Under, mutator
<1>5. Temporaries(1)' = Temporaries(1) /\ Temporaries(2)' = Temporaries(2)
      /\ Temporaries(Len(stack) - op.slot + 1)' = Temporaries(Len(stack) - op.slot + 1)
  BY <1>1 DEF Temporaries, mutator
<1>6. stack' = stack /\ frames' = frames /\ open' = open /\ loc' = loc
  BY DEF mutator
<1>7. Pending /\ op.name \notin {"run", "OP_INVOKE", "error"}
  BY DEF IInv, Pending
<1> QED BY <1>1, <1>3, <1>4, <1>5, <1>6, <1>7 DEF Pending, IsKind

LEMMA NoCollectionPreserves == IInv /\ NoCollection => IInv'
<1> SUFFICES ASSUME IInv, NoCollection PROVE IInv'
  OBVIOUS
<1> USE DEF NoCollection
<1>1. /\ op' \in Op /\ op'.checks = op.checks - 1 /\ op.checks \in 0 .. 2
      /\ op'.name = op.name /\ op'.fresh = op.fresh /\ op'.val = op.val
      /\ op'.aux = op.aux
  BY CountsCheck DEF IInv, TypeOK, Op
<1>2. TypeOK'
  BY <1>1 DEF IInv, TypeOK, marking, mutator
<1>3. RootsLive' /\ RefsLive' /\ Shape' /\ UncheckedCasts' /\ OpenUpvalues'
  BY DEF IInv, mutator, RootsLive, StackLive, FramesLive, OpenLive, GlobalsLive,
     RefsLive, Live, Shape, UncheckedCasts, TypedRoots, TypedObjects, Holds,
     IsKind, OpenUpvalues
<1>4. HeldLive'
  BY <1>1 DEF IInv, HeldLive, Live
<1>5. Marks'
  BY DEF IInv, Marks, Marked, marking
<1>6. Pending'
  BY PendingRemains
<1>7. HeldRooted'
  <2>1. Roots' = Roots /\ Step(Step(Step(Roots)))' = Step(Step(Step(Roots)))
    BY DEF mutator, Roots, Step, Children, Traced
  <2> QED BY <1>1, <2>1 DEF IInv, HeldRooted, Binding
<1> QED BY <1>2, <1>3, <1>4, <1>5, <1>6, <1>7 DEF IInv

(* Marking changes only marks. *)
LEMMA MarkingPreserves ==
  ASSUME IInv, UNCHANGED <<objects, kind, ref, gcMark, mutator, op>>,
         mark' \in [Obj -> BOOLEAN], gray' \subseteq Obj, gcWorking' = TRUE, Marks'
  PROVE  IInv'
<1>1. TypeOK'
  BY DEF IInv, TypeOK, mutator
<1>2. RootsLive' /\ RefsLive' /\ Shape' /\ UncheckedCasts' /\ OpenUpvalues'
  BY DEF IInv, mutator, RootsLive, StackLive, FramesLive, OpenLive, GlobalsLive,
     RefsLive, Live, Shape, UncheckedCasts, TypedRoots, TypedObjects, Holds,
     IsKind, OpenUpvalues
<1>3. HeldLive' /\ Pending'
  BY DEF IInv, HeldLive, Live, Pending, Temporaries, IsKind, mutator, Top, Under
<1>4. HeldRooted'
  <2>1. Roots' = Roots /\ Step(Step(Step(Roots)))' = Step(Step(Step(Roots)))
    BY DEF mutator, Roots, Step, Children, Traced
  <2> QED BY <2>1 DEF IInv, HeldRooted, Binding
<1> QED BY <1>1, <1>2, <1>3, <1>4 DEF IInv

LEMMA MarkRootsPreserves == IInv /\ MarkRoots => IInv'
<1> SUFFICES ASSUME IInv, MarkRoots PROVE IInv'
  OBVIOUS
<1> USE DEF MarkRoots
<1>1. Roots \subseteq objects /\ objects \subseteq Obj
  BY RootsAreObjects DEF IInv, TypeOK
<1>2. mark \in [Obj -> BOOLEAN] /\ gcMark \in BOOLEAN
  BY DEF IInv, TypeOK
<1>3. mark' \in [Obj -> BOOLEAN]
  BY <1>2 DEF MarkObjects
<1>4. gray' \subseteq Obj /\ gray' = Roots
  BY <1>1 DEF IInv, Marks, Marked, Unmarked
<1>5. Marks'
  <2>1. Roots' = Roots
    BY DEF Roots, mutator
  <2>2. \A o \in objects : mark'[o] = gcMark <=> o \in Roots
    BY <1>1, <1>2 DEF MarkObjects, IInv, Marks, Marked
  <2>3. Marked' = Roots
    BY <1>1, <2>2 DEF Marked
  <2> QED BY <1>4, <2>1, <2>3 DEF Marks
<1> QED BY <1>3, <1>4, <1>5, MarkingPreserves

LEMMA BlackenObjectPreserves == IInv /\ BlackenObject => IInv'
<1> SUFFICES ASSUME IInv, BlackenObject PROVE IInv'
  OBVIOUS
<1> USE DEF BlackenObject
<1>0. PICK o \in gray :
        /\ gray' = (gray \ {o}) \cup Unmarked(Children(o))
        /\ mark' = MarkObjects(Children(o))
  OBVIOUS
<1>1. /\ Roots \subseteq Marked /\ gray \subseteq Marked /\ op.checks > 0
      /\ \A p \in Marked \ gray : Children(p) \subseteq Marked
  BY DEF IInv, Marks
<1>2. o \in objects /\ o \in Marked /\ Children(o) \subseteq objects /\ objects \subseteq Obj
  BY <1>0, <1>1, ChildrenAreObjects DEF Marked, IInv, TypeOK
<1>3. mark \in [Obj -> BOOLEAN] /\ gcMark \in BOOLEAN /\ gray \subseteq Obj
  BY DEF IInv, TypeOK
<1>4. mark' \in [Obj -> BOOLEAN] /\ gray' \subseteq Obj
  BY <1>0, <1>2, <1>3 DEF MarkObjects, Unmarked
<1>5. Marked' = Marked \cup Children(o)
  <2>1. \A p \in objects : mark'[p] = gcMark <=> p \in Children(o) \/ mark[p] = gcMark
    BY <1>0, <1>2, <1>3 DEF MarkObjects
  <2> QED BY <1>2, <2>1 DEF Marked
<1>6. Marks'
  <2>1. Roots' = Roots /\ \A p : Children(p)' = Children(p)
    BY DEF Roots, mutator, Children, Traced
  <2>2. gray' \subseteq Marked'
    BY <1>0, <1>1, <1>5 DEF Unmarked
  <2>3. \A p \in Children(o) : p \in Marked \/ p \in gray'
    BY <1>0, <1>2 DEF Unmarked, Marked
  <2>4. \A p \in Marked' \ gray' : Children(p) \subseteq Marked'
    BY <1>0, <1>1, <1>5, <2>3
  <2> QED BY <1>1, <1>5, <2>1, <2>2, <2>4 DEF Marks
<1> QED BY <1>4, <1>6, MarkingPreserves

LEMMA SweepPreserves == IInv /\ Sweep => IInv'
<1> SUFFICES ASSUME IInv, Sweep PROVE IInv'
  OBVIOUS
<1> USE DEF Sweep
<1>1. /\ Survivors = Marked /\ Marked \subseteq objects /\ objects \subseteq Obj
      /\ Roots \subseteq Marked /\ op.checks > 0
      /\ \A o \in Marked : Children(o) \subseteq Marked
  BY DEF IInv, TypeOK, Marks, Survivors, Marked
<1>2. \A S : S \subseteq Marked => Step(S) \subseteq Marked
  BY <1>1 DEF Step
<1>3. op.val \in Marked \cup {Nil} /\ op.aux \in Marked \cup {Nil}
  BY <1>1, <1>2 DEF IInv, HeldRooted
<1>4. /\ op' \in Op /\ op'.checks = op.checks - 1 /\ op.checks \in 0 .. 2
      /\ op'.name = op.name /\ op'.fresh = op.fresh /\ op'.val = op.val
      /\ op'.aux = op.aux
  BY <1>1, CountsCheck DEF IInv, TypeOK, Op
<1>5. /\ objects' = Marked
      /\ \A o \in Marked : kind'[o] = kind[o] /\ ref'[o] = ref[o]
      /\ \A o \in Obj \ Marked : kind'[o] = "free" /\ ref'[o] = NoRefs
  BY <1>1
<1>6. TypeOK'
  <2>1. objects' \subseteq Obj /\ gcMark' \in BOOLEAN /\ gcWorking' \in BOOLEAN
    BY <1>1, <1>5
  <2>2. kind' \in [Obj -> Kind \cup {"free"}] /\ ref' \in [Obj -> [Field -> Value]]
        /\ mark' \in [Obj -> BOOLEAN]
    BY NoRefsRow DEF IInv, TypeOK
  <2> QED BY <1>4, <2>1, <2>2 DEF IInv, TypeOK, mutator
<1>7. RootsLive'
  BY <1>1, <1>5, RootsContain DEF mutator, RootsLive, StackLive, FramesLive,
     OpenLive, GlobalsLive, Live
<1>8. RefsLive'
  <2>1. \A o \in Marked, f \in Field : ref[o][f] \in Marked \cup {Nil}
    <3> SUFFICES ASSUME NEW o \in Marked, NEW f \in Field
                 PROVE  ref[o][f] \in Marked \cup {Nil}
      OBVIOUS
    <3>1. CASE f \in Traced(kind[o])
      BY <1>1, <3>1 DEF Children
    <3>2. CASE f \notin Traced(kind[o])
      BY <1>1, <3>2 DEF IInv, Shape
    <3> QED BY <3>1, <3>2
  <2> QED BY <1>5, <2>1 DEF RefsLive, Live
<1>9. Shape'
  <2>1. \A o \in Obj : o \in objects' <=> kind'[o] # "free"
    BY <1>1, <1>5 DEF IInv, Shape
  <2>2. \A o \in Obj : \A f \in Field \ Traced(kind'[o]) : ref'[o][f] = Nil
    <3> SUFFICES ASSUME NEW o \in Obj, NEW f \in Field \ Traced(kind'[o])
                 PROVE  ref'[o][f] = Nil
      OBVIOUS
    <3>1. CASE o \in Marked
      BY <1>5, <3>1 DEF IInv, Shape
    <3>2. CASE o \notin Marked
      BY <1>5, <3>2, NoRefsRow
    <3> QED BY <3>1, <3>2
  <2> QED BY <2>1, <2>2 DEF Shape
<1>10. UncheckedCasts'
  <2>1. \A v \in Marked : kind'[v] = kind[v]
    BY <1>5
  <2>2. TypedRoots'
    BY <1>1, <2>1, RootsContain
       DEF IInv, UncheckedCasts, TypedRoots, IsKind, mutator
  <2>3. \A o \in objects', f \in Field : ref'[o][f] \in Marked \cup {Nil}
    BY <1>5, <1>8 DEF RefsLive, Live
  <2>4. Name \cup UpIndex \cup {"method", "klass", "initializer"} \subseteq Field
    BY NoRefsRow
  <2>5. \A o \in Marked :
          /\ kind[o] = "closure" => \A i \in UpIndex : Holds(ref[o][i], "upvalue")
          /\ kind[o] = "bound" => IsKind(ref[o]["method"], "closure")
          /\ kind[o] = "instance" => Holds(ref[o]["klass"], "class")
          /\ kind[o] = "class" =>
               \A n \in Name \cup {"initializer"} : Holds(ref[o][n], "closure")
    BY <1>1 DEF IInv, UncheckedCasts, TypedObjects
  <2>6. TypedObjects'
    <3>1. \A v \in Marked \cup {Nil} : \A k :
            /\ Holds(v, k) => v = Nil \/ (v \in Obj /\ kind'[v] = k)
            /\ IsKind(v, k) => v \in Obj /\ kind'[v] = k
      BY <2>1 DEF Holds, IsKind
    <3>2. \A o \in Marked : kind'[o] = kind[o] /\ ref'[o] = ref[o]
      BY <1>5
    <3>3. \A o \in Marked :
            /\ kind'[o] = "closure" => \A i \in UpIndex :
                 ref'[o][i] = Nil \/ (ref'[o][i] \in Obj /\ kind'[ref'[o][i]] = "upvalue")
            /\ kind'[o] = "bound" =>
                 ref'[o]["method"] \in Obj /\ kind'[ref'[o]["method"]] = "closure"
            /\ kind'[o] = "instance" =>
                 \/ ref'[o]["klass"] = Nil
                 \/ ref'[o]["klass"] \in Obj /\ kind'[ref'[o]["klass"]] = "class"
            /\ kind'[o] = "class" => \A n \in Name \cup {"initializer"} :
                 ref'[o][n] = Nil \/ (ref'[o][n] \in Obj /\ kind'[ref'[o][n]] = "closure")
      <4>1. \A o \in Marked, f \in Field : ref[o][f] \in Marked \cup {Nil}
        BY <1>5, <2>3
      <4>2. ASSUME NEW o \in Marked, kind[o] = "closure", NEW i \in UpIndex
            PROVE  ref[o][i] = Nil \/ (ref[o][i] \in Obj /\ kind'[ref[o][i]] = "upvalue")
        BY <2>4, <2>5, <3>1, <4>1, <4>2
      <4>3. ASSUME NEW o \in Marked, kind[o] = "bound"
            PROVE  ref[o]["method"] \in Obj /\ kind'[ref[o]["method"]] = "closure"
        BY <2>4, <2>5, <3>1, <4>1, <4>3
      <4>4. ASSUME NEW o \in Marked, kind[o] = "instance"
            PROVE  \/ ref[o]["klass"] = Nil
                   \/ ref[o]["klass"] \in Obj /\ kind'[ref[o]["klass"]] = "class"
        BY <2>4, <2>5, <3>1, <4>1, <4>4
      <4>5. ASSUME NEW o \in Marked, kind[o] = "class",
                   NEW n \in Name \cup {"initializer"}
            PROVE  ref[o][n] = Nil \/ (ref[o][n] \in Obj /\ kind'[ref[o][n]] = "closure")
        BY <2>4, <2>5, <3>1, <4>1, <4>5
      <4> QED BY <3>2, <4>2, <4>3, <4>4, <4>5
    <3> QED BY <1>5, <3>3 DEF TypedObjects, Holds, IsKind
  <2> QED BY <2>2, <2>6 DEF UncheckedCasts
<1>11. Marks'
  <2>1. \A o \in Marked : mark'[o] = gcMark /\ gcMark' # gcMark
    BY <1>1 DEF IInv, TypeOK, Marked
  <2>2. Marked' = {}
    BY <1>5, <2>1 DEF Marked
  <2> QED BY <2>2 DEF Marks
<1>12. OpenUpvalues'
  BY DEF IInv, OpenUpvalues, mutator
<1>13. HeldLive'
  BY <1>1, <1>3, <1>4, <1>5 DEF IInv, HeldLive, Live
<1>14. Pending'
  <2>1. \A v \in {op.val, op.aux} \ {Nil} : kind'[v] = kind[v]
    BY <1>3, <1>5
  <2> QED BY <1>1, <2>1, PendingRemains
<1>15. HeldRooted'
  <2>1. Roots' = Roots
    BY DEF Roots, mutator
  <2>2. Binding => op.checks <= 1
    BY DEF Binding, IInv, Pending
  <2> QED BY <1>4, <2>1, <2>2 DEF IInv, HeldRooted, Binding
<1> QED BY <1>6, <1>7, <1>8, <1>9, <1>10, <1>11, <1>12, <1>13, <1>14, <1>15 DEF IInv

LEMMA CollectorPreserves == IInv /\ Collector => IInv'
BY NoCollectionPreserves, MarkRootsPreserves, BlackenObjectPreserves,
   SweepPreserves DEF Collector

-----------------------------------------------------------------------------
(* The invariant holds in every state. *)

LEMMA InitEstablishes == Init => IInv
<1> SUFFICES ASSUME Init PROVE IInv
  OBVIOUS
<1> USE DEF Init
<1>1. stack \in Seq(Value) /\ Len(stack) = 0 /\ frames \in Seq(Frame) /\ Len(frames) = 0
  OBVIOUS
<1>2. op.name = "run" /\ op.checks = 0 /\ op.fresh = Nil /\ op.val = Nil /\ op.aux = Nil
  BY DEF Idle
<1>3. TypeOK
  <2>1. globals \in [Global -> Value] /\ loc \in [Obj -> 0 .. MaxStack]
        /\ ref \in [Obj -> [Field -> Value]] /\ mark \in [Obj -> BOOLEAN]
    BY NoRefsRow DEF Value
  <2>2. kind \in [Obj -> Kind \cup {"free"}] /\ Len(stack) <= MaxStack
        /\ Len(frames) <= MaxFrames
    BY <1>1
  <2>3. /\ objects \subseteq Obj /\ gray \subseteq Obj /\ open \subseteq Obj
        /\ gcMark \in BOOLEAN /\ gcWorking \in BOOLEAN /\ op \in Op
    BY IdleOp
  <2> QED BY <1>1, <2>1, <2>2, <2>3 DEF TypeOK
<1>4. RootsLive /\ HeldLive /\ RefsLive /\ UncheckedCasts /\ OpenUpvalues
  BY <1>1, <1>2 DEF RootsLive, StackLive, FramesLive, OpenLive, GlobalsLive, Live,
     HeldLive, RefsLive, UncheckedCasts, TypedRoots, TypedObjects, OpenUpvalues
<1>5. Shape
  BY NoRefsRow DEF Shape
<1>6. Marks
  BY DEF Marks, Marked
<1>7. Pending /\ HeldRooted
  BY <1>2 DEF Pending, HeldRooted
<1> QED BY <1>3, <1>4, <1>5, <1>6, <1>7 DEF IInv

LEMMA StutteringPreserves == IInv /\ UNCHANGED vars => IInv'
<1> SUFFICES ASSUME IInv, UNCHANGED vars PROVE IInv'
  OBVIOUS
<1> USE DEF vars, mutator, marking
<1>1. TypeOK'
  BY DEF IInv, TypeOK
<1>2. RootsLive' /\ HeldLive' /\ RefsLive' /\ Shape' /\ UncheckedCasts' /\ OpenUpvalues'
  BY DEF IInv, RootsLive, StackLive, FramesLive, OpenLive, GlobalsLive, HeldLive,
     RefsLive, Live, Shape, UncheckedCasts, TypedRoots, TypedObjects, Holds,
     IsKind, OpenUpvalues
<1>3. Roots' = Roots /\ Step(Step(Step(Roots)))' = Step(Step(Step(Roots)))
      /\ \A o : Children(o)' = Children(o)
  BY DEF Roots, Step, Children, Traced
<1>4. Marks' /\ HeldRooted'
  BY <1>3 DEF IInv, Marks, Marked, HeldRooted, Binding
<1>5. Pending'
  BY DEF IInv, Pending, Temporaries, IsKind, Top, Under
<1> QED BY <1>1, <1>2, <1>4, <1>5 DEF IInv

LEMMA NextPreserves == IInv /\ [Next]_vars => IInv'
BY MovesPreserve, CallsPreserve, StartingPreserves, FinishingPreserves,
   CollectorPreserves, StutteringPreserves DEF Next

(* The strengthened invariant holds in every state of every execution.     *)
THEOREM Invariant == Spec => []IInv
BY InitEstablishes, NextPreserves, PTL DEF Spec

(* The virtual machine's state keeps its types; in particular the stack    *)
(* and the frames never exceed their limits.                               *)
THEOREM TypeCorrect == Spec => []TypeOK
<1>1. IInv => TypeOK
  BY DEF IInv
<1> QED BY <1>1, Invariant, PTL

(* No object in use is freed, whatever the program does, wherever the      *)
(* collector runs: vm.c, object.c and table.c may hold the C locals they   *)
(* hold across every allocation they make.                                 *)
THEOREM NothingDangles == Spec => []NoDangling
<1>1. IInv => NoDangling
  BY RootsAreObjects DEF IInv, NoDangling, RefsLive, HeldLive, Live
<1> QED BY <1>1, Invariant, PTL

(* Every cast without a check finds an object of the expected type.        *)
THEOREM CastsAreRight == Spec => []UncheckedCasts
<1>1. IInv => UncheckedCasts
  BY DEF IInv
<1> QED BY <1>1, Invariant, PTL

(* Open upvalues are distinct slots of the live stack.                     *)
THEOREM UpvaluesAreDistinct == Spec => []OpenUpvalues
<1>1. IInv => OpenUpvalues
  BY DEF IInv
<1> QED BY <1>1, Invariant, PTL

-----------------------------------------------------------------------------
(* A collection frees the garbage and nothing else. *)

(* No instruction goes on while the collector works. *)
LEMMA InstructionsWait ==
  ASSUME IInv, gcWorking, Next
  PROVE  BlackenObject \/ Sweep
<1>1. op.checks > 0
  BY DEF IInv, Marks
<1>2. op # Idle /\ op.name \notin {"OP_INVOKE", "error"}
  BY <1>1 DEF Idle, IInv, Pending
<1>3. ~Running /\ (\A code : ~Executes(code) /\ ~Ready(code)) /\ (\A p : ~Callee(p))
  BY <1>2 DEF Running, Executes, Ready, Callee
<1>4. ~Moves
  BY <1>3 DEF Moves, PushNil, GetLocal, SetLocal, PopValue, CloseUpvalue, GetGlobal,
     SetGlobal, GetUpvalue, SetUpvalue, GetField
<1>5. ~Calls
  BY <1>2, <1>3 DEF Calls, CallClosure, CallBoundMethod, CallNative, InvokeField,
     InvokeMethod, SuperInvoke, Return, RuntimeError
<1>6. ~Starting
  BY <1>2, <1>3 DEF Starting, StartInterpret, StartClosure, StartCapture, StartNew,
     StartInstance, StartBindMethod, StartGetSuper, StartSetField,
     StartDefineGlobal, StartMethod, StartInherit
<1>7. ~Finishing
  BY <1>3 DEF Finishing, FinishInterpret, FinishClosure, CaptureEnclosing,
     CaptureOpen, FinishCapture, FinishNew, FinishInstance, FinishBindMethod,
     FinishSetField, FinishDefineGlobal, FinishMethod, InheritMethod, FinishInherit
<1> QED BY <1>4, <1>5, <1>6, <1>7 DEF Next, Collector, NoCollection, MarkRoots

(* The reachable objects are the least closed set. *)
LEMMA ReachableIsClosed ==
  ASSUME IInv
  PROVE  /\ Roots \subseteq Reachable
         /\ \A o \in Reachable : Children(o) \subseteq Reachable
BY RootsAreObjects, ChildrenAreObjects DEF Reachable, ClosedUnderReferences

(* What is reachable depends on the objects and what they refer to only. *)
LEMMA MarkingReaches ==
  ASSUME IInv, UNCHANGED <<objects, kind, ref, mutator>>
  PROVE  Reachable' = Reachable
<1>1. Roots' = Roots /\ \A o : Children(o)' = Children(o)
  BY DEF Roots, mutator, Children, Traced
<1> QED BY <1>1 DEF Reachable, ClosedUnderReferences

(* Marking follows references from what was marked. *)
LEMMA MarksReachedPreserved ==
  ASSUME IInv, MarksReached, [Next]_vars
  PROVE  MarksReached'
<1>1. objects \subseteq Obj /\ mark \in [Obj -> BOOLEAN] /\ gcMark \in BOOLEAN
  BY DEF IInv, TypeOK
<1>2. CASE gcWorking /\ BlackenObject
  <2>1. PICK o \in gray : mark' = MarkObjects(Children(o))
    BY <1>2 DEF BlackenObject
  <2>2. o \in Reachable
    BY <1>2 DEF IInv, Marks, MarksReached
  <2>3. Reachable' = Reachable
    BY <1>2, MarkingReaches DEF BlackenObject
  <2>4. Marked' \subseteq Marked \cup Children(o)
    BY <1>1, <1>2, <2>1 DEF BlackenObject, Marked, MarkObjects
  <2> QED BY <1>2, <2>2, <2>3, <2>4, ReachableIsClosed DEF MarksReached
<1>3. CASE Sweep
  BY <1>3 DEF Sweep, MarksReached
<1>4. CASE MarkRoots
  <2>1. Reachable' = Reachable
    BY <1>4, MarkingReaches DEF MarkRoots
  <2>2. Marked' \subseteq Roots
    BY <1>1, <1>4 DEF MarkRoots, IInv, Marks, Marked, MarkObjects
  <2> QED BY <2>1, <2>2, ReachableIsClosed DEF MarksReached
<1>5. CASE UNCHANGED vars
  <2>1. Reachable' = Reachable
    BY <1>5, MarkingReaches DEF vars
  <2> QED BY <1>5, <2>1 DEF MarksReached, Marked, vars, marking
<1>6. CASE Next /\ ~gcWorking /\ ~MarkRoots
  <2>1. ~gcWorking'
    BY <1>6 DEF Next, Moves, PushNil, GetLocal, SetLocal, PopValue, CloseUpvalue, GetGlobal,
     SetGlobal, GetUpvalue, SetUpvalue, GetField, Calls, CallClosure, CallBoundMethod, CallNative, InvokeField,
     InvokeMethod, SuperInvoke, Return, RuntimeError, Starting, StartInterpret, StartClosure, StartCapture, StartNew,
     StartInstance, StartBindMethod, StartGetSuper, StartSetField,
     StartDefineGlobal, StartMethod, StartInherit, Finishing, FinishInterpret, FinishClosure, CaptureEnclosing,
     CaptureOpen, FinishCapture, FinishNew, FinishInstance, FinishBindMethod,
     FinishSetField, FinishDefineGlobal, FinishMethod, InheritMethod, FinishInherit,
     Collector, NoCollection, Sweep, BlackenObject, Mutates, Link, LinkAndStore, marking, Starts, StartsTable
  <2> QED BY <2>1 DEF MarksReached
<1> QED BY <1>2, <1>3, <1>4, <1>5, <1>6, InstructionsWait

(* With no gray object left the marked objects are a closed set. *)
LEMMA SweepIsExact ==
  ASSUME IInv, MarksReached, [Next]_vars
  PROVE  FreesGarbage
<1> SUFFICES ASSUME gcWorking, ~gcWorking' PROVE objects' = Reachable
  BY DEF FreesGarbage
<1>1. Sweep
  BY InstructionsWait DEF BlackenObject, vars, marking
<1>2. objects' = Marked /\ Marked \subseteq objects
  BY <1>1 DEF Sweep, Survivors, Marked
<1>3. ClosedUnderReferences(Marked)
  BY <1>1 DEF Sweep, IInv, Marks, ClosedUnderReferences
<1> QED BY <1>2, <1>3 DEF MarksReached, Reachable

(* What a collection leaves in vm.objects is what the roots reach, and all *)
(* of it: nothing in use is freed, and no garbage survives, in cycles or   *)
(* not (markRoots, traceReferences, sweep).                                *)
THEOREM CollectionIsExact == Spec => CollectsExactly
<1>1. Init => MarksReached
  BY DEF Init, MarksReached
<1> QED BY <1>1, Invariant, MarksReachedPreserved, SweepIsExact, PTL
        DEF Spec, CollectsExactly

-----------------------------------------------------------------------------
(* The initializer cached by a class. *)

LEMMA InitNameIsAField ==
  InitName \in Field /\ InitName \notin Pointer /\ "initializer" \in Field
    /\ "initializer" # InitName
<1>1. InitName \in Name /\ "initializer" \in Pointer /\ Name \cap Pointer = {}
  BY DEF Pointer
<1> QED BY <1>1 DEF Field

(* A step outside OP_INHERIT keeps the caches when it leaves the row of    *)
(* every class alone, or makes its two entries equal.                      *)
LEMMA OtherClassesKept ==
  ASSUME CacheInv, op.name # "OP_INHERIT", op'.name # "OP_INHERIT",
         \A o \in objects' : kind'[o] = "class" =>
           \/ o \in objects /\ kind[o] = "class" /\ ref'[o] = ref[o]
           \/ ref'[o]["initializer"] = ref'[o][InitName]
  PROVE  CacheInv'
<1>1. InitializerCache'
  BY DEF CacheInv, InitializerCache
<1>2. Inheriting'
  BY DEF Inheriting
<1> QED BY <1>1, <1>2 DEF CacheInv

(* Steps that store in no object. *)
LEMMA NothingStored ==
  ASSUME CacheInv, op.name # "OP_INHERIT", op'.name # "OP_INHERIT",
         UNCHANGED <<objects, kind, ref>>
  PROVE  CacheInv'
BY OtherClassesKept

(* Steps that store in objects that are no classes. *)
LEMMA StoredElsewhere ==
  ASSUME IInv, CacheInv, op.name # "OP_INHERIT", op'.name # "OP_INHERIT",
         UNCHANGED <<objects, kind>>,
         \A o \in objects : kind[o] = "class" => ref'[o] = ref[o]
  PROVE  CacheInv'
BY OtherClassesKept

(* closeUpvalues stores in upvalues only. *)
LEMMA ClosingKeeps ==
  ASSUME IInv, NEW last, CloseUpvalues(last)
  PROVE  \A o \in objects : kind[o] = "class" => ref'[o] = ref[o]
<1>1. objects \subseteq Obj /\ open \subseteq objects
  BY DEF IInv, TypeOK, RootsLive, OpenLive
<1>2. \A o \in Closing(last) : kind[o] = "upvalue"
  BY DEF IInv, UncheckedCasts, TypedRoots, IsKind, Closing
<1>3. \A o \in objects \ Closing(last) : ref'[o] = ref[o]
  BY <1>1 DEF CloseUpvalues, Closed
<1> QED BY <1>2, <1>3

LEMMA MovesKeepCaches == IInv /\ CacheInv /\ Moves => CacheInv'
<1> SUFFICES ASSUME IInv, CacheInv, Moves PROVE CacheInv'
  OBVIOUS
<1> USE DEF Executes, Running, Mutates
<1>0. op = Idle /\ UNCHANGED <<op, objects, kind>>
  BY DEF Moves, PushNil, GetLocal, SetLocal, PopValue, CloseUpvalue, GetGlobal,
     SetGlobal, GetUpvalue, SetUpvalue, GetField
<1>1. op.name # "OP_INHERIT" /\ op'.name # "OP_INHERIT"
  BY <1>0 DEF Idle
<1>2. CASE CloseUpvalue
  BY <1>0, <1>1, <1>2, ClosingKeeps, StoredElsewhere DEF CloseUpvalue
<1>3. CASE SetUpvalue
  <2>1. PICK i \in UpIndex :
          /\ HasUpvalue(i)
          /\ UNCHANGED ref \/ ref' = [ref EXCEPT ![Upvalue(i)]["closed"] = Top]
    BY <1>3 DEF SetUpvalue
  <2>2. kind[Upvalue(i)] # "class"
    BY <1>3, <2>1, UpvalueIsLive DEF SetUpvalue
  <2>3. \A o \in objects \ {Upvalue(i)} : ref'[o] = ref[o]
    BY <2>1 DEF IInv, TypeOK
  <2> QED BY <1>0, <1>1, <2>2, <2>3, StoredElsewhere
<1>4. CASE Moves /\ ~CloseUpvalue /\ ~SetUpvalue
  <2>1. UNCHANGED ref
    BY <1>4 DEF Moves, PushNil, GetLocal, SetLocal, PopValue, GetGlobal,
       SetGlobal, GetUpvalue, GetField
  <2> QED BY <1>0, <1>1, <2>1, NothingStored
<1> QED BY <1>2, <1>3, <1>4

LEMMA CallsKeepCaches == IInv /\ CacheInv /\ Calls => CacheInv'
<1> SUFFICES ASSUME IInv, CacheInv, Calls PROVE CacheInv'
  OBVIOUS
<1> USE DEF Executes, Running, Mutates
<1>0. UNCHANGED <<objects, kind>>
  BY DEF Calls, CallClosure, CallBoundMethod, CallNative, InvokeField,
     InvokeMethod, SuperInvoke, Return, RuntimeError
<1>1. op = Idle \/ op.name \in {"OP_INVOKE", "error"}
  BY DEF Callee, Calls, CallClosure, CallBoundMethod, CallNative, InvokeField,
     InvokeMethod, SuperInvoke, Return, RuntimeError
<1>2. op'.name # "OP_INHERIT" /\ op.name # "OP_INHERIT"
  <2>1. CASE InvokeField
    <3>1. PICK p : op' = [Idle EXCEPT !.name = "OP_INVOKE", !.slot = p]
      BY <2>1 DEF InvokeField
    <3> QED BY <1>1, <3>1 DEF Idle
  <2>2. CASE Calls /\ ~InvokeField
    <3>1. op' = Idle \/ op' = op
      BY <2>2 DEF Calls, CallClosure, CallBoundMethod, CallNative,
         InvokeMethod, SuperInvoke, Return, RuntimeError
    <3> QED BY <1>1, <3>1 DEF Idle
  <2> QED BY <2>1, <2>2
<1>3. CASE Return \/ RuntimeError
  BY <1>0, <1>1, <1>2, <1>3, ClosingKeeps, StoredElsewhere DEF Return, RuntimeError
<1>4. CASE Calls /\ ~Return /\ ~RuntimeError
  <2>1. UNCHANGED ref
    BY <1>4 DEF Calls, CallClosure, CallBoundMethod, CallNative, InvokeField,
       InvokeMethod, SuperInvoke
  <2> QED BY <1>0, <1>1, <1>2, <2>1, NothingStored
<1> QED BY <1>3, <1>4

LEMMA StartingKeepsCaches == IInv /\ CacheInv /\ Starting => CacheInv'
<1> SUFFICES ASSUME IInv, CacheInv, Starting PROVE CacheInv'
  OBVIOUS
<1> USE DEF Executes, Running, Mutates, Starts, StartsTable
<1>0. UNCHANGED <<objects, kind, ref>>
  BY DEF Starting, StartInterpret, StartClosure, StartCapture, StartNew,
     StartInstance, StartBindMethod, StartGetSuper, StartSetField,
     StartDefineGlobal, StartMethod, StartInherit
<1>1. op.name # "OP_INHERIT"
  <2>1. op = Idle \/ op.name \in {"capture", "OP_INVOKE"}
    BY DEF Starting, StartInterpret, StartClosure, StartCapture, StartNew,
       StartInstance, StartBindMethod, StartGetSuper, StartSetField,
       StartDefineGlobal, StartMethod, StartInherit, Ready, Callee
  <2> QED BY <2>1 DEF Idle
<1>2. CASE StartInherit
  <2>1. /\ Under \in Obj /\ Top \in Obj /\ kind[Under] = "class" /\ kind[Top] = "class"
        /\ \A n \in Name : ref[Top][n] = Nil
    BY <1>2 DEF StartInherit, IsKind, MethodNames
  <2>2. PICK growth \in 0 .. 1 :
           op' = [Idle EXCEPT !.name = "OP_INHERIT", !.val = Top, !.aux = Under,
                             !.todo = MethodNames(Under), !.checks = growth]
    BY <1>2 DEF StartInherit
  <2>3. op'.val = Top /\ op'.aux = Under /\ op'.todo = MethodNames(Under)
    BY <2>2 DEF Idle
  <2>4. Top \in objects
    BY <2>1 DEF IInv, Shape
  <2>5. ref[Top]["initializer"] = Nil /\ ref[Top][InitName] = Nil
    BY <1>1, <2>1, <2>4 DEF CacheInv, InitializerCache
  <2>6. InitName \in MethodNames(Under) \/ ref[Under][InitName] = Nil
    <3>1. InitName \in Name
      OBVIOUS
    <3> QED BY <3>1 DEF MethodNames
  <2>7. Under = Top => MethodNames(Under) = {}
    BY <2>1 DEF MethodNames
  <2>8. Inheriting'
    BY <1>0, <2>3, <2>5, <2>6, <2>7 DEF Inheriting
  <2>9. InitializerCache'
    BY <1>0, <1>1, <2>1, <2>5 DEF CacheInv, InitializerCache
  <2> QED BY <2>8, <2>9 DEF CacheInv
<1>3. CASE Starting /\ ~StartInherit
  <2>1. op'.name # "OP_INHERIT"
    <3>1. CASE StartCapture
      <4>1. PICK o, i, local : op' = [op EXCEPT !.fresh = o, !.field = i, !.slot = local, !.checks = 1]
        BY <3>1 DEF StartCapture
      <4> QED BY <1>1, <4>1 DEF IInv, TypeOK, Op
    <3>2. CASE Starting /\ ~StartInherit /\ ~StartCapture
      BY <3>2 DEF Starting, StartInterpret, StartClosure, StartNew,
       StartInstance, StartBindMethod, StartGetSuper, StartSetField,
       StartDefineGlobal, StartMethod, Idle
    <3> QED BY <1>3, <3>1, <3>2
  <2> QED BY <1>0, <1>1, <2>1, NothingStored
<1> QED BY <1>2, <1>3

(* A new object is no class, or a class without methods. *)
LEMMA LinkKeeps ==
  ASSUME IInv, NEW k, NEW fields, Link(k, fields), op.fresh # Nil,
         k = "class" => fields = NoRefs
  PROVE  \A o \in objects' : kind'[o] = "class" =>
           \/ o \in objects /\ kind[o] = "class" /\ ref'[o] = ref[o]
           \/ ref'[o]["initializer"] = ref'[o][InitName]
<1>1. op.fresh \in Obj /\ op.fresh \notin objects
  BY DEF IInv, TypeOK, Op, Value, HeldLive
<1>2. /\ kind'[op.fresh] = k /\ ref'[op.fresh] = fields
      /\ \A o \in Obj \ {op.fresh} : kind'[o] = kind[o] /\ ref'[o] = ref[o]
  BY <1>1 DEF Link, IInv, TypeOK
<1>3. objects \subseteq Obj /\ objects' = objects \cup {op.fresh}
  BY DEF Link, IInv, TypeOK
<1>4. NoRefs["initializer"] = NoRefs[InitName]
  BY InitNameIsAField DEF NoRefs
<1> QED BY <1>1, <1>2, <1>3, <1>4

(* After a capture the instruction ends or captures again. *)
LEMMA CapturingName ==
  ASSUME NEW closure, NEW todo
  PROVE  Capturing(closure, todo).name \in {"run", "capture"}
BY DEF Capturing, Idle

LEMMA LinkingKeepsCaches ==
  ASSUME IInv, CacheInv,
         FinishInterpret \/ FinishClosure \/ FinishNew \/ FinishInstance \/ FinishBindMethod
  PROVE  CacheInv'
<1>1. CASE FinishInterpret
  <2>1. op.name = "interpret" /\ op'.name = "run" /\ op.fresh # Nil
    BY <1>1 DEF FinishInterpret, Ready, Idle, IInv, Pending
  <2>2. "closure" # "class" /\ Link("closure", NoRefs)
    BY <1>1 DEF FinishInterpret
  <2> QED BY <2>1, <2>2, LinkKeeps, OtherClassesKept
<1>2. CASE FinishClosure
  <2>1. op.name = "OP_CLOSURE" /\ op'.name \in {"run", "capture"} /\ op.fresh # Nil
    BY <1>2, CapturingName DEF FinishClosure, Ready, IInv, Pending
  <2>2. "closure" # "class" /\ Link("closure", NoRefs)
    BY <1>2 DEF FinishClosure
  <2> QED BY <2>1, <2>2, LinkKeeps, OtherClassesKept
<1>3. CASE FinishNew
  <2>1. op.name # "OP_INHERIT" /\ op'.name = "run" /\ op.fresh # Nil
    BY <1>3 DEF FinishNew, Ready, Idle, IInv, Pending
  <2>2. Link(IF op.name = "OP_CLASS" THEN "class" ELSE "instance", NoRefs)
    BY <1>3 DEF FinishNew
  <2> QED BY <2>1, <2>2, LinkKeeps, OtherClassesKept
<1>4. CASE FinishInstance
  <2>1. op.name = "OP_CALL" /\ op.fresh # Nil
    BY <1>4 DEF FinishInstance, Ready, IInv, Pending
  <2>2. op'.name \in {"run", "error"}
    BY <1>4 DEF FinishInstance, Idle
  <2>3. "instance" # "class" /\ Link("instance", [NoRefs EXCEPT !["klass"] = op.val])
    BY <1>4 DEF FinishInstance
  <2> QED BY <2>1, <2>2, <2>3, LinkKeeps, OtherClassesKept
<1>5. CASE FinishBindMethod
  <2>1. op.name # "OP_INHERIT" /\ op'.name = "run" /\ op.fresh # Nil
    BY <1>5 DEF FinishBindMethod, Ready, Idle, IInv, Pending
  <2>2. "bound" # "class"
        /\ Link("bound", [NoRefs EXCEPT !["receiver"] = op.val, !["method"] = op.aux])
    BY <1>5 DEF FinishBindMethod
  <2> QED BY <2>1, <2>2, LinkKeeps, OtherClassesKept
<1> QED BY <1>1, <1>2, <1>3, <1>4, <1>5

LEMMA CapturesKeepCaches ==
  ASSUME IInv, CacheInv, CaptureEnclosing \/ CaptureOpen \/ FinishCapture
  PROVE  CacheInv'
<1>1. op.name = "capture" /\ op'.name \in {"run", "capture"}
  BY CapturingName DEF CaptureEnclosing, CaptureOpen, FinishCapture, Ready
<1>2. op.val \in Obj /\ kind[op.val] = "closure"
  BY <1>1 DEF IInv, Pending, IsKind
<1>3. ref \in [Obj -> [Field -> Value]] /\ objects \subseteq Obj
  BY DEF IInv, TypeOK
<1>4. CASE CaptureEnclosing \/ CaptureOpen
  <2>1. UNCHANGED <<objects, kind>>
    BY <1>4 DEF CaptureEnclosing, CaptureOpen, Mutates
  <2>2. PICK i, v : ref' = [ref EXCEPT ![op.val][i] = v]
    BY <1>4 DEF CaptureEnclosing, CaptureOpen
  <2>3. \A o \in objects : kind[o] = "class" => ref'[o] = ref[o]
    BY <1>2, <1>3, <2>2
  <2> QED BY <1>1, <2>1, <2>3, StoredElsewhere
<1>5. CASE FinishCapture
  <2>1. /\ objects' = objects \cup {op.fresh}
        /\ kind' = [kind EXCEPT ![op.fresh] = "upvalue"]
        /\ ref' = [ref EXCEPT ![op.fresh] = NoRefs, ![op.val][op.field] = op.fresh]
        /\ op.fresh # Nil
    BY <1>5 DEF FinishCapture, LinkAndStore
  <2>2. op.fresh \in Obj /\ op.fresh \notin objects
    BY <2>1 DEF IInv, TypeOK, Op, Value, HeldLive
  <2>3. kind'[op.fresh] = "upvalue" /\ \A o \in Obj \ {op.fresh} : kind'[o] = kind[o]
    BY <2>1, <2>2 DEF IInv, TypeOK
  <2>4. \A o \in Obj \ {op.fresh, op.val} : ref'[o] = ref[o]
    BY <1>3, <2>1, <2>2
  <2> QED BY <1>1, <1>2, <1>3, <2>1, <2>3, <2>4, OtherClassesKept
<1> QED BY <1>4, <1>5

LEMMA StoresKeepCaches ==
  ASSUME IInv, CacheInv, FinishSetField \/ FinishDefineGlobal
  PROVE  CacheInv'
<1>1. UNCHANGED <<objects, kind>> /\ op' = Idle /\ op.name # "OP_INHERIT"
  BY DEF FinishSetField, FinishDefineGlobal, Ready, Mutates
<1>2. \A o \in objects : kind[o] = "class" => ref'[o] = ref[o]
  <2>1. CASE FinishSetField
    <3>1. kind[op.val] = "instance" /\ ref' = [ref EXCEPT ![op.val][op.field] = op.aux]
      BY <2>1 DEF FinishSetField, Ready, IInv, Pending, IsKind
    <3> QED BY <3>1 DEF IInv, TypeOK
  <2>2. CASE FinishDefineGlobal
    BY <2>2 DEF FinishDefineGlobal, Mutates
  <2> QED BY <2>1, <2>2
<1> QED BY <1>1, <1>2, StoredElsewhere DEF Idle

(* defineMethod stores "init" in both entries. *)
LEMMA FinishMethodKeepsCaches == IInv /\ CacheInv /\ FinishMethod => CacheInv'
<1> SUFFICES ASSUME IInv, CacheInv, FinishMethod PROVE CacheInv'
  OBVIOUS
<1>1. /\ UNCHANGED <<objects, kind>> /\ op' = Idle /\ op.name = "OP_METHOD"
      /\ ref' = [ref EXCEPT ![op.val] = WithMethod(@, op.field, op.aux)]
  BY DEF FinishMethod, Ready, Mutates
<1>2. op.val \in Obj /\ kind[op.val] = "class" /\ op.field \in Name
  BY <1>1 DEF IInv, Pending, IsKind
<1>3. ref \in [Obj -> [Field -> Value]] /\ objects \subseteq Obj
  BY DEF IInv, TypeOK
<1>4. op.val \in objects
  BY <1>2 DEF IInv, Shape
<1>5. ref[op.val]["initializer"] = ref[op.val][InitName]
  BY <1>1, <1>2, <1>4 DEF CacheInv, InitializerCache
<1>6. ref'[op.val] = WithMethod(ref[op.val], op.field, op.aux)
  BY <1>1, <1>2, <1>3
<1>7. ref'[op.val]["initializer"] = ref'[op.val][InitName]
  <2>1. ref[op.val] \in [Field -> Value]
    BY <1>2, <1>3
  <2> QED BY <1>2, <1>5, <1>6, <2>1, InitNameIsAField DEF WithMethod, Pointer
<1>8. \A o \in objects \ {op.val} : ref'[o] = ref[o]
  BY <1>1, <1>3
<1>9. op'.name # "OP_INHERIT"
  BY <1>1 DEF Idle
<1> QED BY <1>1, <1>7, <1>8, <1>9, OtherClassesKept

(* tableAddAll copies a method the subclass has not. *)
LEMMA InheritMethodKeepsCaches == IInv /\ CacheInv /\ InheritMethod => CacheInv'
<1> SUFFICES ASSUME IInv, CacheInv, InheritMethod PROVE CacheInv'
  OBVIOUS
<1>1. /\ UNCHANGED <<objects, kind>> /\ op.name = "OP_INHERIT"
  BY DEF InheritMethod, Ready, Mutates
<1>2. PICK n \in op.todo, growth \in 0 .. 1 :
        /\ ref' = [ref EXCEPT ![op.val][n] = ref[op.aux][n]]
        /\ op' = [op EXCEPT !.todo = @ \ {n}, !.checks = growth]
  BY DEF InheritMethod
<1>3. /\ op.val \in Obj /\ op.aux \in Obj /\ op.todo \subseteq Name
      /\ ref \in [Obj -> [Field -> Value]] /\ objects \subseteq Obj /\ op \in Op
  BY <1>1 DEF IInv, TypeOK, Pending, IsKind
<1>4. /\ op'.name = "OP_INHERIT" /\ op'.val = op.val /\ op'.aux = op.aux
      /\ op'.todo = op.todo \ {n}
  BY <1>1, <1>2, <1>3 DEF Op
<1>5. /\ ref[op.val]["initializer"] = Nil
      /\ InitName \in op.todo \/ ref[op.val][InitName] = ref[op.aux][InitName]
      /\ op.val # op.aux
  BY <1>1, <1>2 DEF CacheInv, Inheriting
<1>6. n \in Field /\ n # "initializer"
  BY <1>3 DEF Field, Pointer
<1>7. \A o \in Obj, f \in Field :
        ref'[o][f] = IF o = op.val /\ f = n THEN ref[op.aux][n] ELSE ref[o][f]
  BY <1>2, <1>3, <1>6
<1>8. Inheriting'
  BY <1>3, <1>4, <1>5, <1>6, <1>7, InitNameIsAField DEF Inheriting
<1>9. InitializerCache'
  <2>1. \A o \in objects : kind[o] = "class" /\ o # op.val
          => ref[o]["initializer"] = ref[o][InitName]
    BY DEF CacheInv, InitializerCache
  <2> QED BY <1>1, <1>3, <1>4, <1>7, <2>1, InitNameIsAField DEF InitializerCache
<1> QED BY <1>8, <1>9 DEF CacheInv

(* The cache is copied after the methods. *)
LEMMA FinishInheritKeepsCaches == IInv /\ CacheInv /\ FinishInherit => CacheInv'
<1> SUFFICES ASSUME IInv, CacheInv, FinishInherit PROVE CacheInv'
  OBVIOUS
<1>1. /\ UNCHANGED <<objects, kind>> /\ op.name = "OP_INHERIT" /\ op.todo = {}
      /\ op' = Idle /\ ref' = [ref EXCEPT ![op.val] = InheritedClass]
  BY DEF FinishInherit, Ready, Mutates
<1>2. /\ op.val \in Obj /\ op.aux \in Obj /\ kind[op.aux] = "class"
      /\ ref \in [Obj -> [Field -> Value]] /\ objects \subseteq Obj
  BY <1>1 DEF IInv, TypeOK, Pending, IsKind
<1>3. /\ ref[op.val]["initializer"] = Nil
      /\ ref[op.val][InitName] = ref[op.aux][InitName]
      /\ op.val = op.aux => ref[op.val][InitName] = Nil
  BY <1>1 DEF CacheInv, Inheriting
<1>4. op.val # op.aux => ref[op.aux]["initializer"] = ref[op.aux][InitName]
  BY <1>1, <1>2 DEF CacheInv, InitializerCache, IInv, Shape
<1>5. ref'[op.val] = [ref[op.val] EXCEPT !["initializer"] = ref[op.aux]["initializer"]]
  BY <1>1, <1>2, <1>3 DEF InheritedClass
<1>6. ref'[op.val]["initializer"] = ref'[op.val][InitName]
  <2>1. ref[op.val] \in [Field -> Value]
    BY <1>2
  <2> QED BY <1>3, <1>4, <1>5, <2>1, InitNameIsAField
<1>7. \A o \in objects \ {op.val} : ref'[o] = ref[o]
  BY <1>1, <1>2
<1>8. op'.name = "run"
  BY <1>1 DEF Idle
<1>9. InitializerCache'
  BY <1>1, <1>6, <1>7, <1>8 DEF CacheInv, InitializerCache
<1> QED BY <1>8, <1>9 DEF CacheInv, Inheriting

(* The two classes of OP_INHERIT are roots, so a collection keeps them. *)
LEMMA CollectorKeepsCaches == IInv /\ CacheInv /\ Collector => CacheInv'
<1> SUFFICES ASSUME IInv, CacheInv, Collector PROVE CacheInv'
  OBVIOUS
<1>1. /\ op'.name = op.name /\ op'.val = op.val /\ op'.aux = op.aux
      /\ op'.todo = op.todo
  <2>1. CASE NoCollection \/ Sweep
    <3>1. op.checks > 0 /\ op' = [op EXCEPT !.checks = @ - 1]
      BY <2>1 DEF NoCollection, Sweep, IInv, Marks
    <3> QED BY <3>1, CountsCheck
  <2>2. CASE MarkRoots \/ BlackenObject
    BY <2>2 DEF MarkRoots, BlackenObject
  <2> QED BY <2>1, <2>2 DEF Collector
<1>2. CASE NoCollection \/ MarkRoots \/ BlackenObject
  <2>1. UNCHANGED <<objects, kind, ref>>
    BY <1>2 DEF NoCollection, MarkRoots, BlackenObject
  <2> QED BY <1>1, <2>1 DEF CacheInv, InitializerCache, Inheriting
<1>3. CASE Sweep
  <2>1. /\ Survivors = Marked /\ Marked \subseteq objects /\ objects \subseteq Obj
        /\ Roots \subseteq Marked /\ op.checks > 0
    BY <1>3 DEF Sweep, IInv, TypeOK, Marks, Survivors, Marked
  <2>2. /\ objects' = Marked
        /\ \A o \in Marked : kind'[o] = kind[o] /\ ref'[o] = ref[o]
    BY <1>3, <2>1 DEF Sweep
  <2>3. op.name = "OP_INHERIT" => op.val \in Marked /\ op.aux \in Marked
    BY <2>1 DEF IInv, HeldRooted, Binding, Pending, IsKind
  <2>4. Inheriting'
    BY <1>1, <2>2, <2>3 DEF CacheInv, Inheriting
  <2>5. InitializerCache'
    BY <1>1, <2>1, <2>2 DEF CacheInv, InitializerCache
  <2> QED BY <2>4, <2>5 DEF CacheInv
<1> QED BY <1>2, <1>3 DEF Collector

(* Every step keeps the caches. *)
LEMMA CachesPreserved == IInv /\ CacheInv /\ [Next]_vars => CacheInv'
<1>1. IInv /\ CacheInv /\ Finishing => CacheInv'
  BY LinkingKeepsCaches, CapturesKeepCaches, StoresKeepCaches,
     FinishMethodKeepsCaches, InheritMethodKeepsCaches, FinishInheritKeepsCaches
     DEF Finishing
<1>2. CacheInv /\ UNCHANGED vars => CacheInv'
  BY DEF CacheInv, InitializerCache, Inheriting, vars
<1> QED BY <1>1, <1>2, MovesKeepCaches, CallsKeepCaches, StartingKeepsCaches,
           CollectorKeepsCaches DEF Next

(* The initializer a class caches is its method "init", inherited or not,  *)
(* between any two instructions and across every allocation (defineMethod, *)
(* OP_INHERIT).                                                            *)
THEOREM CachesAreRight == Spec => []InitializerCache
<1>1. Init => CacheInv
  BY DEF Init, CacheInv, InitializerCache, Inheriting, Idle
<1>2. CacheInv => InitializerCache
  BY DEF CacheInv
<1> QED BY <1>1, <1>2, Invariant, CachesPreserved, PTL DEF Spec

=============================================================================
