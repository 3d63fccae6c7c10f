--------------------------- MODULE StackTheorems ----------------------------
(***************************************************************************)
(* The theorems about the value stack.  First the windows of the calls,    *)
(* for every program whose activations fit on the stack and whose calls    *)
(* have no extra argument: the two cases that CallStackFull and            *)
(* CallStackExtra show to go wrong.  Then the upvalues as MCStack composes *)
(* the two models: a behaviour of the composition is one of Upvalues, so   *)
(* what is proved of that module holds of it.                              *)
(***************************************************************************)
EXTENDS MCStack, SequenceTheorems, TLAPS

-----------------------------------------------------------------------------
(* The windows of the calls.                                               *)

Frame == [base : Nat \ {0}, depth : Nat \ {0}]

(* Slots of n activations. *)
Limit(n) == n * MaxDepth

(* A window begins where the one below it ends.  A caller has room for the *)
(* result, since it gave up the callee; hence the k-th window begins at    *)
(* most k - 1 full activations up, and the last one ends below StackMax.   *)
Windows ==
  /\ \A k \in 1 .. Len(frames) :
       frames[k].base <= Limit(k - 1) + 1 /\ frames[k].depth <= MaxDepth
  /\ \A k \in 1 .. Len(frames) - 1 :
       /\ frames[k].depth < MaxDepth
       /\ frames[k].base + frames[k].depth = frames[k + 1].base
  /\ \A j, k \in 1 .. Len(frames) :
       j < k => frames[j].base + frames[j].depth <= frames[k].base

IInv ==
  /\ stack \in Seq(Data) /\ frames \in Seq(Frame)
  /\ frame = Len(frames) /\ frame <= FramesMax
  /\ frame = 0 => stack = <<>>
  /\ frame > 0 => Base + Depth - 1 = Len(stack)
  /\ Windows
  /\ ErrorsEnd

-----------------------------------------------------------------------------
LEMMA Limits ==
  ASSUME NEW n \in Nat
  PROVE  /\ Limit(n) \in Nat /\ Limit(n + 1) = Limit(n) + MaxDepth
         /\ n <= FramesMax => Limit(n) <= Limit(FramesMax)
<1>1. MaxDepth \in Nat /\ FramesMax \in Nat
  BY CallStackAssumption
<1>2. Limit(n) \in Nat /\ Limit(n + 1) = Limit(n) + MaxDepth
  BY <1>1 DEF Limit
<1>3. ASSUME n <= FramesMax PROVE Limit(n) <= Limit(FramesMax)
  <2>1. PICK m \in Nat : FramesMax = n + m
    BY <1>1, <1>3
  <2>2. FramesMax * MaxDepth = n * MaxDepth + m * MaxDepth /\ m * MaxDepth \in Nat
        /\ n * MaxDepth \in Nat
    BY <1>1, <2>1
  <2> QED
    BY <2>2 DEF Limit
<1> QED
  BY <1>2, <1>3

(* The numbers of the frames. *)
LEMMA FrameTypes ==
  ASSUME IInv
  PROVE  /\ Len(frames) \in Nat /\ Len(stack) \in Nat
         /\ \A k \in 1 .. Len(frames) :
              /\ frames[k] \in Frame
              /\ frames[k].base \in Nat \ {0} /\ frames[k].depth \in Nat \ {0}
              /\ frames[k] = [base |-> frames[k].base, depth |-> frames[k].depth]
<1>1. frames \in Seq(Frame) /\ stack \in Seq(Data)
  BY DEF IInv
<1>2. Len(frames) \in Nat /\ Len(stack) \in Nat
  BY <1>1, LenProperties
<1>3. \A k \in 1 .. Len(frames) : frames[k] \in Frame
  BY <1>1, ElementOfSeq
<1> QED
  BY <1>2, <1>3 DEF Frame

(* The frame that runs is the last one, and its window ends at the top. *)
LEMMA RunningFrame ==
  ASSUME IInv, Running
  PROVE  /\ frame \in 1 .. Len(frames) /\ frame = Len(frames) /\ Len(frames) \in Nat
         /\ frames[frame] \in Frame
         /\ Base \in Nat \ {0} /\ Depth \in Nat \ {0} /\ Depth <= MaxDepth
         /\ Len(stack) \in Nat /\ Base + Depth - 1 = Len(stack)
         /\ ~reported
<1>1. frame \in 1 .. Len(frames) /\ frame = Len(frames)
  BY DEF IInv, Running
<1>2. frames[frame] \in Frame
  BY <1>1, ElementOfSeq DEF IInv
<1>3. Len(stack) \in Nat /\ Len(frames) \in Nat
  BY LenProperties DEF IInv
<1> QED
  BY <1>1, <1>2, <1>3 DEF IInv, Windows, Base, Depth, Frame, ErrorsEnd

(* What the activations leave of the stack. *)
LEMMA StackHasRoom ==
  ASSUME NeverFull, IInv
  PROVE  /\ Len(stack) < StackMax
         /\ Running /\ Depth < MaxDepth => Len(stack) + 1 < StackMax
<1>1. MaxDepth \in Nat \ {0} /\ FramesMax \in Nat \ {0} /\ StackMax \in Nat
       /\ Limit(FramesMax) \in Nat /\ Limit(FramesMax) < StackMax
  BY CallStackAssumption, Limits DEF NeverFull, Limit
<1>2. CASE Running
  <2>1. Base <= Limit(frame - 1) + 1
    BY <1>2, RunningFrame DEF IInv, Windows, Base
  <2>2. frame - 1 \in Nat /\ frame \in Nat /\ frame <= FramesMax
    BY <1>2, RunningFrame DEF IInv
  <2>3. Limit(frame - 1) \in Nat /\ Limit(frame) = Limit(frame - 1) + MaxDepth
        /\ Limit(frame) <= Limit(FramesMax)
    BY <1>1, <2>2, Limits, Limits
  <2> QED
    BY <1>1, <1>2, <2>1, <2>3, RunningFrame
<1>3. CASE ~Running
  <2>1. frame = Len(frames)
    BY DEF IInv
  <2>2. frame = 0
    <3>1. ASSUME frame # 0 PROVE FALSE
      <4>1. frame \in 1 .. Len(frames)
        BY <2>1, <3>1, FrameTypes
      <4>2. frames[frame].base \in Nat \ {0}
        BY <4>1, FrameTypes
      <4>3. frames[frame].base > 0
        BY <4>2
      <4> QED
        BY <1>3, <4>1, <4>3 DEF Running
    <3> QED
      BY <3>1
  <2> QED
    BY <1>1, <1>3, <2>2 DEF IInv
<1> QED
  BY <1>2, <1>3

(* Deepened changes the depth of the running frame and nothing else. *)
LEMMA FrameDeepens ==
  ASSUME IInv, Running, NEW n \in Int, Depth + n \in Nat \ {0}
  PROVE  /\ Deepened(n) \in Seq(Frame) /\ Len(Deepened(n)) = Len(frames)
         /\ \A k \in 1 .. Len(frames) :
              Deepened(n)[k] = IF k = frame THEN [base |-> Base, depth |-> Depth + n]
                               ELSE frames[k]
<1> DEFINE changed == [base |-> Base, depth |-> Depth + n]
<1>1. frames[frame] \in Frame /\ frame \in 1 .. Len(frames) /\ changed \in Frame
  BY RunningFrame DEF Frame
<1>2. [frames[frame] EXCEPT !.depth = @ + n] = changed
  BY <1>1, FrameTypes DEF Base, Depth, Frame
<1>3. Deepened(n) = [frames EXCEPT ![frame] = [frames[frame] EXCEPT !.depth = @ + n]]
  BY DEF Deepened
<1> HIDE DEF changed
<1>4. /\ [frames EXCEPT ![frame] = changed] \in Seq(Frame)
      /\ Len([frames EXCEPT ![frame] = changed]) = Len(frames)
      /\ \A k \in 1 .. Len(frames) :
           [frames EXCEPT ![frame] = changed][k] = IF k = frame THEN changed ELSE frames[k]
  BY <1>1, ExceptSeq DEF IInv
<1> QED
  BY <1>2, <1>3, <1>4 DEF changed

(* An instruction that leaves n more values in the window of its frame. *)
LEMMA TopDeepens ==
  ASSUME IInv, Running, NEW n \in Int, Depth + n \in 1 .. MaxDepth,
         frames' = Deepened(n), UNCHANGED <<frame, reported>>,
         stack' \in Seq(Data), Len(stack') = Len(stack) + n
  PROVE  IInv'
<1> Depth + n \in Nat \ {0}
  BY CallStackAssumption
<1>1. frames' \in Seq(Frame) /\ Len(frames') = Len(frames)
  BY FrameDeepens
<1>2. \A k \in 1 .. Len(frames) :
        frames'[k] = IF k = frame THEN [base |-> Base, depth |-> Depth + n] ELSE frames[k]
  BY FrameDeepens
<1>3. Windows
  BY DEF IInv
<1>4. \A k \in 1 .. Len(frames) :
        /\ frames'[k].base = frames[k].base
        /\ frames'[k].depth = IF k = frame THEN Depth + n ELSE frames[k].depth
  BY <1>2 DEF Base
<1> HIDE DEF Deepened
<1>5. Windows'
  <2>1. /\ frame = Len(frames) /\ Len(frames) \in Nat
        /\ \A k \in 1 .. Len(frames) : frames[k].base \in Nat /\ frames[k].depth \in Nat
        /\ Depth + n \in Nat /\ Depth + n <= MaxDepth
    <3>1. Depth + n \in Nat /\ Depth + n <= MaxDepth
      BY CallStackAssumption
    <3> QED
      BY <3>1, RunningFrame, FrameTypes
  <2>2. \A k \in 1 .. Len(frames) :
          frames'[k].base <= Limit(k - 1) + 1 /\ frames'[k].depth <= MaxDepth
    BY <1>3, <1>4, <2>1 DEF Windows
  <2>3. \A k \in 1 .. Len(frames) - 1 :
          /\ frames'[k].depth < MaxDepth
          /\ frames'[k].base + frames'[k].depth = frames'[k + 1].base
    <3> TAKE k \in 1 .. Len(frames) - 1
    <3>1. k \in 1 .. Len(frames) /\ k + 1 \in 1 .. Len(frames) /\ k # frame
      BY <2>1
    <3>2. frames[k].depth < MaxDepth /\ frames[k].base + frames[k].depth = frames[k + 1].base
      BY <1>3 DEF Windows
    <3> QED
      BY <1>4, <3>1, <3>2
  <2>4. \A j, k \in 1 .. Len(frames) :
          j < k => frames'[j].base + frames'[j].depth <= frames'[k].base
    BY <1>3, <1>4, <2>1 DEF Windows
  <2> QED
    BY <1>1, <2>2, <2>3, <2>4 DEF Windows, Limit
<1>6. Base' + Depth' - 1 = Len(stack')
  <2>1. Base' = Base /\ Depth' = Depth + n
    BY <1>4, RunningFrame DEF Base, Depth
  <2>2. Base \in Nat /\ Depth \in Nat /\ Base + Depth - 1 = Len(stack)
    BY RunningFrame
  <2> QED
    BY <2>1, <2>2
<1> QED
  BY <1>1, <1>5, <1>6, RunningFrame DEF IInv, ErrorsEnd

-----------------------------------------------------------------------------
(* Sequences: the rest after a pop, and the nils of missing arguments. *)
LEMMA PopProperties ==
  ASSUME NEW S, NEW s \in Seq(S), NEW n \in Nat, n <= Len(s)
  PROVE  /\ Pop(s, n) \in Seq(S) /\ Len(Pop(s, n)) = Len(s) - n
         /\ \A i \in 1 .. Len(s) - n : Pop(s, n)[i] = s[i]
<1> DEFINE m == Len(s) - n
<1>1. m \in Nat /\ m <= Len(s)
  BY LenProperties
<1>2. \A i \in 1 .. m : s[i] \in S
  BY <1>1, ElementOfSeq
<1> HIDE DEF m
<1>3. /\ SubSeq(s, 1, m) \in Seq(S) /\ Len(SubSeq(s, 1, m)) = m
      /\ \A i \in 1 .. m : SubSeq(s, 1, m)[i] = s[i]
  <2>1. /\ SubSeq(s, 1, m) \in Seq(S)
        /\ Len(SubSeq(s, 1, m)) = IF 1 <= m THEN m - 1 + 1 ELSE 0
        /\ \A i \in 1 .. m - 1 + 1 : SubSeq(s, 1, m)[i] = s[1 + i - 1]
    BY <1>1, <1>2, SubSeqProperties
  <2> QED
    BY <1>1, <2>1
<1> QED
  BY <1>3 DEF Pop, m

LEMMA NilsProperties ==
  ASSUME NEW n \in Nat
  PROVE  Nils(n) \in Seq(Data) /\ Len(Nils(n)) = n /\ \A i \in 1 .. n : Nils(n)[i] = Nil
<1>1. Nils(n) \in [1 .. n -> Data]
  BY CallStackAssumption DEF Nils
<1>2. Nils(n) \in Seq(Data)
  BY <1>1, SeqDef
<1>3. Len(Nils(n)) = n
  BY <1>1, <1>2, LenProperties
<1> QED
  BY <1>2, <1>3 DEF Nils

(* The slots of the window that runs hold values. *)
LEMMA WindowSlots ==
  ASSUME IInv, Running
  PROVE  /\ \A i \in 0 .. Depth - 1 : Base + i \in 1 .. Len(stack) /\ stack[Base + i] \in Data
         /\ Top \in Data /\ Len(stack) \in Nat \ {0}
<1>1. Base \in Nat \ {0} /\ Depth \in Nat \ {0} /\ Base + Depth - 1 = Len(stack)
       /\ Len(stack) \in Nat
  BY RunningFrame
<1>2. \A i \in 0 .. Depth - 1 : Base + i \in 1 .. Len(stack)
  BY <1>1
<1>3. \A j \in 1 .. Len(stack) : stack[j] \in Data
  BY ElementOfSeq DEF IInv
<1>4. Len(stack) \in 1 .. Len(stack)
  BY <1>1
<1> QED
  BY <1>1, <1>2, <1>3, <1>4 DEF Top

-----------------------------------------------------------------------------
(* One lemma for every instruction. *)

LEMMA PushPreserves ==
  ASSUME NeverFull, IInv, Running, Depth < MaxDepth, NEW value \in Data, StackPush(value)
  PROVE  IInv' /\ Len(stack) + 1 < StackMax
<1>1. Len(stack) + 1 < StackMax
  BY StackHasRoom
<1>2. stack' = Append(stack, value) /\ frames' = Deepened(1) /\ UNCHANGED <<frame, reported>>
  BY <1>1 DEF StackPush
<1>3. stack' \in Seq(Data) /\ Len(stack') = Len(stack) + 1
  BY <1>2 DEF IInv
<1>4. Depth + 1 \in 1 .. MaxDepth
  BY RunningFrame, CallStackAssumption
<1> QED
  BY <1>1, <1>2, <1>3, <1>4, TopDeepens

LEMMA InterpretPreserves ==
  ASSUME IInv, Interpret
  PROVE  IInv'
<1>1. PICK script \in Data : stack' = <<script>>
  BY DEF Interpret
<1>2. frames' = <<[base |-> 1, depth |-> 1]>> /\ frame' = 1 /\ ~reported'
  BY DEF Interpret
<1>3. stack' \in Seq(Data) /\ Len(stack') = 1
  BY <1>1
<1>4. frames' \in Seq(Frame) /\ Len(frames') = 1 /\ frames'[1] = [base |-> 1, depth |-> 1]
  BY <1>2 DEF Frame
<1>5. MaxDepth \in Nat \ {0} /\ FramesMax \in Nat \ {0} /\ Limit(0) \in Nat
  BY CallStackAssumption, Limits
<1>6. Windows'
  BY <1>4, <1>5 DEF Windows, Limit
<1>7. Base' = 1 /\ Depth' = 1
  BY <1>2, <1>4 DEF Base, Depth
<1> QED
  BY <1>2, <1>3, <1>4, <1>5, <1>6, <1>7 DEF IInv, ErrorsEnd

LEMMA SetLocalPreserves ==
  ASSUME IInv, SetLocal
  PROVE  IInv'
<1>1. Running
  BY DEF SetLocal
<1>2. PICK i \in 1 .. Depth - 1 : stack' = [stack EXCEPT ![Base + i] = Top]
  BY DEF SetLocal
<1>3. Base + i \in 1 .. Len(stack) /\ Top \in Data
  BY <1>1, WindowSlots, RunningFrame
<1>4. stack' \in Seq(Data) /\ Len(stack') = Len(stack)
  BY <1>2, <1>3, ExceptSeq DEF IInv
<1>5. UNCHANGED <<frames, frame, reported>>
  BY DEF SetLocal
<1>6. frame # 0
  BY <1>1, RunningFrame
<1> QED
  BY <1>4, <1>5, <1>6 DEF IInv, Windows, ErrorsEnd, Base, Depth, Limit

LEMMA PopValuePreserves ==
  ASSUME IInv, PopValue
  PROVE  IInv'
<1>1. Running /\ Depth > 1 /\ stack' = Pop(stack, 1) /\ frames' = Deepened(-1)
       /\ UNCHANGED <<frame, reported>>
  BY DEF PopValue
<1>2. Depth \in Nat /\ Depth <= MaxDepth /\ MaxDepth \in Nat /\ Len(stack) \in Nat \ {0}
  BY <1>1, RunningFrame, WindowSlots, CallStackAssumption
<1>3. stack' \in Seq(Data) /\ Len(stack') = Len(stack) + (-1)
  BY <1>1, <1>2, PopProperties DEF IInv
<1>4. Depth + (-1) \in 1 .. MaxDepth
  BY <1>1, <1>2
<1> QED
  BY <1>1, <1>3, <1>4, TopDeepens

LEMMA CallNativePreserves ==
  ASSUME IInv, CallNative
  PROVE  IInv'
<1>1. PICK argCount \in ArgCount, result \in Data :
        /\ argCount <= Depth - 2
        /\ stack' = Append(Pop(stack, argCount + 1), result)
        /\ frames' = Deepened(- argCount)
  BY DEF CallNative
<1>2. Running /\ UNCHANGED <<frame, reported>>
  BY DEF CallNative
<1>3. argCount \in Nat /\ MaxDepth \in Nat
  BY CallStackAssumption
<1>4. Depth \in Nat /\ Depth <= MaxDepth /\ Len(stack) \in Nat /\ Base \in Nat \ {0}
       /\ Base + Depth - 1 = Len(stack)
  BY <1>2, RunningFrame
<1>5. argCount + 1 \in Nat /\ argCount + 1 <= Len(stack)
  BY <1>1, <1>3, <1>4
<1>6. Pop(stack, argCount + 1) \in Seq(Data)
       /\ Len(Pop(stack, argCount + 1)) = Len(stack) - (argCount + 1)
  BY <1>5, PopProperties DEF IInv
<1>7. stack' \in Seq(Data) /\ Len(stack') = Len(stack) + (- argCount)
  BY <1>1, <1>3, <1>4, <1>6
<1>8. Depth + (- argCount) \in 1 .. MaxDepth
  BY <1>1, <1>3, <1>4
<1> QED
  BY <1>1, <1>2, <1>3, <1>7, <1>8, TopDeepens

(* After an error, and between executions, nothing is left. *)
LEMMA NothingLeft ==
  ASSUME stack' = <<>>, frames' = <<>>, frame' = 0
  PROVE  IInv'
<1>1. stack' \in Seq(Data) /\ frames' \in Seq(Frame) /\ Len(frames') = 0
  OBVIOUS
<1>2. FramesMax \in Nat
  BY CallStackAssumption
<1> QED
  BY <1>1, <1>2 DEF IInv, Windows, ErrorsEnd

(* call: the arguments become the parameters of the new window, and there  *)
(* is room for the nils of those that are missing.                         *)
LEMMA CalleeFits ==
  ASSUME NeverFull, IInv, Running, frame < FramesMax,
         NEW argCount \in Nat, NEW arity \in Nat, argCount <= arity,
         argCount <= Depth - 2, arity < MaxDepth
  PROVE  LET adapted == stack \o Nils(arity - argCount)
         IN /\ adapted \in Seq(Data) /\ Len(adapted) = Len(stack) + arity - argCount
            /\ \A i \in 1 .. Len(adapted) :
                 adapted[i] = IF i <= Len(stack) THEN stack[i] ELSE Nil
            /\ Len(adapted) < StackMax
            /\ Len(stack) - argCount <= Limit(frame) + 1
<1> DEFINE adapted == stack \o Nils(arity - argCount)
<1>1. arity - argCount \in Nat
  OBVIOUS
<1>2. Nils(arity - argCount) \in Seq(Data) /\ Len(Nils(arity - argCount)) = arity - argCount
       /\ \A i \in 1 .. arity - argCount : Nils(arity - argCount)[i] = Nil
  BY <1>1, NilsProperties
<1>3. /\ frame \in Nat \ {0} /\ Base \in Nat \ {0} /\ Depth \in Nat /\ Depth <= MaxDepth
      /\ Base + Depth - 1 = Len(stack) /\ Len(stack) \in Nat
  BY RunningFrame
<1>4. /\ adapted \in Seq(Data) /\ Len(adapted) = Len(stack) + arity - argCount
      /\ \A i \in 1 .. Len(adapted) : adapted[i] = IF i <= Len(stack) THEN stack[i] ELSE Nil
  <2>1. stack \in Seq(Data)
    BY DEF IInv
  <2>2. /\ adapted \in Seq(Data)
        /\ Len(adapted) = Len(stack) + Len(Nils(arity - argCount))
        /\ \A i \in 1 .. Len(stack) + Len(Nils(arity - argCount)) :
             adapted[i] = IF i <= Len(stack) THEN stack[i]
                          ELSE Nils(arity - argCount)[i - Len(stack)]
    BY <1>2, <2>1, ConcatProperties
  <2> HIDE DEF adapted
  <2>3. Len(adapted) = Len(stack) + arity - argCount
    BY <1>2, <1>3, <2>2
  <2>4. \A i \in 1 .. Len(adapted) : adapted[i] = IF i <= Len(stack) THEN stack[i] ELSE Nil
    <3> TAKE i \in 1 .. Len(adapted)
    <3>1. i \in 1 .. Len(stack) + Len(Nils(arity - argCount))
      BY <1>2, <1>3, <2>3
    <3>2. CASE i <= Len(stack)
      BY <2>2, <3>1, <3>2
    <3>3. CASE ~ i <= Len(stack)
      <4>1. i - Len(stack) \in 1 .. arity - argCount
        BY <1>2, <1>3, <3>1, <3>3
      <4>2. adapted[i] = Nils(arity - argCount)[i - Len(stack)]
        BY <2>2, <3>1, <3>3
      <4> QED
        BY <1>2, <3>3, <4>1, <4>2
    <3> QED
      BY <3>2, <3>3
  <2> QED
    BY <2>2, <2>3, <2>4
<1> HIDE DEF adapted
<1>5. Base <= Limit(frame - 1) + 1
  BY RunningFrame DEF IInv, Windows, Base
<1>6. /\ MaxDepth \in Nat /\ FramesMax \in Nat /\ StackMax \in Nat
      /\ Limit(FramesMax) \in Nat /\ Limit(FramesMax) < StackMax
  BY CallStackAssumption, Limits DEF NeverFull, Limit
<1>7. frame - 1 \in Nat /\ frame + 1 \in Nat /\ frame + 1 <= FramesMax
  BY <1>3, <1>6
<1>8. /\ Limit(frame - 1) \in Nat /\ Limit(frame) = Limit(frame - 1) + MaxDepth
      /\ Limit(frame + 1) = Limit(frame) + MaxDepth
      /\ Limit(frame + 1) <= Limit(FramesMax)
  <2>1. frame - 1 + 1 = frame
    BY <1>3
  <2>2. Limit(frame - 1) \in Nat /\ Limit(frame - 1 + 1) = Limit(frame - 1) + MaxDepth
    BY <1>7, Limits
  <2>3. Limit(frame + 1) = Limit(frame) + MaxDepth
    BY <1>3, Limits
  <2>4. Limit(frame + 1) <= Limit(FramesMax)
    BY <1>7, Limits
  <2> QED
    BY <2>1, <2>2, <2>3, <2>4
<1>9. Len(stack) - argCount <= Limit(frame) + 1
  BY <1>3, <1>5, <1>6, <1>8, SMTT(30)
<1>10. Len(adapted) < StackMax
  <2>1. Len(stack) - argCount <= Limit(frame - 1) + MaxDepth
    BY <1>3, <1>5, <1>6, <1>8
  <2> QED
    BY <1>3, <1>4, <1>6, <1>8, <2>1, SMTT(30)
<1> QED
  BY <1>4, <1>9, <1>10 DEF adapted

LEMMA EnterFramePreserves ==
  ASSUME NeverFull, IInv, Running, frame < FramesMax,
         NEW argCount \in Nat, NEW arity \in Nat, argCount <= arity,
         argCount <= Depth - 2, arity < MaxDepth, EnterFrame(argCount, arity)
  PROVE  /\ IInv'
         /\ stack' = stack \o Nils(arity - argCount)
         /\ frames' = Append(Deepened(- argCount - 1),
                             [base |-> Len(stack) - argCount, depth |-> arity + 1])
         /\ frame' = frame + 1
<1> DEFINE adapted == stack \o Nils(arity - argCount)
           callee == [base |-> Len(stack) - argCount, depth |-> arity + 1]
           caller == Deepened(- argCount - 1)
<1>1. /\ adapted \in Seq(Data) /\ Len(adapted) = Len(stack) + arity - argCount
      /\ Len(adapted) < StackMax /\ Len(stack) - argCount <= Limit(frame) + 1
  BY CalleeFits
<1>2. /\ frame \in 1 .. Len(frames) /\ frame = Len(frames) /\ Len(frames) \in Nat
      /\ Base \in Nat \ {0} /\ Depth \in Nat /\ Depth <= MaxDepth
      /\ Base + Depth - 1 = Len(stack) /\ Len(stack) \in Nat /\ ~reported
      /\ MaxDepth \in Nat /\ FramesMax \in Nat
  BY RunningFrame, CallStackAssumption
<1>3. Adapted(argCount, arity) = adapted
  BY DEF Adapted
<1> HIDE DEF adapted
<1>4. Slots(Len(adapted), arity) = Len(stack) - argCount
  BY <1>1, <1>2 DEF Slots
<1>5. /\ stack' = adapted /\ frames' = Append(caller, callee)
      /\ frame' = frame + 1 /\ UNCHANGED reported
  BY <1>1, <1>3, <1>4 DEF EnterFrame
<1>6. - argCount - 1 \in Int /\ Depth + (- argCount - 1) \in Nat \ {0}
  BY <1>2
<1>7. /\ caller \in Seq(Frame) /\ Len(caller) = Len(frames)
      /\ \A k \in 1 .. Len(frames) :
           caller[k] = IF k = frame THEN [base |-> Base, depth |-> Depth + (- argCount - 1)]
                       ELSE frames[k]
  BY <1>6, FrameDeepens
<1>8. callee \in Frame
  BY <1>2 DEF Frame
<1> HIDE DEF caller, callee
<1>9. /\ frames' \in Seq(Frame) /\ Len(frames') = Len(frames) + 1
      /\ frames'[Len(frames) + 1] = callee
      /\ \A k \in 1 .. Len(frames) : frames'[k] = caller[k]
  BY <1>2, <1>5, <1>7, <1>8, SMTT(30)
<1>10. /\ \A k \in 1 .. Len(frames) :
            /\ frames'[k].base = frames[k].base
            /\ frames'[k].depth = IF k = frame THEN Depth - argCount - 1 ELSE frames[k].depth
            /\ frames[k].base \in Nat /\ frames[k].depth \in Nat
       /\ frames'[Len(frames) + 1].base = Len(stack) - argCount
       /\ frames'[Len(frames) + 1].depth = arity + 1
  <2>1. \A k \in 1 .. Len(frames) :
          frames'[k] = IF k = frame THEN [base |-> Base, depth |-> Depth + (- argCount - 1)]
                       ELSE frames[k]
    BY <1>7, <1>9
  <2>2. Depth + (- argCount - 1) = Depth - argCount - 1
    BY <1>2
  <2>3. \A k \in 1 .. Len(frames) : frames[k].base \in Nat /\ frames[k].depth \in Nat
    BY FrameTypes
  <2>4. \A k \in 1 .. Len(frames) :
          /\ frames'[k].base = frames[k].base
          /\ frames'[k].depth = IF k = frame THEN Depth - argCount - 1 ELSE frames[k].depth
    BY <2>1, <2>2 DEF Base
  <2> QED
    BY <1>9, <2>3, <2>4 DEF callee
<1>11. frames'[frame].base + frames'[frame].depth = Len(stack) - argCount
  <2>1. frames'[frame].base = Base /\ frames'[frame].depth = Depth - argCount - 1
    BY <1>2, <1>10 DEF Base
  <2> QED
    BY <1>2, <2>1
<1>12. Windows'
  <2>1. Windows /\ Len(frames) + 1 - 1 = Len(frames)
    BY <1>2 DEF IInv
  <2>2. \A k \in 1 .. Len(frames) + 1 :
          frames'[k].base <= Limit(k - 1) + 1 /\ frames'[k].depth <= MaxDepth
    <3> TAKE k \in 1 .. Len(frames) + 1
    <3>1. CASE k = Len(frames) + 1
      <4>1. k - 1 = frame
        BY <1>2, <3>1
      <4> QED
        BY <1>1, <1>2, <1>10, <3>1, <4>1
    <3>2. CASE k # Len(frames) + 1
      <4>1. k \in 1 .. Len(frames)
        BY <1>2, <3>2
      <4>2. frames[k].base <= Limit(k - 1) + 1 /\ frames[k].depth <= MaxDepth
        BY <2>1, <4>1 DEF Windows
      <4> QED
        BY <1>2, <1>10, <4>1, <4>2, SMTT(30)
    <3> QED
      BY <3>1, <3>2
  <2>3. \A k \in 1 .. Len(frames) :
          /\ frames'[k].depth < MaxDepth
          /\ frames'[k].base + frames'[k].depth = frames'[k + 1].base
    <3> TAKE k \in 1 .. Len(frames)
    <3>1. CASE k = frame
      <4>1. frames'[k].depth = Depth - argCount - 1 /\ k + 1 = Len(frames) + 1
        BY <1>2, <1>10, <3>1
      <4> QED
        BY <1>2, <1>10, <1>11, <3>1, <4>1
    <3>2. CASE k # frame
      <4>1. k \in 1 .. Len(frames) - 1 /\ k + 1 \in 1 .. Len(frames)
        BY <1>2, <3>2
      <4>2. frames[k].depth < MaxDepth /\ frames[k].base + frames[k].depth = frames[k + 1].base
        BY <2>1, <4>1 DEF Windows
      <4> QED
        BY <1>10, <3>2, <4>1, <4>2
    <3> QED
      BY <3>1, <3>2
  <2>4. \A j, k \in 1 .. Len(frames) + 1 :
          j < k => frames'[j].base + frames'[j].depth <= frames'[k].base
    <3> TAKE j, k \in 1 .. Len(frames) + 1
    <3> HAVE j < k
    <3>1. j \in 1 .. Len(frames)
      BY <1>2
    <3>3. frames'[j].base + frames'[j].depth <= Len(stack) - argCount
      <4>1. CASE j = frame
        BY <1>2, <1>11, <4>1
      <4>2. CASE j # frame
        <5>1. frames[j].base + frames[j].depth <= frames[frame].base
          BY <1>2, <2>1, <3>1, <4>2 DEF Windows
        <5>2. frames[frame].base <= Len(stack) - argCount
          BY <1>2 DEF Base
        <5>3. frames[frame].base \in Nat
          BY <1>2 DEF Base
        <5> QED
          BY <1>2, <1>10, <3>1, <4>2, <5>1, <5>2, <5>3, SMTT(30)
      <4> QED
        BY <4>1, <4>2
    <3>4. CASE k = Len(frames) + 1
      BY <1>10, <3>3, <3>4
    <3>5. CASE k # Len(frames) + 1
      <4>1. k \in 1 .. Len(frames) /\ j # frame
        BY <1>2, <3>5
      <4>2. frames[j].base + frames[j].depth <= frames[k].base
        BY <2>1, <3>1, <4>1 DEF Windows
      <4> QED
        BY <1>10, <3>1, <4>1, <4>2
    <3> QED
      BY <3>4, <3>5
  <2> QED
    BY <1>9, <2>1, <2>2, <2>3, <2>4 DEF Windows, Limit
<1>13. Base' = Len(stack) - argCount /\ Depth' = arity + 1
  BY <1>2, <1>5, <1>10 DEF Base, Depth
<1>14. Base' + Depth' - 1 = Len(stack')
  BY <1>1, <1>2, <1>5, <1>13
<1>15. frame' = Len(frames') /\ frame' <= FramesMax /\ frame' # 0 /\ ~reported'
  BY <1>2, <1>5, <1>9
<1>16. stack' \in Seq(Data)
  BY <1>1, <1>5
<1>17. IInv'
  BY <1>9, <1>12, <1>14, <1>15, <1>16 DEF IInv, ErrorsEnd
<1> QED
  BY <1>5, <1>17 DEF adapted, callee, caller

LEMMA CallClosurePreserves ==
  ASSUME NeverFull, NoExtraArguments, IInv, CallClosure
  PROVE  IInv'
<1>1. PICK argCount \in ArgCount, arity \in Arity :
        /\ argCount <= Depth - 2 /\ arity < MaxDepth
        /\ IF Len(frames) = FramesMax THEN RuntimeError ELSE EnterFrame(argCount, arity)
  BY DEF CallClosure
<1>2. Running
  BY DEF CallClosure
<1>3. argCount \in Nat /\ arity \in Nat /\ argCount <= arity
  BY CallStackAssumption DEF NoExtraArguments
<1>4. CASE Len(frames) = FramesMax
  BY <1>1, <1>4, NothingLeft DEF RuntimeError
<1>5. CASE Len(frames) # FramesMax
  <2>1. frame = Len(frames) /\ frame \in Nat /\ frame <= FramesMax /\ FramesMax \in Nat
    BY <1>2, RunningFrame, CallStackAssumption DEF IInv
  <2>2. frame < FramesMax
    BY <1>5, <2>1
  <2> QED
    BY <1>1, <1>2, <1>3, <1>5, <2>2, EnterFramePreserves
<1> QED
  BY <1>4, <1>5

(* OP_RETURN of a function: the window is cut at its callee, and its result *)
(* is one more value of the caller.                                        *)
LEMMA ReturnCuts ==
  ASSUME IInv, Return
  PROVE  /\ stack' \in Seq(Data) /\ Len(stack') = Base
         /\ \A i \in 1 .. Base : stack'[i] = IF i < Base THEN stack[i] ELSE Top
<1>1. Running /\ stack' = Append(SubSeq(stack, 1, Base - 1), Top)
  BY DEF Return
<1>2. /\ Base \in Nat \ {0} /\ Depth \in Nat \ {0} /\ Base + Depth - 1 = Len(stack)
      /\ Len(stack) \in Nat /\ Top \in Data
  BY <1>1, RunningFrame, WindowSlots
<1>3. \A i \in 1 .. Base - 1 : stack[i] \in Data
  BY <1>2, ElementOfSeq DEF IInv
<1>4. /\ SubSeq(stack, 1, Base - 1) \in Seq(Data)
      /\ Len(SubSeq(stack, 1, Base - 1)) = Base - 1
      /\ \A i \in 1 .. Base - 1 : SubSeq(stack, 1, Base - 1)[i] = stack[i]
  <2> DEFINE m == Base - 1
  <2>1. m \in Nat /\ \A i \in 1 .. m : stack[i] \in Data
    BY <1>2, <1>3
  <2> HIDE DEF m
  <2>2. /\ SubSeq(stack, 1, m) \in Seq(Data)
        /\ Len(SubSeq(stack, 1, m)) = IF 1 <= m THEN m - 1 + 1 ELSE 0
        /\ \A i \in 1 .. m - 1 + 1 : SubSeq(stack, 1, m)[i] = stack[1 + i - 1]
    BY <2>1, SubSeqProperties
  <2>3. /\ SubSeq(stack, 1, m) \in Seq(Data) /\ Len(SubSeq(stack, 1, m)) = m
        /\ \A i \in 1 .. m : SubSeq(stack, 1, m)[i] = stack[i]
    BY <2>1, <2>2
  <2> QED
    BY <2>3 DEF m
<1> QED
  BY <1>1, <1>2, <1>4

(* ... and the caller's window gets the slot of the result. *)
LEMMA ReturnGivesUpFrame ==
  ASSUME IInv, Return
  PROVE  /\ frames' \in Seq(Frame) /\ Len(frames') = Len(frames) - 1
         /\ \A k \in 1 .. Len(frames) - 1 :
              frames'[k] = IF k = frame - 1
                             THEN [base |-> frames[frame - 1].base,
                                   depth |-> frames[frame - 1].depth + 1]
                             ELSE frames[k]
<1>1. /\ Running /\ Depth > 1 /\ frame > 1
      /\ frames' = [Pop(frames, 1) EXCEPT ![frame - 1].depth = @ + 1]
      /\ frame' = frame - 1 /\ UNCHANGED reported
  BY DEF Return
<1>2. /\ frame = Len(frames) /\ Len(frames) \in Nat /\ Base \in Nat \ {0}
      /\ MaxDepth \in Nat /\ FramesMax \in Nat /\ ~reported /\ frame <= FramesMax
  BY <1>1, RunningFrame, CallStackAssumption DEF IInv
<1> DEFINE rest == Pop(frames, 1)
           caller == frames[frame - 1]
           deeper == [base |-> caller.base, depth |-> caller.depth + 1]
<1>3. frame - 1 \in 1 .. Len(frames) /\ frame - 1 \in 1 .. Len(frames) - 1
  BY <1>1, <1>2
<1>4. /\ rest \in Seq(Frame) /\ Len(rest) = Len(frames) - 1
      /\ \A k \in 1 .. Len(frames) - 1 : rest[k] = frames[k]
  <2>1. frames \in Seq(Frame)
    BY DEF IInv
  <2>2. 1 \in Nat /\ 1 <= Len(frames)
    BY <1>1, <1>2
  <2> QED
    BY <2>1, <2>2, PopProperties
<1>5. caller = [base |-> caller.base, depth |-> caller.depth]
       /\ caller.base \in Nat \ {0} /\ caller.depth \in Nat \ {0}
  BY <1>3, FrameTypes
<1>6. deeper \in Frame
  BY <1>5 DEF Frame
<1>7. frames' = [rest EXCEPT ![frame - 1] = deeper]
  <2>1. rest[frame - 1] = caller
    BY <1>3, <1>4
  <2>2. [rest[frame - 1] EXCEPT !.depth = @ + 1] = deeper
    BY <1>5, <2>1
  <2>3. frames' = [rest EXCEPT ![frame - 1] = [rest[frame - 1] EXCEPT !.depth = @ + 1]]
    BY <1>1
  <2> QED
    BY <2>2, <2>3
<1> HIDE DEF rest, deeper, caller
<1>8. /\ frames' \in Seq(Frame) /\ Len(frames') = Len(frames) - 1
      /\ \A k \in 1 .. Len(frames) - 1 :
           frames'[k] = IF k = frame - 1 THEN deeper ELSE frames[k]
  <2>1. frame - 1 \in 1 .. Len(rest)
    BY <1>3, <1>4
  <2>2. /\ [rest EXCEPT ![frame - 1] = deeper] \in Seq(Frame)
        /\ Len([rest EXCEPT ![frame - 1] = deeper]) = Len(rest)
        /\ \A k \in 1 .. Len(rest) :
             [rest EXCEPT ![frame - 1] = deeper][k] = IF k = frame - 1 THEN deeper ELSE rest[k]
    BY <1>4, <1>6, <2>1, ExceptSeq
  <2> QED
    BY <1>4, <1>7, <2>2
<1> QED
  BY <1>8 DEF deeper, caller

LEMMA ReturnPreserves ==
  ASSUME IInv, Return
  PROVE  IInv'
<1>1. /\ Running /\ Depth > 1 /\ frame > 1
      /\ frames' = [Pop(frames, 1) EXCEPT ![frame - 1].depth = @ + 1]
      /\ frame' = frame - 1 /\ UNCHANGED reported
  BY DEF Return
<1>2. /\ frame = Len(frames) /\ Len(frames) \in Nat /\ Base \in Nat \ {0}
      /\ MaxDepth \in Nat /\ FramesMax \in Nat /\ ~reported /\ frame <= FramesMax
  BY <1>1, RunningFrame, CallStackAssumption DEF IInv
<1> DEFINE caller == frames[frame - 1]
           deeper == [base |-> caller.base, depth |-> caller.depth + 1]
<1>3. frame - 1 \in 1 .. Len(frames) /\ frame - 1 \in 1 .. Len(frames) - 1
  BY <1>1, <1>2
<1>5. caller = [base |-> caller.base, depth |-> caller.depth]
       /\ caller.base \in Nat \ {0} /\ caller.depth \in Nat \ {0}
  BY <1>3, FrameTypes
<1>8. /\ frames' \in Seq(Frame) /\ Len(frames') = Len(frames) - 1
      /\ \A k \in 1 .. Len(frames) - 1 :
           frames'[k] = IF k = frame - 1 THEN deeper ELSE frames[k]
  BY ReturnGivesUpFrame
<1> HIDE DEF deeper, caller
<1>9. /\ \A k \in 1 .. Len(frames) - 1 :
           /\ frames'[k].base = frames[k].base
           /\ frames'[k].depth = IF k = frame - 1 THEN caller.depth + 1 ELSE frames[k].depth
           /\ frames[k].base \in Nat /\ frames[k].depth \in Nat
      /\ caller.base + caller.depth = Base /\ caller.depth < MaxDepth
      /\ caller.base = frames[frame - 1].base /\ caller.depth = frames[frame - 1].depth
  <2>1. \A k \in 1 .. Len(frames) - 1 : frames[k].base \in Nat /\ frames[k].depth \in Nat
    <3> TAKE k \in 1 .. Len(frames) - 1
    <3>1. k \in 1 .. Len(frames)
      BY <1>2
    <3>2. frames[k].base \in Nat \ {0} /\ frames[k].depth \in Nat \ {0}
      BY <3>1, FrameTypes
    <3> QED
      BY <3>2
  <2>2. \A k \in 1 .. Len(frames) - 1 :
          /\ frames'[k].base = frames[k].base
          /\ frames'[k].depth = IF k = frame - 1 THEN caller.depth + 1 ELSE frames[k].depth
    BY <1>8 DEF deeper, caller
  <2>3. frame - 1 + 1 = frame
    BY <1>2
  <2>4. caller.base + caller.depth = Base /\ caller.depth < MaxDepth
    BY <1>3, <2>3 DEF IInv, Windows, Base, caller
  <2> QED
    BY <2>1, <2>2, <2>4 DEF caller
<1>10. Windows'
  <2>1. Windows
    BY DEF IInv
  <2>2. \A k \in 1 .. Len(frames) - 1 :
          frames'[k].base <= Limit(k - 1) + 1 /\ frames'[k].depth <= MaxDepth
    <3> TAKE k \in 1 .. Len(frames) - 1
    <3>1. k \in 1 .. Len(frames)
      BY <1>2
    <3>2. frames[k].base <= Limit(k - 1) + 1 /\ frames[k].depth <= MaxDepth
      BY <2>1, <3>1 DEF Windows
    <3>3. caller.depth \in Nat
      BY <1>5
    <3> QED
      BY <1>2, <1>9, <3>2, <3>3, SMTT(30)
  <2>3. \A k \in 1 .. Len(frames) - 1 - 1 :
          /\ frames'[k].depth < MaxDepth
          /\ frames'[k].base + frames'[k].depth = frames'[k + 1].base
    <3> TAKE k \in 1 .. Len(frames) - 1 - 1
    <3>1. k \in 1 .. Len(frames) - 1 /\ k + 1 \in 1 .. Len(frames) - 1 /\ k # frame - 1
      BY <1>2
    <3>2. frames[k].depth < MaxDepth /\ frames[k].base + frames[k].depth = frames[k + 1].base
      BY <2>1, <3>1 DEF Windows
    <3> QED
      BY <1>9, <3>1, <3>2
  <2>4. \A j, k \in 1 .. Len(frames) - 1 :
          j < k => frames'[j].base + frames'[j].depth <= frames'[k].base
    <3> TAKE j, k \in 1 .. Len(frames) - 1
    <3> HAVE j < k
    <3>1. j \in 1 .. Len(frames) /\ k \in 1 .. Len(frames) /\ j # frame - 1
      BY <1>2
    <3>2. frames[j].base + frames[j].depth <= frames[k].base
      BY <2>1, <3>1 DEF Windows
    <3> QED
      BY <1>9, <3>1, <3>2
  <2> QED
    BY <1>8, <2>2, <2>3, <2>4 DEF Windows, Limit
<1>11. Base' + Depth' - 1 = Len(stack')
  <2>1. Base' = caller.base /\ Depth' = caller.depth + 1
    BY <1>1, <1>3, <1>9 DEF Base, Depth
  <2>2. Len(stack') = Base
    BY ReturnCuts
  <2>3. caller.base \in Nat /\ caller.depth \in Nat
    BY <1>5
  <2> QED
    BY <1>2, <1>9, <2>1, <2>2, <2>3
<1>12. frame' = Len(frames') /\ frame' <= FramesMax /\ frame' # 0 /\ ~reported'
  BY <1>1, <1>2, <1>8
<1> QED
  BY <1>8, <1>10, <1>11, <1>12, ReturnCuts DEF IInv, ErrorsEnd

LEMMA ReturnScriptPreserves ==
  ASSUME IInv, ReturnScript
  PROVE  IInv'
<1>1. Running /\ Depth = 2 /\ frame = 1 /\ stack' = Pop(stack, 2) /\ frames' = <<>> /\ frame' = 0
  BY DEF ReturnScript
<1>2. Len(stack) = 2
  <2>1. 1 <= Len(frames) /\ Len(frames) = 1 /\ MaxDepth \in Nat
    BY <1>1, CallStackAssumption DEF IInv
  <2>2. Base <= Limit(0) + 1 /\ Limit(0) = 0
    BY <1>1, <2>1 DEF IInv, Windows, Base, Limit
  <2>3. Base \in Nat \ {0} /\ Base + Depth - 1 = Len(stack)
    BY <1>1, RunningFrame
  <2> QED
    BY <1>1, <2>2, <2>3
<1>3. stack' = <<>>
  <2>1. stack \in Seq(Data)
    BY DEF IInv
  <2>2. 2 \in Nat /\ 2 <= Len(stack)
    BY <1>2
  <2>3. Pop(stack, 2) \in Seq(Data) /\ Len(Pop(stack, 2)) = Len(stack) - 2
    BY <2>1, <2>2, PopProperties
  <2>4. Len(Pop(stack, 2)) = 0
    BY <1>2, <2>3
  <2> QED
    BY <1>1, <2>3, <2>4, EmptySeq
<1> QED
  BY <1>1, <1>3, NothingLeft

-----------------------------------------------------------------------------
(* The invariant, for every behaviour. *)
THEOREM WindowsInvariant == ASSUME NeverFull, NoExtraArguments PROVE Spec => []IInv
<1>1. Init => IInv
  <2>1. FramesMax \in Nat
    BY CallStackAssumption
  <2> QED
    BY <2>1 DEF Init, IInv, Windows, ErrorsEnd
<1>2. ASSUME IInv, [Next]_vars
      PROVE  IInv'
  <2>1. CASE Interpret
    BY <1>2, <2>1, InterpretPreserves
  <2>2. CASE PushValue
    BY <1>2, <2>2, PushPreserves DEF PushValue
  <2>3. CASE GetLocal
    <3>1. PICK i \in 0 .. Depth - 1 : StackPush(stack[Base + i])
      BY <2>3 DEF GetLocal
    <3>2. Running /\ Depth < MaxDepth
      BY <2>3 DEF GetLocal
    <3> QED
      BY <1>2, <3>1, <3>2, WindowSlots, PushPreserves
  <2>4. CASE SetLocal
    BY <1>2, <2>4, SetLocalPreserves
  <2>5. CASE PopValue
    BY <1>2, <2>5, PopValuePreserves
  <2>6. CASE CallClosure
    BY <1>2, <2>6, CallClosurePreserves
  <2>7. CASE CallNative
    BY <1>2, <2>7, CallNativePreserves
  <2>8. CASE Return
    BY <1>2, <2>8, ReturnPreserves
  <2>9. CASE ReturnScript
    BY <1>2, <2>9, ReturnScriptPreserves
  <2>10. CASE Fail
    BY <2>10, NothingLeft DEF Fail, RuntimeError
  <2>11. CASE UNCHANGED vars
    BY <1>2, <2>11 DEF vars, IInv, Windows, ErrorsEnd, Base, Depth, Limit
  <2> QED
    BY <1>2, <2>1, <2>2, <2>3, <2>4, <2>5, <2>6, <2>7, <2>8, <2>9, <2>10, <2>11 DEF Next
<1> QED
  BY <1>1, <1>2, PTL DEF Spec

(* Every window lies on the stack, and ends where the next one begins. *)
LEMMA WindowsInside ==
  ASSUME IInv
  PROVE  \A k \in 1 .. Len(frames) :
           /\ frames[k].base >= 1
           /\ frames[k].base + frames[k].depth - 1 <= Len(stack)
           /\ k < Len(frames) => frames[k].base + frames[k].depth = frames[k + 1].base
<1> TAKE k \in 1 .. Len(frames)
<1>1. Len(frames) \in Nat /\ Len(stack) \in Nat
      /\ frames[k].base \in Nat \ {0} /\ frames[k].depth \in Nat \ {0}
  BY FrameTypes
<1>2. frames[k].base >= 1
  BY <1>1
<1>3. Len(frames) \in 1 .. Len(frames) /\ frame = Len(frames) /\ frame > 0
  BY <1>1 DEF IInv
<1>4. frames[frame].base + frames[frame].depth - 1 = Len(stack)
  BY <1>3 DEF IInv, Base, Depth
<1>5. frames[frame].base \in Nat /\ frames[frame].depth \in Nat \ {0}
  BY <1>3, FrameTypes
<1>6. CASE k = frame
  BY <1>1, <1>2, <1>3, <1>4, <1>6
<1>7. CASE k # frame
  <2>1. k \in 1 .. Len(frames) - 1 /\ k < Len(frames)
    BY <1>1, <1>3, <1>7
  <2>2. /\ frames[k].base + frames[k].depth = frames[k + 1].base
        /\ frames[k].base + frames[k].depth <= frames[frame].base
    BY <1>3, <2>1 DEF IInv, Windows
  <2>3. frames[frame].base <= Len(stack)
    BY <1>1, <1>4, <1>5, SMTT(30)
  <2>4. frames[k].base + frames[k].depth - 1 <= Len(stack)
    <3> DEFINE b == frames[k].base
               d == frames[k].depth
               top == frames[frame].base
    <3>1. b \in Nat /\ d \in Nat /\ top \in Nat /\ Len(stack) \in Nat
          /\ b + d <= top /\ top <= Len(stack)
      BY <1>1, <1>5, <2>2, <2>3
    <3> HIDE DEF b, d, top
    <3>2. b + d - 1 <= Len(stack)
      BY <3>1
    <3> QED
      BY <3>2 DEF b, d
  <2> QED
    BY <1>2, <2>2, <2>4
<1> QED
  BY <1>6, <1>7

(* run() executes the innermost frame, the windows lie one above the other *)
(* and below the limit of the stack, and slot numbers agree (call,         *)
(* OP_RETURN).                                                             *)
THEOREM WindowsAreAdjacent == ASSUME NeverFull, NoExtraArguments PROVE Spec => []FramesOK
<1>1. ASSUME IInv PROVE FramesOK
  <2>1. Len(stack) < StackMax
    BY <1>1, StackHasRoom
  <2>2. SlotsAgree
    BY <1>1, RunningFrame DEF SlotsAgree
  <2>3. \A k \in 1 .. Len(frames) :
          /\ frames[k].base >= 1
          /\ frames[k].base + frames[k].depth - 1 <= Len(stack)
          /\ k < Len(frames) => frames[k].base + frames[k].depth = frames[k + 1].base
    BY <1>1, WindowsInside
  <2> QED
    BY <1>1, <2>1, <2>2, <2>3 DEF IInv, FramesOK
<1> QED
  BY WindowsInvariant, <1>1, PTL

(* An execution that reported an error runs no further instruction         *)
(* (runtimeError); the overflow in stack_push does not happen below        *)
(* FramesMax full activations.                                             *)
THEOREM ErrorsEndExecutions == ASSUME NeverFull, NoExtraArguments PROVE Spec => []ErrorsEnd
<1>1. IInv => ErrorsEnd
  BY DEF IInv
<1> QED
  BY WindowsInvariant, <1>1, PTL

-----------------------------------------------------------------------------
(* The windows on the value stack implement activations with variables of  *)
(* their own, under the same hypotheses.                                   *)

(* The variables in a window, and those of every frame. *)
VariablesOf(s, w) == [i \in 1 .. w.depth |-> s[w.base + i - 1]]
AllVariables(s, f) == [k \in 1 .. Len(f) |-> VariablesOf(s, f[k])]

(* Every window lies on the stack. *)
Inside(s, f) ==
  /\ s \in Seq(Data) /\ f \in Seq(Frame)
  /\ \A k \in 1 .. Len(f) : f[k].base + f[k].depth - 1 <= Len(s)

-----------------------------------------------------------------------------
LEMMA VariablesAreASequence ==
  ASSUME NEW s \in Seq(Data), NEW w \in Frame, w.base + w.depth - 1 <= Len(s)
  PROVE  /\ VariablesOf(s, w) \in Seq(Data) /\ Len(VariablesOf(s, w)) = w.depth
         /\ \A i \in 1 .. w.depth : VariablesOf(s, w)[i] = s[w.base + i - 1]
<1>1. w.base \in Nat \ {0} /\ w.depth \in Nat /\ Len(s) \in Nat
  BY LenProperties DEF Frame
<1>2. \A i \in 1 .. w.depth : s[w.base + i - 1] \in Data
  <2> TAKE i \in 1 .. w.depth
  <2>1. w.base + i - 1 \in 1 .. Len(s)
    BY <1>1
  <2> QED
    BY <2>1, ElementOfSeq
<1>3. VariablesOf(s, w) \in [1 .. w.depth -> Data]
  BY <1>2 DEF VariablesOf
<1>4. VariablesOf(s, w) \in Seq(Data)
  BY <1>1, <1>3, SeqDef
<1>5. Len(VariablesOf(s, w)) = w.depth
  BY <1>1, <1>3, <1>4, LenProperties
<1> QED
  BY <1>4, <1>5 DEF VariablesOf

LEMMA AllVariablesAreASequence ==
  ASSUME NEW s, NEW f, Inside(s, f)
  PROVE  /\ AllVariables(s, f) \in Seq(Seq(Data)) /\ Len(AllVariables(s, f)) = Len(f)
         /\ Len(f) \in Nat
         /\ \A k \in 1 .. Len(f) :
              /\ AllVariables(s, f)[k] = VariablesOf(s, f[k])
              /\ VariablesOf(s, f[k]) \in Seq(Data)
<1>1. Len(f) \in Nat
  BY LenProperties DEF Inside
<1>2. \A k \in 1 .. Len(f) : VariablesOf(s, f[k]) \in Seq(Data)
  BY VariablesAreASequence, ElementOfSeq DEF Inside
<1>3. AllVariables(s, f) \in [1 .. Len(f) -> Seq(Data)]
  BY <1>2 DEF AllVariables
<1>4. AllVariables(s, f) \in Seq(Seq(Data))
  BY <1>1, <1>3, SeqDef
<1>5. Len(AllVariables(s, f)) = Len(f)
  BY <1>1, <1>3, <1>4, LenProperties
<1> QED
  BY <1>1, <1>2, <1>4, <1>5 DEF AllVariables

(* Of the activations a, the last one becomes v (With). *)
LEMMA LastReplaced ==
  ASSUME NEW S, NEW a \in Seq(S), NEW b \in Seq(S), NEW v \in S,
         Len(a) \in Nat \ {0}, Len(b) = Len(a), b[Len(a)] = v,
         \A k \in 1 .. Len(a) - 1 : b[k] = a[k]
  PROVE  b = Append(SubSeq(a, 1, Len(a) - 1), v)
<1> DEFINE m == Len(a) - 1
           c == SubSeq(a, 1, m)
<1>1. m \in Nat /\ m + 1 = Len(a) /\ \A i \in 1 .. m : a[i] \in S
  BY ElementOfSeq
<1> HIDE DEF m
<1>2. c \in Seq(S) /\ Len(c) = m /\ \A i \in 1 .. m : c[i] = a[i]
  <2>1. /\ c \in Seq(S) /\ Len(c) = IF 1 <= m THEN m - 1 + 1 ELSE 0
        /\ \A i \in 1 .. m - 1 + 1 : c[i] = a[1 + i - 1]
    BY <1>1, SubSeqProperties
  <2> QED
    BY <1>1, <2>1
<1> HIDE DEF c
<1>3. /\ Append(c, v) \in Seq(S) /\ Len(Append(c, v)) = m + 1
      /\ \A i \in 1 .. m : Append(c, v)[i] = c[i]
      /\ Append(c, v)[m + 1] = v
  BY <1>2, AppendProperties
<1>4. \A i \in 1 .. Len(b) : b[i] = Append(c, v)[i]
  <2>1. \A i \in 1 .. m : b[i] = a[i]
    BY DEF m
  <2> QED
    BY <1>1, <1>2, <1>3, <2>1
<1>5. b = Append(c, v)
  BY <1>1, <1>3, <1>4, SeqEqual
<1> QED
  BY <1>5 DEF c, m

-----------------------------------------------------------------------------
LEMMA StackIsInside == IInv => Inside(stack, frames)
BY WindowsInside DEF Inside, IInv

LEMMA StackStaysInside == IInv' => Inside(stack', frames')
<1>1. (IInv => Inside(stack, frames))'
  BY StackIsInside, PTL
<1> QED
  BY <1>1 DEF Inside

LEMMA ActivationsAre ==
  /\ ActivationsOnStack = AllVariables(stack, frames)
  /\ ActivationsOnStack' = AllVariables(stack', frames')
BY DEF ActivationsOnStack, AllVariables, VariablesOf, Window

(* The activation that runs, seen from both sides. *)
LEMMA CurrentIs ==
  ASSUME IInv, Running
  PROVE  /\ Len(ActivationsOnStack) = frame /\ ActivationsOnStack # <<>>
         /\ Abstract!Current = VariablesOf(stack, frames[frame])
         /\ Abstract!Current \in Seq(Data) /\ Len(Abstract!Current) = Depth
         /\ \A i \in 1 .. Depth : Abstract!Current[i] = stack[Base + i - 1]
<1>1. frame \in 1 .. Len(frames) /\ frame = Len(frames) /\ frames[frame] \in Frame
      /\ Base + Depth - 1 = Len(stack)
  BY RunningFrame
<1>2. /\ ActivationsOnStack \in Seq(Seq(Data)) /\ Len(ActivationsOnStack) = frame
      /\ ActivationsOnStack[frame] = VariablesOf(stack, frames[frame])
  BY <1>1, StackIsInside, ActivationsAre, AllVariablesAreASequence
<1>3. ActivationsOnStack # <<>>
  BY <1>1, <1>2, EmptySeq
<1>4. Abstract!Current = VariablesOf(stack, frames[frame])
  BY <1>2 DEF Abstract!Current
<1>5. frames[frame].base = Base /\ frames[frame].depth = Depth /\ stack \in Seq(Data)
  BY DEF Base, Depth, IInv
<1>6. /\ VariablesOf(stack, frames[frame]) \in Seq(Data)
      /\ Len(VariablesOf(stack, frames[frame])) = Depth
      /\ \A i \in 1 .. Depth : VariablesOf(stack, frames[frame])[i] = stack[Base + i - 1]
  BY <1>1, <1>5, VariablesAreASequence
<1> QED
  BY <1>2, <1>3, <1>4, <1>6

(* What lies below the window that runs is not touched. *)
LEMMA LowerVariablesKept ==
  ASSUME IInv, Running, NEW t, NEW g, NEW k \in 1 .. frame - 1,
         g[k] = frames[k], \A j \in 1 .. Base - 1 : t[j] = stack[j]
  PROVE  VariablesOf(t, g[k]) = VariablesOf(stack, frames[k])
<1>1. frame \in 1 .. Len(frames) /\ Len(frames) \in Nat /\ k \in 1 .. Len(frames) /\ k < frame
  BY RunningFrame
<1>2. /\ frames[k].base \in Nat \ {0} /\ frames[k].depth \in Nat /\ Base \in Nat
      /\ frames[k].base + frames[k].depth <= Base
  BY <1>1, FrameTypes, RunningFrame DEF IInv, Windows, Base
<1>3. \A i \in 1 .. frames[k].depth :
        t[frames[k].base + i - 1] = stack[frames[k].base + i - 1]
  <2> TAKE i \in 1 .. frames[k].depth
  <2>1. frames[k].base + i - 1 \in 1 .. Base - 1
    BY <1>2
  <2> QED
    BY <2>1
<1> QED
  BY <1>3 DEF VariablesOf

(* A step that changes the window that runs only, to w. *)
LEMMA StepOnTop ==
  ASSUME IInv, IInv', Running, NEW v,
         Len(frames') = Len(frames),
         \A k \in 1 .. frame - 1 : frames'[k] = frames[k],
         \A j \in 1 .. Base - 1 : stack'[j] = stack[j],
         VariablesOf(stack', frames'[frame]) = v
  PROVE  ActivationsOnStack' = Abstract!With(ActivationsOnStack, v)
<1> DEFINE a == ActivationsOnStack
           b == AllVariables(stack', frames')
<1>1. frame \in 1 .. Len(frames) /\ frame = Len(frames) /\ Len(frames) \in Nat
  BY RunningFrame
<1>2. /\ a \in Seq(Seq(Data)) /\ Len(a) = frame
      /\ \A k \in 1 .. frame : a[k] = VariablesOf(stack, frames[k])
  BY <1>1, StackIsInside, ActivationsAre, AllVariablesAreASequence
<1>3. /\ b \in Seq(Seq(Data)) /\ Len(b) = frame
      /\ \A k \in 1 .. frame : b[k] = VariablesOf(stack', frames'[k])
      /\ VariablesOf(stack', frames'[frame]) \in Seq(Data)
  BY <1>1, StackStaysInside, AllVariablesAreASequence
<1>4. \A k \in 1 .. frame - 1 : b[k] = a[k]
  <2> TAKE k \in 1 .. frame - 1
  <2>1. VariablesOf(stack', frames'[k]) = VariablesOf(stack, frames[k])
    BY LowerVariablesKept
  <2> QED
    BY <1>1, <1>2, <1>3, <2>1
<1>5. b[frame] = v /\ v \in Seq(Data) /\ frame \in Nat \ {0}
  BY <1>1, <1>3
<1> HIDE DEF a, b
<1>6. b = Append(SubSeq(a, 1, Len(a) - 1), v)
  BY <1>2, <1>3, <1>4, <1>5, LastReplaced
<1> QED
  BY <1>6, ActivationsAre DEF a, b, Abstract!With, Abstract!Drop

(* An instruction that leaves n more values in the window that runs: its   *)
(* variables are v.                                                        *)
LEMMA StepDeepens ==
  ASSUME IInv, IInv', Running, NEW n \in Int, Depth + n \in Nat \ {0},
         frames' = Deepened(n), NEW v \in Seq(Data), Len(v) = Depth + n,
         \A j \in 1 .. Base - 1 : stack'[j] = stack[j],
         \A i \in 1 .. Depth + n : v[i] = stack'[Base + i - 1]
  PROVE  ActivationsOnStack' = Abstract!With(ActivationsOnStack, v)
<1> DEFINE window == [base |-> Base, depth |-> Depth + n]
<1>1. /\ frame \in 1 .. Len(frames) /\ frame = Len(frames) /\ Len(frames) \in Nat
      /\ Base \in Nat \ {0}
  BY RunningFrame
<1>2. /\ Len(frames') = Len(frames) /\ frames'[frame] = window
      /\ \A k \in 1 .. frame - 1 : frames'[k] = frames[k]
  <2>1. /\ Len(frames') = Len(frames)
        /\ \A k \in 1 .. Len(frames) :
             frames'[k] = IF k = frame THEN window ELSE frames[k]
    BY FrameDeepens
  <2>2. \A k \in 1 .. frame - 1 : k \in 1 .. Len(frames) /\ k # frame
    BY <1>1
  <2> HIDE DEF window
  <2>3. \A k \in 1 .. frame - 1 : frames'[k] = frames[k]
    BY <2>1, <2>2
  <2> QED
    BY <1>1, <2>1, <2>3
<1>3. window \in Frame /\ window.base = Base /\ window.depth = Depth + n
  BY <1>1 DEF Frame
<1>4. stack' \in Seq(Data) /\ window.base + window.depth - 1 <= Len(stack')
  BY <1>1, <1>2, StackStaysInside DEF Inside
<1> HIDE DEF window
<1>5. VariablesOf(stack', window) = v
  <2>1. /\ VariablesOf(stack', window) \in Seq(Data)
        /\ Len(VariablesOf(stack', window)) = Depth + n
        /\ \A i \in 1 .. Depth + n : VariablesOf(stack', window)[i] = stack'[Base + i - 1]
    <3>1. /\ VariablesOf(stack', window) \in Seq(Data)
          /\ Len(VariablesOf(stack', window)) = window.depth
          /\ \A i \in 1 .. window.depth :
               VariablesOf(stack', window)[i] = stack'[window.base + i - 1]
      BY <1>3, <1>4, VariablesAreASequence
    <3> QED
      BY <1>3, <3>1
  <2> QED
    BY <2>1, SeqEqual
<1> QED
  BY <1>2, <1>5, StepOnTop

-----------------------------------------------------------------------------
(* One lemma for every instruction. *)

LEMMA PushImplements ==
  ASSUME NeverFull, IInv, IInv', Running, Depth < MaxDepth,
         NEW value \in Data, StackPush(value)
  PROVE  ActivationsOnStack' =
           Abstract!With(ActivationsOnStack, Append(Abstract!Current, value))
<1> DEFINE cur == Abstract!Current
           v == Append(cur, value)
<1>1. stack' = Append(stack, value) /\ frames' = Deepened(1)
  BY StackHasRoom DEF StackPush
<1>2. /\ Base \in Nat \ {0} /\ Depth \in Nat \ {0} /\ Base + Depth - 1 = Len(stack)
      /\ Len(stack) \in Nat /\ stack \in Seq(Data)
  BY RunningFrame DEF IInv
<1>3. /\ cur \in Seq(Data) /\ Len(cur) = Depth
      /\ \A i \in 1 .. Depth : cur[i] = stack[Base + i - 1]
  BY CurrentIs
<1>4. \A j \in 1 .. Len(stack) : stack'[j] = stack[j]
  BY <1>1, <1>2, AppendProperties
<1>5. stack'[Len(stack) + 1] = value
  BY <1>1, <1>2, AppendProperties
<1> HIDE DEF cur
<1>6. /\ v \in Seq(Data) /\ Len(v) = Depth + 1 /\ v[Depth + 1] = value
      /\ \A i \in 1 .. Depth : v[i] = cur[i]
  BY <1>3, AppendProperties
<1> HIDE DEF v
<1>7. \A i \in 1 .. Depth + 1 : v[i] = stack'[Base + i - 1]
  <2> TAKE i \in 1 .. Depth + 1
  <2>1. CASE i = Depth + 1
    <3>1. Base + i - 1 = Len(stack) + 1
      BY <1>2, <2>1
    <3> QED
      BY <1>5, <1>6, <2>1, <3>1
  <2>2. CASE i # Depth + 1
    <3>1. i \in 1 .. Depth /\ Base + i - 1 \in 1 .. Len(stack)
      BY <1>2, <2>2
    <3> QED
      BY <1>3, <1>4, <1>6, <3>1
  <2> QED
    BY <2>1, <2>2
<1>8. \A j \in 1 .. Base - 1 : stack'[j] = stack[j]
  BY <1>2, <1>4
<1>9. Depth + 1 \in Nat \ {0} /\ 1 \in Int
  BY <1>2
<1>10. ActivationsOnStack' = Abstract!With(ActivationsOnStack, v)
  BY <1>1, <1>6, <1>7, <1>8, <1>9, StepDeepens
<1> QED
  BY <1>10 DEF v, cur

LEMMA PushValueImplements ==
  ASSUME NeverFull, IInv, IInv', PushValue
  PROVE  Abstract!Push
<1>1. Running /\ Depth < MaxDepth
  BY DEF PushValue
<1>2. PICK value \in Data : StackPush(value)
  BY DEF PushValue
<1>3. ActivationsOnStack' =
        Abstract!With(ActivationsOnStack, Append(Abstract!Current, value))
  BY <1>1, <1>2, PushImplements
<1> QED
  BY <1>1, <1>3, CurrentIs DEF Abstract!Push

LEMMA GetLocalImplements ==
  ASSUME NeverFull, IInv, IInv', GetLocal
  PROVE  Abstract!Read
<1>1. Running /\ Depth < MaxDepth
  BY DEF GetLocal
<1>2. PICK i \in 0 .. Depth - 1 : StackPush(stack[Base + i])
  BY DEF GetLocal
<1>3. stack[Base + i] \in Data /\ Base \in Nat /\ Depth \in Nat
  BY <1>1, WindowSlots, RunningFrame
<1>4. ActivationsOnStack' =
        Abstract!With(ActivationsOnStack, Append(Abstract!Current, stack[Base + i]))
  BY <1>1, <1>2, <1>3, PushImplements
<1>5. i + 1 \in 1 .. Depth /\ Base + (i + 1) - 1 = Base + i
  BY <1>3
<1>6. i + 1 \in 1 .. Len(Abstract!Current) /\ Abstract!Current[i + 1] = stack[Base + i]
  <2>1. Len(Abstract!Current) = Depth /\ Abstract!Current[i + 1] = stack[Base + (i + 1) - 1]
    BY <1>1, <1>5, CurrentIs
  <2> QED
    BY <1>5, <2>1
<1> QED
  BY <1>1, <1>4, <1>6, CurrentIs DEF Abstract!Read

LEMMA SetLocalImplements ==
  ASSUME IInv, IInv', SetLocal
  PROVE  Abstract!Write
<1> DEFINE cur == Abstract!Current
<1>1. Running /\ UNCHANGED frames
  BY DEF SetLocal
<1>2. PICK i \in 1 .. Depth - 1 : stack' = [stack EXCEPT ![Base + i] = Top]
  BY DEF SetLocal
<1>3. /\ Base \in Nat \ {0} /\ Depth \in Nat \ {0} /\ Base + Depth - 1 = Len(stack)
      /\ Len(stack) \in Nat /\ stack \in Seq(Data) /\ frame \in Nat
      /\ frames[frame] \in Frame
  BY <1>1, RunningFrame DEF IInv
<1>4. /\ cur \in Seq(Data) /\ Len(cur) = Depth
      /\ \A k \in 1 .. Depth : cur[k] = stack[Base + k - 1]
  BY <1>1, CurrentIs
<1>5. Base + i \in 1 .. Len(stack) /\ Top \in Data
  BY <1>1, <1>3, WindowSlots
<1>6. /\ stack' \in Seq(Data) /\ Len(stack') = Len(stack)
      /\ \A j \in 1 .. Len(stack) : stack'[j] = IF j = Base + i THEN Top ELSE stack[j]
  BY <1>2, <1>3, <1>5, ExceptSeq
<1> HIDE DEF cur
<1>7. i + 1 \in 1 .. Depth /\ i + 1 \in 2 .. Len(cur) /\ Depth \in 1 .. Depth
  BY <1>3, <1>4
<1>8. cur[Len(cur)] = Top
  <2>1. cur[Depth] = stack[Base + Depth - 1]
    BY <1>4, <1>7
  <2> QED
    BY <1>3, <1>4, <2>1 DEF Top
<1> DEFINE v == [cur EXCEPT ![i + 1] = cur[Len(cur)]]
<1>9. /\ v \in Seq(Data) /\ Len(v) = Depth
      /\ \A k \in 1 .. Depth : v[k] = IF k = i + 1 THEN Top ELSE cur[k]
  <2>1. i + 1 \in 1 .. Len(cur)
    BY <1>4, <1>7
  <2>2. /\ [cur EXCEPT ![i + 1] = Top] \in Seq(Data)
        /\ Len([cur EXCEPT ![i + 1] = Top]) = Len(cur)
        /\ \A k \in 1 .. Len(cur) :
             [cur EXCEPT ![i + 1] = Top][k] = IF k = i + 1 THEN Top ELSE cur[k]
    BY <1>4, <1>5, <2>1, ExceptSeq
  <2> QED
    BY <1>4, <1>8, <2>2
<1> HIDE DEF v
<1>10. /\ VariablesOf(stack', frames[frame]) \in Seq(Data)
       /\ Len(VariablesOf(stack', frames[frame])) = Depth
       /\ \A k \in 1 .. Depth : VariablesOf(stack', frames[frame])[k] = stack'[Base + k - 1]
  <2>1. frames[frame].base = Base /\ frames[frame].depth = Depth
    BY DEF Base, Depth
  <2>2. frames[frame].base + frames[frame].depth - 1 <= Len(stack')
    BY <1>3, <1>6, <2>1
  <2>3. /\ VariablesOf(stack', frames[frame]) \in Seq(Data)
        /\ Len(VariablesOf(stack', frames[frame])) = frames[frame].depth
        /\ \A k \in 1 .. frames[frame].depth :
             VariablesOf(stack', frames[frame])[k] = stack'[frames[frame].base + k - 1]
    BY <1>3, <1>6, <2>2, VariablesAreASequence
  <2> QED
    BY <2>1, <2>3
<1>11. \A k \in 1 .. Depth : stack'[Base + k - 1] = v[k]
  <2> TAKE k \in 1 .. Depth
  <2>1. Base + k - 1 \in 1 .. Len(stack) /\ (Base + k - 1 = Base + i <=> k = i + 1)
    BY <1>3
  <2> QED
    BY <1>4, <1>6, <1>9, <2>1
<1>12. VariablesOf(stack', frames[frame]) = v
  BY <1>9, <1>10, <1>11, SeqEqual
<1>13. \A j \in 1 .. Base - 1 : stack'[j] = stack[j]
  BY <1>3, <1>5, <1>6
<1>14. ActivationsOnStack' = Abstract!With(ActivationsOnStack, v)
  BY <1>1, <1>12, <1>13, StepOnTop
<1> QED
  BY <1>1, <1>7, <1>14, CurrentIs DEF Abstract!Write, v, cur

(* The variables of the running activation without the last n. *)
LEMMA DroppedProperties ==
  ASSUME NEW t \in Seq(Data), NEW n \in Nat, n <= Len(t)
  PROVE  /\ Abstract!Drop(t, n) \in Seq(Data) /\ Len(Abstract!Drop(t, n)) = Len(t) - n
         /\ \A i \in 1 .. Len(t) - n : Abstract!Drop(t, n)[i] = t[i]
BY PopProperties DEF Abstract!Drop, Pop

LEMMA PopValueImplements ==
  ASSUME IInv, IInv', PopValue
  PROVE  Abstract!Discard
<1> DEFINE cur == Abstract!Current
           v == Abstract!Drop(cur, 1)
<1>1. Running /\ Depth > 1 /\ stack' = Pop(stack, 1) /\ frames' = Deepened(-1)
  BY DEF PopValue
<1>2. /\ Base \in Nat \ {0} /\ Depth \in Nat \ {0} /\ Base + Depth - 1 = Len(stack)
      /\ Len(stack) \in Nat /\ stack \in Seq(Data)
  BY <1>1, RunningFrame DEF IInv
<1>3. /\ cur \in Seq(Data) /\ Len(cur) = Depth
      /\ \A i \in 1 .. Depth : cur[i] = stack[Base + i - 1]
  BY <1>1, CurrentIs
<1>4. 1 \in Nat /\ 1 <= Len(stack) /\ 1 <= Len(cur)
  BY <1>2, <1>3
<1>5. \A j \in 1 .. Len(stack) - 1 : stack'[j] = stack[j]
  BY <1>1, <1>2, <1>4, PopProperties
<1> HIDE DEF cur
<1>6. v \in Seq(Data) /\ Len(v) = Depth - 1 /\ \A i \in 1 .. Depth - 1 : v[i] = cur[i]
  BY <1>3, <1>4, DroppedProperties
<1> HIDE DEF v
<1>7. Depth + (-1) = Depth - 1 /\ Depth + (-1) \in Nat \ {0} /\ -1 \in Int
  BY <1>1, <1>2
<1>8. \A i \in 1 .. Depth + (-1) : v[i] = stack'[Base + i - 1]
  <2> TAKE i \in 1 .. Depth + (-1)
  <2>1. i \in 1 .. Depth /\ i \in 1 .. Depth - 1 /\ Base + i - 1 \in 1 .. Len(stack) - 1
    BY <1>2, <1>7
  <2> QED
    BY <1>3, <1>5, <1>6, <2>1
<1>9. \A j \in 1 .. Base - 1 : stack'[j] = stack[j]
  <2>1. \A j \in 1 .. Base - 1 : j \in 1 .. Len(stack) - 1
    BY <1>1, <1>2
  <2> QED
    BY <1>5, <2>1
<1>10. ActivationsOnStack' = Abstract!With(ActivationsOnStack, v)
  BY <1>1, <1>6, <1>7, <1>8, <1>9, StepDeepens
<1>11. Len(cur) > 1
  BY <1>1, <1>3
<1> QED
  BY <1>1, <1>10, <1>11, CurrentIs DEF Abstract!Discard, v, cur

LEMMA CallNativeImplements ==
  ASSUME IInv, IInv', CallNative
  PROVE  Abstract!CallNative
<1> DEFINE cur == Abstract!Current
<1>1. PICK argCount \in ArgCount, result \in Data :
        /\ argCount <= Depth - 2
        /\ stack' = Append(Pop(stack, argCount + 1), result)
        /\ frames' = Deepened(- argCount)
  BY DEF CallNative
<1>2. Running /\ argCount \in Nat
  BY CallStackAssumption DEF CallNative
<1>3. /\ Base \in Nat \ {0} /\ Depth \in Nat \ {0} /\ Base + Depth - 1 = Len(stack)
      /\ Len(stack) \in Nat /\ stack \in Seq(Data)
  BY <1>2, RunningFrame DEF IInv
<1>4. /\ cur \in Seq(Data) /\ Len(cur) = Depth
      /\ \A i \in 1 .. Depth : cur[i] = stack[Base + i - 1]
  BY <1>2, CurrentIs
<1> DEFINE below == Pop(stack, argCount + 1)
           kept == Abstract!Drop(cur, argCount + 1)
           v == Append(kept, result)
<1> HIDE DEF cur
<1>5. argCount + 1 \in Nat /\ argCount + 1 <= Len(stack) /\ argCount + 1 <= Len(cur)
  BY <1>1, <1>2, <1>3, <1>4
<1>6. /\ below \in Seq(Data) /\ Len(below) = Len(stack) - (argCount + 1)
      /\ \A j \in 1 .. Len(stack) - (argCount + 1) : below[j] = stack[j]
  BY <1>3, <1>5, PopProperties
<1>7. /\ kept \in Seq(Data) /\ Len(kept) = Depth - (argCount + 1)
      /\ \A i \in 1 .. Depth - (argCount + 1) : kept[i] = cur[i]
  BY <1>4, <1>5, DroppedProperties
<1> HIDE DEF below, kept
<1>8. /\ \A j \in 1 .. Len(stack) - (argCount + 1) : stack'[j] = stack[j]
      /\ stack'[Len(stack) - argCount] = result
  <2>1. /\ \A j \in 1 .. Len(below) : Append(below, result)[j] = below[j]
        /\ Append(below, result)[Len(below) + 1] = result
    BY <1>6, AppendProperties
  <2>2. Len(below) + 1 = Len(stack) - argCount
    BY <1>2, <1>3, <1>6
  <2>3. stack' = Append(below, result)
    BY <1>1 DEF below
  <2> QED
    BY <1>6, <2>1, <2>2, <2>3
<1>9. /\ v \in Seq(Data) /\ Len(v) = Depth - argCount /\ v[Depth - argCount] = result
      /\ \A i \in 1 .. Depth - (argCount + 1) : v[i] = cur[i]
  <2>1. /\ v \in Seq(Data) /\ Len(v) = Len(kept) + 1 /\ v[Len(kept) + 1] = result
        /\ \A i \in 1 .. Len(kept) : v[i] = kept[i]
    BY <1>7, AppendProperties
  <2>2. Len(kept) + 1 = Depth - argCount
    BY <1>2, <1>3, <1>7
  <2> HIDE DEF v
  <2> QED
    BY <1>7, <2>1, <2>2
<1> HIDE DEF v
<1>10. Depth + (- argCount) = Depth - argCount /\ Depth + (- argCount) \in Nat \ {0}
       /\ - argCount \in Int
  BY <1>1, <1>2, <1>3
<1>11. \A i \in 1 .. Depth + (- argCount) : v[i] = stack'[Base + i - 1]
  <2> TAKE i \in 1 .. Depth + (- argCount)
  <2>1. CASE i = Depth - argCount
    <3>1. Base + i - 1 = Len(stack) - argCount
      BY <1>2, <1>3, <2>1
    <3> QED
      BY <1>8, <1>9, <2>1, <3>1
  <2>2. CASE i # Depth - argCount
    <3>1. /\ i \in 1 .. Depth /\ i \in 1 .. Depth - (argCount + 1)
          /\ Base + i - 1 \in 1 .. Len(stack) - (argCount + 1)
      BY <1>2, <1>3, <1>10, <2>2
    <3> QED
      BY <1>4, <1>8, <1>9, <3>1
  <2> QED
    BY <2>1, <2>2
<1>12. \A j \in 1 .. Base - 1 : stack'[j] = stack[j]
  <2>1. \A j \in 1 .. Base - 1 : j \in 1 .. Len(stack) - (argCount + 1)
    BY <1>1, <1>2, <1>3
  <2> QED
    BY <1>8, <2>1
<1>13. ActivationsOnStack' = Abstract!With(ActivationsOnStack, v)
  BY <1>1, <1>2, <1>9, <1>10, <1>11, <1>12, StepDeepens
<1>14. argCount \in 0 .. Len(cur) - 2
  BY <1>1, <1>2, <1>3, <1>4
<1> QED
  BY <1>2, <1>13, <1>14, CurrentIs DEF Abstract!CallNative, v, kept, cur

(* With, on sequences. *)
LEMMA WithProperties ==
  ASSUME NEW a \in Seq(Seq(Data)), NEW v \in Seq(Data), Len(a) > 0
  PROVE  /\ Abstract!With(a, v) \in Seq(Seq(Data)) /\ Len(Abstract!With(a, v)) = Len(a)
         /\ \A k \in 1 .. Len(a) :
              Abstract!With(a, v)[k] = IF k = Len(a) THEN v ELSE a[k]
<1> DEFINE c == SubSeq(a, 1, Len(a) - 1)
<1>1. Len(a) \in Nat \ {0}
  BY LenProperties
<1>2. c \in Seq(Seq(Data)) /\ Len(c) = Len(a) - 1 /\ \A k \in 1 .. Len(a) - 1 : c[k] = a[k]
  <2>1. 1 \in Nat /\ 1 <= Len(a)
    BY <1>1
  <2> QED
    BY <2>1, PopProperties DEF Pop
<1>3. Abstract!With(a, v) = Append(c, v)
  BY DEF Abstract!With, Abstract!Drop
<1> HIDE DEF c
<1>4. /\ Append(c, v) \in Seq(Seq(Data)) /\ Len(Append(c, v)) = Len(c) + 1
      /\ \A k \in 1 .. Len(c) : Append(c, v)[k] = c[k]
      /\ Append(c, v)[Len(c) + 1] = v
  BY <1>2, AppendProperties
<1> QED
  BY <1>1, <1>2, <1>3, <1>4

LEMMA ReturnImplements ==
  ASSUME IInv, IInv', Return
  PROVE  Abstract!Return
<1> DEFINE a == ActivationsOnStack
           b == AllVariables(stack', frames')
           cur == Abstract!Current
           w == frames[frame - 1]
           caller == a[frame - 1]
           longer == Append(caller, cur[Len(cur)])
           c == Abstract!With(Abstract!Drop(a, 1), longer)
<1>1. Running /\ Depth > 1 /\ frame > 1
  BY DEF Return
<1>2. /\ frame = Len(frames) /\ frame \in Nat /\ Len(frames) \in Nat /\ Base \in Nat \ {0}
      /\ Depth \in Nat \ {0} /\ Base + Depth - 1 = Len(stack) /\ Len(stack) \in Nat
      /\ stack \in Seq(Data)
  BY <1>1, RunningFrame DEF IInv
<1>3. frame - 1 \in 1 .. Len(frames) /\ frame - 1 \in 1 .. Len(frames) - 1
      /\ frame - 1 \in 1 .. frame - 1
  BY <1>1, <1>2
<1>4. /\ a \in Seq(Seq(Data)) /\ Len(a) = frame
      /\ \A k \in 1 .. frame : a[k] = VariablesOf(stack, frames[k])
  BY <1>2, StackIsInside, ActivationsAre, AllVariablesAreASequence
<1>5. cur[Len(cur)] = Top /\ Top \in Data /\ Len(cur) = Depth
  <2>1. /\ Len(cur) = Depth
        /\ \A i \in 1 .. Depth : cur[i] = stack[Base + i - 1]
    BY <1>1, CurrentIs
  <2> HIDE DEF cur
  <2>2. cur[Depth] = stack[Len(stack)]
    BY <1>2, <2>1
  <2> QED
    BY <1>1, <2>1, <2>2, WindowSlots DEF Top
<1>6. w \in Frame /\ w.base \in Nat \ {0} /\ w.depth \in Nat \ {0} /\ w.base + w.depth = Base
  <2>1. frame - 1 + 1 = frame
    BY <1>2
  <2> QED
    BY <1>3, <2>1, FrameTypes DEF IInv, Windows, Base
<1>7. /\ caller \in Seq(Data) /\ Len(caller) = w.depth
      /\ \A i \in 1 .. w.depth : caller[i] = stack[w.base + i - 1]
  <2>1. w.base + w.depth - 1 <= Len(stack)
    BY <1>2, <1>6
  <2>2. caller = VariablesOf(stack, w)
    BY <1>2, <1>3, <1>4
  <2> HIDE DEF w, caller
  <2> QED
    BY <1>2, <1>6, <2>1, <2>2, VariablesAreASequence
<1> HIDE DEF a, cur, caller
<1>8. /\ longer \in Seq(Data) /\ Len(longer) = w.depth + 1 /\ longer[w.depth + 1] = Top
      /\ \A i \in 1 .. w.depth : longer[i] = caller[i]
  BY <1>5, <1>7, AppendProperties
<1> HIDE DEF longer
<1>9. /\ c \in Seq(Seq(Data)) /\ Len(c) = frame - 1
      /\ \A k \in 1 .. frame - 1 : c[k] = IF k = frame - 1 THEN longer ELSE a[k]
  <2> DEFINE d == Abstract!Drop(a, 1)
  <2>1. 1 \in Nat /\ 1 <= Len(a)
    BY <1>1, <1>4
  <2>2. d \in Seq(Seq(Data)) /\ Len(d) = Len(a) - 1 /\ \A k \in 1 .. Len(a) - 1 : d[k] = a[k]
    BY <1>4, <2>1, PopProperties DEF Abstract!Drop, Pop
  <2> HIDE DEF d
  <2>3. Len(d) > 0 /\ Len(d) = frame - 1
    BY <1>1, <1>2, <1>4, <2>2
  <2>4. /\ Abstract!With(d, longer) \in Seq(Seq(Data)) /\ Len(Abstract!With(d, longer)) = Len(d)
        /\ \A k \in 1 .. Len(d) :
             Abstract!With(d, longer)[k] = IF k = Len(d) THEN longer ELSE d[k]
    BY <1>8, <2>2, <2>3, WithProperties
  <2> QED
    BY <1>4, <2>2, <2>3, <2>4 DEF d
<1> HIDE DEF c
<1>10. /\ stack' \in Seq(Data) /\ Len(stack') = Base
       /\ \A j \in 1 .. Base : stack'[j] = IF j < Base THEN stack[j] ELSE Top
  BY ReturnCuts
<1>11. /\ Len(frames') = frame - 1
       /\ frames'[frame - 1] = [base |-> w.base, depth |-> w.depth + 1]
       /\ \A k \in 1 .. frame - 1 : k # frame - 1 => frames'[k] = frames[k]
  BY <1>2, <1>3, ReturnGivesUpFrame
<1>12. /\ b \in Seq(Seq(Data)) /\ Len(b) = frame - 1
       /\ \A k \in 1 .. frame - 1 : b[k] = VariablesOf(stack', frames'[k])
  BY <1>11, StackStaysInside, AllVariablesAreASequence
<1> HIDE DEF b
<1>13. VariablesOf(stack', frames'[frame - 1]) = longer
  <2> DEFINE window == [base |-> w.base, depth |-> w.depth + 1]
  <2>1. window \in Frame /\ window.base = w.base /\ window.depth = w.depth + 1
    BY <1>6 DEF Frame
  <2> HIDE DEF window, w
  <2>2. window.base + window.depth - 1 <= Len(stack')
    BY <1>6, <1>10, <2>1
  <2>3. /\ VariablesOf(stack', window) \in Seq(Data)
        /\ Len(VariablesOf(stack', window)) = window.depth
        /\ \A i \in 1 .. window.depth :
             VariablesOf(stack', window)[i] = stack'[window.base + i - 1]
    BY <1>10, <2>1, <2>2, VariablesAreASequence
  <2>4. \A i \in 1 .. w.depth + 1 : stack'[w.base + i - 1] = longer[i]
    <3> TAKE i \in 1 .. w.depth + 1
    <3>1. CASE i = w.depth + 1
      <4>1. w.base + i - 1 = Base
        BY <1>6, <3>1
      <4> QED
        BY <1>2, <1>8, <1>10, <3>1, <4>1
    <3>2. CASE i # w.depth + 1
      <4>1. i \in 1 .. w.depth /\ w.base + i - 1 \in 1 .. Base /\ w.base + i - 1 < Base
        BY <1>6, <3>2
      <4> QED
        BY <1>7, <1>8, <1>10, <4>1
    <3> QED
      BY <3>1, <3>2
  <2>5. VariablesOf(stack', window) = longer
    BY <1>8, <2>1, <2>3, <2>4, SeqEqual
  <2> QED
    BY <1>11, <2>5 DEF window
<1>14. \A k \in 1 .. frame - 1 : b[k] = c[k]
  <2> TAKE k \in 1 .. frame - 1
  <2>1. CASE k = frame - 1
    BY <1>9, <1>12, <1>13, <2>1
  <2>2. CASE k # frame - 1
    <3>1. k \in 1 .. frame /\ \A j \in 1 .. Base - 1 : stack'[j] = stack[j]
      BY <1>2, <1>10
    <3>2. VariablesOf(stack', frames'[k]) = VariablesOf(stack, frames[k])
      BY <1>1, <1>11, <2>2, <3>1, LowerVariablesKept
    <3> QED
      BY <1>4, <1>9, <1>12, <2>2, <3>1, <3>2
  <2> QED
    BY <2>1, <2>2
<1>15. b = c
  BY <1>9, <1>12, <1>14, SeqEqual
<1>16. a # <<>> /\ Len(cur) > 1 /\ Len(a) # 1 /\ Len(a) - 1 = frame - 1
  <2>1. a # <<>>
    BY <1>1, CurrentIs DEF a
  <2>2. Len(cur) > 1
    BY <1>1, <1>5
  <2>3. Len(a) # 1 /\ Len(a) - 1 = frame - 1
    <3>1. Len(a) = frame
      BY <1>4
    <3>2. frame \in Nat /\ frame > 1
      BY <1>1, <1>2
    <3>3. frame # 1
      BY <3>2
    <3> QED
      BY <3>1, <3>3
  <2> QED
    BY <2>1, <2>2, <2>3
<1>17. ActivationsOnStack' = c
  BY <1>15, ActivationsAre DEF b
<1> QED
  BY <1>16, <1>17 DEF Abstract!Return, a, c, cur, caller, longer

(* The window of a call: the callee and its parameters. *)
LEMMA CalleeVariables ==
  ASSUME IInv, Running, NEW argCount \in Nat, NEW arity \in Nat,
         argCount <= arity, argCount <= Depth - 2,
         NEW t \in Seq(Data), Len(t) = Len(stack) + arity - argCount,
         \A j \in 1 .. Len(t) : t[j] = IF j <= Len(stack) THEN stack[j] ELSE Nil
  PROVE  LET cur == Abstract!Current
             callee == cur[Len(cur) - argCount]
             args == SubSeq(cur, Len(cur) - argCount + 1, Len(cur))
         IN VariablesOf(t, [base |-> Len(stack) - argCount, depth |-> arity + 1])
              = <<callee>> \o Abstract!Parameters(args, arity)
<1> DEFINE cur == Abstract!Current
           callee == cur[Len(cur) - argCount]
           args == SubSeq(cur, Len(cur) - argCount + 1, Len(cur))
           params == Abstract!Parameters(args, arity)
           v == <<callee>> \o params
           window == [base |-> Len(stack) - argCount, depth |-> arity + 1]
<1>1. /\ Base \in Nat \ {0} /\ Depth \in Nat \ {0} /\ Base + Depth - 1 = Len(stack)
      /\ Len(stack) \in Nat /\ Nil \in Data
  BY RunningFrame, CallStackAssumption
<1>2. /\ cur \in Seq(Data) /\ Len(cur) = Depth
      /\ \A i \in 1 .. Depth : cur[i] = stack[Base + i - 1]
  BY CurrentIs
<1> HIDE DEF cur
<1>3. callee = stack[Len(stack) - argCount] /\ callee \in Data
  <2>1. Depth - argCount \in 1 .. Depth /\ Base + (Depth - argCount) - 1 = Len(stack) - argCount
    BY <1>1
  <2> QED
    BY <1>2, <2>1, ElementOfSeq
<1>4. /\ args \in Seq(Data) /\ Len(args) = argCount
      /\ \A i \in 1 .. argCount : args[i] = stack[Len(stack) - argCount + i]
  <2> DEFINE m == Depth - argCount + 1
  <2>1. m \in Int /\ Depth \in Int /\ \A i \in m .. Depth : i \in 1 .. Depth
    BY <1>1
  <2>2. \A i \in m .. Depth : cur[i] \in Data
    BY <1>2, <2>1, ElementOfSeq
  <2> HIDE DEF m
  <2>3. /\ SubSeq(cur, m, Depth) \in Seq(Data)
        /\ Len(SubSeq(cur, m, Depth)) = IF m <= Depth THEN Depth - m + 1 ELSE 0
        /\ \A i \in 1 .. Depth - m + 1 : SubSeq(cur, m, Depth)[i] = cur[m + i - 1]
    BY <2>1, <2>2, SubSeqProperties
  <2>4. args = SubSeq(cur, m, Depth)
    BY <1>2 DEF m
  <2> HIDE DEF args
  <2>5. Depth - m + 1 = argCount
    BY <1>1 DEF m
  <2>6. Len(args) = argCount
    BY <2>1, <2>3, <2>4, <2>5
  <2>7. \A i \in 1 .. argCount : args[i] = stack[Len(stack) - argCount + i]
    <3> TAKE i \in 1 .. argCount
    <3>1. /\ m + i - 1 \in 1 .. Depth
          /\ Base + (m + i - 1) - 1 = Len(stack) - argCount + i
      <4>1. m = Depth - argCount + 1
        BY DEF m
      <4>2. i \in Nat /\ 1 <= i /\ i <= argCount
        OBVIOUS
      <4>3. /\ Depth \in Nat /\ Base \in Nat /\ Len(stack) \in Nat
            /\ Len(stack) = Base + Depth - 1
        BY <1>1
      <4>4. m + i - 1 = Depth - argCount + i
        BY <4>1, <4>2, <4>3
      <4>5. Depth - argCount + i \in 1 .. Depth
        BY <4>2, <4>3
      <4>6. Base + (Depth - argCount + i) - 1 = Len(stack) - argCount + i
        BY <4>2, <4>3
      <4> QED
        BY <4>4, <4>5, <4>6
    <3>2. args[i] = cur[m + i - 1]
      BY <2>3, <2>4, <2>5
    <3>3. cur[m + i - 1] = stack[Base + (m + i - 1) - 1]
      BY <1>2, <3>1
    <3> QED
      BY <3>1, <3>2, <3>3
  <2> QED
    BY <2>3, <2>4, <2>6, <2>7
<1> HIDE DEF args, callee
<1>5. /\ params \in Seq(Data) /\ Len(params) = arity
      /\ \A i \in 1 .. arity :
           params[i] = IF i <= argCount THEN stack[Len(stack) - argCount + i] ELSE Nil
  <2>1. params = [i \in 1 .. arity |-> IF i <= argCount THEN args[i] ELSE Nil]
    BY <1>4 DEF Abstract!Parameters
  <2>2. \A i \in 1 .. arity : i <= argCount => args[i] \in Data
    BY <1>4, ElementOfSeq
  <2> HIDE DEF params
  <2>3. params \in [1 .. arity -> Data]
    BY <1>1, <2>1, <2>2
  <2>4. params \in Seq(Data) /\ Len(params) = arity
    BY <2>3, SeqDef, LenProperties
  <2> QED
    BY <1>4, <2>1, <2>4
<1> HIDE DEF params
<1>6. /\ v \in Seq(Data) /\ Len(v) = arity + 1 /\ v[1] = callee
      /\ \A i \in 2 .. arity + 1 : v[i] = params[i - 1]
  <2>1. <<callee>> \in Seq(Data) /\ Len(<<callee>>) = 1 /\ <<callee>>[1] = callee
    BY <1>3
  <2>2. /\ v \in Seq(Data) /\ Len(v) = 1 + arity
        /\ \A i \in 1 .. 1 + arity : v[i] = IF i <= 1 THEN <<callee>>[i] ELSE params[i - 1]
    BY <1>5, <2>1, ConcatProperties
  <2> HIDE DEF v
  <2> QED
    BY <2>1, <2>2
<1> HIDE DEF v
<1>7. window \in Frame /\ window.base = Len(stack) - argCount /\ window.depth = arity + 1
  BY <1>1 DEF Frame
<1> HIDE DEF window
<1>8. window.base + window.depth - 1 <= Len(t)
  BY <1>1, <1>7
<1>9. /\ VariablesOf(t, window) \in Seq(Data) /\ Len(VariablesOf(t, window)) = window.depth
      /\ \A i \in 1 .. window.depth : VariablesOf(t, window)[i] = t[window.base + i - 1]
  BY <1>7, <1>8, VariablesAreASequence
<1>10. \A i \in 1 .. arity + 1 : t[Len(stack) - argCount + i - 1] = v[i]
  <2> TAKE i \in 1 .. arity + 1
  <2>1. Len(stack) - argCount + i - 1 \in 1 .. Len(t)
    BY <1>1
  <2>2. CASE i = 1
    BY <1>1, <1>3, <1>6, <2>1, <2>2
  <2>3. CASE i # 1
    <3>1. i \in 2 .. arity + 1 /\ i - 1 \in 1 .. arity
          /\ Len(stack) - argCount + (i - 1) = Len(stack) - argCount + i - 1
          /\ (Len(stack) - argCount + i - 1 <= Len(stack) <=> i - 1 <= argCount)
      BY <1>1, <2>3
    <3> QED
      BY <1>5, <1>6, <2>1, <3>1
  <2> QED
    BY <2>2, <2>3
<1>11. VariablesOf(t, window) = v
  <2>1. Len(VariablesOf(t, window)) = arity + 1
    BY <1>7, <1>9
  <2>2. \A i \in 1 .. arity + 1 : VariablesOf(t, window)[i] = t[Len(stack) - argCount + i - 1]
    BY <1>7, <1>9
  <2>3. \A i \in 1 .. arity + 1 : VariablesOf(t, window)[i] = v[i]
    BY <1>10, <2>2
  <2>4. VariablesOf(t, window) \in Seq(Data) /\ v \in Seq(Data) /\ Len(v) = arity + 1
    BY <1>6, <1>9
  <2> QED
    BY <2>1, <2>3, <2>4, SeqEqual
<1> QED
  BY <1>11 DEF window, v, params, args, callee, cur

(* The caller without the callee and the arguments, and the callee above   *)
(* it.                                                                     *)
LEMMA EnterFrameImplements ==
  ASSUME NeverFull, IInv, Running, frame < FramesMax,
         NEW argCount \in Nat, NEW arity \in Nat, argCount <= arity,
         argCount <= Depth - 2, arity < MaxDepth, EnterFrame(argCount, arity)
  PROVE  LET cur == Abstract!Current
             callee == cur[Len(cur) - argCount]
             args == SubSeq(cur, Len(cur) - argCount + 1, Len(cur))
         IN ActivationsOnStack' =
              Append(Abstract!With(ActivationsOnStack, Abstract!Drop(cur, argCount + 1)),
                     <<callee>> \o Abstract!Parameters(args, arity))
<1> DEFINE a == ActivationsOnStack
           b == AllVariables(stack', frames')
           cur == Abstract!Current
           kept == Abstract!Drop(cur, argCount + 1)
           v == <<cur[Len(cur) - argCount]>>
                  \o Abstract!Parameters(SubSeq(cur, Len(cur) - argCount + 1, Len(cur)), arity)
           d == Abstract!With(a, kept)
           c == Append(d, v)
           lower == [base |-> Base, depth |-> Depth + (- argCount - 1)]
           upper == [base |-> Len(stack) - argCount, depth |-> arity + 1]
<1>1. /\ frame = Len(frames) /\ frame \in Nat \ {0} /\ Base \in Nat \ {0}
      /\ Depth \in Nat \ {0} /\ Base + Depth - 1 = Len(stack) /\ Len(stack) \in Nat
      /\ stack \in Seq(Data)
  BY RunningFrame DEF IInv
<1>2. /\ IInv' /\ stack' = stack \o Nils(arity - argCount)
      /\ frames' = Append(Deepened(- argCount - 1), upper)
  BY EnterFramePreserves
<1>3. /\ stack' \in Seq(Data) /\ Len(stack') = Len(stack) + arity - argCount
      /\ \A j \in 1 .. Len(stack') : stack'[j] = IF j <= Len(stack) THEN stack[j] ELSE Nil
  BY <1>2, CalleeFits
<1>4. /\ Len(frames') = frame + 1 /\ frames'[frame + 1] = upper /\ frames'[frame] = lower
      /\ \A k \in 1 .. frame - 1 : frames'[k] = frames[k]
  <2> DEFINE e == Deepened(- argCount - 1)
  <2>1. - argCount - 1 \in Int /\ Depth + (- argCount - 1) \in Nat \ {0}
    BY <1>1
  <2>2. /\ e \in Seq(Frame) /\ Len(e) = frame
        /\ \A k \in 1 .. frame : e[k] = IF k = frame THEN lower ELSE frames[k]
    BY <1>1, <2>1, FrameDeepens
  <2>3. upper \in Frame
    BY <1>1 DEF Frame
  <2> HIDE DEF e, upper, lower
  <2>4. /\ Len(Append(e, upper)) = Len(e) + 1 /\ Append(e, upper)[Len(e) + 1] = upper
        /\ \A k \in 1 .. Len(e) : Append(e, upper)[k] = e[k]
    BY <2>2, <2>3, AppendProperties
  <2>5. frames' = Append(e, upper)
    BY <1>2 DEF e
  <2>6. frame \in 1 .. frame /\ \A k \in 1 .. frame - 1 : k \in 1 .. frame /\ k # frame
    BY <1>1
  <2> QED
    BY <2>2, <2>4, <2>5, <2>6
<1>5. /\ cur \in Seq(Data) /\ Len(cur) = Depth
      /\ \A i \in 1 .. Depth : cur[i] = stack[Base + i - 1]
  BY CurrentIs
<1>6. /\ a \in Seq(Seq(Data)) /\ Len(a) = frame
      /\ \A k \in 1 .. frame : a[k] = VariablesOf(stack, frames[k])
  BY <1>1, StackIsInside, ActivationsAre, AllVariablesAreASequence
<1>7. VariablesOf(stack', upper) = v
  BY <1>3, CalleeVariables
<1>8. /\ b \in Seq(Seq(Data)) /\ Len(b) = frame + 1
      /\ \A k \in 1 .. frame + 1 : b[k] = VariablesOf(stack', frames'[k])
                                   /\ VariablesOf(stack', frames'[k]) \in Seq(Data)
  <2>1. Inside(stack', frames')
    BY <1>2, StackStaysInside
  <2>2. /\ b \in Seq(Seq(Data)) /\ Len(b) = Len(frames')
        /\ \A k \in 1 .. Len(frames') :
             /\ b[k] = VariablesOf(stack', frames'[k])
             /\ VariablesOf(stack', frames'[k]) \in Seq(Data)
    BY <2>1, AllVariablesAreASequence
  <2> QED
    BY <1>4, <2>2
<1> HIDE DEF a, b, cur, v, upper
<1>9. /\ kept \in Seq(Data) /\ Len(kept) = Depth - (argCount + 1)
      /\ \A i \in 1 .. Depth - (argCount + 1) : kept[i] = cur[i]
  <2>1. argCount + 1 \in Nat /\ argCount + 1 <= Len(cur)
    BY <1>1, <1>5
  <2> QED
    BY <1>5, <2>1, DroppedProperties
<1> HIDE DEF kept
<1>10. /\ d \in Seq(Seq(Data)) /\ Len(d) = frame
       /\ \A k \in 1 .. frame : d[k] = IF k = frame THEN kept ELSE a[k]
  <2>1. Len(a) > 0
    BY <1>1, <1>6
  <2> QED
    BY <1>6, <1>9, <2>1, WithProperties, ZenonT(30)
<1> HIDE DEF d
<1>11. v \in Seq(Data) /\ b[frame + 1] = v
  <2>1. frame + 1 \in 1 .. frame + 1
    BY <1>1
  <2> QED
    BY <1>4, <1>7, <1>8, <2>1
<1>12. /\ c \in Seq(Seq(Data)) /\ Len(c) = frame + 1 /\ c[frame + 1] = v
       /\ \A k \in 1 .. frame : c[k] = d[k]
  BY <1>10, <1>11, AppendProperties
<1> HIDE DEF c
<1>13. VariablesOf(stack', lower) = kept
  <2>1. /\ lower \in Frame /\ lower.base = Base
        /\ lower.depth = Depth - (argCount + 1)
    BY <1>1 DEF Frame
  <2> HIDE DEF lower
  <2>2. lower.base + lower.depth - 1 <= Len(stack')
    BY <1>1, <1>3, <2>1
  <2>3. /\ VariablesOf(stack', lower) \in Seq(Data)
        /\ Len(VariablesOf(stack', lower)) = lower.depth
        /\ \A i \in 1 .. lower.depth :
             VariablesOf(stack', lower)[i] = stack'[lower.base + i - 1]
    BY <1>3, <2>1, <2>2, VariablesAreASequence
  <2>4. /\ Len(VariablesOf(stack', lower)) = Depth - (argCount + 1)
        /\ \A i \in 1 .. Depth - (argCount + 1) :
             VariablesOf(stack', lower)[i] = stack'[Base + i - 1]
    BY <2>1, <2>3
  <2>5. \A i \in 1 .. Depth - (argCount + 1) : stack'[Base + i - 1] = kept[i]
    <3> TAKE i \in 1 .. Depth - (argCount + 1)
    <3>1. /\ i \in 1 .. Depth /\ Base + i - 1 \in 1 .. Len(stack')
          /\ Base + i - 1 <= Len(stack)
      BY <1>1, <1>3
    <3> QED
      BY <1>3, <1>5, <1>9, <3>1
  <2>6. \A i \in 1 .. Depth - (argCount + 1) : VariablesOf(stack', lower)[i] = kept[i]
    BY <2>4, <2>5
  <2> QED
    BY <1>9, <2>3, <2>4, <2>6, SeqEqual
<1> HIDE DEF lower
<1>14. \A k \in 1 .. frame + 1 : b[k] = c[k]
  <2> TAKE k \in 1 .. frame + 1
  <2>1. CASE k = frame + 1
    BY <1>11, <1>12, <2>1
  <2>2. CASE k = frame
    <3>1. frame \in 1 .. frame + 1 /\ frame \in 1 .. frame
      BY <1>1
    <3> QED
      BY <1>4, <1>8, <1>10, <1>12, <1>13, <2>2, <3>1
  <2>3. CASE k # frame + 1 /\ k # frame
    <3>1. k \in 1 .. frame - 1 /\ k \in 1 .. frame
      BY <1>1, <2>3
    <3>2. \A j \in 1 .. Base - 1 : stack'[j] = stack[j]
      <4>1. \A j \in 1 .. Base - 1 : j \in 1 .. Len(stack') /\ j <= Len(stack)
        BY <1>1, <1>3
      <4> QED
        BY <1>3, <4>1
    <3>3. VariablesOf(stack', frames'[k]) = VariablesOf(stack, frames[k])
      BY <1>4, <3>1, <3>2, LowerVariablesKept
    <3> QED
      BY <1>6, <1>8, <1>10, <1>12, <2>3, <3>1, <3>3
  <2> QED
    BY <2>1, <2>2, <2>3
<1>15. b = c
  BY <1>8, <1>12, <1>14, SeqEqual
<1> QED
  BY <1>15, ActivationsAre DEF a, b, c, d, kept, v, cur

(* What is left after an error, or after the script: nothing. *)
LEMMA NoActivations == frames' = <<>> => ActivationsOnStack' = <<>>
BY ActivationsAre DEF AllVariables

LEMMA CallClosureImplements ==
  ASSUME NeverFull, NoExtraArguments, IInv, CallClosure
  PROVE  Abstract!Call \/ Abstract!Fail
<1>1. PICK argCount \in ArgCount, arity \in Arity :
        /\ argCount <= Depth - 2 /\ arity < MaxDepth
        /\ IF Len(frames) = FramesMax THEN RuntimeError ELSE EnterFrame(argCount, arity)
  BY DEF CallClosure
<1>2. Running
  BY DEF CallClosure
<1>3. argCount \in Nat /\ arity \in Nat /\ argCount <= arity
  BY CallStackAssumption DEF NoExtraArguments
<1>4. CASE Len(frames) = FramesMax
  BY <1>1, <1>4, NoActivations DEF RuntimeError, Abstract!Fail
<1>5. CASE Len(frames) # FramesMax
  <2>1. /\ frame = Len(frames) /\ frame \in Nat /\ frame <= FramesMax /\ FramesMax \in Nat
        /\ Depth \in Nat
    BY <1>2, RunningFrame, CallStackAssumption DEF IInv
  <2>2. frame < FramesMax
    BY <1>5, <2>1
  <2>3. /\ ActivationsOnStack # <<>> /\ Len(ActivationsOnStack) < FramesMax
        /\ argCount \in 0 .. Len(Abstract!Current) - 2
    <3>1. Len(Abstract!Current) = Depth /\ Len(ActivationsOnStack) = frame
          /\ ActivationsOnStack # <<>>
      BY <1>2, CurrentIs
    <3>2. argCount \in 0 .. Depth - 2
      BY <1>1, <1>3, <2>1
    <3> QED
      BY <2>2, <3>1, <3>2
  <2>4. ActivationsOnStack' =
          Append(Abstract!With(ActivationsOnStack,
                               Abstract!Drop(Abstract!Current, argCount + 1)),
                 <<Abstract!Current[Len(Abstract!Current) - argCount]>>
                   \o Abstract!Parameters(SubSeq(Abstract!Current,
                                                 Len(Abstract!Current) - argCount + 1,
                                                 Len(Abstract!Current)), arity))
    BY <1>1, <1>2, <1>3, <1>5, <2>2, EnterFrameImplements
  <2> QED
    BY <2>3, <2>4 DEF Abstract!Call
<1> QED
  BY <1>4, <1>5

LEMMA InterpretImplements ==
  ASSUME IInv, Interpret
  PROVE  Abstract!Start
<1>1. PICK script \in Data : stack' = <<script>>
  BY DEF Interpret
<1>2. frame = 0 /\ frames' = <<[base |-> 1, depth |-> 1]>>
  BY DEF Interpret
<1>3. ActivationsOnStack = <<>>
  <2>1. Len(frames) = 0
    BY <1>2 DEF IInv
  <2> QED
    BY <2>1, ActivationsAre DEF AllVariables
<1>4. ActivationsOnStack' = << <<script>> >>
  <2>1. VariablesOf(stack', [base |-> 1, depth |-> 1]) = <<script>>
    BY <1>1 DEF VariablesOf
  <2>2. AllVariables(stack', frames') = << <<script>> >>
    BY <1>2, <2>1 DEF AllVariables
  <2> QED
    BY <2>2, ActivationsAre
<1> QED
  BY <1>3, <1>4 DEF Abstract!Start

LEMMA ReturnScriptImplements ==
  ASSUME IInv, ReturnScript
  PROVE  Abstract!Return
<1>1. Running /\ Depth = 2 /\ frame = 1 /\ frames' = <<>>
  BY DEF ReturnScript
<1>2. /\ Len(ActivationsOnStack) = 1 /\ ActivationsOnStack # <<>>
      /\ Len(Abstract!Current) = 2
  BY <1>1, CurrentIs
<1>3. ActivationsOnStack' = <<>>
  BY <1>1, NoActivations
<1> QED
  BY <1>2, <1>3 DEF Abstract!Return

-----------------------------------------------------------------------------
(* Every step of the machine is a step of the activations, or none: slot   *)
(* numbers mean the same variable to the compiler and at run time, in      *)
(* every program for which FramesMax activations fit on the stack and      *)
(* whose calls have no extra arguments.                                    *)
THEOREM WindowsImplementActivations ==
  ASSUME NeverFull, NoExtraArguments
  PROVE  Spec => ImplementsActivations
<1>1. Init => Abstract!Init
  BY DEF Init, ActivationsOnStack, Abstract!Init
<1>2. IInv /\ IInv' /\ [Next]_vars => [Abstract!Next]_(Abstract!vars)
  <2> SUFFICES ASSUME IInv, IInv', [Next]_vars
               PROVE  Abstract!Next \/ UNCHANGED ActivationsOnStack
    BY DEF Abstract!vars
  <2>1. CASE Interpret
    BY <2>1, InterpretImplements DEF Abstract!Next
  <2>2. CASE PushValue
    BY <2>2, PushValueImplements DEF Abstract!Next
  <2>3. CASE GetLocal
    BY <2>3, GetLocalImplements DEF Abstract!Next
  <2>4. CASE SetLocal
    BY <2>4, SetLocalImplements DEF Abstract!Next
  <2>5. CASE PopValue
    BY <2>5, PopValueImplements DEF Abstract!Next
  <2>6. CASE CallClosure
    BY <2>6, CallClosureImplements DEF Abstract!Next
  <2>7. CASE CallNative
    BY <2>7, CallNativeImplements DEF Abstract!Next
  <2>8. CASE Return
    BY <2>8, ReturnImplements DEF Abstract!Next
  <2>9. CASE ReturnScript
    BY <2>9, ReturnScriptImplements DEF Abstract!Next
  <2>10. CASE Fail
    BY <2>10, NoActivations DEF Fail, RuntimeError, Abstract!Fail, Abstract!Next
  <2>11. CASE UNCHANGED vars
    <3>1. stack' = stack /\ frames' = frames
      BY <2>11 DEF vars
    <3>2. AllVariables(stack', frames') = AllVariables(stack, frames)
      BY <3>1
    <3> QED
      BY <3>2, ActivationsAre
  <2> QED
    BY <2>1, <2>2, <2>3, <2>4, <2>5, <2>6, <2>7, <2>8, <2>9, <2>10, <2>11 DEF Next
<1> QED
  BY WindowsInvariant, <1>1, <1>2, PTL DEF Spec, ImplementsActivations, Abstract!Spec

-----------------------------------------------------------------------------
(* The composition.                                                        *)

(* The upvalues of the composition run as those of the module do. *)
LEMMA UpvaluesRun == PartSpec => U!Spec
<1>1. PartInit => U!Init
  BY DEF PartInit
<1>2. [PartNext]_<<part, vars, shared>> => [U!Next]_(U!vars)
  BY DEF PartNext, U!vars, shared
<1> QED BY <1>1, <1>2, PTL DEF PartSpec, U!Spec

(* vm.openUpvalues holds the open upvalues, the highest slot first and no   *)
(* two for one slot, and they point into the stack (captureUpvalue,         *)
(* closeUpvalues).                                                          *)
THEOREM StackOpenSorted == PartSpec => []OpenSorted
<1>1. U!UpvaluesAssumption
  BY NamesAssumption
<1>2. U!Spec => []U!OpenSorted
  BY <1>1, U!OpenUpvaluesAreSorted
<1>3. U!OpenSorted => OpenSorted
  BY DEF OpenSorted
<1> QED BY <1>2, <1>3, UpvaluesRun, PTL

(* A local and the closures that captured it are one variable, as long as   *)
(* any of them lives.                                                       *)
THEOREM StackShares == PartSpec => ImplementsSharing
<1>1. U!UpvaluesAssumption
  BY NamesAssumption
<1>2. U!Spec => U!ImplementsSharing
  BY <1>1, U!UpvaluesShareVariables
<1> QED BY <1>2, UpvaluesRun, PTL DEF ImplementsSharing
=============================================================================
