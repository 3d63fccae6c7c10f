---------------------------- MODULE Activations -----------------------------
(***************************************************************************)
(* Calls as the language promises them.  Every activation has variables of *)
(* its own: the callee (or this), the parameters and whatever the function *)
(* declares or computes, in the order in which the compiler numbers them.  *)
(***************************************************************************)
EXTENDS Naturals, Sequences

CONSTANTS Data, Nil, FramesMax, Arity

VARIABLE activations
vars == activations

Current == activations[Len(activations)]
Drop(s, n) == SubSeq(s, 1, Len(s) - n)
With(s, activation) == Append(Drop(s, 1), activation)

Init == activations = <<>>

Start == activations = <<>> /\ \E f \in Data : activations' = << <<f>> >>

(* Values come from the program, from a variable or from an operation. *)
Push ==
  /\ activations # <<>>
  /\ \E value \in Data : activations' = With(activations, Append(Current, value))

Read ==
  /\ activations # <<>>
  /\ \E i \in 1 .. Len(Current) :
       activations' = With(activations, Append(Current, Current[i]))

Write ==
  /\ activations # <<>>
  /\ \E i \in 2 .. Len(Current) :
       activations' = With(activations,
                           [Current EXCEPT ![i] = Current[Len(Current)]])

Discard ==
  /\ activations # <<>> /\ Len(Current) > 1
  /\ activations' = With(activations, Drop(Current, 1))

(* A missing argument is nil, an extra one is ignored. *)
Parameters(args, arity) ==
  [i \in 1 .. arity |-> IF i <= Len(args) THEN args[i] ELSE Nil]

Call ==
  /\ activations # <<>> /\ Len(activations) < FramesMax
  /\ \E argCount \in 0 .. Len(Current) - 2, arity \in Arity :
       LET callee == Current[Len(Current) - argCount]
           args == SubSeq(Current, Len(Current) - argCount + 1, Len(Current))
       IN activations' = Append(With(activations, Drop(Current, argCount + 1)),
                                <<callee>> \o Parameters(args, arity))

CallNative ==
  /\ activations # <<>>
  /\ \E argCount \in 0 .. Len(Current) - 2, result \in Data :
       activations' =
         With(activations, Append(Drop(Current, argCount + 1), result))

Return ==
  /\ activations # <<>> /\ Len(Current) > 1
  /\ activations' =
       IF Len(activations) = 1 THEN <<>>
       ELSE LET caller == activations[Len(activations) - 1]
            IN With(Drop(activations, 1), Append(caller, Current[Len(Current)]))

Fail == activations' = <<>>

Next == \/ Start \/ Push \/ Read \/ Write \/ Discard
        \/ Call \/ CallNative \/ Return \/ Fail

Spec == Init /\ [][Next]_vars

=============================================================================
