--------------------------- MODULE SharedVariables --------------------------
(***************************************************************************)
(* Captured variables as the language promises them.  A variable belongs   *)
(* to the block that declares it and to the closures that capture it; they *)
(* all read and assign the one variable, which lives as long as any of     *)
(* them does.                                                              *)
(***************************************************************************)
EXTENDS Naturals, Sequences

CONSTANTS Variable, Data, Nothing

VARIABLES
  values,       (* values[x]: the value of the variable x, while in use.  *)
  scope,        (* The variables in scope, the innermost last.            *)
  held,         (* held[c]: the variable that the closure c captured.     *)
  read          (* What was read last.                                    *)

vars == <<values, scope, held, read>>

Members(seq) == {seq[i] : i \in DOMAIN seq}

Init == values = <<>> /\ scope = <<>> /\ held = <<>> /\ read = Nothing

Declare ==
  \E x \in Variable \ DOMAIN values, v \in Data :
    /\ scope' = Append(scope, x)
    /\ values' = [y \in DOMAIN values \cup {x} |-> IF y = x THEN v ELSE values[y]]
    /\ UNCHANGED <<held, read>>

Capture ==
  /\ \E x \in DOMAIN values : held' = Append(held, x)
  /\ UNCHANGED <<values, scope, read>>

Assign ==
  /\ \E x \in DOMAIN values, v \in Data : values' = [values EXCEPT ![x] = v]
  /\ UNCHANGED <<scope, held, read>>

Read ==
  /\ \E x \in DOMAIN values : read' = values[x]
  /\ UNCHANGED <<values, scope, held>>

(* The end of a block, of a function or of the program. *)
Leave ==
  \E n \in 0 .. Len(scope) :
    /\ scope' = SubSeq(scope, 1, n)
    /\ values' = [y \in Members(SubSeq(scope, 1, n)) \cup Members(held) |-> values[y]]
    /\ UNCHANGED <<held, read>>

Next == Declare \/ Capture \/ Assign \/ Read \/ Leave

Spec == Init /\ [][Next]_vars

=============================================================================
