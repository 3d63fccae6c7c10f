----------------------------- MODULE Variables ------------------------------
(***************************************************************************)
(* Global variables as the language promises them: a definition creates or *)
(* replaces a variable, an assignment to an undefined one is an error and  *)
(* leaves it undefined.                                                    *)
(***************************************************************************)
CONSTANTS Key, Value, Clock, Native

VARIABLES
  values,       (* values[n]: the value of the variable n, or Undefined.  *)
  answer        (* The last instruction: what it was, on which variable,  *)
                (* and the value it read or wrote, or "error".            *)

Undefined == "undefined"
vars == <<values, answer>>

Init ==
  /\ values = [n \in Key |-> IF n = Clock THEN Native ELSE Undefined]
  /\ answer = <<"define", Clock, Native>>

Define(n, value) ==
  /\ answer' = <<"define", n, value>>
  /\ values' = [values EXCEPT ![n] = value]

Get(n) ==
  /\ answer' = <<"get", n, IF values[n] = Undefined THEN "error" ELSE values[n]>>
  /\ UNCHANGED values

Set(n, value) ==
  /\ answer' = <<"set", n, value>>
  /\ values[n] # Undefined
  /\ values' = [values EXCEPT ![n] = value]

SetUndefined(n) ==
  /\ answer' = <<"set", n, "error">>
  /\ values[n] = Undefined
  /\ UNCHANGED values

Next ==
  \E n \in Key :
    \/ Get(n)
    \/ SetUndefined(n)
    \/ \E value \in Value : Define(n, value) \/ Set(n, value)

Spec == Init /\ [][Next]_vars

=============================================================================
