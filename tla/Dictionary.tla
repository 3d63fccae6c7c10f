----------------------------- MODULE Dictionary -----------------------------
(***************************************************************************)
(* What instances and classes promise their users: each owner maps names   *)
(* to values, a property that is assigned nil disappears, a subclass       *)
(* starts with the entries of its superclass.                              *)
(***************************************************************************)
CONSTANTS Owner, Key, Value, Nil

VARIABLES
  contents,     (* contents[o][k]: the value, or Absent.                  *)
  answer        (* The last instruction: what it was, on which property,  *)
                (* and the value it found or stored.                      *)

Absent == "absent"
vars == <<contents, answer>>

Init ==
  /\ contents = [o \in Owner |-> [k \in Key |-> Absent]]
  /\ answer = <<>>

Lookup(o, k, value) ==
  /\ answer' = <<"lookup", o, k, value>>
  /\ contents[o][k] = value
  /\ UNCHANGED contents

Assign(o, k, value) ==
  /\ answer' = <<"assign", o, k, value>>
  /\ contents' = [contents EXCEPT ![o][k] = IF value = Nil THEN Absent ELSE value]

(* A literal may hold nil. *)
Initialise(o, k, value) ==
  /\ answer' = <<"initialise", o, k, value>>
  /\ contents' = [contents EXCEPT ![o][k] = value]

CopyAll(from, to) ==
  /\ answer' = <<"copy", from, to>>
  /\ contents' = [contents EXCEPT ![to] =
       [k \in Key |-> IF contents[from][k] = Absent THEN @[k]
                      ELSE contents[from][k]]]

Next ==
  \/ \E o \in Owner, k \in Key :
       \/ \E value \in Value \cup {Absent} : Lookup(o, k, value)
       \/ \E value \in Value : Assign(o, k, value) \/ Initialise(o, k, value)
  \/ \E from, to \in Owner : CopyAll(from, to)

Spec == Init /\ [][Next]_vars

=============================================================================
