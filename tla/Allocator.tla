----------------------------- MODULE Allocator ------------------------------
(***************************************************************************)
(* What the program expects of the memory it is given: a block belongs to  *)
(* whoever asked for it until it is given back, and no other overlaps it.  *)
(***************************************************************************)
EXTENDS Integers

CONSTANTS
  Byte,         (* Addresses, an interval.                                *)
  Size          (* The sizes that are asked for.                          *)

VARIABLE blocks (* What is in use: the first byte and the last of each.   *)
vars == blocks

Overlap(b, c) == b.first <= c.last /\ c.first <= b.last

Init == blocks = {}

(* It may fail, and leaves everything as it is then.                       *)
Allocate ==
  \E first \in Byte, size \in Size :
    LET block == [first |-> first, last |-> first + size - 1]
    IN /\ block.last \in Byte
       /\ \A b \in blocks : ~Overlap(block, b)
       /\ blocks' = blocks \cup {block}

Free == \E b \in blocks : blocks' = blocks \ {b}

Next == Free \/ Allocate

Spec == Init /\ [][Next]_vars

=============================================================================
