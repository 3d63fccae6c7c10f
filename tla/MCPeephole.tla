------------------------------ MODULE MCPeephole -----------------------------
(***************************************************************************)
(* Families of small programs for Peephole.                                *)
(***************************************************************************)
EXTENDS Peephole

Number == {Num(1), Num(2)}

(* Known operands, folded once or twice. *)
Folded ==
  [constructs |-> {"NIL", "GET_GLOBAL", "SUBTRACT", "EQUAL", "NOT", "NEGATE"},
   constants |-> {Num(1)}, locals |-> 0,
   localValues |-> {Nil}, globalValues |-> Number \cup {NaN, Nil},
   maxTemporaries |-> 3, maxCode |-> 10]

(* Operands of any type. *)
Mixed ==
  [constructs |-> {"FALSE", "GET_LOCAL", "GET_GLOBAL", "ADD", "NOT_EQUAL", "GREATER"},
   constants |-> {Num(1), Str(1)}, locals |-> 1,
   localValues |-> {Num(2), Str(2), Nil}, globalValues |-> {Num(2), Str(2), Nil},
   maxTemporaries |-> 3, maxCode |-> 10]

(* Stores whose value is dropped. *)
Stored ==
  [constructs |-> {"GET_LOCAL", "GET_GLOBAL", "SET_LOCAL", "SET_PROPERTY",
                   "SUBTRACT", "VAR", "PRINT", "POP"},
   constants |-> {Num(1)}, locals |-> 2,
   localValues |-> {Num(1), Object, Nil}, globalValues |-> {Num(2), Object, Nil},
   maxTemporaries |-> 2, maxCode |-> 9]

(* Subscripts, whose index may be a constant or folded to one. *)
Subscripts ==
  [constructs |-> {"GET_LOCAL", "ADD", "NOT", "SUBSCRIPT", "SET_SUBSCRIPT", "POP"},
   constants |-> {Num(0), Str(1)}, locals |-> 1,
   localValues |-> {Num(0), Str(1), Object, Nil}, globalValues |-> {Nil},
   maxTemporaries |-> 3, maxCode |-> 12]

(* Comparisons merged with the jump of an if. *)
Branching ==
  [constructs |-> {"NIL", "GET_LOCAL", "LESS", "GREATER_EQUAL", "EQUAL", "IF", "PRINT"},
   constants |-> {Num(1)}, locals |-> 2,
   localValues |-> Number \cup {NaN, Nil}, globalValues |-> {Nil},
   maxTemporaries |-> 2, maxCode |-> 11]

(* Short circuits, and what is merged behind them, subscripts too. *)
Logical ==
  [constructs |-> {"GET_LOCAL", "GET_GLOBAL", "SUBTRACT", "NOT", "SUBSCRIPT",
                   "SET_LOCAL", "AND", "OR", "POP"},
   constants |-> {Num(1)}, locals |-> 2,
   localValues |-> {Num(1), Str(12), Nil}, globalValues |-> {Num(1), Str(12), Nil},
   maxTemporaries |-> 2, maxCode |-> 9]

AllFamilies == {Folded, Mixed, Stored, Subscripts, Branching, Logical}

(* A not, or a subscript, behind an and or an or. *)
NotBehind ==
  [constructs |-> {"GET_LOCAL", "NOT", "AND", "PRINT"},
   constants |-> {Num(1)}, locals |-> 2,
   localValues |-> Number \cup {Nil}, globalValues |-> {Nil},
   maxTemporaries |-> 2, maxCode |-> 10]

SubscriptBehind ==
  [constructs |-> {"GET_LOCAL", "SUBSCRIPT", "AND", "OR", "PRINT"},
   constants |-> {Num(1)}, locals |-> 2,
   localValues |-> {Num(0), Str(12), Nil}, globalValues |-> {Nil},
   maxTemporaries |-> 2, maxCode |-> 13]

OneAnd == {NotBehind, SubscriptBehind}

=============================================================================
