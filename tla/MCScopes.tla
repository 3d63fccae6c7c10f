------------------------------- MODULE MCScopes ------------------------------
(* Families of functions for Scopes. *)
EXTENDS Scopes

(* Locals captured before or after a jump that leaves their block. *)
Captures ==
  [statements |-> {"VAR", "FUN", "IF", "FOR", "BREAK", "CONTINUE"},
   conditions |-> {"tested"},
   maxCode |-> 6, localMax |-> 4, maxNesting |-> 2, maxTurns |-> 2]

(* Every statement, with conditions the compiler knows. *)
Mixtures ==
  [statements |-> {"VAR", "FUN", "BLOCK", "IF", "ELSE", "DO", "WHILE",
                   "BREAK", "CONTINUE", "RETURN"},
   conditions |-> {"tested", "false", "true"},
   maxCode |-> 3, localMax |-> 3, maxNesting |-> 2, maxTurns |-> 2]

(* Loops in loops in loops. *)
NestedLoops ==
  [statements |-> {"IF", "ELSE", "WHILE", "DO", "FOR", "BREAK", "CONTINUE"},
   conditions |-> {"tested"},
   maxCode |-> 5, localMax |-> 2, maxNesting |-> 3, maxTurns |-> 2]

AllFamilies == {Captures, Mixtures, NestedLoops}

=============================================================================
