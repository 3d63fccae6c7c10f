---------------------------- MODULE ConstantTable ----------------------------
(***************************************************************************)
(* What the compiler relies on when it asks for a constant: vm.constants   *)
(* only grows, a number or a string is in it at most once, and the index   *)
(* it is given is where the constant it asked for is.                      *)
(***************************************************************************)
EXTENDS Naturals, Sequences

CONSTANTS
  Constant,     (* Numbers and strings.                                   *)
  Function,     (* What stands for any function.                          *)
  MaxIndex,     (* The largest index an instruction can hold.             *)
  NoIndex, TooMany

VARIABLES
  constants,
  answer        (* The constant that was asked for last and the index that *)
                (* was given, or TooMany.                                 *)

vars == <<constants, answer>>

Init == constants = <<>> /\ answer = <<Function, NoIndex>>

Indexed(index) == IF index <= MaxIndex THEN index ELSE TooMany
Added(value) ==
  /\ answer' = <<value, Indexed(Len(constants))>>
  /\ constants' = Append(constants, value)

Known(value) ==
  \E i \in DOMAIN constants :
    /\ constants[i] = value
    /\ answer' = <<value, Indexed(i - 1)>>
    /\ UNCHANGED constants

MakeConstant(value) ==
  IF \E i \in DOMAIN constants : constants[i] = value
    THEN Known(value) ELSE Added(value)

Next == Added(Function) \/ \E value \in Constant : MakeConstant(value)

Spec == Init /\ [][Next]_vars

=============================================================================
