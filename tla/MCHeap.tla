------------------------------- MODULE MCHeap -------------------------------
(***************************************************************************)
(* Model-checking instances of Heap.  A run is a program that uses some of *)
(* the instructions in any order.  Object slots are interchangeable.       *)
(***************************************************************************)
EXTENDS HeapInvariant, TLC

Symmetry == Permutations(Obj)

(* Closures and the locals they share; methods that call the methods of a  *)
(* superclass, which only a captured variable holds.  Six objects: closures, *)
(* an upvalue, two classes, and one more.                                  *)
ClosureOpcodes ==
  {"OP_CLASS", "OP_CLOSURE", "OP_METHOD", "OP_CALL", "OP_GET_SUPER",
   "OP_SUPER_INVOKE", "OP_CLOSE_UPVALUE", "OP_RETURN"}

(* Classes that inherit, instances with initializers, methods bound and    *)
(* invoked.  Five objects: the script, two classes, a method, an instance. *)
ClassOpcodes ==
  {"OP_CLASS", "OP_CLOSURE", "OP_METHOD", "OP_INHERIT", "OP_CALL",
   "OP_GET_LOCAL", "OP_GET_PROPERTY", "OP_INVOKE"}

(* Fields, globals and upvalues: stores that may grow a table, and cycles. *)
TableOpcodes ==
  {"OP_NEW_OBJECT", "OP_NEW_PROPERTY", "OP_SET_PROPERTY",
   "OP_SET_PROPERTY_POP", "OP_GET_PROPERTY", "OP_DEFINE_GLOBAL",
   "OP_GET_GLOBAL", "OP_SET_GLOBAL", "OP_NIL", "OP_SET_LOCAL", "OP_INVOKE",
   "OP_CLOSURE", "OP_CALL", "OP_GET_UPVALUE", "OP_SET_UPVALUE", "OP_POP"}
=============================================================================
