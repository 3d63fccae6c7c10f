------------------------------- MODULE Fields -------------------------------
(***************************************************************************)
(* The tables of instances (fields) and classes (methods), used as the     *)
(* instructions of src/vm.c use them.  Owners are anonymous: a class is an *)
(* owner to which tableAddAll copies before anything else is stored.       *)
(***************************************************************************)
EXTENDS Table

CONSTANTS
  Owner,        (* Instances and classes.                                 *)
  Programs      (* Which names each owner is used with, for every program.*)

Absent == "absent"

FieldsAssumption ==
  /\ TableAssumption /\ IsFiniteSet(Key) /\ Absent \notin Value
  /\ Programs \subseteq [Owner -> SUBSET Key]

VARIABLES
  program,      (* The program that is executed.                          *)
  tables,       (* instance->fields, klass->methods.                      *)
  answer        (* The last instruction: what it was, on which property,  *)
                (* and the value it found or stored.                      *)

vars == <<program, tables, answer>>

(* newInstance, newClass *)
Init ==
  /\ program \in Programs
  /\ tables = [o \in Owner |-> EmptyTable]
  /\ answer = <<>>

GetProperty(o, k) ==
  /\ answer' = <<"lookup", o, k,
                 IF TableHas(tables[o], k) THEN TableGet(tables[o], k) ELSE Absent>>
  /\ UNCHANGED <<program, tables>>

(* OP_SET_PROPERTY, OP_SET_PROPERTY_POP, OP_SET_SUBSCRIPT *)
SetProperty(o, k, value) ==
  /\ tables' = [tables EXCEPT ![o] =
       IF value = Nil THEN TableDelete(@, k) ELSE TableSet(@, k, value)]
  /\ answer' = <<"assign", o, k, value>>
  /\ UNCHANGED program

(* OP_NEW_PROPERTY, OP_METHOD *)
NewProperty(o, k, value) ==
  /\ tables' = [tables EXCEPT ![o] = TableSet(@, k, value)]
  /\ answer' = <<"initialise", o, k, value>>
  /\ UNCHANGED program

(* OP_INHERIT: a subclass has the names of its superclass. *)
Inherit(super, sub) ==
  /\ super # sub /\ tables[sub] = EmptyTable
  /\ program[super] \subseteq program[sub]
  /\ tables' = [tables EXCEPT ![sub] = TableAddAll(tables[super], @)]
  /\ answer' = <<"copy", super, sub>>
  /\ UNCHANGED program

Next ==
  \/ \E o \in Owner : \E k \in program[o] :
       \/ GetProperty(o, k)
       \/ \E value \in Value : SetProperty(o, k, value) \/ NewProperty(o, k, value)
  \/ \E super, sub \in Owner : Inherit(super, sub)

Spec == Init /\ [][Next]_vars

-----------------------------------------------------------------------------
(* Every table is well formed: searches end and find what is stored.       *)
TablesOK == \A o \in Owner : IsTable(tables[o])

(* Keys set and deleted again and again do not make a table grow: it never *)
(* uses more slots than there are different keys.                          *)
TombstonesAreReused ==
  \A o \in Owner : tables[o].count <= Cardinality(Key)

(* The tables implement the dictionaries of the language: an instruction   *)
(* reads or writes the property it names.                                  *)
Contents(table) ==
  [k \in Key |-> IF Slots(table, k) = {} THEN Absent
                 ELSE table.entries[CHOOSE i \in Slots(table, k) : TRUE].value]
D == INSTANCE Dictionary WITH contents <- [o \in Owner |-> Contents(tables[o])]
ImplementsDictionary == D!Spec

=============================================================================
