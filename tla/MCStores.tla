------------------------------- MODULE MCStores ------------------------------
(***************************************************************************)
(* Instances of what holds data: the tables of properties, the global      *)
(* variables, the pools of constants, the slab and bump arenas and the     *)
(* line table.  They share nothing, so they are not run together: part is  *)
(* the one that runs in a behaviour.                                       *)
(***************************************************************************)
EXTENDS Pools

CONSTANTS
  Page, CommitChunk, StackSize, StringSize, Length,   (* BumpArena *)
  MaxLine, MaxBytes, MaxFallback                      (* LineArray *)

VARIABLES
  part,
  program, tables, found,                       (* Fields *)
  globals, symbol, read,                        (* Globals *)
  segment, live,                                (* SlabArena *)
  stackTop, stackBoundary, stackCommit, stackWritten, overflowed,
  stringCommit, stringTop, exited,              (* BumpArena *)
  ranges, source, line, removed                 (* LineArray *)

fields == <<program, tables, found>>
variables == <<globals, symbol, read>>
slab == <<segment, live>>
bump == <<stackTop, stackBoundary, stackCommit, stackWritten, overflowed,
          stringCommit, stringTop, exited>>
lines == <<ranges, source, line, removed>>

-----------------------------------------------------------------------------
(* Keys that share a home, are neighbours or wrap around the array. *)
Keys == {"a", "b", "c", "d", "e"}
SmallHash ==
  [k \in Keys |-> CASE k = "a" -> 3 [] k = "b" -> 7 [] k = "c" -> 0
                    [] k = "d" -> 4 [] OTHER -> 1]

(* One table of many names, or two classes with two methods. *)
SmallPrograms ==
  {[super |-> Keys, sub |-> {}], [super |-> {"a", "b"}, sub |-> {"a", "b"}]}

Names == {"clock", "a", "b", "c"}
NamesHash ==
  [k \in Names |-> CASE k = "clock" -> 7 [] k = "a" -> 3 [] k = "b" -> 2 [] OTHER -> 7]

(* TableTheorems has the machines of Fields and Globals: the first instance *)
(* is there for the tables of properties, the second one for the globals.   *)
F == INSTANCE TableTheorems WITH
  answer <- found, Owner <- {"super", "sub"}, Programs <- SmallPrograms,
  Key <- Keys, NoKey <- "none", Value <- {"nil", "true"}, Nil <- "nil",
  True <- "true", Hash <- SmallHash, MinCapacity <- 2,
  Clock <- "a", Native <- "true"

G == INSTANCE TableTheorems WITH
  answer <- found, Owner <- {}, Programs <- {},
  Key <- Names, NoKey <- "none", Value <- {"nil", "true"}, Nil <- "nil",
  True <- "true", Hash <- NamesHash, MinCapacity <- 4,
  Clock <- "clock", Native <- "true"

(* Strings of one letter: a string of three can be joined in two ways. *)
SmallNumberHash == <<1, 3, 3>>
SmallLiterals == {<<1>>, <<1, 1, 1>>}

(* Three arenas of two classes: two slots of 4 bytes behind a header of two *)
(* slots, or two of 5 bytes behind a header of one.                         *)
S == INSTANCE SlabProofs WITH
  Class <- {4, 5}, ArenaSize <- 16, HeaderSize <- 5, MaxArenas <- 3,
  ClassSpareKeep <- 1, TrimPoolMaxResident <- 1

B == INSTANCE BumpArena

L == INSTANCE LineArray

ASSUME InstancesAssumption ==
  /\ F!FieldsAssumption /\ G!GlobalsAssumption /\ PoolsAssumption
  /\ S!SlabAssumption /\ B!BumpAssumption /\ L!LineAssumption

-----------------------------------------------------------------------------
PartInit ==
  /\ part \in {"fields", "globals", "pools", "slab", "bump", "lines"}
  /\ F!Init /\ G!InitGlobals /\ Init /\ S!Init /\ B!Init /\ L!Init
  /\ part # "fields" => program = CHOOSE p \in SmallPrograms : TRUE

PartNext ==
  \/ part = "fields" /\ F!Next
     /\ UNCHANGED <<part, variables, vars, slab, bump, lines>>
  \/ part = "globals" /\ G!NextGlobal
     /\ UNCHANGED <<part, fields, vars, slab, bump, lines>>
  \/ part = "pools" /\ Next
     /\ UNCHANGED <<part, fields, variables, slab, bump, lines>>
  \/ part = "slab" /\ S!Next
     /\ UNCHANGED <<part, fields, variables, vars, bump, lines>>
  \/ part = "bump" /\ B!Next
     /\ UNCHANGED <<part, fields, variables, vars, slab, lines>>
  \/ part = "lines" /\ L!Next
     /\ UNCHANGED <<part, fields, variables, vars, slab, bump>>

PartSpec ==
  PartInit /\ [][PartNext]_<<part, fields, variables, vars, slab, bump, lines>>

-----------------------------------------------------------------------------
(* The properties of the instances, when they run.  Those of Pools are      *)
(* StringsAreInterned and ImplementsConstantTable: they hold of what it is  *)
(* at the start in the other parts.                                         *)

(* A search ends, and at the key if it is there (findEntry). *)
TablesOK == part = "fields" => F!TablesOK
(* A deleted slot is used again before the array grows (tableSet). *)
TombstonesAreReused == part = "fields" => F!TombstonesAreReused
(* Properties are a dictionary (tableGet, tableSet, tableDelete). *)
ImplementsDictionary == F!ImplementsDictionary
(* The globals are a table, and a cached index names a slot of it. *)
GlobalsOK == part = "globals" => G!GlobalsOK
(* Globals are variables, whatever a name caches (OP_GET_GLOBAL). *)
ImplementsVariables == G!ImplementsVariables
(* No arena is lost or in two lists (smallLayerFree, arenaSlab_trim). *)
EveryArenaHasItsPlace == part = "slab" => S!EveryArenaHasItsPlace
(* smallLayerAlloc refuses only when no slot is left. *)
RefusedOnlyWhenFull == part = "slab" => S!RefusedOnlyWhenFull
(* Slots in use do not overlap, whatever class an arena had before. *)
ImplementsAllocator == S!ImplementsAllocator
(* What is written is committed (stack_push, allocateObject). *)
WritesAreCommitted == part = "bump" => B!WritesAreCommitted
(* Only the last slot is the end of the stack (stack_push). *)
OverflowIsReal == B!OverflowIsReal
(* getLine finds the line a byte was written for. *)
LinesAreRight == part = "lines" => L!LinesAreRight
=============================================================================
