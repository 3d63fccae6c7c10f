------------------------------ MODULE Globals -------------------------------
(***************************************************************************)
(* The table of global variables and the cache in front of it: every key   *)
(* remembers in symbol the index at which its last search ended, and the   *)
(* instructions of src/vm.c look there before they search.                 *)
(***************************************************************************)
EXTENDS Integers, Table

CONSTANTS
  Clock, Native (* A native function and its name, defined by vm_init.    *)

Undefined == "undefined"

GlobalsAssumption ==
  /\ TableAssumption /\ Undefined \notin Value
  /\ Clock \in Key /\ Native \in Value

VARIABLES
  globals,      (* vm.globals.fields.                                     *)
  symbol,       (* key->symbol.                                           *)
  read          (* The last instruction: what it was, on which name, and  *)
                (* the value it read or wrote, or "error".                *)

globalVars == <<globals, symbol, read>>

(* INVALID_OBJ_STRING_SYMBOL: no index. *)
Invalid == -1

-----------------------------------------------------------------------------
(* What findEntry writes in key->symbol, as it searches for one key and as *)
(* the keys move to a larger array.                                        *)

SymbolsAfter(table, k) ==
  LET grown == Grown(table)
      moved == IF MustGrow(table) THEN {table.entries[i].key : i \in Used(table)}
               ELSE {}
  IN [n \in Key |-> IF n \in moved \cup {k}
                      THEN SearchEnd(grown.entries, grown.capacity, n)
                      ELSE symbol[n]]

SymbolsAfterSearch(table, k) ==
  IF table.count = 0 THEN symbol
  ELSE [symbol EXCEPT ![k] = SearchEnd(table.entries, table.capacity, k)]

(* Mutant: the slot is not compared with the key, if it is in use. *)
CachedAnyway(n) == symbol[n] # Invalid /\ globals.entries[symbol[n]].key # NoKey

Cached(n) == symbol[n] # Invalid /\ globals.entries[symbol[n]].key = n

-----------------------------------------------------------------------------
(* The instructions. *)

InitGlobals ==
  /\ globals = TableSet(EmptyTable, Clock, Native)
  /\ symbol = [n \in Key |-> IF n = Clock THEN Hash[n] % MinCapacity ELSE Invalid]
  /\ read = <<"define", Clock, Native>>

DefineGlobal(n, value) ==
  /\ globals' = TableSet(globals, n, value)
  /\ symbol' = SymbolsAfter(globals, n)
  /\ read' = <<"define", n, value>>

GetCached(n) ==
  /\ Cached(n)
  /\ read' = <<"get", n, globals.entries[symbol[n]].value>>
  /\ UNCHANGED <<globals, symbol>>

GetGlobal(n) ==
  /\ ~Cached(n)
  /\ symbol' = SymbolsAfterSearch(globals, n)
  /\ read' = <<"get", n, IF TableHas(globals, n) THEN TableGet(globals, n) ELSE "error">>
  /\ UNCHANGED globals

SetCached(n, value) ==
  /\ Cached(n)
  /\ globals' = [globals EXCEPT !.entries[symbol[n]].value = value]
  /\ read' = <<"set", n, value>>
  /\ UNCHANGED symbol

SetGlobal(n, value) ==
  /\ ~Cached(n) /\ ~IsNewKey(globals, n)
  /\ globals' = TableSet(globals, n, value)
  /\ symbol' = SymbolsAfter(globals, n)
  /\ read' = <<"set", n, value>>

(* Mutant: the slot is cleared instead of being made a tombstone. *)
SetUndefinedCleared(n, value) ==
  /\ ~Cached(n) /\ IsNewKey(globals, n)
  /\ globals' = LET set == TableSet(globals, n, value)
                IN [set EXCEPT !.entries[Place(set, n)] = EmptySlot]
  /\ symbol' = [SymbolsAfter(globals, n) EXCEPT
                  ![n] = Place(TableSet(globals, n, value), n)]
  /\ read' = <<"set", n, "error">>

(* The variable does not exist: it is stored, then deleted again. *)
SetUndefined(n, value) ==
  /\ ~Cached(n) /\ IsNewKey(globals, n)
  /\ globals' = TableDelete(TableSet(globals, n, value), n)
  /\ symbol' = [SymbolsAfter(globals, n) EXCEPT
                  ![n] = Place(TableSet(globals, n, value), n)]
  /\ read' = <<"set", n, "error">>

NextGlobal ==
  \E n \in Key :
    \/ GetCached(n) \/ GetGlobal(n)
    \/ \E value \in Value :
         \/ DefineGlobal(n, value)
         \/ SetCached(n, value) \/ SetGlobal(n, value) \/ SetUndefined(n, value)

GlobalsSpec == InitGlobals /\ [][NextGlobal]_globalVars

-----------------------------------------------------------------------------
(* A cached index lies in the array, and where it finds its key the search *)
(* would find it too.                                                      *)
SymbolsOK ==
  \A n \in Key : symbol[n] # Invalid =>
    /\ symbol[n] \in 0 .. globals.capacity - 1
    /\ Cached(n) => symbol[n] = Place(globals, n)

(* The table stays well formed, definitions and failed assignments mixed.  *)
GlobalsOK == IsTable(globals) /\ SymbolsOK

(* The table and its cache implement the variables of the language: an     *)
(* instruction reads or writes the variable it names, whatever slot its    *)
(* name caches, and an assignment creates none.                            *)
Values ==
  [n \in Key |-> IF Slots(globals, n) = {} THEN Undefined
                 ELSE globals.entries[CHOOSE i \in Slots(globals, n) : TRUE].value]
V == INSTANCE Variables WITH values <- Values, answer <- read
ImplementsVariables == V!Spec

=============================================================================
