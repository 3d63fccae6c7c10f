-------------------------------- MODULE Table --------------------------------
(***************************************************************************)
(* The hash table of fields, methods and globals (src/table.c): open       *)
(* addressing with linear probing, tombstones where a key was deleted, and *)
(* an array that grows when three quarters of it have ever been used.      *)
(* Operators only: Fields and Globals are the machines that use them.      *)
(***************************************************************************)
EXTENDS Naturals, FiniteSets, FiniteSetsExt, SequencesExt

CONSTANTS
  Key,          (* Interned strings.                                      *)
  NoKey,        (* entry->key == NULL.                                    *)
  Value,        (* Values of the language.                                *)
  Nil,          (* NIL_VAL.                                               *)
  True,         (* BOOL_VAL(true), what a tombstone holds.                *)
  Hash,         (* key->hash.                                             *)
  MinCapacity   (* The capacity of the first array, 8 in GROW_CAPACITY.   *)

TableAssumption ==
  /\ NoKey \notin Key
  /\ {Nil, True} \subseteq Value /\ Nil # True
  /\ Hash \in [Key -> Nat]
  /\ MinCapacity \in Nat \ {0, 1}

EmptySlot == [key |-> NoKey, value |-> Nil]
Tombstone == [key |-> NoKey, value |-> True]

(* A slot that was never used since the array was allocated. *)
IsHole(slot) == slot.key = NoKey /\ slot.value = Nil
IsTombstone(slot) == slot.key = NoKey /\ slot.value # Nil

(* table_init *)
EmptyTable == [count |-> 0, capacity |-> 0, entries |-> <<>>]

NewEntries(capacity) == [i \in 0 .. capacity - 1 |-> EmptySlot]

-----------------------------------------------------------------------------
(* findEntry: from the key's home, up to the key or a hole.                *)

Probed(capacity, key, i) == (Hash[key] + i) % capacity

StopsAt(entries, capacity, key, i) ==
  LET slot == entries[Probed(capacity, key, i)]
  IN IsHole(slot) \/ slot.key = key

Stops(entries, capacity, key) ==
  {i \in 0 .. capacity - 1 : StopsAt(entries, capacity, key, i)}

(* The index the search ends at; a global's key remembers it (symbol). *)
SearchEnd(entries, capacity, key) ==
  Probed(capacity, key, Min(Stops(entries, capacity, key)))

Passed(entries, capacity, key) ==
  {i \in 0 .. Min(Stops(entries, capacity, key)) - 1 :
     IsTombstone(entries[Probed(capacity, key, i)])}

(* Mutant: the first tombstone ends the search. *)
FindEntryEarly(entries, capacity, key) ==
  Probed(capacity, key,
         Min({i \in 0 .. capacity - 1 :
                \/ StopsAt(entries, capacity, key, i)
                \/ IsTombstone(entries[Probed(capacity, key, i)])}))

(* The key's slot, or where it would be stored: the first tombstone passed *)
(* on the way, if any.                                                     *)
FindEntry(entries, capacity, key) ==
  LET end == SearchEnd(entries, capacity, key)
      passed == Passed(entries, capacity, key)
  IN IF entries[end].key = key \/ passed = {}
       THEN end ELSE Probed(capacity, key, Min(passed))

-----------------------------------------------------------------------------
(* adjustCapacity: the keys move in the order of their slots, tombstones   *)
(* are left behind.                                                        *)

(* Mutant: the slots are copied to the same places of the larger array. *)
RehashInPlace(entries, table, capacity) ==
  [i \in DOMAIN entries |->
     IF i < table.capacity THEN table.entries[i] ELSE EmptySlot]

Rehash(entries, table, capacity) ==
  LET Move(moved, i) ==
        IF table.entries[i].key = NoKey THEN moved
        ELSE [moved EXCEPT ![FindEntry(moved, capacity, table.entries[i].key)]
                             = table.entries[i]]
  IN FoldLeft(Move, entries, [i \in 1 .. table.capacity |-> i - 1])

Used(table) == {i \in 0 .. table.capacity - 1 : table.entries[i].key # NoKey}

AdjustCapacity(table, capacity) ==
  [count    |-> Cardinality(Used(table)),
   capacity |-> capacity,
   entries  |-> Rehash(NewEntries(capacity), table, capacity)]

GrowCapacity(capacity) ==
  IF capacity < MinCapacity THEN MinCapacity ELSE 2 * capacity

(* tableSet grows the array first, even when the key is present. *)
MustGrow(table) == table.count + 1 > (table.capacity * 3) \div 4
Grown(table) ==
  IF MustGrow(table) THEN AdjustCapacity(table, GrowCapacity(table.capacity))
  ELSE table

-----------------------------------------------------------------------------
(* The operations. *)

Place(table, key) == FindEntry(table.entries, table.capacity, key)

TableHas(table, key) ==
  table.count # 0 /\ table.entries[Place(table, key)].key # NoKey
TableGet(table, key) == table.entries[Place(table, key)].value

(* Mutant: a tombstone that is used again is counted again. *)
InsertCounted(table, key, value) ==
  LET i == Place(table, key)
  IN [table EXCEPT
        !.entries[i] = [key |-> key, value |-> value],
        !.count = IF table.entries[i].key = NoKey THEN @ + 1 ELSE @]

(* The part of tableSet after the growth. *)
Insert(table, key, value) ==
  LET i == Place(table, key)
  IN [table EXCEPT
        !.entries[i] = [key |-> key, value |-> value],
        !.count = IF IsHole(table.entries[i]) THEN @ + 1 ELSE @]

TableSet(table, key, value) == Insert(Grown(table), key, value)
IsNewKey(table, key) ==
  LET grown == Grown(table) IN grown.entries[Place(grown, key)].key = NoKey

(* Mutant: the deleted entry becomes a hole. *)
TableDeleteHole(table, key) ==
  IF TableHas(table, key)
    THEN [table EXCEPT !.entries[Place(table, key)] = EmptySlot] ELSE table

TableDelete(table, key) ==
  IF TableHas(table, key)
    THEN [table EXCEPT !.entries[Place(table, key)] = Tombstone] ELSE table

(* tableAddAll *)
TableAddAll(from, to) ==
  FoldLeft(LAMBDA table, i : IF from.entries[i].key = NoKey THEN table
                             ELSE TableSet(table, from.entries[i].key,
                                           from.entries[i].value),
           to, [i \in 1 .. from.capacity |-> i - 1])

-----------------------------------------------------------------------------
(* What makes a table correct. *)

TableType(table) ==
  /\ table.count \in Nat /\ table.capacity \in Nat
  /\ table.entries \in
       [0 .. table.capacity - 1 -> [key : Key \cup {NoKey}, value : Value]]

(* count is the number of slots that are no hole, at most three quarters   *)
(* of them: a search always ends.                                          *)
LoadIsBounded(table) ==
  /\ table.count = Cardinality({i \in 0 .. table.capacity - 1 :
                                  ~IsHole(table.entries[i])})
  /\ table.count <= (table.capacity * 3) \div 4

(* No key is in two slots, and a search for a key that is in the array     *)
(* meets no hole before it.                                                *)
KeysAreFound(table) ==
  \A i \in Used(table) :
    Place(table, table.entries[i].key) = i

IsTable(table) == TableType(table) /\ LoadIsBounded(table) /\ KeysAreFound(table)

(* The mapping a table stands for. *)
Slots(table, key) == {i \in 0 .. table.capacity - 1 : table.entries[i].key = key}

=============================================================================
