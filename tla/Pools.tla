-------------------------------- MODULE Pools --------------------------------
(***************************************************************************)
(* The pools of numbers and strings (src/numberTable.c, src/stringTable.c):*)
(* every number of the programs and every string there is, once each, and  *)
(* in its entry the index it has in vm.constants.  A string is made of the *)
(* text of a program or by joining two strings as a program runs; whether  *)
(* it exists is looked up by its hash and its content before it is made,   *)
(* so == can compare pointers.                                             *)
(***************************************************************************)
EXTENDS Integers, FiniteSetsExt, SequencesExt

CONSTANTS
  Number,       (* The numbers of the programs; different bits, different *)
                (* numbers.                                               *)
  NumberHash,   (* HASH_64bits of a number.                               *)
  Literal,      (* The strings in the programs: sequences of bytes.       *)
  MaxLength,    (* The longest string that is joined.                     *)
  MaxFunctions, (* How many functions are compiled.                       *)
  MinCapacity,  (* 8 in GROW_CAPACITY.                                    *)
  MaxIndex,     (* UINT16_MAX.                                            *)
  BlockSize,    (* The bytes of a block of the hash, 8.                   *)
  HashSize      (* 2^64.                                                  *)

PoolsAssumption ==
  /\ Number \subseteq Nat \ {0} /\ NumberHash \in [Number -> Nat]
  /\ Literal \subseteq Seq(Nat)
  /\ {MaxLength, MaxFunctions, MaxIndex} \subseteq Nat
  /\ {MinCapacity, BlockSize, HashSize} \subseteq Nat \ {0, 1}

VARIABLES
  numbers,      (* vm.numbers.                                            *)
  strings,      (* vm.strings.                                            *)
  objects,      (* The strings on the heap: their content and their hash. *)
  constants,    (* vm.constants.                                          *)
  answer        (* The constant that was asked for last, by its content,   *)
                (* and the index that was given, or TooMany.              *)

vars == <<numbers, strings, objects, constants, answer>>

NoIndex == -1         (* UINT32_MAX.                                      *)
TooMany == -2         (* "Too many constants in chunk." *)
Vacant == 0            (* NULL, or an entry that is not valid. *)

-----------------------------------------------------------------------------
(* The hash of a string, at once and of two pieces: a block of bytes at a   *)
(* time is mixed into what comes before it, and the length into both ends. *)
(* The mixing is simpler than murmur's, whatever it is.                    *)

BlockValue(block) ==
  FoldLeft(LAMBDA value, byte : 2 * value + byte, 0, Reverse(block))
Mix(h, block) == (5 * h + BlockValue(block)) % HashSize
MixTail(h, block) == (h + 3 * BlockValue(block)) % HashSize

(* HASH_64bits *)
OneShotHash(bytes) ==
  LET nblocks == Len(bytes) \div BlockSize
      Block(i) == SubSeq(bytes, (i - 1) * BlockSize + 1, i * BlockSize)
      mixed == FoldLeft(LAMBDA h, i : Mix(h, Block(i)), Len(bytes),
                        [i \in 1 .. nblocks |-> i])
  IN MixTail(mixed, SubSeq(bytes, nblocks * BlockSize + 1, Len(bytes)))

(* hashStreamBegin, hashStreamUpdate and hashStreamFinalize *)
StreamBegin(length) == [h |-> length, block |-> <<>>]
StreamByte(stream, byte) ==
  LET block == Append(stream.block, byte)
  IN IF Len(block) = BlockSize
       THEN [h |-> Mix(stream.h, block), block |-> <<>>]
       ELSE [stream EXCEPT !.block = block]
StreamUpdate(stream, bytes) == FoldLeft(StreamByte, stream, bytes)

(* Mutant: each piece begins a block. *)
StreamHashByPiece(first, second) ==
  LET whole == StreamUpdate(StreamBegin(Len(first) + Len(second)), first)
      next == [h |-> MixTail(whole.h, whole.block), block |-> <<>>]
      stream == StreamUpdate(next, second)
  IN MixTail(stream.h, stream.block)

StreamHash(first, second) ==
  LET stream == StreamUpdate(StreamUpdate(StreamBegin(Len(first) + Len(second)), first),
                             second)
  IN MixTail(stream.h, stream.block)

-----------------------------------------------------------------------------
(* The arrays: linear probing from hash & mask, nothing is ever deleted.   *)

EmptyPool == [count |-> 0, capacity |-> 0, entries |-> <<>>]
EmptyEntry == [key |-> Vacant, index |-> NoIndex]

(* The slot at which a search from hash for one of the keys ends: its own  *)
(* or a free one.                                                          *)
Find(entries, capacity, hash, keys) ==
  LET At(i) == (hash + i) % capacity
  IN At(Min({i \in 0 .. capacity - 1 :
               entries[At(i)].key \in keys \cup {Vacant}}))

(* Mutant: a growth copies the keys into cleared memory, where an index is 0.*)
MovedCleared(entry) ==
  [entry EXCEPT !.index = IF @ = NoIndex THEN NoIndex ELSE 0]

(* An entry moves as it is. *)
Moved(entry) == entry

(* adjustNumberCapacity, adjustStringCapacity *)
GrownPool(pool, hashOf) ==
  LET capacity == IF pool.capacity < MinCapacity THEN MinCapacity ELSE 2 * pool.capacity
      Move(moved, i) ==
        LET key == pool.entries[i].key
        IN IF key = Vacant THEN moved
           ELSE [moved EXCEPT ![Find(moved, capacity, hashOf[key], {key})]
                                = Moved(pool.entries[i])]
  IN IF pool.count + 1 <= (pool.capacity * 3) \div 4 THEN pool
     ELSE [pool EXCEPT !.capacity = capacity,
             !.entries = FoldLeft(Move, [i \in 0 .. capacity - 1 |-> EmptyEntry],
                                  [i \in 1 .. pool.capacity |-> i - 1])]

PlaceOf(pool, hash, key) ==
  Find(pool.entries, pool.capacity, hash, {key})

(* tableGetNumberEntry and tableSet_string after the growth. *)
WithKey(pool, hash, key) ==
  LET i == PlaceOf(pool, hash, key)
  IN IF pool.entries[i].key = key THEN pool
     ELSE [pool EXCEPT !.count = @ + 1, !.entries[i] = [key |-> key, index |-> NoIndex]]

(* addConstant, and the check of emitConstantCommond *)
Indexed(index) == IF index <= MaxIndex THEN index ELSE TooMany

(* makeConstant, once the entry is found *)
IndexAt(pool, i) == IF pool.entries[i].index = NoIndex THEN Len(constants)
                    ELSE pool.entries[i].index
ConstantsWith(pool, i, value) ==
  IF pool.entries[i].index = NoIndex THEN Append(constants, value) ELSE constants

-----------------------------------------------------------------------------
(* Strings. *)

HashOfObject(o) == objects[o].hash

(* tableFindString, tableFindConcatString: an object of that content, if    *)
(* the search from that hash meets one.                                    *)
Found(bytes, hash) ==
  IF strings.count = 0 THEN {}
  ELSE LET matching == {o \in DOMAIN objects :
                          objects[o] = [content |-> bytes, hash |-> hash]}
           i == Find(strings.entries, strings.capacity, hash, matching)
       IN {strings.entries[i].key} \ {Vacant}

(* copyString and connectString, when there is no such string yet. *)
WithObject(hash) ==
  LET o == Len(objects) + 1
      hashOf == [p \in DOMAIN objects |-> HashOfObject(p)]
  IN WithKey(GrownPool(strings, hashOf), hash, o)

NewObject(bytes, hash) ==
  objects' = Append(objects, [content |-> bytes, hash |-> hash])

-----------------------------------------------------------------------------
(* The compiler and the machine.  A constant that is asked for: a string   *)
(* by its bytes, though vm.constants holds the object.                     *)

NumberOf(n) == <<"number", <<n>>>>
StringOf(bytes) == <<"string", bytes>>
Function == <<"function", <<>>>>

Init ==
  /\ numbers = EmptyPool /\ strings = EmptyPool
  /\ objects = <<>> /\ constants = <<>> /\ answer = <<Function, NoIndex>>

NumberConstant(n) ==
  LET pool == WithKey(GrownPool(numbers, NumberHash), NumberHash[n], n)
      i == PlaceOf(pool, NumberHash[n], n)
  IN /\ numbers' = [pool EXCEPT !.entries[i].index = IndexAt(pool, i)]
     /\ constants' = ConstantsWith(pool, i, NumberOf(n))
     /\ answer' = <<NumberOf(n), Indexed(IndexAt(pool, i))>>
     /\ UNCHANGED <<strings, objects>>

(* A literal or a name: copyString, then makeConstant. *)
NewStringConstant(bytes) ==
  LET hash == OneShotHash(bytes)
      o == Len(objects) + 1
      pool == WithObject(hash)
  IN /\ Found(bytes, hash) = {}
     /\ NewObject(bytes, hash)
     /\ strings' = [pool EXCEPT !.entries[PlaceOf(pool, hash, o)].index = Len(constants)]
     /\ constants' = Append(constants, <<"string", o>>)
     /\ answer' = <<StringOf(bytes), Indexed(Len(constants))>>
     /\ UNCHANGED numbers

StringConstant(bytes) ==
  \E o \in Found(bytes, OneShotHash(bytes)) :
    LET i == PlaceOf(strings, HashOfObject(o), o)
    IN /\ strings' = [strings EXCEPT !.entries[i].index = IndexAt(strings, i)]
       /\ constants' = ConstantsWith(strings, i, <<"string", o>>)
       /\ answer' = <<StringOf(bytes), Indexed(IndexAt(strings, i))>>
       /\ UNCHANGED <<numbers, objects>>

FunctionConstant ==
  /\ Len(SelectSeq(constants, LAMBDA value : value[1] = "function")) < MaxFunctions
  /\ constants' = Append(constants, Function)
  /\ answer' = <<Function, Indexed(Len(constants))>>
  /\ UNCHANGED <<numbers, strings, objects>>

(* connectString, as a program runs or as the compiler folds. *)
Connect(a, b) ==
  LET bytes == objects[a].content \o objects[b].content
      hash == StreamHash(objects[a].content, objects[b].content)
  IN /\ Len(bytes) <= MaxLength
     /\ Found(bytes, hash) = {}
     /\ NewObject(bytes, hash)
     /\ strings' = WithObject(hash)
     /\ UNCHANGED <<numbers, constants, answer>>

Next ==
  \/ \E n \in Number : NumberConstant(n)
  \/ \E bytes \in Literal : NewStringConstant(bytes) \/ StringConstant(bytes)
  \/ FunctionConstant
  \/ \E a, b \in DOMAIN objects : Connect(a, b)

Spec == Init /\ [][Next]_vars

-----------------------------------------------------------------------------
(* Equal strings are one object, however they were made: comparing two      *)
(* strings by their addresses compares their contents.                     *)
StringsAreInterned ==
  \A a, b \in DOMAIN objects : objects[a].content = objects[b].content => a = b

(* Growing pools, failed compilations and strings made while the program    *)
(* runs do not matter to the compiler: it gets the constant it asked for.  *)
Shared ==
  LET OfTable(value) == IF value[1] = "string"
                          THEN StringOf(objects[value[2]].content) ELSE value
  IN [i \in DOMAIN constants |-> OfTable(constants[i])]
T == INSTANCE ConstantTable WITH
  constants <- Shared,
  Constant <- {NumberOf(n) : n \in Number} \cup {StringOf(bytes) : bytes \in Literal}
ImplementsConstantTable == T!Spec

=============================================================================
