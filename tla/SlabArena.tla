------------------------------ MODULE SlabArena -----------------------------
(***************************************************************************)
(* The allocator of small objects and table arrays (arena_slab.c): one     *)
(* reserved segment is carved into arenas, each of which is cut into slots *)
(* of one class.  Arenas that become empty are used again by any class,    *)
(* and their pages go back to the operating system when too many wait.     *)
(* Arenas are numbered in the order they are carved, and the linked lists  *)
(* through their headers are sequences of those numbers.                   *)
(***************************************************************************)
EXTENDS Integers, FiniteSets, SequencesExt

CONSTANTS
  Class,        (* The slot sizes of the classes.                         *)
  ArenaSize,    (* ARENA_SIZE_SMALL                                       *)
  HeaderSize,   (* sizeof(ArenaHead)                                      *)
  MaxArenas,    (* Arenas that fit in the segment.                        *)
  ClassSpareKeep,       (* CLASS_SPARE_KEEP                               *)
  TrimPoolMaxResident   (* TRIM_POOL_MAX_RESIDENT                         *)

TotalSlots(class) == ArenaSize \div class
HeaderSlots(class) == (HeaderSize + class - 1) \div class
Capacity(class) == TotalSlots(class) - HeaderSlots(class)

SlabAssumption ==
  /\ {ArenaSize, HeaderSize, MaxArenas} \subseteq Nat \ {0}
  /\ {ClassSpareKeep, TrimPoolMaxResident} \subseteq Nat
  /\ Class \subseteq Nat \ {0} /\ \A c \in Class : Capacity(c) >= 2

VARIABLES
  segment,      (* Segment: every arena's header, and the lists.          *)
  live          (* The slots in use, by arena, slot and class.            *)

vars == <<segment, live>>

(* arenaInit: the free list is empty, and every slot is above the bump     *)
(* position.                                                               *)
NewArena(class) ==
  [class |-> class, freeSlotCount |-> Capacity(class), freeList |-> <<>>,
   dropped |-> FALSE]

Arenas(seg) == DOMAIN seg.arenas

(* arenaSlotClaim *)
SlotToClaim(arena) ==
  IF arena.freeList # <<>> THEN Head(arena.freeList)
  ELSE TotalSlots(arena.class) - arena.freeSlotCount

Claimed(arena) ==
  [arena EXCEPT !.freeSlotCount = @ - 1,
                !.freeList = IF @ = <<>> THEN @ ELSE Tail(@)]

-----------------------------------------------------------------------------
(* smallLayerAlloc.  A request yields the segment and the slot, or Null.   *)
Null == [arena |-> 0, slot |-> 0, class |-> 0]

(* The head of the class's chain gives a slot; a full arena leaves the     *)
(* chain.                                                                  *)
ClaimFromHead(seg, class) ==
  LET a == Head(seg.partial[class])
      arena == Claimed(seg.arenas[a])
  IN [segment |-> [seg EXCEPT
        !.arenas[a] = arena,
        !.partial[class] = IF arena.freeSlotCount = 0 THEN Tail(@) ELSE @],
      slot |-> [arena |-> a, slot |-> SlotToClaim(seg.arenas[a]), class |-> class]]

(* Mutant: the arena keeps the free list of the class it had before.       *)
ChainedStale(seg, a, class) ==
  [seg EXCEPT !.arenas[a] = [NewArena(class) EXCEPT !.freeList = seg.arenas[a].freeList],
              !.partial[class] = <<a>> \o @]

Chained(seg, a, class) ==
  [seg EXCEPT !.arenas[a] = NewArena(class), !.partial[class] = <<a>> \o @]

(* Mutant: a slab whose pages could not be had again is not put back.      *)
RefilledLost(seg, class, ok) ==
  IF seg.resident # <<>>
    THEN Chained([seg EXCEPT !.resident = Tail(@)], Head(seg.resident), class)
  ELSE IF seg.revive # <<>>
    THEN IF seg.arenas[Head(seg.revive)].dropped /\ ~ok
           THEN [seg EXCEPT !.revive = Tail(@)]
           ELSE Chained([seg EXCEPT !.revive = Tail(@)], Head(seg.revive), class)
  ELSE IF Len(seg.arenas) < MaxArenas /\ ok
    THEN Chained([seg EXCEPT !.arenas = Append(@, NewArena(class))],
                 Len(seg.arenas) + 1, class)
  ELSE seg

(* Mutant: only new arenas refill a chain.                                 *)
RefilledCarving(seg, class, ok) ==
  IF Len(seg.arenas) < MaxArenas /\ ok
    THEN Chained([seg EXCEPT !.arenas = Append(@, NewArena(class))],
                 Len(seg.arenas) + 1, class)
  ELSE seg

(* An empty chain gets the arena that was emptied last, one whose pages    *)
(* were given up, or a new one; ok: the system call this needs succeeds.   *)
Refilled(seg, class, ok) ==
  IF seg.resident # <<>>
    THEN Chained([seg EXCEPT !.resident = Tail(@)], Head(seg.resident), class)
  ELSE IF seg.revive # <<>>
    THEN IF seg.arenas[Head(seg.revive)].dropped /\ ~ok THEN seg
         ELSE Chained([seg EXCEPT !.revive = Tail(@)], Head(seg.revive), class)
  ELSE IF Len(seg.arenas) < MaxArenas /\ ok
    THEN Chained([seg EXCEPT !.arenas = Append(@, NewArena(class))],
                 Len(seg.arenas) + 1, class)
  ELSE seg

SmallLayerAlloc(seg, class, ok) ==
  LET refilled == IF seg.partial[class] # <<>> THEN seg ELSE Refilled(seg, class, ok)
  IN IF refilled.partial[class] # <<>> THEN ClaimFromHead(refilled, class)
     ELSE [segment |-> refilled, slot |-> Null]

-----------------------------------------------------------------------------
(* smallLayerFree *)

Freed(arena, slot) ==
  [arena EXCEPT !.freeSlotCount = @ + 1, !.freeList = <<slot>> \o @]

IsLinked(seg, a) == a \in Range(seg.partial[seg.arenas[a].class])

(* chainDelink *)
Delinked(list, a) == RemoveAt(list, CHOOSE i \in DOMAIN list : list[i] = a)

(* The first empty arenas of a class stay in its chain for ever, as its    *)
(* spares; another one waits for any class.                                *)
Parked(seg, a) ==
  LET class == seg.arenas[a].class
  IN IF ~IsLinked(seg, a) \/ a \in Range(seg.spare[class]) THEN seg
     ELSE IF Len(seg.spare[class]) < ClassSpareKeep
       THEN [seg EXCEPT !.spare[class] = Append(@, a)]
     ELSE [seg EXCEPT !.partial[class] = Delinked(@, a),
                      !.resident = <<a>> \o @]

SmallLayerFree(seg, s) ==
  LET arena == seg.arenas[s.arena]
      freed == [seg EXCEPT !.arenas[s.arena] = Freed(arena, s.slot)]
  IN IF arena.freeSlotCount + 1 = Capacity(arena.class)
       THEN Parked(freed, s.arena)
     ELSE IF arena.freeSlotCount = 0 /\ ~IsLinked(seg, s.arena)
       THEN [freed EXCEPT !.partial[arena.class] = <<s.arena>> \o @]
     ELSE freed

-----------------------------------------------------------------------------
(* arenaSlab_init *)
Init ==
  /\ segment = [arenas |-> <<>>, partial |-> [c \in Class |-> <<>>],
                spare |-> [c \in Class |-> <<>>], resident |-> <<>>, revive |-> <<>>]
  /\ live = {}

(* slab_allocObject, or reallocate_slab for a new array.  When it fails    *)
(* the first ends the program and the second uses the heap, whose blocks   *)
(* never come back here: arenaSlab_free tells them by their address.       *)
Alloc(class) ==
  \E ok \in BOOLEAN :
    LET result == SmallLayerAlloc(segment, class, ok)
    IN /\ segment' = result.segment
       /\ live' = live \cup ({result.slot} \ {Null})

Free(s) ==
  /\ segment' = SmallLayerFree(segment, s)
  /\ live' = live \ {s}

Dropped(arenas, drop) ==
  [a \in DOMAIN arenas |-> [arenas[a] EXCEPT !.dropped = @ \/ a \in drop]]

(* arenaSlab_trim, after a collection: the arenas that have waited longest *)
(* give their pages back, unless the system refuses.                       *)
Trim ==
  LET kept == SubSeq(segment.resident, 1, TrimPoolMaxResident)
      excess == SubSeq(segment.resident, TrimPoolMaxResident + 1, Len(segment.resident))
  IN /\ excess # <<>>
     /\ \E drop \in SUBSET Range(excess) :
          segment' = [segment EXCEPT
            !.arenas = Dropped(@, drop),
            !.resident = kept,
            !.revive = excess \o @]
     /\ UNCHANGED live

Next ==
  \/ \E class \in Class : Alloc(class)
  \/ \E s \in live : Free(s)
  \/ Trim

Spec == Init /\ [][Next]_vars

-----------------------------------------------------------------------------
LiveIn(a) == {s \in live : s.arena = a}

(* Every arena that was carved is in one place: in the chain of its class  *)
(* when it has a free slot, in no list when it is full, and in the pool    *)
(* only while nothing is in it.  None is lost, none has two owners, and    *)
(* the count a free slot is derived from is the number of slots in use.    *)
EveryArenaHasItsPlace ==
  /\ \A c \in Class :
       /\ IsInjective(segment.partial[c] \o segment.resident \o segment.revive)
       /\ \A a \in Range(segment.partial[c]) : segment.arenas[a].class = c
  /\ \A a \in Arenas(segment) :
       LET arena == segment.arenas[a]
           free == arena.freeSlotCount
       IN IF a \in Range(segment.resident \o segment.revive)
            THEN LiveIn(a) = {} /\ (arena.dropped => a \in Range(segment.revive))
            ELSE /\ Cardinality(LiveIn(a)) + free = Capacity(arena.class)
                 /\ IsLinked(segment, a) <=> free > 0
                 /\ ~arena.dropped

(* Memory is refused only when there is none: no arena of the class has a  *)
(* free slot, and the others hold something or are spares of their class.  *)
RefusedOnlyWhenFull ==
  \A class \in Class :
    SmallLayerAlloc(segment, class, TRUE).slot = Null =>
      /\ Len(segment.arenas) = MaxArenas
      /\ \A a \in Arenas(segment) :
           LET arena == segment.arenas[a]
           IN IF arena.class = class
                THEN Cardinality(LiveIn(a)) = Capacity(class)
                ELSE LiveIn(a) # {} \/ a \in Range(segment.spare[arena.class])

(* The slots are blocks of memory that no two users share, and that do not *)
(* touch an arena's header, whatever class the arena had before.           *)
First(s) == (s.arena - 1) * ArenaSize + s.slot * s.class
Blocks == {[first |-> First(s), last |-> First(s) + s.class - 1] : s \in live}
Usable ==
  {i \in 0 .. MaxArenas * ArenaSize - 1 : i % ArenaSize >= HeaderSize}
Memory == INSTANCE Allocator WITH blocks <- Blocks, Byte <- Usable, Size <- Class
ImplementsAllocator == Memory!Spec

=============================================================================
