--------------------------- MODULE UpvaluesProofs ---------------------------
(***************************************************************************)
(* Proofs about Upvalues, for every set of values and numbered variables   *)
(* and every bound.  The invariant says of each link that it leads to the  *)
(* open upvalue of the next lower slot; that the list holds all the open   *)
(* ones, and that a search passes exactly those above a slot, is proved of *)
(* From and FirstAt by the greatest slot that would contradict it.  With   *)
(* the names that the program has for slots and closures the machine is    *)
(* then shown to implement SharedVariables.                                *)
(***************************************************************************)
EXTENDS Upvalues, SequenceTheorems, NaturalsInduction, WellFoundedInduction, TLAPS

Open == {u \in DOMAIN upvalues : Location(u) # None}

Upvalue == [slot : Nat, closed : Data \cup {Nothing}, next : Nat]

Types ==
  /\ stack \in Seq(Data) /\ scope \in Seq(Variable) /\ Len(scope) = Len(stack)
  /\ upvalues \in Seq(Upvalue) /\ openUpvalues \in Nat
  /\ closures \in Seq(DOMAIN upvalues)
  /\ held \in Seq(Variable) /\ Len(held) = Len(closures)

Windows ==
  /\ frames \in Seq(Nat \ {0})
  /\ \A i \in 1 .. Len(frames) : frames[i] <= Len(stack) + 1
  /\ \A i, j \in 1 .. Len(frames) : i <= j => frames[i] <= frames[j]

Slots ==
  /\ \A u \in Open : Location(u) \in 1 .. Len(stack)
  /\ \A u, v \in Open : Location(u) = Location(v) => u = v

(* u is the open upvalue of the highest slot up to n. *)
IsHighest(u, n) ==
  IF u = None THEN \A v \in Open : Location(v) > n
  ELSE u \in Open /\ Location(u) <= n
       /\ \A v \in Open : Location(v) <= n => Location(v) <= Location(u)

Linked ==
  /\ IsHighest(openUpvalues, Len(stack))
  /\ \A u \in Open : IsHighest(upvalues[u].next, Location(u) - 1)

(* The program's names. *)
Names ==
  /\ \A i, j \in 1 .. Len(scope) : scope[i] = scope[j] => i = j
  /\ \A c \in 1 .. Len(closures) :
       IF closures[c] \in Open THEN held[c] = scope[Location(closures[c])]
       ELSE held[c] \notin Range(scope)
  /\ \A c, d \in 1 .. Len(closures) : held[c] = held[d] <=> closures[c] = closures[d]

ListInv == Types /\ Windows /\ Slots /\ Linked
IInv == ListInv /\ Names

-----------------------------------------------------------------------------
(* A set of numbers has a least member. *)
LEMMA Least ==
  ASSUME NEW S, S \subseteq Nat, S # {}
  PROVE  \E m \in S : \A n \in S : m <= n
<1>1. IsWellFoundedOn(OpToRel(<, Nat), Nat)
  BY NatLessThanWellFounded
<1>2. PICK x \in S : \A y \in S : ~ (<<y, x>> \in OpToRel(<, Nat))
  BY <1>1, WFMin
<1>3. \A y \in S : <<y, x>> \in Nat \X Nat
  OBVIOUS
<1>4. \A y \in S : ~ (y < x)
  BY <1>2, <1>3 DEF OpToRel
<1> QED BY <1>4

(* A set of numbers up to n has a greatest member. *)
LEMMA Greatest ==
  ASSUME NEW n \in Nat, NEW S, S \subseteq 0 .. n, S # {}
  PROVE  \E m \in S : \A k \in S : k <= m
<1> DEFINE T == {n - k : k \in S}
<1>0. \A k \in S : k \in Nat /\ n - k \in Nat
  OBVIOUS
<1>1. T \subseteq Nat /\ T # {}
  BY <1>0
<1>2. PICK m \in T : \A k \in T : m <= k
  <2> HIDE DEF T
  <2> QED BY <1>1, Least
<1>3. PICK s \in S : m = n - s
  OBVIOUS
<1>4. \A k \in S : n - s <= n - k
  BY <1>2, <1>3
<1> QED BY <1>4

(* The open upvalue of the greatest slot among some of them. *)
LEMMA Highest ==
  ASSUME ListInv, NEW S, S \subseteq Open, S # {}
  PROVE  \E u \in S : \A v \in S : Location(v) <= Location(u)
<1> DEFINE L == {Location(u) : u \in S}
<1>1. Len(stack) \in Nat /\ L \subseteq 0 .. Len(stack) /\ L # {}
  BY DEF ListInv, Types, Slots
<1>2. PICK m \in L : \A k \in L : k <= m
  <2> HIDE DEF L
  <2> QED BY <1>1, Greatest
<1> QED BY <1>2

(* The open upvalue of the least slot among some of them. *)
LEMMA Lowest ==
  ASSUME ListInv, NEW S, S \subseteq Open, S # {}
  PROVE  \E u \in S : \A v \in S : Location(u) <= Location(v)
<1> DEFINE L == {Location(u) : u \in S}
<1>1. L \subseteq Nat /\ L # {}
  BY DEF ListInv, Types, Slots
<1>2. PICK m \in L : \A k \in L : m <= k
  <2> HIDE DEF L
  <2> QED BY <1>1, Least
<1> QED BY <1>2

(* What the types and the slots say of an upvalue. *)
LEMMA OpenTypes ==
  ASSUME ListInv
  PROVE  /\ Open \subseteq DOMAIN upvalues /\ DOMAIN upvalues \subseteq Nat \ {0}
         /\ None \notin Open /\ Len(stack) \in Nat
         /\ \A u \in Open : Location(u) \in Nat /\ Location(u) \in 1 .. Len(stack)
         /\ \A u \in DOMAIN upvalues :
              upvalues[u] \in Upvalue /\ Location(u) \in Nat /\ upvalues[u].next \in Nat
<1>1. DOMAIN upvalues = 1 .. Len(upvalues) /\ Len(upvalues) \in Nat
  BY DEF ListInv, Types
<1>2. \A u \in DOMAIN upvalues : upvalues[u] \in Upvalue
  BY <1>1 DEF ListInv, Types
<1>3. \A u \in DOMAIN upvalues : Location(u) \in Nat /\ upvalues[u].next \in Nat
  BY <1>2 DEF Upvalue, Location
<1> QED BY <1>1, <1>2, <1>3 DEF Open, None, ListInv, Types, Slots

(* From an open upvalue on the list holds those of the slots below. *)
LEMMA FromIsBelow ==
  ASSUME ListInv, NEW u \in Open
  PROVE  From(u) = {v \in Open : Location(v) <= Location(u)}
<1> DEFINE B == {v \in Open : Location(v) <= Location(u)}
<1>1. u \in B /\ B \subseteq DOMAIN upvalues /\ u # None
  BY OpenTypes
<1>2. Follows(B)
  <2> SUFFICES ASSUME NEW v \in B, upvalues[v].next # None
               PROVE  upvalues[v].next \in B
    BY DEF Follows
  <2>1. IsHighest(upvalues[v].next, Location(v) - 1)
    BY DEF ListInv, Linked
  <2>2. upvalues[v].next \in Open /\ Location(upvalues[v].next) <= Location(v) - 1
    BY <2>1 DEF IsHighest
  <2> QED BY <2>2, OpenTypes
<1>3. ASSUME NEW S \in SUBSET DOMAIN upvalues, u \in S, Follows(S), NEW w \in B, w \notin S
      PROVE  FALSE
  <2> DEFINE R == {v \in B : v \notin S}
  <2>1. PICK v \in R : \A x \in R : Location(x) <= Location(v)
    <3>1. R \subseteq Open /\ R # {}
      BY <1>3
    <3> HIDE DEF R
    <3> QED BY <3>1, Highest
  <2> DEFINE H == {x \in Open : Location(x) > Location(v) /\ Location(x) <= Location(u)}
  <2>2. u \in H
    <3>1. u # v /\ Location(u) # Location(v)
      BY <1>3, <2>1 DEF ListInv, Slots
    <3> QED BY <2>1, <3>1, OpenTypes
  <2>3. PICK x \in H : \A y \in H : Location(x) <= Location(y)
    <3> H \subseteq Open
      OBVIOUS
    <3> HIDE DEF H
    <3> QED BY <2>2, Lowest
  <2>4. x \in S
    <3>1. ~ (Location(x) <= Location(v))
      BY <2>1, <2>3, OpenTypes
    <3> QED BY <2>1, <2>3, <3>1
  <2>5. IsHighest(upvalues[x].next, Location(x) - 1)
    BY <2>3 DEF ListInv, Linked
  <2>6. Location(v) <= Location(x) - 1
    BY <2>1, <2>3, OpenTypes
  <2>7. upvalues[x].next # None
    BY <2>1, <2>5, <2>6, OpenTypes DEF IsHighest
  <2> DEFINE y == upvalues[x].next
  <2>8. y \in Open /\ Location(y) <= Location(x) - 1 /\ Location(v) <= Location(y)
    BY <2>1, <2>5, <2>6, <2>7 DEF IsHighest
  <2>9. y \notin H
    BY <2>3, <2>8, OpenTypes
  <2>10. Location(y) = Location(v)
    <3> HIDE DEF y
    <3> QED BY <2>1, <2>3, <2>8, <2>9, OpenTypes
  <2>11. y = v
    BY <2>1, <2>8, <2>10 DEF ListInv, Slots
  <2>12. y \in S
    BY <1>3, <2>4, <2>7 DEF Follows
  <2> QED BY <2>1, <2>11, <2>12
<1> QED BY <1>1, <1>2, <1>3 DEF From

(* The list holds the open upvalues. *)
LEMMA ListIsOpen ==
  ASSUME ListInv
  PROVE  List = Open
<1>1. IsHighest(openUpvalues, Len(stack))
  BY DEF ListInv, Linked
<1>2. CASE openUpvalues = None
  <2>1. Open = {}
    BY <1>1, <1>2, OpenTypes DEF IsHighest
  <2> QED BY <1>2, <2>1 DEF List, From
<1>3. CASE openUpvalues # None
  <2>1. /\ openUpvalues \in Open
        /\ \A v \in Open : Location(v) <= Location(openUpvalues)
    BY <1>1, <1>3, OpenTypes DEF IsHighest
  <2> QED BY <2>1, FromIsBelow DEF List
<1> QED BY <1>2, <1>3

(* A search up to slot n passes those above it. *)
LEMMA FirstAtIsHighest ==
  ASSUME ListInv, NEW n \in Nat
  PROVE  /\ IsHighest(FirstAt(1 .. n), n)
         /\ Before(FirstAt(1 .. n)) = {v \in Open : Location(v) > n}
<1> DEFINE stops == {u \in List : Location(u) \in 1 .. n}
<1>0. stops = {u \in Open : Location(u) <= n}
  BY ListIsOpen, OpenTypes
<1>1. CASE stops = {}
  <2>1. FirstAt(1 .. n) = None
    BY <1>1 DEF FirstAt
  <2>2. From(None) = {}
    BY DEF From
  <2>3. \A v \in Open : Location(v) > n
    BY <1>0, <1>1, OpenTypes
  <2> QED BY <2>1, <2>2, <2>3, ListIsOpen DEF IsHighest, Before
<1>2. CASE stops # {}
  <2>1. FirstAt(1 .. n) = CHOOSE u \in stops : stops \subseteq From(u)
    BY <1>2 DEF FirstAt
  <2>2. PICK h \in stops : \A v \in stops : Location(v) <= Location(h)
    <3>1. stops \subseteq Open
      BY <1>0
    <3> HIDE DEF stops
    <3> QED BY <1>2, <3>1, Highest
  <2>3. stops \subseteq From(h)
    BY <1>0, <2>2, FromIsBelow
  <2> DEFINE f == FirstAt(1 .. n)
  <2>4. f \in stops /\ stops \subseteq From(f)
    <3> HIDE DEF stops
    <3> QED BY <2>1, <2>2, <2>3
  <2>5. f \in Open /\ Location(f) <= n /\ From(f) = {v \in Open : Location(v) <= Location(f)}
    BY <1>0, <2>4, FromIsBelow
  <2>6. \A v \in Open : Location(v) <= n <=> Location(v) <= Location(f)
    <3> HIDE DEF f
    <3> QED BY <1>0, <2>4, <2>5, OpenTypes
  <2>7. IsHighest(f, n)
    <3> HIDE DEF f
    <3> QED BY <2>5, <2>6, OpenTypes DEF IsHighest
  <2>8. Before(f) = {v \in Open : Location(v) > n}
    <3> HIDE DEF f
    <3> QED BY <2>5, <2>6, ListIsOpen, OpenTypes DEF Before
  <2> QED BY <2>7, <2>8
<1> QED BY <1>1, <1>2

-----------------------------------------------------------------------------
(* The state once the upvalues above slot n are closed. *)
LEMMA ClosesAbove ==
  ASSUME ListInv, NEW n \in Nat, n <= Len(stack),
         upvalues' = Closed(FirstAt(1 .. n))
  PROVE  /\ DOMAIN upvalues' = DOMAIN upvalues /\ Len(upvalues') = Len(upvalues)
         /\ upvalues' \in Seq(Upvalue)
         /\ Open' = {v \in Open : Location(v) <= n}
         /\ \A u \in DOMAIN upvalues :
              IF u \in Open /\ Location(u) > n
                THEN upvalues'[u] = [slot |-> None, closed |-> stack[Location(u)],
                                     next |-> upvalues[u].next]
                ELSE upvalues'[u] = upvalues[u]
<1> DEFINE C == {v \in Open : Location(v) > n}
<1>1. Before(FirstAt(1 .. n)) = C
  BY FirstAtIsHighest
<1>2. upvalues' = [u \in DOMAIN upvalues |->
                    IF u \in C
                      THEN [upvalues[u] EXCEPT !.slot = None, !.closed = stack[Location(u)]]
                      ELSE upvalues[u]]
  BY <1>1 DEF Closed
<1>3. \A u \in DOMAIN upvalues :
        upvalues[u] \in Upvalue
          /\ upvalues[u] = [slot |-> upvalues[u].slot, closed |-> upvalues[u].closed,
                            next |-> upvalues[u].next]
  BY OpenTypes DEF Upvalue
<1>4. \A u \in C : upvalues'[u] = [slot |-> None, closed |-> stack[Location(u)],
                                  next |-> upvalues[u].next]
  BY <1>2, <1>3, OpenTypes
<1>5. \A u \in DOMAIN upvalues \ C : upvalues'[u] = upvalues[u]
  BY <1>2
<1>6. \A u \in C : stack[Location(u)] \in Data
  BY OpenTypes DEF ListInv, Types
<1>7. \A u \in DOMAIN upvalues : upvalues'[u] \in Upvalue
  <2>1. ASSUME NEW u \in C PROVE upvalues'[u] \in Upvalue
    <3>1. /\ upvalues'[u] = [slot |-> None, closed |-> stack[Location(u)],
                            next |-> upvalues[u].next]
          /\ stack[Location(u)] \in Data /\ upvalues[u].next \in Nat
      BY <1>4, <1>6, OpenTypes
    <3> QED BY <3>1 DEF Upvalue, None
  <2> QED BY <1>3, <1>5, <2>1
<1>8. DOMAIN upvalues' = DOMAIN upvalues
  BY <1>2
<1>9. upvalues' \in Seq(Upvalue) /\ Len(upvalues') = Len(upvalues)
  <2>1. DOMAIN upvalues = 1 .. Len(upvalues) /\ Len(upvalues) \in Nat
    BY DEF ListInv, Types
  <2>2. upvalues' \in [1 .. Len(upvalues) -> Upvalue]
    BY <1>2, <1>7, <2>1
  <2>3. upvalues' \in Seq(Upvalue)
    BY <2>1, <2>2, SeqDef
  <2> QED BY <2>1, <2>2, <2>3, LenProperties
<1>10. Open' = Open \ C
  <2>1. ASSUME NEW u \in C PROVE upvalues'[u].slot = None
    <3> HIDE DEF C
    <3>1. upvalues'[u] = [slot |-> None, closed |-> stack[Location(u)],
                          next |-> upvalues[u].next]
      BY <1>4
    <3> QED BY <3>1
  <2> QED BY <1>5, <1>8, <2>1 DEF Open, Location
<1>11. Open \ C = {v \in Open : Location(v) <= n}
  BY OpenTypes
<1> HIDE DEF C
<1>12. \A u \in DOMAIN upvalues : u \in C <=> u \in Open /\ Location(u) > n
  BY DEF C
<1> QED BY <1>4, <1>5, <1>8, <1>9, <1>10, <1>11, <1>12

(* The stack and the names that are left. *)
LEMMA CutTypes ==
  ASSUME Types, NEW n \in Nat, n <= Len(stack), Cut(n)
  PROVE  /\ stack' \in Seq(Data) /\ scope' \in Seq(Variable)
         /\ Len(stack') = n /\ Len(scope') = n
         /\ \A i \in 1 .. n : stack'[i] = stack[i] /\ scope'[i] = scope[i]
<1>1. stack \in Seq(Data) /\ scope \in Seq(Variable) /\ Len(scope) = Len(stack)
      /\ Len(stack) \in Nat
  BY DEF Types
<1>2. 1 \in 1 .. Len(stack) + 1 /\ n \in 1 - 1 .. Len(stack)
  BY <1>1
<1>3. /\ SubSeq(stack, 1, n) \in Seq(Data) /\ Len(SubSeq(stack, 1, n)) = n
      /\ \A i \in 1 .. n : SubSeq(stack, 1, n)[i] = stack[i]
  BY <1>1, <1>2, SubSeqProperties
<1>4. /\ SubSeq(scope, 1, n) \in Seq(Variable) /\ Len(SubSeq(scope, 1, n)) = n
      /\ \A i \in 1 .. n : SubSeq(scope, 1, n)[i] = scope[i]
  BY <1>1, <1>2, SubSeqProperties
<1> QED BY <1>3, <1>4 DEF Cut

(* Leaving the slots above n: closeUpvalues, then the new top of the stack. *)
LEMMA LeavesSlots ==
  ASSUME IInv, NEW n \in Nat, n <= Len(stack), Cut(n),
         upvalues' = Closed(FirstAt(1 .. n)), openUpvalues' = FirstAt(1 .. n),
         UNCHANGED <<closures, held>>
  PROVE  Types' /\ Slots' /\ Linked' /\ Names'
<1> USE DEF IInv
<1>1. Types
  BY DEF ListInv
<1>2. /\ stack' \in Seq(Data) /\ scope' \in Seq(Variable)
      /\ Len(stack') = n /\ Len(scope') = n
      /\ \A i \in 1 .. n : stack'[i] = stack[i] /\ scope'[i] = scope[i]
  BY <1>1, CutTypes
<1>3. /\ DOMAIN upvalues' = DOMAIN upvalues /\ upvalues' \in Seq(Upvalue)
      /\ Open' = {v \in Open : Location(v) <= n}
      /\ \A u \in DOMAIN upvalues :
           IF u \in Open /\ Location(u) > n
             THEN upvalues'[u] = [slot |-> None, closed |-> stack[Location(u)],
                                  next |-> upvalues[u].next]
             ELSE upvalues'[u] = upvalues[u]
  BY ClosesAbove
<1>4. IsHighest(FirstAt(1 .. n), n)
  BY FirstAtIsHighest
<1>5. ASSUME NEW u \in Open'
      PROVE  /\ u \in Open /\ Location(u) <= n
             /\ Location(u)' = Location(u) /\ upvalues'[u] = upvalues[u]
  <2>1. u \in Open /\ Location(u) <= n /\ u \in DOMAIN upvalues
    BY <1>3, OpenTypes
  <2>2. ~ (Location(u) > n)
    BY <2>1, OpenTypes
  <2>3. upvalues'[u] = upvalues[u]
    BY <1>3, <2>1, <2>2
  <2> QED BY <2>1, <2>3 DEF Location
<1>6. openUpvalues' \in Nat
  BY <1>4, OpenTypes DEF IsHighest, None
<1>7. Types'
  BY <1>1, <1>2, <1>3, <1>6 DEF Types
<1>8. Slots'
  BY <1>2, <1>5, OpenTypes DEF Slots, ListInv
<1>9. Linked'
  <2>1. IsHighest(openUpvalues, Len(stack))'
    BY <1>2, <1>3, <1>4, <1>5, OpenTypes DEF IsHighest
  <2>2. ASSUME NEW u \in Open' PROVE IsHighest(upvalues[u].next, Location(u) - 1)'
    <3>1. IsHighest(upvalues[u].next, Location(u) - 1)
      BY <1>5 DEF ListInv, Linked
    <3> QED BY <1>3, <1>5, <3>1, OpenTypes DEF IsHighest
  <2> QED BY <2>1, <2>2 DEF Linked
<1>10. Names'
  <2>0. Len(scope) = Len(stack) /\ Len(stack) \in Nat /\ DOMAIN scope = 1 .. Len(stack)
        /\ DOMAIN scope' = 1 .. n
    BY <1>1, <1>2 DEF Types
  <2>1. \A i, j \in 1 .. Len(scope') : scope'[i] = scope'[j] => i = j
    BY <1>2, <2>0 DEF Names
  <2>2. Range(scope') \subseteq Range(scope)
    BY <1>2, <2>0 DEF Range
  <2>3. ASSUME NEW c \in 1 .. Len(closures)
        PROVE  IF closures[c] \in Open' THEN held[c] = scope'[Location(closures[c])']
               ELSE held[c] \notin Range(scope')
    <3>1. CASE closures[c] \in Open'
      BY <1>2, <1>5, <3>1, OpenTypes DEF Names
    <3>2. CASE closures[c] \notin Open
      BY <1>5, <2>2, <3>2 DEF Names
    <3>3. CASE closures[c] \in Open /\ closures[c] \notin Open'
      <4> DEFINE k == Location(closures[c])
      <4>1. held[c] = scope[k] /\ k > n /\ k \in 1 .. Len(stack)
        BY <1>3, <3>3, OpenTypes DEF Names
      <4>2. \A i \in 1 .. n : scope[i] # scope[k]
        <5> HIDE DEF k
        <5> QED BY <2>0, <4>1 DEF Names
      <4> QED BY <1>2, <2>0, <3>3, <4>1, <4>2 DEF Range
    <3> QED BY <3>1, <3>2, <3>3
  <2> QED BY <2>1, <2>3 DEF Names
<1> QED BY <1>7, <1>8, <1>9, <1>10

(* A new upvalue linked in front of the first of a lower slot. *)
LEMMA Links ==
  ASSUME ListInv, NEW slot \in 1 .. Len(stack), NEW found \in Nat, NEW created \in Nat \ {0},
         NEW first \in Nat, created \notin DOMAIN upvalues, IsHighest(found, slot),
         \A v \in Open : Location(v) # slot,
         first = openUpvalues,
         openUpvalues' = IF \A v \in Open : Location(v) <= slot THEN created ELSE first,
         Open' = Open \cup {created},
         upvalues'[created].slot = slot, upvalues'[created].next = found,
         \A u \in DOMAIN upvalues :
           /\ upvalues'[u].slot = upvalues[u].slot
           /\ upvalues'[u].next =
                IF u \in Open /\ Location(u) > slot /\ upvalues[u].next = found
                  THEN created ELSE upvalues[u].next,
         UNCHANGED stack
  PROVE  Slots' /\ Linked'
<1>1. /\ Len(stack) \in Nat /\ slot \in Nat \ {0} /\ slot <= Len(stack)
      /\ created \notin Open /\ created # None
  BY OpenTypes DEF None
<1>2. /\ Location(created)' = slot
      /\ \A u \in Open : Location(u)' = Location(u)
  BY OpenTypes DEF Location
<1>3. \A u \in Open :
        /\ Location(u) \in Nat /\ Location(u) \in 1 .. Len(stack) /\ u # None
        /\ Location(u) # slot /\ upvalues[u].next \in Nat
  BY OpenTypes
<1>4. Slots'
  BY <1>1, <1>2, <1>3 DEF Slots, ListInv
<1>5. IsHighest(openUpvalues, Len(stack))'
  <2>1. IsHighest(first, Len(stack))
    BY DEF ListInv, Linked
  <2>2. CASE \A v \in Open : Location(v) <= slot
    <3>1. openUpvalues' = created
      BY <2>2
    <3>2. \A v \in Open' : Location(v)' <= slot
      BY <1>1, <1>2, <2>2
    <3> QED BY <1>1, <1>2, <3>1, <3>2 DEF IsHighest
  <2>3. CASE ~ \A v \in Open : Location(v) <= slot
    <3>1. PICK w \in Open : Location(w) > slot
      BY <1>1, <1>3, <2>3
    <3>2. openUpvalues' = first
      BY <2>3
    <3>3. /\ first \in Open /\ first # None /\ Location(first) <= Len(stack)
          /\ \A v \in Open : Location(v) <= Location(first)
      BY <1>1, <1>3, <2>1, <3>1 DEF IsHighest
    <3>4. Location(first) > slot
      BY <1>1, <1>3, <3>1, <3>3
    <3>5. \A v \in Open' : Location(v)' <= Location(first)
      BY <1>1, <1>2, <1>3, <3>3, <3>4
    <3> QED BY <1>2, <1>3, <3>2, <3>3, <3>5 DEF IsHighest
  <2> QED BY <2>2, <2>3
<1>6. IsHighest(upvalues[created].next, Location(created) - 1)'
  <2>1. \A v \in Open : (Location(v) <= slot) <=> (Location(v) <= slot - 1)
    BY <1>1, <1>3
  <2>2. CASE found = None
    <3>1. \A v \in Open : Location(v) > slot - 1
      BY <1>1, <1>3, <2>2 DEF IsHighest
    <3>2. \A v \in Open' : Location(v)' > slot - 1
      BY <1>1, <1>2, <3>1
    <3> QED BY <1>2, <2>2, <3>2 DEF IsHighest
  <2>3. CASE found # None
    <3>1. /\ found \in Open /\ Location(found) <= slot - 1
          /\ \A v \in Open : Location(v) <= slot - 1 => Location(v) <= Location(found)
      BY <2>1, <2>3 DEF IsHighest
    <3>2. \A v \in Open' : Location(v)' <= slot - 1 => Location(v)' <= Location(found)
      BY <1>1, <1>2, <3>1
    <3> QED BY <1>2, <2>3, <3>1, <3>2 DEF IsHighest
  <2> QED BY <2>2, <2>3
<1>7. ASSUME NEW u \in Open
      PROVE  IsHighest(upvalues[u].next, Location(u) - 1)'
  <2>1. IsHighest(upvalues[u].next, Location(u) - 1)
    BY DEF ListInv, Linked
  <2>2. Location(u)' = Location(u) /\ u \in DOMAIN upvalues
    BY <1>2, OpenTypes
  <2>3. CASE Location(u) < slot
    <3>1. upvalues'[u].next = upvalues[u].next
      BY <1>3, <2>2, <2>3, <1>1
    <3>2. \A n \in Nat : n = upvalues[u].next => IsHighest(n, Location(u) - 1)'
      <4> SUFFICES ASSUME NEW n \in Nat, n = upvalues[u].next
                   PROVE  IsHighest(n, Location(u) - 1)'
        OBVIOUS
      <4>1. IsHighest(n, Location(u) - 1)
        BY <2>1
      <4> QED BY <1>1, <1>2, <1>3, <2>2, <2>3, <4>1 DEF IsHighest
    <3> QED BY <1>3, <3>1, <3>2
  <2>4. CASE Location(u) > slot /\ upvalues[u].next = found
    <3>1. upvalues'[u].next = created
      BY <2>2, <2>4
    <3>2. \A v \in Open : Location(v) <= Location(u) - 1 => Location(v) <= slot
      <4>1. CASE found = None
        BY <1>3, <2>1, <2>4, <4>1 DEF IsHighest
      <4>2. CASE found # None
        <5>1. found \in Open /\ Location(found) <= slot
          BY <4>2 DEF IsHighest
        <5>2. \A v \in Open : Location(v) <= Location(u) - 1 => Location(v) <= Location(found)
          BY <2>1, <2>4, <4>2 DEF IsHighest
        <5> QED BY <1>1, <1>3, <5>1, <5>2
      <4> QED BY <4>1, <4>2
    <3>3. \A v \in Open' : Location(v)' <= Location(u) - 1 => Location(v)' <= slot
      BY <1>1, <1>2, <3>2
    <3>4. slot <= Location(u) - 1
      BY <1>1, <1>3, <2>4
    <3> QED BY <1>1, <1>2, <2>2, <3>1, <3>3, <3>4 DEF IsHighest
  <2>5. CASE Location(u) > slot /\ upvalues[u].next # found
    <3>1. PICK w \in Nat : w = upvalues[u].next
      BY <1>3
    <3>2. upvalues'[u].next = w
      BY <2>2, <2>5, <3>1
    <3>3. IsHighest(w, Location(u) - 1)
      BY <2>1, <3>1
    <3>4. w # None /\ Location(w) > slot
      <4>1. ASSUME \A v \in Open : ~ (Location(v) > slot /\ Location(v) <= Location(u) - 1)
            PROVE  FALSE
        <5>1. \A v \in Open : Location(v) <= Location(u) - 1 <=> Location(v) <= slot
          BY <1>1, <1>3, <2>5, <4>1
        <5>2. CASE found = None
          BY <2>5, <3>1, <3>3, <5>1, <5>2, <1>3, <1>1 DEF IsHighest
        <5>3. CASE found # None
          <6>1. /\ found \in Open /\ Location(found) <= slot
                /\ \A v \in Open : Location(v) <= slot => Location(v) <= Location(found)
            BY <5>3 DEF IsHighest
          <6>2. w # None
            BY <1>3, <1>1, <3>3, <5>1, <6>1 DEF IsHighest
          <6>3. /\ w \in Open /\ Location(w) <= Location(u) - 1
                /\ \A v \in Open : Location(v) <= Location(u) - 1 => Location(v) <= Location(w)
            BY <3>3, <6>2 DEF IsHighest
          <6>4. Location(w) = Location(found)
            BY <1>3, <5>1, <6>1, <6>3
          <6> QED BY <2>5, <3>1, <6>1, <6>3, <6>4 DEF ListInv, Slots
        <5> QED BY <5>2, <5>3
      <4>2. PICK v \in Open : Location(v) > slot /\ Location(v) <= Location(u) - 1
        BY <4>1
      <4>3. w # None
        BY <1>3, <3>3, <4>2, <2>2 DEF IsHighest
      <4>4. w \in Open /\ Location(v) <= Location(w)
        BY <3>3, <4>2, <4>3 DEF IsHighest
      <4> QED BY <1>1, <1>3, <4>2, <4>3, <4>4
    <3>5. /\ w \in Open /\ Location(w) <= Location(u) - 1
          /\ \A v \in Open : Location(v) <= Location(u) - 1 => Location(v) <= Location(w)
      BY <3>3, <3>4 DEF IsHighest
    <3>6. \A v \in Open' : Location(v)' <= Location(u) - 1 => Location(v)' <= Location(w)
      BY <1>1, <1>2, <1>3, <3>4, <3>5
    <3> QED BY <1>2, <2>2, <3>2, <3>4, <3>5, <3>6 DEF IsHighest
  <2> QED BY <1>1, <1>3, <2>3, <2>4, <2>5
<1>8. Linked'
  BY <1>5, <1>6, <1>7 DEF Linked
<1> QED BY <1>4, <1>8

(* captureUpvalue links the new upvalue in front of the first of a lower   *)
(* slot, or finds the one of the slot.                                     *)
LEMMA CapturesSlot ==
  ASSUME IInv, NEW slot \in 1 .. Len(stack), CaptureUpvalue(slot),
         held' = Append(held, scope[slot]), UNCHANGED <<stack, frames, scope>>
  PROVE  IInv'
<1> USE DEF IInv
<1> DEFINE found == Search(slot)
           created == Len(upvalues) + 1
<1>1. /\ Types /\ Len(stack) \in Nat /\ slot \in Nat \ {0}
      /\ DOMAIN upvalues = 1 .. Len(upvalues) /\ Len(upvalues) \in Nat
      /\ Len(closures) \in Nat /\ Len(held) = Len(closures)
      /\ Len(scope) = Len(stack) /\ DOMAIN scope = 1 .. Len(stack)
      /\ scope[slot] \in Variable /\ scope[slot] \in Range(scope)
  BY DEF ListInv, Types, Range
<1>2. IsHighest(found, slot) /\ Before(found) = {v \in Open : Location(v) > slot}
  BY <1>1, FirstAtIsHighest DEF Search
<1>3. held' \in Seq(Variable) /\ Len(held') = Len(closures) + 1
      /\ held'[Len(closures) + 1] = scope[slot]
      /\ \A c \in 1 .. Len(closures) : held'[c] = held[c]
  BY <1>1, AppendProperties DEF Types
<1>4. CASE found # None /\ Location(found) = slot
  <2>1. found \in Open /\ found \in DOMAIN upvalues
    BY <1>2, <1>4, OpenTypes DEF IsHighest
  <2>2. closures' = Append(closures, found) /\ UNCHANGED <<upvalues, openUpvalues>>
    BY <1>4 DEF CaptureUpvalue
  <2>3. /\ closures' \in Seq(DOMAIN upvalues) /\ Len(closures') = Len(closures) + 1
        /\ closures'[Len(closures) + 1] = found
        /\ \A c \in 1 .. Len(closures) : closures'[c] = closures[c]
    <3> HIDE DEF found
    <3> QED BY <1>1, <2>1, <2>2, AppendProperties DEF Types
  <2>4. \A u : Location(u)' = Location(u)
    BY <2>2 DEF Location
  <2>5. Open' = Open
    BY <2>2, <2>4 DEF Open
  <2>6. ListInv'
    BY <1>1, <1>3, <2>2, <2>3, <2>4, <2>5 DEF ListInv, Types, Windows, Slots, Linked, IsHighest
  <2>7. Names'
    <3>1. \A c \in 1 .. Len(closures) : held[c] = scope[slot] <=> closures[c] = found
      <4> SUFFICES ASSUME NEW c \in 1 .. Len(closures)
                   PROVE  held[c] = scope[slot] <=> closures[c] = found
        OBVIOUS
      <4>1. CASE closures[c] \in Open
        <5>1. held[c] = scope[Location(closures[c])]
          BY <4>1 DEF Names
        <5>2. Location(closures[c]) \in 1 .. Len(stack)
          BY <4>1, OpenTypes
        <5>3. held[c] = scope[slot] <=> Location(closures[c]) = slot
          BY <1>1, <5>1, <5>2 DEF Names
        <5>4. Location(closures[c]) = slot <=> closures[c] = found
          BY <1>4, <2>1, <4>1 DEF ListInv, Slots
        <5> QED BY <5>3, <5>4
      <4>2. CASE closures[c] \notin Open
        BY <1>1, <2>1, <4>2 DEF Names
      <4> QED BY <4>1, <4>2
    <3>2. \A c \in 1 .. Len(closures') :
            IF closures'[c] \in Open THEN held'[c] = scope[Location(closures'[c])]
            ELSE held'[c] \notin Range(scope)
      <4> HIDE DEF found
      <4> QED BY <1>1, <1>3, <1>4, <2>1, <2>3 DEF Names
    <3>3. \A c, d \in 1 .. Len(closures') :
            held'[c] = held'[d] <=> closures'[c] = closures'[d]
      <4> HIDE DEF found
      <4> QED BY <1>1, <1>3, <2>3, <3>1 DEF Names
    <3> QED BY <2>4, <2>5, <3>2, <3>3 DEF Names
  <2> QED BY <2>6, <2>7
<1>5. CASE ~ (found # None /\ Location(found) = slot)
  <2> DEFINE new == [slot |-> slot, closed |-> Nothing, next |-> found]
             linked == [u \in DOMAIN upvalues |->
                          IF u \in Before(found) /\ upvalues[u].next = found
                            THEN [upvalues[u] EXCEPT !.next = created] ELSE upvalues[u]]
  <2>1. /\ closures' = Append(closures, created)
        /\ upvalues' = Append(linked, new)
        /\ openUpvalues' = IF Before(found) = {} THEN created ELSE openUpvalues
    BY <1>5 DEF CaptureUpvalue
  <2>2. \A v \in Open : Location(v) # slot
    BY <1>1, <1>2, <1>5, OpenTypes DEF IsHighest
  <2>3. found \in Nat /\ created \in Nat \ {0} /\ created \notin DOMAIN upvalues
        /\ Nothing \in Data \cup {Nothing}
    BY <1>1, <1>2, OpenTypes DEF IsHighest, None
  <2> HIDE DEF found, created
  <2>4. \A u \in DOMAIN upvalues :
          /\ linked[u] \in Upvalue /\ linked[u].slot = Location(u)
          /\ linked[u].next = IF u \in Open /\ Location(u) > slot /\ upvalues[u].next = found
                                THEN created ELSE upvalues[u].next
    <3> SUFFICES ASSUME NEW u \in DOMAIN upvalues
                 PROVE  /\ linked[u] \in Upvalue /\ linked[u].slot = Location(u)
                        /\ linked[u].next =
                             IF u \in Open /\ Location(u) > slot /\ upvalues[u].next = found
                               THEN created ELSE upvalues[u].next
      OBVIOUS
    <3>1. /\ upvalues[u] \in Upvalue
          /\ upvalues[u] = [slot |-> upvalues[u].slot, closed |-> upvalues[u].closed,
                            next |-> upvalues[u].next]
      BY OpenTypes DEF Upvalue
    <3>2. CASE u \in Open /\ Location(u) > slot /\ upvalues[u].next = found
      <4>1. linked[u] = [slot |-> upvalues[u].slot, closed |-> upvalues[u].closed,
                         next |-> created]
        BY <1>2, <3>1, <3>2
      <4> QED BY <2>3, <3>1, <3>2, <4>1 DEF Upvalue, Location
    <3>3. CASE ~ (u \in Open /\ Location(u) > slot /\ upvalues[u].next = found)
      <4>1. linked[u] = upvalues[u]
        BY <1>2, <3>3
      <4> QED BY <3>1, <3>3, <4>1 DEF Location
    <3> QED BY <3>2, <3>3
  <2>5. linked \in Seq(Upvalue) /\ Len(linked) = Len(upvalues)
    <3>1. linked \in [1 .. Len(upvalues) -> Upvalue]
      BY <1>1, <2>4
    <3> HIDE DEF linked
    <3>2. linked \in Seq(Upvalue)
      BY <1>1, <3>1, SeqDef
    <3> QED BY <1>1, <3>1, <3>2, LenProperties
  <2>6. new \in Upvalue /\ new.slot = slot /\ new.next = found
    BY <1>1, <2>3 DEF Upvalue
  <2> HIDE DEF linked, new
  <2>7. /\ upvalues' \in Seq(Upvalue) /\ Len(upvalues') = Len(upvalues) + 1
        /\ upvalues'[created] = new
        /\ \A u \in DOMAIN upvalues : upvalues'[u] = linked[u]
    BY <1>1, <2>1, <2>5, <2>6, AppendProperties DEF created
  <2>8. DOMAIN upvalues' = DOMAIN upvalues \cup {created}
    BY <1>1, <2>7 DEF created
  <2>9. upvalues'[created].slot = slot /\ upvalues'[created].next = found
    BY <2>6, <2>7
  <2>10. \A u \in DOMAIN upvalues :
           /\ upvalues'[u].slot = upvalues[u].slot
           /\ upvalues'[u].next =
                IF u \in Open /\ Location(u) > slot /\ upvalues[u].next = found
                  THEN created ELSE upvalues[u].next
    BY <2>4, <2>7 DEF Location
  <2>11. Open' = Open \cup {created}
    <3>1. Open' = {u \in DOMAIN upvalues' : upvalues'[u].slot # None}
      BY DEF Open, Location
    <3>2. Open = {u \in DOMAIN upvalues : upvalues[u].slot # None}
      BY DEF Open, Location
    <3>3. slot # None
      BY <1>1 DEF None
    <3> QED BY <2>3, <2>8, <2>9, <2>10, <3>1, <3>2, <3>3
  <2>12. /\ closures' \in Seq(DOMAIN upvalues') /\ Len(closures') = Len(closures) + 1
         /\ closures'[Len(closures) + 1] = created
         /\ \A c \in 1 .. Len(closures) :
              closures'[c] = closures[c] /\ closures[c] \in DOMAIN upvalues
    <3>1. closures \in Seq(DOMAIN upvalues)
      BY <1>1 DEF Types
    <3>2. closures \in Seq(DOMAIN upvalues')
      BY <2>8, <3>1, SeqMonotonic
    <3>3. created \in DOMAIN upvalues'
      BY <2>8
    <3>4. \A c \in 1 .. Len(closures) : closures[c] \in DOMAIN upvalues
      BY <3>1
    <3> QED BY <2>1, <3>2, <3>3, <3>4, AppendProperties
  <2>13. openUpvalues' \in Nat
    BY <1>1, <2>1, <2>3 DEF Types
  <2>14. Types'
    BY <1>1, <1>3, <2>7, <2>12, <2>13 DEF Types
  <2>15. Slots' /\ Linked'
    <3>1. PICK f \in Nat : f = found
      BY <2>3
    <3>2. PICK c \in Nat \ {0} : c = created
      BY <2>3
    <3>3. PICK first \in Nat : first = openUpvalues
      BY <1>1 DEF Types
    <3>4. openUpvalues' = IF \A v \in Open : Location(v) <= slot THEN c ELSE first
      <4>1. Before(found) = {} <=> \A v \in Open : Location(v) <= slot
        BY <1>1, <1>2, OpenTypes
      <4> QED BY <2>1, <3>2, <3>3, <4>1
    <3>5. upvalues'[c].slot = slot /\ upvalues'[c].next = f
      BY <2>9, <3>1, <3>2
    <3>6. \A u \in DOMAIN upvalues :
           /\ upvalues'[u].slot = upvalues[u].slot
           /\ upvalues'[u].next =
                IF u \in Open /\ Location(u) > slot /\ upvalues[u].next = f
                  THEN c ELSE upvalues[u].next
      BY <2>10, <3>1, <3>2
    <3>7. Open' = Open \cup {c} /\ c \notin DOMAIN upvalues /\ IsHighest(f, slot)
      BY <1>2, <2>3, <2>11, <3>1, <3>2
    <3> QED BY <2>2, <3>3, <3>4, <3>5, <3>6, <3>7, Links
  <2>17. Names'
    <3>1. \A c \in 1 .. Len(closures) : held[c] # scope[slot]
      <4> SUFFICES ASSUME NEW c \in 1 .. Len(closures) PROVE held[c] # scope[slot]
        OBVIOUS
      <4>1. CASE closures[c] \in Open
        <5>1. held[c] = scope[Location(closures[c])]
          BY <4>1 DEF Names
        <5>2. Location(closures[c]) \in 1 .. Len(stack) /\ Location(closures[c]) # slot
          BY <2>2, <4>1, OpenTypes
        <5> QED BY <1>1, <5>1, <5>2 DEF Names
      <4>2. CASE closures[c] \notin Open
        BY <1>1, <4>2 DEF Names
      <4> QED BY <4>1, <4>2
    <3>2. \A c \in 1 .. Len(closures) :
            IF closures[c] \in Open THEN held[c] = scope[Location(closures[c])]
            ELSE held[c] \notin Range(scope)
      BY DEF Names
    <3>3. \A c \in 1 .. Len(closures') :
            IF closures'[c] \in Open' THEN held'[c] = scope[upvalues'[closures'[c]].slot]
            ELSE held'[c] \notin Range(scope)
      <4> SUFFICES ASSUME NEW c \in 1 .. Len(closures')
                   PROVE  IF closures'[c] \in Open'
                            THEN held'[c] = scope[upvalues'[closures'[c]].slot]
                            ELSE held'[c] \notin Range(scope)
        OBVIOUS
      <4>1. CASE c = Len(closures) + 1
        <5>1. closures'[c] = created /\ held'[c] = scope[slot]
          BY <1>3, <2>12, <4>1
        <5> QED BY <2>9, <2>11, <5>1
      <4>2. CASE c \in 1 .. Len(closures)
        <5>1. upvalues'[closures[c]].slot = Location(closures[c])
          BY <2>10, <2>12, <4>2 DEF Location
        <5>2. closures'[c] \in Open' <=> closures[c] \in Open
          BY <2>3, <2>11, <2>12, <4>2
        <5> QED BY <1>3, <2>12, <3>2, <4>2, <5>1, <5>2
      <4> QED BY <1>1, <2>12, <4>1, <4>2
    <3>4. \A c, d \in 1 .. Len(closures') :
            held'[c] = held'[d] <=> closures'[c] = closures'[d]
      BY <1>1, <1>3, <2>3, <2>12, <3>1 DEF Names
    <3> QED BY <3>3, <3>4 DEF Names, Location
  <2> QED BY <2>14, <2>15, <2>17 DEF ListInv, Windows
<1> HIDE DEF found, created
<1> QED BY <1>4, <1>5

(* There is one open upvalue of the highest slot up to n. *)
LEMMA HighestIsOne ==
  ASSUME ListInv, NEW n \in Nat, NEW u, NEW v, IsHighest(u, n), IsHighest(v, n)
  PROVE  u = v
<1>1. u = None <=> v = None
  BY OpenTypes DEF IsHighest
<1>2. CASE u # None
  <2>1. u \in Open /\ v \in Open /\ Location(u) <= Location(v) /\ Location(v) <= Location(u)
    BY <1>1, <1>2 DEF IsHighest
  <2>2. Location(u) = Location(v)
    BY <2>1, OpenTypes
  <2> QED BY <2>1, <2>2 DEF ListInv, Slots
<1> QED BY <1>1, <1>2

(* Closing above the last open upvalue changes nothing. *)
LEMMA ClosesNone ==
  ASSUME ListInv, NEW n \in Nat, \A u \in Open : Location(u) <= n, n <= Len(stack)
  PROVE  Closed(FirstAt(1 .. n)) = upvalues /\ FirstAt(1 .. n) = openUpvalues
<1>1. Before(FirstAt(1 .. n)) = {} /\ IsHighest(FirstAt(1 .. n), n)
  BY FirstAtIsHighest, OpenTypes
<1>2. Closed(FirstAt(1 .. n)) = [u \in DOMAIN upvalues |-> upvalues[u]]
  BY <1>1 DEF Closed
<1>3. upvalues = [u \in DOMAIN upvalues |-> upvalues[u]]
  BY DEF ListInv, Types
<1>4. IsHighest(openUpvalues, Len(stack))
  BY DEF ListInv, Linked
<1>5. IsHighest(openUpvalues, n)
  BY <1>4, OpenTypes DEF IsHighest
<1>6. FirstAt(1 .. n) = openUpvalues
  BY <1>1, <1>5, HighestIsOne
<1> QED BY <1>2, <1>3, <1>6

(* The stack grows or keeps its size. *)
LEMMA KeepsList ==
  ASSUME ListInv, UNCHANGED <<upvalues, openUpvalues>>,
         Len(stack') \in Nat, Len(stack) <= Len(stack')
  PROVE  Open' = Open /\ Slots' /\ Linked'
<1>1. Open' = Open
  BY DEF Open, Location
<1>2. \A u \in Open : Location(u)' = Location(u)
  BY DEF Location
<1>3. \A u \in Open : Location(u) \in 1 .. Len(stack) /\ Location(u) \in 1 .. Len(stack')
  BY OpenTypes
<1>4. Slots'
  BY <1>1, <1>2, <1>3 DEF Slots, ListInv
<1>5. IsHighest(openUpvalues, Len(stack))
  BY DEF ListInv, Linked
<1>6. IsHighest(openUpvalues, Len(stack))'
  <2>1. PICK f : f = openUpvalues
    OBVIOUS
  <2>2. IsHighest(f, Len(stack))
    BY <1>5, <2>1
  <2>3. IsHighest(f, Len(stack))'
    BY <1>1, <1>2, <1>3, <2>2, OpenTypes DEF IsHighest, Location
  <2> QED BY <2>1, <2>3
<1>7. ASSUME NEW u \in Open PROVE IsHighest(upvalues[u].next, Location(u) - 1)'
  <2>1. PICK f : f = upvalues[u].next
    OBVIOUS
  <2>2. IsHighest(f, Location(u) - 1)
    BY <2>1 DEF ListInv, Linked
  <2>3. IsHighest(f, Location(u) - 1)'
    BY <1>1, <1>2, <2>2 DEF IsHighest, Location
  <2> QED BY <2>1, <2>3
<1> QED BY <1>1, <1>4, <1>6, <1>7 DEF Linked

(* The program starts without variables. *)
LEMMA Initially ==
  ASSUME Init PROVE IInv
<1>1. Open = {}
  BY DEF Init, Open
<1>2. Types
  BY DEF Init, Types, None
<1>3. Windows
  BY DEF Init, Windows
<1>4. Slots /\ Linked
  BY <1>1 DEF Init, Slots, Linked, IsHighest, None
<1>5. Names
  BY DEF Init, Names
<1> QED BY <1>2, <1>3, <1>4, <1>5 DEF IInv, ListInv

(* The windows of the activations that run. *)
LEMMA FrameTypes ==
  ASSUME IInv, Running
  PROVE  /\ Len(frames) \in Nat \ {0} /\ Len(stack) \in Nat
         /\ Last(frames) = frames[Len(frames)]
         /\ Last(frames) \in 1 .. Len(stack) + 1
         /\ \A i \in 1 .. Len(frames) :
              frames[i] \in Nat \ {0} /\ frames[i] <= Last(frames)
<1>1. frames \in Seq(Nat \ {0}) /\ frames # <<>> /\ Len(stack) \in Nat
  BY DEF IInv, ListInv, Windows, Types, Running
<1>2. Len(frames) \in Nat \ {0}
  BY <1>1, EmptySeq
<1>3. \A i \in 1 .. Len(frames) : frames[i] \in Nat \ {0}
  BY <1>1
<1>4. Last(frames) = frames[Len(frames)]
  BY DEF Last
<1> QED BY <1>1, <1>2, <1>3, <1>4 DEF IInv, ListInv, Windows

(* A slot of the running function is on the stack. *)
LEMMA FramesBelow ==
  ASSUME IInv, NEW slot \in FrameSlots
  PROVE  Running /\ slot \in 1 .. Len(stack)
<1>1. Running /\ slot \in Last(frames) .. Len(stack)
  BY DEF FrameSlots
<1> QED BY <1>1, FrameTypes

(* A call opens a window above the others. *)
LEMMA CallKeeps ==
  ASSUME IInv, Call PROVE IInv'
<1>1. UNCHANGED <<stack, upvalues, openUpvalues, closures, scope, held>>
      /\ frames' = Append(frames, Len(stack) + 1) /\ Len(stack) \in Nat
  BY DEF Call, IInv, ListInv, Types
<1>2. /\ frames' \in Seq(Nat \ {0}) /\ Len(frames') = Len(frames) + 1
      /\ frames'[Len(frames) + 1] = Len(stack) + 1
      /\ \A i \in 1 .. Len(frames) : frames'[i] = frames[i] /\ frames[i] \in Nat
      /\ Len(frames) \in Nat
  BY <1>1, AppendProperties DEF IInv, ListInv, Windows
<1>3. Windows'
  BY <1>1, <1>2 DEF Windows, IInv, ListInv
<1>4. Types' /\ Names' /\ Slots' /\ Linked'
  <2>1. Open' = Open /\ Slots' /\ Linked'
    BY <1>1, KeepsList DEF IInv
  <2>2. \A u : Location(u)' = Location(u)
    BY <1>1 DEF Location
  <2>3. Types'
    BY <1>1 DEF Types, IInv, ListInv
  <2>4. Names'
    BY <1>1, <2>1, <2>2 DEF Names, IInv
  <2> QED BY <2>1, <2>3, <2>4
<1> QED BY <1>3, <1>4 DEF IInv, ListInv

(* A new local is a variable that no slot and no closure names. *)
LEMMA DeclareKeeps ==
  ASSUME UpvaluesAssumption, IInv, Declare PROVE IInv'
<1> DEFINE name == Min(Unused)
<1>1. PICK v \in Data : /\ stack' = Append(stack, v) /\ scope' = Append(scope, name)
                         /\ UNCHANGED <<frames, upvalues, openUpvalues, closures, held>>
  BY DEF Declare
<1>2. name \in Variable /\ name \notin Range(scope) /\ name \notin Range(held)
  <2>1. Unused # {} /\ Unused \subseteq Nat
    BY DEF Declare, Unused, UpvaluesAssumption
  <2>2. \E m \in Unused : \A n \in Unused : m <= n
    BY <2>1, Least
  <2>3. name \in Unused
    BY <2>2 DEF Min
  <2> QED BY <2>3 DEF Unused
<1> HIDE DEF name
<1>3. /\ stack \in Seq(Data) /\ scope \in Seq(Variable) /\ Len(scope) = Len(stack)
      /\ Len(stack) \in Nat /\ DOMAIN scope = 1 .. Len(stack)
      /\ held \in Seq(Variable) /\ Len(held) = Len(closures) /\ Len(closures) \in Nat
      /\ DOMAIN held = 1 .. Len(closures)
  BY DEF IInv, ListInv, Types
<1>4. /\ stack' \in Seq(Data) /\ Len(stack') = Len(stack) + 1
      /\ scope' \in Seq(Variable) /\ Len(scope') = Len(stack) + 1
      /\ scope'[Len(stack) + 1] = name
      /\ \A i \in 1 .. Len(stack) : scope'[i] = scope[i]
  BY <1>1, <1>2, <1>3, AppendProperties
<1>5. Types'
  BY <1>1, <1>3, <1>4 DEF Types, IInv, ListInv
<1>6. Windows'
  <2>1. frames \in Seq(Nat \ {0}) /\ \A i \in 1 .. Len(frames) : frames[i] \in Nat
    BY DEF IInv, ListInv, Windows
  <2> QED BY <1>1, <1>3, <1>4, <2>1 DEF Windows, IInv, ListInv
<1>7. Open' = Open /\ Slots' /\ Linked'
  BY <1>1, <1>3, <1>4, KeepsList DEF IInv
<1>8. Names'
  <2>1. \A i \in 1 .. Len(stack) : scope[i] # name
    BY <1>2, <1>3 DEF Range
  <2>2. \A c \in 1 .. Len(closures) : held[c] # name
    BY <1>2, <1>3 DEF Range
  <2>3. \A i, j \in 1 .. Len(scope') : scope'[i] = scope'[j] => i = j
    BY <1>3, <1>4, <2>1 DEF IInv, Names
  <2>4. DOMAIN scope' = 1 .. Len(stack) + 1
    BY <1>4
  <2>5. \A x \in Range(scope') : x = name \/ x \in Range(scope)
    BY <1>3, <1>4, <2>4 DEF Range
  <2>6. \A c \in 1 .. Len(closures) :
          IF closures[c] \in Open THEN held[c] = scope'[Location(closures[c])]
          ELSE held[c] \notin Range(scope')
    <3> SUFFICES ASSUME NEW c \in 1 .. Len(closures)
                 PROVE  IF closures[c] \in Open THEN held[c] = scope'[Location(closures[c])]
                        ELSE held[c] \notin Range(scope')
      OBVIOUS
    <3>1. CASE closures[c] \in Open
      <4>1. Location(closures[c]) \in 1 .. Len(stack)
        BY <3>1, OpenTypes DEF IInv
      <4> QED BY <1>4, <3>1, <4>1 DEF IInv, Names
    <3>2. CASE closures[c] \notin Open
      BY <2>2, <2>5, <3>2 DEF IInv, Names
    <3> QED BY <3>1, <3>2
  <2>7. \A c \in 1 .. Len(closures') :
          IF closures'[c] \in Open' THEN held'[c] = scope'[upvalues'[closures'[c]].slot]
          ELSE held'[c] \notin Range(scope')
    BY <1>1, <1>7, <2>6 DEF Location
  <2>8. \A c, d \in 1 .. Len(closures') : held'[c] = held'[d] <=> closures'[c] = closures'[d]
    BY <1>1 DEF IInv, Names
  <2> QED BY <2>3, <2>7, <2>8 DEF Names, Location
<1> QED BY <1>5, <1>6, <1>7, <1>8 DEF IInv, ListInv

(* An assignment to a slot. *)
LEMMA AssignKeeps ==
  ASSUME IInv, NEW slot \in 1 .. Len(stack), NEW v \in Data,
         stack' = [stack EXCEPT ![slot] = v],
         UNCHANGED <<frames, upvalues, openUpvalues, closures, scope, held>>
  PROVE  IInv'
<1>1. stack \in Seq(Data) /\ Len(stack) \in Nat
  BY DEF IInv, ListInv, Types
<1>2. stack' \in Seq(Data) /\ Len(stack') = Len(stack)
  BY <1>1, ExceptSeq
<1>3. Open' = Open /\ Slots' /\ Linked'
  BY <1>1, <1>2, KeepsList DEF IInv
<1>4. Types'
  BY <1>2 DEF Types, IInv, ListInv
<1>5. Windows'
  BY <1>2 DEF Windows, IInv, ListInv
<1>6. \A u : Location(u)' = Location(u)
  BY DEF Location
<1>7. Names'
  BY <1>3, <1>6 DEF Names, IInv
<1> QED BY <1>3, <1>4, <1>5, <1>7 DEF IInv, ListInv

(* An assignment to a closed upvalue. *)
LEMMA AssignClosedKeeps ==
  ASSUME IInv, NEW u \in DOMAIN upvalues, Location(u) = None, NEW v \in Data,
         upvalues' = [upvalues EXCEPT ![u].closed = v],
         UNCHANGED <<stack, frames, openUpvalues, closures, scope, held>>
  PROVE  IInv' /\ Open' = Open
<1>1. /\ upvalues \in Seq(Upvalue) /\ Len(upvalues) \in Nat
      /\ DOMAIN upvalues = 1 .. Len(upvalues)
  BY DEF IInv, ListInv, Types
<1>2. /\ DOMAIN upvalues' = DOMAIN upvalues
      /\ \A w \in DOMAIN upvalues :
           upvalues'[w] \in Upvalue /\ upvalues'[w].slot = upvalues[w].slot
             /\ upvalues'[w].next = upvalues[w].next
  <2>1. upvalues[u] \in Upvalue
    BY <1>1
  <2>2. upvalues' = [upvalues EXCEPT ![u] = [upvalues[u] EXCEPT !.closed = v]]
    OBVIOUS
  <2>3. upvalues[u] = [slot |-> upvalues[u].slot, closed |-> upvalues[u].closed,
                       next |-> upvalues[u].next]
    BY <2>1 DEF Upvalue
  <2>4. [upvalues[u] EXCEPT !.closed = v] =
          [slot |-> upvalues[u].slot, closed |-> v, next |-> upvalues[u].next]
    BY <2>3
  <2>5. upvalues'[u] = [slot |-> upvalues[u].slot, closed |-> v, next |-> upvalues[u].next]
    BY <2>2, <2>4
  <2>6. \A w \in DOMAIN upvalues : w # u => upvalues'[w] = upvalues[w]
    BY <2>2
  <2>7. upvalues'[u] \in Upvalue
    BY <2>1, <2>5 DEF Upvalue
  <2>8. \A w \in DOMAIN upvalues : upvalues[w] \in Upvalue
    BY <1>1
  <2>9. DOMAIN upvalues' = DOMAIN upvalues
    BY <2>2
  <2>10. upvalues'[u].slot = upvalues[u].slot /\ upvalues'[u].next = upvalues[u].next
    BY <2>5
  <2> QED BY <2>6, <2>7, <2>8, <2>9, <2>10
<1>3. upvalues' \in Seq(Upvalue) /\ Len(upvalues') = Len(upvalues)
  <2>1. upvalues' \in [1 .. Len(upvalues) -> Upvalue]
    BY <1>1, <1>2
  <2>2. upvalues' \in Seq(Upvalue)
    BY <1>1, <2>1, SeqDef
  <2> QED BY <1>1, <2>1, <2>2, LenProperties
<1>4. Open' = Open
  BY <1>2 DEF Open, Location
<1>5. \A w \in DOMAIN upvalues : Location(w)' = Location(w)
  BY <1>2 DEF Location
<1>6. Types'
  BY <1>2, <1>3 DEF Types, IInv, ListInv
<1>7. Windows'
  BY DEF Windows, IInv, ListInv
<1>8. Slots'
  BY <1>4, <1>5, OpenTypes DEF Slots, IInv, ListInv
<1>9. Linked'
  <2>1. \A n, x : IsHighest(x, n) => IsHighest(x, n)'
    BY <1>4, <1>5, OpenTypes DEF IsHighest, IInv
  <2>2. PICK f : f = openUpvalues
    OBVIOUS
  <2>3. IsHighest(f, Len(stack))'
    BY <2>1, <2>2 DEF IInv, ListInv, Linked
  <2>4. ASSUME NEW w \in Open PROVE IsHighest(upvalues[w].next, Location(w) - 1)'
    <3>1. PICK x : x = upvalues[w].next
      OBVIOUS
    <3>2. PICK n : n = Location(w) - 1
      OBVIOUS
    <3>3. IsHighest(x, n)'
      BY <2>1, <3>1, <3>2 DEF IInv, ListInv, Linked
    <3>4. x = upvalues'[w].next /\ n = Location(w)' - 1
      BY <1>2, <1>5, <3>1, <3>2, OpenTypes DEF IInv
    <3> QED BY <3>3, <3>4
  <2> QED BY <1>4, <2>2, <2>3, <2>4 DEF Linked
<1>10. Names'
  <2>1. \A c \in 1 .. Len(closures) : closures[c] \in DOMAIN upvalues
    BY DEF IInv, ListInv, Types
  <2> QED BY <1>4, <1>5, <2>1 DEF Names, IInv
<1> QED BY <1>4, <1>6, <1>7, <1>8, <1>9, <1>10 DEF IInv, ListInv

(* A closure of an upvalue of the closure that makes it. *)
LEMMA CaptureEnclosingKeeps ==
  ASSUME IInv, CaptureEnclosing PROVE IInv'
<1>1. PICK e \in DOMAIN closures :
        /\ closures' = Append(closures, closures[e]) /\ held' = Append(held, held[e])
        /\ UNCHANGED <<stack, frames, upvalues, openUpvalues, scope>>
  BY DEF CaptureEnclosing
<1>2. /\ closures \in Seq(DOMAIN upvalues) /\ Len(closures) \in Nat
      /\ held \in Seq(Variable) /\ Len(held) = Len(closures)
      /\ DOMAIN closures = 1 .. Len(closures) /\ Len(stack) \in Nat
  BY DEF IInv, ListInv, Types
<1>3. closures[e] \in DOMAIN upvalues /\ held[e] \in Variable
  BY <1>2
<1>4. /\ closures' \in Seq(DOMAIN upvalues) /\ Len(closures') = Len(closures) + 1
      /\ closures'[Len(closures) + 1] = closures[e]
      /\ \A c \in 1 .. Len(closures) : closures'[c] = closures[c]
      /\ held' \in Seq(Variable) /\ Len(held') = Len(closures) + 1
      /\ held'[Len(closures) + 1] = held[e]
      /\ \A c \in 1 .. Len(closures) : held'[c] = held[c]
  BY <1>1, <1>2, <1>3, AppendProperties
<1>5. Open' = Open /\ Slots' /\ Linked'
  BY <1>1, <1>2, KeepsList DEF IInv
<1>6. Types'
  BY <1>1, <1>4 DEF Types, IInv, ListInv
<1>7. Windows'
  BY <1>1 DEF Windows, IInv, ListInv
<1>8. \A u : Location(u)' = Location(u)
  BY <1>1 DEF Location
<1>9. Names'
  <2>1. \A c \in 1 .. Len(closures') : \E d \in 1 .. Len(closures) :
          closures'[c] = closures[d] /\ held'[c] = held[d]
    BY <1>2, <1>4
  <2>2. \A i, j \in 1 .. Len(scope) : scope[i] = scope[j] => i = j
    BY DEF IInv, Names
  <2>3. \A c \in 1 .. Len(closures') :
          IF closures'[c] \in Open THEN held'[c] = scope[upvalues[closures'[c]].slot]
          ELSE held'[c] \notin Range(scope)
    <3> SUFFICES ASSUME NEW c \in 1 .. Len(closures')
                 PROVE  IF closures'[c] \in Open THEN held'[c] = scope[upvalues[closures'[c]].slot]
                        ELSE held'[c] \notin Range(scope)
      OBVIOUS
    <3>1. PICK d \in 1 .. Len(closures) : closures'[c] = closures[d] /\ held'[c] = held[d]
      BY <2>1
    <3>2. PICK u : u = closures'[c]
      OBVIOUS
    <3>3. IF u \in Open THEN held[d] = scope[Location(u)] ELSE held[d] \notin Range(scope)
      BY <3>1, <3>2 DEF IInv, Names
    <3>4. IF u \in Open THEN held'[c] = scope[upvalues[u].slot] ELSE held'[c] \notin Range(scope)
      BY <3>1, <3>3 DEF Location
    <3> QED BY <3>2, <3>4
  <2>4. \A c, d \in 1 .. Len(closures') :
          held'[c] = held'[d] <=> closures'[c] = closures'[d]
    <3> SUFFICES ASSUME NEW c \in 1 .. Len(closures'), NEW d \in 1 .. Len(closures')
                 PROVE  held'[c] = held'[d] <=> closures'[c] = closures'[d]
      OBVIOUS
    <3>1. PICK a \in 1 .. Len(closures) : closures'[c] = closures[a] /\ held'[c] = held[a]
      BY <2>1
    <3>2. PICK b \in 1 .. Len(closures) : closures'[d] = closures[b] /\ held'[d] = held[b]
      BY <2>1
    <3>3. held[a] = held[b] <=> closures[a] = closures[b]
      BY DEF IInv, Names
    <3> QED BY <3>1, <3>2, <3>3
  <2>5. \A c \in 1 .. Len(closures') :
          IF closures'[c] \in Open' THEN held'[c] = scope'[upvalues'[closures'[c]].slot]
          ELSE held'[c] \notin Range(scope')
    BY <1>1, <1>5, <2>3 DEF Location
  <2> QED BY <1>1, <2>2, <2>4, <2>5 DEF Names, Location
<1> QED BY <1>5, <1>6, <1>7, <1>9 DEF IInv, ListInv

-----------------------------------------------------------------------------
(* What the instructions that give slots up do: all but the first n go. *)
LeavesTo(n) ==
  /\ Cut(n)
  /\ upvalues' = Closed(FirstAt(1 .. n)) /\ openUpvalues' = FirstAt(1 .. n)
  /\ UNCHANGED <<closures, held, read>>

Leaves == PopLocal \/ CloseLocal \/ Return \/ RuntimeError

(* Blocks, returns and errors all leave slots that way. *)
LEMMA LeavesAre ==
  ASSUME IInv, Leaves
  PROVE  /\ \E n \in Nat : n <= Len(stack) /\ LeavesTo(n)
         /\ IInv'
<1>1. Len(stack) \in Nat /\ frames \in Seq(Nat \ {0}) /\ Len(frames) \in Nat
  BY DEF IInv, ListInv, Types, Windows
<1>2. ASSUME NEW n \in Nat, n <= Len(stack), LeavesTo(n), Windows' PROVE IInv'
  BY <1>2, LeavesSlots DEF LeavesTo, IInv, ListInv
<1>3. ASSUME NEW n \in Nat, n = Len(stack) - 1, FrameSlots # {}, LeavesTo(n), UNCHANGED frames
      PROVE  Windows'
  <2>1. Len(stack') = n
    BY <1>1, <1>3, CutTypes DEF LeavesTo, IInv, ListInv
  <2>2. Running /\ Last(frames) <= Len(stack)
    <3>1. PICK s \in FrameSlots : TRUE
      BY <1>3
    <3>2. Running /\ s \in Last(frames) .. Len(stack)
      BY <3>1 DEF FrameSlots
    <3> QED BY <1>1, <3>2, FrameTypes
  <2>3. \A i \in 1 .. Len(frames) : frames[i] <= n + 1
    BY <1>1, <1>3, <2>2, FrameTypes
  <2> QED BY <1>3, <2>1, <2>3 DEF Windows, IInv, ListInv
<1>4. ASSUME FrameSlots # {} PROVE Len(stack) - 1 \in Nat
  <2>1. PICK s \in FrameSlots : TRUE
    BY <1>4
  <2> QED BY <1>1, <2>1, FramesBelow
<1>5. CASE PopLocal
  <2>1. PICK n \in Nat : n = Len(stack) - 1
    BY <1>4, <1>5 DEF PopLocal
  <2>2. \A u \in Open : Location(u) <= n
    <3>1. \A u \in Open : Location(u) # Len(stack)
      BY <1>5, OpenTypes DEF PopLocal, IsOpen, IInv
    <3> QED BY <1>1, <2>1, <3>1, OpenTypes DEF IInv
  <2>3. LeavesTo(n)
    BY <1>1, <1>5, <2>1, <2>2, ClosesNone DEF PopLocal, LeavesTo, IInv
  <2> QED BY <1>1, <1>2, <1>3, <1>5, <2>1, <2>3 DEF PopLocal
<1>6. CASE CloseLocal
  <2>1. PICK n \in Nat : n = Len(stack) - 1
    BY <1>4, <1>6 DEF CloseLocal
  <2>2. LeavesTo(n)
    BY <1>1, <1>6, <2>1 DEF CloseLocal, CloseUpvalues, LeavesTo
  <2> QED BY <1>1, <1>2, <1>3, <1>6, <2>1, <2>2 DEF CloseLocal
<1>7. CASE Return
  <2>0. Running
    BY <1>7 DEF Return
  <2>1. PICK n \in Nat : n = Last(frames) - 1 /\ n <= Len(stack)
    BY <2>0, FrameTypes
  <2>2. LeavesTo(n)
    BY <1>7, <2>1 DEF Return, CloseUpvalues, LeavesTo
  <2>3. Windows'
    <3>1. Len(stack') = n
      BY <2>1, <2>2, CutTypes DEF LeavesTo, IInv, ListInv
    <3>2. /\ frames' \in Seq(Nat \ {0}) /\ Len(frames') = Len(frames) - 1
          /\ \A i \in 1 .. Len(frames) - 1 : frames'[i] = frames[i]
      <4>1. frames' = SubSeq(frames, 1, Len(frames) - 1)
        BY <1>7 DEF Return, Front
      <4>2. PICK m \in Nat : m = Len(frames) - 1
        BY <2>0, FrameTypes
      <4>3. m \in 1 - 1 .. Len(frames) /\ 1 \in 1 .. Len(frames) + 1
        BY <1>1, <4>2
      <4>4. /\ SubSeq(frames, 1, m) \in Seq(Nat \ {0}) /\ Len(SubSeq(frames, 1, m)) = m
            /\ \A i \in 1 .. m : SubSeq(frames, 1, m)[i] = frames[i]
        BY <1>1, <4>3, SubSeqProperties
      <4> QED BY <4>1, <4>2, <4>4
    <3>3. \A i \in 1 .. Len(frames) : frames[i] \in Nat /\ frames[i] <= n + 1
      BY <2>0, <2>1, FrameTypes
    <3>4. \A i \in 1 .. Len(frames') : frames'[i] <= Len(stack') + 1
      BY <1>1, <3>1, <3>2, <3>3
    <3>5. \A i, j \in 1 .. Len(frames) : i <= j => frames[i] <= frames[j]
      BY DEF Windows, IInv, ListInv
    <3>6. \A i, j \in 1 .. Len(frames') : i <= j => frames'[i] <= frames'[j]
      <4>1. \A i \in 1 .. Len(frames') : i \in 1 .. Len(frames) /\ frames'[i] = frames[i]
        BY <1>1, <3>2
      <4> QED BY <3>5, <4>1
    <3> QED BY <3>2, <3>4, <3>6 DEF Windows
  <2> QED BY <1>2, <2>1, <2>2, <2>3
<1>8. CASE RuntimeError
  <2>1. PICK n \in Nat : n = 0
    OBVIOUS
  <2>2. LeavesTo(n)
    BY <1>8, <2>1 DEF RuntimeError, CloseUpvalues, LeavesTo
  <2>3. Windows'
    BY <1>8 DEF RuntimeError, Windows
  <2> QED BY <1>1, <1>2, <2>1, <2>2, <2>3
<1> QED BY <1>5, <1>6, <1>7, <1>8 DEF Leaves

(* Every instruction keeps the invariant. *)
LEMMA StepKeeps ==
  ASSUME UpvaluesAssumption, IInv, [Next]_vars PROVE IInv'
<1>1. CASE Call BY <1>1, CallKeeps
<1>2. CASE Declare BY <1>2, DeclareKeeps
<1>3. ASSUME UNCHANGED <<machine, scope, held>> PROVE IInv'
  <2>1. Len(stack) \in Nat
    BY DEF IInv, ListInv, Types
  <2>2. Open' = Open /\ Slots' /\ Linked'
    BY <1>3, <2>1, KeepsList DEF machine, IInv
  <2>3. Types' /\ Windows'
    BY <1>3 DEF machine, IInv, ListInv, Types, Windows
  <2>4. \A u : Location(u)' = Location(u)
    BY <1>3 DEF Location, machine
  <2>5. Names'
    BY <1>3, <2>2, <2>4 DEF Names, IInv, machine
  <2> QED BY <2>2, <2>3, <2>5 DEF IInv, ListInv
<1>4. CASE GetLocal \/ GetUpvalue \/ UNCHANGED vars
  BY <1>3, <1>4 DEF GetLocal, GetUpvalue, vars, machine
<1>5. CASE SetLocal
  BY <1>5, FramesBelow, AssignKeeps DEF SetLocal
<1>6. CASE CaptureLocal
  <2>1. PICK slot \in FrameSlots : CaptureUpvalue(slot) /\ held' = Append(held, scope[slot])
    BY <1>6 DEF CaptureLocal
  <2>2. slot \in 1 .. Len(stack)
    BY FramesBelow
  <2> QED BY <1>6, <2>1, <2>2, CapturesSlot DEF CaptureLocal
<1>7. CASE CaptureEnclosing BY <1>7, CaptureEnclosingKeeps
<1>8. CASE SetUpvalue
  <2>1. PICK c \in DOMAIN closures, v \in Data :
          LET u == closures[c]
          IN IF Location(u) = None
               THEN upvalues' = [upvalues EXCEPT ![u].closed = v] /\ UNCHANGED stack
               ELSE stack' = [stack EXCEPT ![Location(u)] = v] /\ UNCHANGED upvalues
    BY <1>8 DEF SetUpvalue
  <2>2. PICK u \in DOMAIN upvalues : u = closures[c]
    BY DEF IInv, ListInv, Types
  <2>3. UNCHANGED <<frames, openUpvalues, closures, scope, held>>
    BY <1>8 DEF SetUpvalue
  <2>4. CASE Location(u) = None
    BY <2>1, <2>2, <2>3, <2>4, AssignClosedKeeps
  <2>5. CASE Location(u) # None
    <3>1. Location(u) \in 1 .. Len(stack)
      BY <2>5, OpenTypes DEF IInv, Open
    <3> QED BY <2>1, <2>2, <2>3, <2>5, <3>1, AssignKeeps
  <2> QED BY <2>4, <2>5
<1>9. CASE Leaves BY <1>9, LeavesAre
<1> QED BY <1>1, <1>2, <1>4, <1>5, <1>6, <1>7, <1>8, <1>9 DEF Next, Leaves

(* Each link of vm.openUpvalues leads to the open upvalue of the next lower *)
(* slot, and a closure's upvalue is the one of the variable it captured.    *)
THEOREM ListInvariant == ASSUME UpvaluesAssumption PROVE Spec => []IInv
<1>1. Init => IInv
  BY Initially
<1>2. IInv /\ [Next]_vars => IInv'
  BY StepKeeps
<1> QED BY <1>1, <1>2, PTL DEF Spec

(* vm.openUpvalues holds the open upvalues, the highest slot first, and     *)
(* they point into the stack (captureUpvalue, closeUpvalues).               *)
THEOREM OpenUpvaluesAreSorted == ASSUME UpvaluesAssumption PROVE Spec => []OpenSorted
<1>1. IInv => OpenSorted
  <2> SUFFICES ASSUME IInv PROVE OpenSorted
    OBVIOUS
  <2>1. List = Open
    BY ListIsOpen DEF IInv
  <2>2. ASSUME NEW u \in List
        PROVE  upvalues[u].next = None \/ Location(upvalues[u].next) < Location(u)
    <3>1. IsHighest(upvalues[u].next, Location(u) - 1)
      BY <2>1 DEF IInv, ListInv, Linked
    <3> QED BY <2>1, <3>1, OpenTypes DEF IsHighest, IInv
  <2>3. ASSUME NEW u \in DOMAIN upvalues PROVE Location(u) <= Len(stack)
    BY OpenTypes DEF IInv, Open, None
  <2> QED BY <2>1, <2>2, <2>3 DEF OpenSorted, Open
<1> QED BY <1>1, ListInvariant, PTL

-----------------------------------------------------------------------------
(* The variables of the program. *)
InUse == Range(scope) \cup Range(held)
Values == [x \in InUse |-> ValueOf(x)]

ValuesAre ==
  /\ DOMAIN Values = InUse
  /\ \A x \in InUse : \/ \E i \in 1 .. Len(stack) : x = scope[i]
                      \/ \E c \in 1 .. Len(closures) : x = held[c]
  /\ \A i \in 1 .. Len(stack) : scope[i] \in InUse /\ Values[scope[i]] = stack[i]
  /\ \A c \in 1 .. Len(closures) :
       held[c] \in InUse /\ Values[held[c]] = Dereferenced(closures[c])

(* The value of a variable, by its slot and by its closures. *)
LEMMA ValueFacts == IInv => ValuesAre
<1> SUFFICES ASSUME IInv PROVE ValuesAre
  OBVIOUS
<1>1. /\ Len(scope) = Len(stack) /\ Len(stack) \in Nat /\ DOMAIN scope = 1 .. Len(stack)
      /\ Len(held) = Len(closures) /\ Len(closures) \in Nat /\ DOMAIN held = 1 .. Len(closures)
  BY DEF IInv, ListInv, Types
<1>2. \A x : x \in Range(scope) <=> \E i \in 1 .. Len(stack) : x = scope[i]
  BY <1>1 DEF Range
<1>3. \A x : x \in Range(held) <=> \E c \in 1 .. Len(closures) : x = held[c]
  BY <1>1 DEF Range
<1>4. ASSUME NEW i \in 1 .. Len(stack) PROVE ValueOf(scope[i]) = stack[i]
  <2> DEFINE j == CHOOSE k \in DOMAIN scope : scope[k] = scope[i]
  <2>1. j \in DOMAIN scope /\ scope[j] = scope[i]
    BY <1>1
  <2> HIDE DEF j
  <2>2. j = i
    BY <1>1, <2>1 DEF IInv, Names
  <2> QED BY <1>2, <2>2 DEF ValueOf, j
<1>5. ASSUME NEW c \in 1 .. Len(closures) PROVE ValueOf(held[c]) = Dereferenced(closures[c])
  <2>1. CASE closures[c] \in Open
    <3>1. PICK i \in 1 .. Len(stack) : i = Location(closures[c])
      BY <2>1, OpenTypes DEF IInv
    <3>2. held[c] = scope[i]
      BY <2>1, <3>1 DEF IInv, Names
    <3>3. Dereferenced(closures[c]) = stack[i]
      BY <2>1, <3>1 DEF Dereferenced, Open
    <3> QED BY <1>4, <3>2, <3>3
  <2>2. CASE closures[c] \notin Open
    <3>1. held[c] \notin Range(scope)
      BY <2>2 DEF IInv, Names
    <3> DEFINE d == CHOOSE k \in DOMAIN held : held[k] = held[c]
    <3>2. d \in DOMAIN held /\ held[d] = held[c]
      BY <1>1
    <3> HIDE DEF d
    <3>3. closures[d] = closures[c]
      BY <1>1, <3>2 DEF IInv, Names
    <3> QED BY <3>1, <3>3 DEF ValueOf, d
  <2> QED BY <2>1, <2>2
<1>6. \A x \in InUse : Values[x] = ValueOf(x)
  BY DEF Values
<1>7. DOMAIN Values = InUse
  BY DEF Values
<1> QED BY <1>2, <1>3, <1>4, <1>5, <1>6, <1>7 DEF ValuesAre, InUse

(* The same in the next state. *)
LEMMA ValueFactsNext == IInv' => ValuesAre'
<1> QED BY ValueFacts, PTL

(* The variables of the next state are a function. *)
LEMMA NextIsFunction ==
  Values' = [x \in InUse' |-> Values'[x]]
BY DEF Values

(* At the start there are no variables. *)
LEMMA InitShares == Init => Abstract!Init
<1> SUFFICES ASSUME Init PROVE Abstract!Init
  OBVIOUS
<1>1. Range(scope) = {} /\ Range(held) = {}
  BY DEF Init, Range
<1>2. [x \in Range(scope) \cup Range(held) |-> ValueOf(x)] = <<>>
  BY <1>1
<1> QED BY <1>2 DEF Init, Abstract!Init

(* A new local is a new variable. *)
LEMMA DeclareShares ==
  ASSUME UpvaluesAssumption, IInv, IInv', Declare PROVE Abstract!Declare
<1> DEFINE name == Min(Unused)
<1>1. PICK v \in Data : /\ stack' = Append(stack, v) /\ scope' = Append(scope, name)
                         /\ UNCHANGED <<frames, upvalues, openUpvalues, closures, read, held>>
  BY DEF Declare
<1>2. name \in Variable /\ name \notin InUse
  <2>1. Unused # {} /\ Unused \subseteq Nat
    BY DEF Declare, Unused, UpvaluesAssumption
  <2>2. \E m \in Unused : \A n \in Unused : m <= n
    BY <2>1, Least
  <2>3. name \in Unused
    BY <2>2 DEF Min
  <2> QED BY <2>3 DEF Unused, InUse
<1> HIDE DEF name
<1>3. /\ stack \in Seq(Data) /\ scope \in Seq(Variable) /\ Len(scope) = Len(stack)
      /\ Len(stack) \in Nat /\ Len(closures) \in Nat
  BY DEF IInv, ListInv, Types
<1>4. /\ stack' \in Seq(Data) /\ Len(stack') = Len(stack) + 1 /\ stack'[Len(stack) + 1] = v
      /\ scope' \in Seq(Variable) /\ scope'[Len(stack) + 1] = name
      /\ \A i \in 1 .. Len(stack) : scope'[i] = scope[i] /\ stack'[i] = stack[i]
  BY <1>1, <1>2, <1>3, AppendProperties
<1>5. ValuesAre /\ ValuesAre'
  BY ValueFacts, ValueFactsNext
<1>6. \A c \in 1 .. Len(closures) : Dereferenced(closures[c])' = Dereferenced(closures[c])
  <2> SUFFICES ASSUME NEW c \in 1 .. Len(closures)
               PROVE  Dereferenced(closures[c])' = Dereferenced(closures[c])
    OBVIOUS
  <2>1. PICK u \in DOMAIN upvalues : u = closures[c]
    BY DEF IInv, ListInv, Types
  <2>2. Location(u) = None \/ Location(u) \in 1 .. Len(stack)
    BY OpenTypes DEF IInv, Open
  <2>3. Dereferenced(u)' = Dereferenced(u)
    <3>1. CASE Location(u) = None
      BY <1>1, <3>1 DEF Dereferenced, Location
    <3>2. CASE Location(u) # None
      <4>1. PICK k \in 1 .. Len(stack) : k = Location(u)
        BY <2>2, <3>2
      <4> QED BY <1>1, <1>4, <3>2, <4>1 DEF Dereferenced, Location
    <3> QED BY <3>1, <3>2
  <2> QED BY <1>1, <2>1, <2>3 DEF Dereferenced, Location
<1>7. InUse' = InUse \cup {name}
  <2>1. \A x \in InUse' : x \in InUse \cup {name}
    <3> SUFFICES ASSUME NEW x \in InUse' PROVE x \in InUse \cup {name}
      OBVIOUS
    <3>1. CASE \E i \in 1 .. Len(stack') : x = scope'[i]
      <4>1. PICK i \in 1 .. Len(stack') : x = scope'[i]
        BY <3>1
      <4>2. CASE i = Len(stack) + 1
        BY <1>4, <4>1, <4>2
      <4>3. CASE i \in 1 .. Len(stack)
        <5>1. x = scope[i]
          BY <1>4, <4>1, <4>3
        <5> QED BY <1>5, <4>3, <5>1 DEF ValuesAre
      <4> QED BY <1>3, <1>4, <4>2, <4>3
    <3>2. CASE \E c \in 1 .. Len(closures') : x = held'[c]
      BY <1>1, <1>5, <3>2 DEF ValuesAre
    <3> QED BY <1>5, <3>1, <3>2 DEF ValuesAre
  <2>2. name \in InUse'
    BY <1>3, <1>4, <1>5 DEF ValuesAre
  <2>3. \A x \in InUse : x \in InUse'
    <3> SUFFICES ASSUME NEW x \in InUse PROVE x \in InUse'
      OBVIOUS
    <3>1. CASE \E i \in 1 .. Len(stack) : x = scope[i]
      BY <1>3, <1>4, <1>5, <3>1 DEF ValuesAre
    <3>2. CASE \E c \in 1 .. Len(closures) : x = held[c]
      BY <1>1, <1>5, <3>2 DEF ValuesAre
    <3> QED BY <1>5, <3>1, <3>2 DEF ValuesAre
  <2> QED BY <2>1, <2>2, <2>3
<1> DEFINE f == [y \in InUse \cup {name} |-> IF y = name THEN v ELSE Values[y]]
<1>8. \A x \in InUse' : Values'[x] = f[x]
  <2> SUFFICES ASSUME NEW x \in InUse' PROVE Values'[x] = f[x]
    OBVIOUS
  <2>1. CASE \E i \in 1 .. Len(stack') : x = scope'[i]
    <3>1. PICK i \in 1 .. Len(stack') : x = scope'[i]
      BY <2>1
    <3>2. Values'[x] = stack'[i]
      BY <1>5, <3>1 DEF ValuesAre
    <3>3. CASE i = Len(stack) + 1
      BY <1>4, <3>1, <3>2, <3>3
    <3>4. CASE i \in 1 .. Len(stack)
      <4>1. x = scope[i] /\ x \in InUse /\ x # name /\ Values[x] = stack[i]
        BY <1>2, <1>4, <1>5, <3>1, <3>4 DEF ValuesAre
      <4> QED BY <1>4, <3>2, <3>4, <4>1
    <3> QED BY <1>3, <1>4, <3>3, <3>4
  <2>2. CASE \E c \in 1 .. Len(closures') : x = held'[c]
    <3>1. PICK c \in 1 .. Len(closures) : x = held[c]
      BY <1>1, <2>2
    <3>2. Values'[x] = Dereferenced(closures[c])'
      BY <1>1, <1>5, <3>1 DEF ValuesAre
    <3>3. x \in InUse /\ x # name /\ Values[x] = Dereferenced(closures[c])
      BY <1>2, <1>5, <3>1 DEF ValuesAre
    <3> QED BY <1>6, <3>2, <3>3
  <2> QED BY <1>5, <2>1, <2>2 DEF ValuesAre
<1>9. Values' = f
  BY <1>7, <1>8, NextIsFunction
<1>10. DOMAIN Values = InUse
  BY <1>5 DEF ValuesAre
<1> QED BY <1>1, <1>2, <1>9, <1>10 DEF Abstract!Declare, Values, InUse

(* An assignment to the slot of a variable, or to its closed upvalue. *)
LEMMA AssignShares ==
  ASSUME IInv, IInv', NEW v \in Data, NEW x \in InUse,
         UNCHANGED <<closures, read, scope, held>>,
         Len(stack') = Len(stack),
         \A i \in 1 .. Len(stack) : stack'[i] = IF scope[i] = x THEN v ELSE stack[i],
         \A c \in 1 .. Len(closures) : \A u : u = closures[c] =>
           Dereferenced(u)' = IF held[c] = x THEN v ELSE Dereferenced(u)
  PROVE  Abstract!Assign
<1>1. ValuesAre /\ ValuesAre'
  BY ValueFacts, ValueFactsNext
<1>2. InUse' = InUse
  BY DEF InUse
<1>3. DOMAIN Values = InUse
  BY <1>1 DEF ValuesAre
<1> DEFINE f == [Values EXCEPT ![x] = v]
<1>4. \A y \in InUse' : Values'[y] = f[y]
  <2> SUFFICES ASSUME NEW y \in InUse PROVE Values'[y] = f[y]
    BY <1>2
  <2>1. f[y] = IF y = x THEN v ELSE Values[y]
    BY <1>3
  <2>2. CASE \E i \in 1 .. Len(stack) : y = scope[i]
    BY <1>1, <2>1, <2>2 DEF ValuesAre
  <2>3. CASE \E c \in 1 .. Len(closures) : y = held[c]
    <3>1. PICK c \in 1 .. Len(closures) : y = held[c]
      BY <2>3
    <3>2. PICK u : u = closures[c]
      OBVIOUS
    <3>3. Values'[y] = Dereferenced(u)'
      BY <1>1, <3>1, <3>2 DEF ValuesAre, Dereferenced, Location
    <3>4. Values[y] = Dereferenced(u)
      BY <1>1, <3>1, <3>2 DEF ValuesAre
    <3> QED BY <2>1, <3>1, <3>2, <3>3, <3>4
  <2> QED BY <1>1, <2>2, <2>3 DEF ValuesAre
<1>5. DOMAIN f = InUse' /\ f = [y \in DOMAIN f |-> f[y]]
  BY <1>2, <1>3 DEF Values
<1>6. Values' = f
  BY <1>4, <1>5, NextIsFunction
<1> QED BY <1>3, <1>6 DEF Abstract!Assign, Values, InUse

(* SetLocal assigns the variable of the slot. *)
LEMMA SetLocalShares ==
  ASSUME IInv, IInv', SetLocal PROVE Abstract!Assign
<1>1. PICK slot \in FrameSlots, v \in Data : stack' = [stack EXCEPT ![slot] = v]
  BY DEF SetLocal
<1>2. slot \in 1 .. Len(stack)
  BY FramesBelow
<1>3. UNCHANGED <<upvalues, closures, read, scope, held>>
  BY DEF SetLocal
<1>4. /\ stack \in Seq(Data) /\ Len(stack) \in Nat /\ Len(scope) = Len(stack)
      /\ Len(closures) \in Nat
  BY DEF IInv, ListInv, Types
<1>5. /\ Len(stack') = Len(stack)
      /\ \A i \in 1 .. Len(stack) : stack'[i] = IF i = slot THEN v ELSE stack[i]
  BY <1>1, <1>2, <1>4, ExceptSeq
<1>6. PICK x \in InUse : x = scope[slot]
  BY <1>2, ValueFacts DEF ValuesAre
<1>7. \A i \in 1 .. Len(stack) : scope[i] = x <=> i = slot
  BY <1>2, <1>4, <1>6 DEF IInv, Names
<1>8. ASSUME NEW c \in 1 .. Len(closures), NEW u, u = closures[c]
      PROVE  Dereferenced(u)' = IF held[c] = x THEN v ELSE Dereferenced(u)
  <2>0. u \in DOMAIN upvalues
    BY <1>8 DEF IInv, ListInv, Types
  <2>1. CASE u \in Open
    <3>1. PICK k \in 1 .. Len(stack) : k = Location(u) /\ k # None /\ held[c] = scope[k]
      BY <1>8, <2>1, OpenTypes DEF IInv, Names, Open
    <3> QED BY <1>3, <1>5, <1>7, <3>1 DEF Dereferenced, Location
  <2>2. CASE u \notin Open
    <3>1. held[c] \notin Range(scope) /\ Location(u) = None
      BY <1>8, <2>0, <2>2 DEF IInv, Names, Open
    <3>2. x \in Range(scope)
      BY <1>2, <1>4, <1>6 DEF Range
    <3> QED BY <1>3, <3>1, <3>2 DEF Dereferenced, Location
  <2> QED BY <2>1, <2>2
<1> QED BY <1>3, <1>5, <1>7, <1>8, AssignShares

(* SetUpvalue assigns the variable of the closure, open or closed. *)
LEMMA SetUpvalueShares ==
  ASSUME IInv, IInv', SetUpvalue PROVE Abstract!Assign
<1>1. PICK b \in DOMAIN closures, v \in Data :
        LET u == closures[b]
        IN IF Location(u) = None
             THEN upvalues' = [upvalues EXCEPT ![u].closed = v] /\ UNCHANGED stack
             ELSE stack' = [stack EXCEPT ![Location(u)] = v] /\ UNCHANGED upvalues
  BY DEF SetUpvalue
<1>2. UNCHANGED <<closures, read, scope, held>>
  BY DEF SetUpvalue
<1>3. /\ stack \in Seq(Data) /\ Len(stack) \in Nat /\ Len(scope) = Len(stack)
      /\ DOMAIN scope = 1 .. Len(stack)
      /\ Len(closures) \in Nat /\ DOMAIN closures = 1 .. Len(closures)
      /\ \A c \in 1 .. Len(closures) : closures[c] \in DOMAIN upvalues
  BY DEF IInv, ListInv, Types
<1>4. PICK w \in DOMAIN upvalues : w = closures[b]
  BY <1>3
<1>5. PICK x \in InUse : x = held[b]
  BY <1>3, ValueFacts DEF ValuesAre
<1>6. \A c \in 1 .. Len(closures) : held[c] = x <=> closures[c] = w
  BY <1>3, <1>4, <1>5 DEF IInv, Names
<1>7. CASE Location(w) = None
  <2>1. upvalues' = [upvalues EXCEPT ![w].closed = v] /\ UNCHANGED stack
    BY <1>1, <1>4, <1>7
  <2>2. x \notin Range(scope)
    BY <1>3, <1>4, <1>5, <1>7 DEF IInv, Names, Open
  <2>3. \A i \in 1 .. Len(stack) : scope[i] # x
    BY <1>3, <2>2 DEF Range
  <2>4. upvalues[w] \in Upvalue
    BY OpenTypes DEF IInv
  <2>5. /\ upvalues'[w] = [upvalues[w] EXCEPT !.closed = v]
        /\ \A u \in DOMAIN upvalues \ {w} : upvalues'[u] = upvalues[u]
    BY <2>1
  <2>6. upvalues'[w].slot = upvalues[w].slot /\ upvalues'[w].closed = v
    BY <2>4, <2>5 DEF Upvalue
  <2>7. ASSUME NEW c \in 1 .. Len(closures), NEW u, u = closures[c]
        PROVE  Dereferenced(u)' = IF held[c] = x THEN v ELSE Dereferenced(u)
    <3>1. CASE u = w
      BY <1>6, <1>7, <2>6, <2>7, <3>1 DEF Dereferenced, Location
    <3>2. CASE u # w
      BY <1>3, <1>6, <2>1, <2>5, <2>7, <3>2 DEF Dereferenced, Location
    <3> QED BY <3>1, <3>2
  <2> QED BY <1>2, <2>1, <2>3, <2>7, AssignShares
<1>8. CASE Location(w) # None
  <2>1. PICK slot \in 1 .. Len(stack) : slot = Location(w)
    BY <1>8, OpenTypes DEF IInv, Open
  <2>2. stack' = [stack EXCEPT ![slot] = v] /\ UNCHANGED upvalues
    BY <1>1, <1>4, <1>8, <2>1
  <2>3. /\ Len(stack') = Len(stack)
        /\ \A i \in 1 .. Len(stack) : stack'[i] = IF i = slot THEN v ELSE stack[i]
    BY <1>3, <2>2, ExceptSeq
  <2>4. x = scope[slot]
    BY <1>3, <1>4, <1>5, <1>8, <2>1 DEF IInv, Names, Open
  <2>5. \A i \in 1 .. Len(stack) : scope[i] = x <=> i = slot
    BY <1>3, <2>4 DEF IInv, Names
  <2>6. ASSUME NEW c \in 1 .. Len(closures), NEW u, u = closures[c]
        PROVE  Dereferenced(u)' = IF held[c] = x THEN v ELSE Dereferenced(u)
    <3>0. u \in DOMAIN upvalues
      BY <1>3, <2>6
    <3>1. CASE u = w
      BY <1>6, <1>8, <2>1, <2>2, <2>3, <2>6, <3>1 DEF Dereferenced, Location
    <3>2. CASE u # w /\ u \in Open
      <4>1. PICK k \in 1 .. Len(stack) : k = Location(u) /\ k # None
        BY <3>2, OpenTypes DEF IInv, Open
      <4>2. k # slot
        BY <1>8, <2>1, <3>2, <4>1 DEF IInv, ListInv, Slots, Open
      <4> QED BY <1>6, <2>2, <2>3, <2>6, <3>2, <4>1, <4>2 DEF Dereferenced, Location
    <3>3. CASE u \notin Open
      <4>1. Location(u) = None
        BY <3>0, <3>3 DEF Open
      <4> QED BY <1>6, <1>8, <2>2, <2>6, <4>1 DEF Dereferenced, Location
    <3> QED BY <3>1, <3>2, <3>3
  <2> QED BY <1>2, <2>3, <2>5, <2>6, AssignShares
<1> QED BY <1>7, <1>8

(* One more closure of a variable in use. *)
LEMMA CaptureShares ==
  ASSUME IInv, IInv', NEW x \in InUse, NEW w,
         UNCHANGED <<stack, read, scope>>,
         closures' = Append(closures, w), held' = Append(held, x),
         \A c \in 1 .. Len(closures) : \A u : u = closures[c] =>
           Dereferenced(u)' = Dereferenced(u)
  PROVE  Abstract!Capture
<1>1. ValuesAre /\ ValuesAre'
  BY ValueFacts, ValueFactsNext
<1>2. /\ Len(closures) \in Nat /\ Len(held) = Len(closures) /\ DOMAIN held = 1 .. Len(closures)
      /\ DOMAIN closures = 1 .. Len(closures)
      /\ closures \in Seq(DOMAIN upvalues) /\ held \in Seq(Variable)
      /\ held' \in Seq(Variable) /\ Len(held') = Len(closures')
  BY DEF IInv, ListInv, Types
<1>3. /\ Len(held') = Len(closures) + 1 /\ held'[Len(closures) + 1] = x
      /\ \A c \in 1 .. Len(closures) : held'[c] = held[c] /\ closures'[c] = closures[c]
  <2>1. held \in Seq(Variable \cup {x}) /\ x \in Variable \cup {x}
    BY <1>2, SeqMonotonic
  <2>2. closures \in Seq(DOMAIN upvalues \cup {w}) /\ w \in DOMAIN upvalues \cup {w}
    BY <1>2, SeqMonotonic
  <2> QED BY <1>2, <2>1, <2>2, AppendProperties
<1>4. \A c \in 1 .. Len(closures') : c \in 1 .. Len(closures) \/ held'[c] = x
  BY <1>2, <1>3
<1>5. InUse' = InUse
  <2>1. ASSUME NEW y \in InUse' PROVE y \in InUse
    <3>1. CASE \E i \in 1 .. Len(stack') : y = scope'[i]
      BY <1>1, <3>1 DEF ValuesAre
    <3>2. CASE \E c \in 1 .. Len(closures') : y = held'[c]
      BY <1>1, <1>3, <1>4, <3>2 DEF ValuesAre
    <3> QED BY <1>1, <3>1, <3>2 DEF ValuesAre
  <2>2. ASSUME NEW y \in InUse PROVE y \in InUse'
    <3>1. CASE \E i \in 1 .. Len(stack) : y = scope[i]
      BY <1>1, <3>1 DEF ValuesAre
    <3>2. CASE \E c \in 1 .. Len(closures) : y = held[c]
      <4>1. PICK c \in 1 .. Len(closures) : y = held[c]
        BY <3>2
      <4>2. c \in 1 .. Len(closures') /\ y = held'[c]
        BY <1>2, <1>3, <4>1
      <4> QED BY <1>1, <4>2 DEF ValuesAre
    <3> QED BY <1>1, <3>1, <3>2 DEF ValuesAre
  <2> QED BY <2>1, <2>2
<1>6. \A y \in InUse' : Values'[y] = Values[y]
  <2> SUFFICES ASSUME NEW y \in InUse PROVE Values'[y] = Values[y]
    BY <1>5
  <2>1. CASE \E i \in 1 .. Len(stack) : y = scope[i]
    BY <1>1, <2>1 DEF ValuesAre
  <2>2. CASE \E c \in 1 .. Len(closures) : y = held[c]
    <3>1. PICK c \in 1 .. Len(closures) : y = held[c]
      BY <2>2
    <3>2. PICK u : u = closures[c]
      OBVIOUS
    <3>3. c \in 1 .. Len(closures') /\ y = held'[c] /\ u = closures'[c]
      BY <1>2, <1>3, <3>1, <3>2
    <3>4. Values'[y] = Dereferenced(u)'
      BY <1>1, <3>3 DEF ValuesAre, Dereferenced, Location
    <3>5. Values[y] = Dereferenced(u)
      BY <1>1, <3>1, <3>2 DEF ValuesAre
    <3> QED BY <3>1, <3>2, <3>4, <3>5
  <2> QED BY <1>1, <2>1, <2>2 DEF ValuesAre
<1>7. DOMAIN Values = InUse
  BY <1>1 DEF ValuesAre
<1>8. Values' = Values
  <2>1. Values = [y \in InUse |-> Values[y]]
    BY DEF Values
  <2> QED BY <1>5, <1>6, <2>1, NextIsFunction
<1> QED BY <1>7, <1>8 DEF Abstract!Capture, Values, InUse

(* The instructions that make a closure. *)
LEMMA CapturesShare ==
  ASSUME IInv, IInv', CaptureLocal \/ CaptureEnclosing PROVE Abstract!Capture
<1>0. /\ upvalues \in Seq(Upvalue) /\ Len(upvalues) \in Nat
      /\ DOMAIN upvalues = 1 .. Len(upvalues) /\ DOMAIN closures = 1 .. Len(closures)
      /\ \A c \in 1 .. Len(closures) : closures[c] \in DOMAIN upvalues
  BY DEF IInv, ListInv, Types
<1>1. CASE CaptureLocal
  <2>1. PICK slot \in FrameSlots : CaptureUpvalue(slot) /\ held' = Append(held, scope[slot])
    BY <1>1 DEF CaptureLocal
  <2>2. PICK x \in InUse : x = scope[slot]
    BY <2>1, FramesBelow, ValueFacts DEF ValuesAre
  <2>3. UNCHANGED <<stack, read, scope>>
    BY <1>1 DEF CaptureLocal
  <2> DEFINE found == Search(slot)
             created == Len(upvalues) + 1
             linked == [u \in DOMAIN upvalues |->
                          IF u \in Before(found) /\ upvalues[u].next = found
                            THEN [upvalues[u] EXCEPT !.next = created] ELSE upvalues[u]]
             new == [slot |-> slot, closed |-> Nothing, next |-> found]
  <2>4. /\ \E w : closures' = Append(closures, w)
        /\ upvalues' = upvalues \/ upvalues' = Append(linked, new)
    BY <2>1 DEF CaptureUpvalue
  <2>5. \A u \in DOMAIN upvalues :
          upvalues'[u].slot = upvalues[u].slot /\ upvalues'[u].closed = upvalues[u].closed
    <3>1. CASE upvalues' = upvalues
      BY <3>1
    <3>2. CASE upvalues' = Append(linked, new)
      <4> HIDE DEF found, created
      <4>1. ASSUME NEW u \in DOMAIN upvalues
            PROVE  linked[u].slot = upvalues[u].slot /\ linked[u].closed = upvalues[u].closed
        <5>1. upvalues[u] \in Upvalue
          BY <1>0
        <5>2. linked[u] = upvalues[u] \/ linked[u] = [upvalues[u] EXCEPT !.next = created]
          OBVIOUS
        <5> HIDE DEF linked
        <5> QED BY <5>1, <5>2 DEF Upvalue
      <4> DEFINE S == {linked[u] : u \in DOMAIN upvalues} \cup {new}
      <4>2. linked \in Seq(S) /\ Len(linked) = Len(upvalues)
        <5>1. linked \in [1 .. Len(upvalues) -> S]
          BY <1>0
        <5> HIDE DEF linked, S
        <5>2. linked \in Seq(S)
          BY <1>0, <5>1, SeqDef
        <5> QED BY <1>0, <5>1, <5>2, LenProperties
      <4>3. new \in S
        OBVIOUS
      <4> HIDE DEF linked, new, S
      <4>4. \A u \in 1 .. Len(upvalues) : upvalues'[u] = linked[u]
        BY <3>2, <4>2, <4>3, AppendProperties
      <4> QED BY <1>0, <4>1, <4>4
    <3> QED BY <2>4, <3>1, <3>2
  <2>6. \A u \in DOMAIN upvalues : Dereferenced(u)' = Dereferenced(u)
    BY <2>3, <2>5 DEF Dereferenced, Location
  <2> QED BY <1>0, <2>1, <2>2, <2>3, <2>4, <2>6, CaptureShares
<1>2. CASE CaptureEnclosing
  <2>1. PICK e \in DOMAIN closures :
          /\ closures' = Append(closures, closures[e]) /\ held' = Append(held, held[e])
          /\ UNCHANGED <<stack, upvalues, read, scope>>
    BY <1>2 DEF CaptureEnclosing
  <2>2. PICK x \in InUse : x = held[e]
    BY <1>0, ValueFacts DEF ValuesAre
  <2>3. \A u : Dereferenced(u)' = Dereferenced(u)
    BY <2>1 DEF Dereferenced, Location
  <2> QED BY <2>1, <2>2, <2>3, CaptureShares
<1> QED BY <1>1, <1>2

(* A slot and an upvalue read their variable. *)
LEMMA ReadShares ==
  ASSUME IInv, GetLocal \/ GetUpvalue PROVE Abstract!Read
<1>1. UNCHANGED <<machine, scope, held>>
  BY DEF GetLocal, GetUpvalue
<1>2. Values' = Values
  BY <1>1 DEF machine, Values, InUse, ValueOf, Dereferenced, Location
<1>3. ValuesAre /\ DOMAIN Values = InUse
  BY ValueFacts DEF ValuesAre
<1>4. \E x \in InUse : read' = Values[x]
  <2>1. CASE GetLocal
    <3>1. PICK slot \in FrameSlots : read' = stack[slot]
      BY <2>1 DEF GetLocal
    <3>2. slot \in 1 .. Len(stack)
      BY FramesBelow
    <3> QED BY <1>3, <3>1, <3>2 DEF ValuesAre
  <2>2. CASE GetUpvalue
    <3>1. PICK c \in DOMAIN closures : read' = Dereferenced(closures[c])
      BY <2>2 DEF GetUpvalue
    <3>2. c \in 1 .. Len(closures)
      BY DEF IInv, ListInv, Types
    <3> QED BY <1>3, <3>1, <3>2 DEF ValuesAre
  <2> QED BY <2>1, <2>2
<1> QED BY <1>1, <1>2, <1>3, <1>4 DEF Abstract!Read, Values, InUse

(* The variables of the slots that go go, unless a closure has them. *)
LEMMA LeaveShares ==
  ASSUME IInv, Leaves PROVE Abstract!Leave
<1>0. IInv'
  BY LeavesAre
<1>1. PICK n \in Nat : n <= Len(stack) /\ LeavesTo(n)
  BY LeavesAre
<1>2. /\ Len(stack) \in Nat /\ Len(scope) = Len(stack) /\ UNCHANGED <<closures, held, read>>
      /\ scope' = SubSeq(scope, 1, n)
      /\ \A c \in 1 .. Len(closures) : closures[c] \in DOMAIN upvalues
  BY <1>1 DEF IInv, ListInv, Types, LeavesTo, Cut
<1>3. /\ Len(stack') = n
      /\ \A i \in 1 .. n : stack'[i] = stack[i] /\ scope'[i] = scope[i]
  BY <1>1, CutTypes DEF IInv, ListInv, LeavesTo
<1>4. \A u \in DOMAIN upvalues :
        IF u \in Open /\ Location(u) > n
          THEN upvalues'[u] = [slot |-> None, closed |-> stack[Location(u)],
                               next |-> upvalues[u].next]
          ELSE upvalues'[u] = upvalues[u]
  BY <1>1, ClosesAbove DEF IInv, LeavesTo
<1>5. \A u \in DOMAIN upvalues : Dereferenced(u)' = Dereferenced(u)
  <2> SUFFICES ASSUME NEW u \in DOMAIN upvalues PROVE Dereferenced(u)' = Dereferenced(u)
    OBVIOUS
  <2>1. CASE u \in Open /\ Location(u) > n
    <3>1. PICK k : k = Location(u) /\ k # None
      BY <2>1 DEF Open
    <3>2. upvalues'[u] = [slot |-> None, closed |-> stack[k], next |-> upvalues[u].next]
      BY <1>4, <2>1, <3>1
    <3>3. upvalues'[u].slot = None /\ upvalues'[u].closed = stack[k]
      BY <3>2
    <3> QED BY <3>1, <3>3 DEF Dereferenced, Location
  <2>2. CASE u \in Open /\ ~ (Location(u) > n)
    <3>1. PICK k \in 1 .. n : k = Location(u) /\ k # None
      BY <2>2, OpenTypes DEF IInv, Open
    <3> QED BY <1>3, <1>4, <2>2, <3>1 DEF Dereferenced, Location
  <2>3. CASE u \notin Open
    BY <1>4, <2>3 DEF Dereferenced, Location, Open
  <2> QED BY <2>1, <2>2, <2>3
<1>6. ValuesAre /\ ValuesAre'
  BY <1>0, ValueFacts, ValueFactsNext
<1>7. InUse' \subseteq InUse
  <2> SUFFICES ASSUME NEW y \in InUse' PROVE y \in InUse
    OBVIOUS
  <2>1. CASE \E i \in 1 .. Len(stack') : y = scope'[i]
    BY <1>1, <1>2, <1>3, <1>6, <2>1 DEF ValuesAre
  <2>2. CASE \E c \in 1 .. Len(closures') : y = held'[c]
    BY <1>2, <1>6, <2>2 DEF ValuesAre
  <2> QED BY <1>6, <2>1, <2>2 DEF ValuesAre
<1>8. \A y \in InUse' : Values'[y] = Values[y]
  <2> SUFFICES ASSUME NEW y \in InUse' PROVE Values'[y] = Values[y]
    OBVIOUS
  <2>1. CASE \E i \in 1 .. Len(stack') : y = scope'[i]
    <3>1. PICK i \in 1 .. n : y = scope'[i] /\ y = scope[i] /\ i \in 1 .. Len(stack)
      BY <1>1, <1>2, <1>3, <2>1
    <3> QED BY <1>3, <1>6, <3>1 DEF ValuesAre
  <2>2. CASE \E c \in 1 .. Len(closures') : y = held'[c]
    <3>1. PICK c \in 1 .. Len(closures) : y = held[c]
      BY <1>2, <2>2
    <3>2. PICK u \in DOMAIN upvalues : u = closures[c]
      BY <1>2
    <3>3. Values'[y] = Dereferenced(u)'
      BY <1>2, <1>6, <3>1, <3>2 DEF ValuesAre, Dereferenced, Location
    <3>4. Values[y] = Dereferenced(u)
      BY <1>6, <3>1, <3>2 DEF ValuesAre
    <3> QED BY <1>5, <3>3, <3>4
  <2> QED BY <1>6, <2>1, <2>2 DEF ValuesAre
<1>9. InUse' = Abstract!Members(SubSeq(scope, 1, n)) \cup Abstract!Members(held)
  BY <1>2 DEF InUse, Range, Abstract!Members
<1>10. Values' = [y \in Abstract!Members(SubSeq(scope, 1, n)) \cup Abstract!Members(held)
                   |-> Values[y]]
  BY <1>8, <1>9, NextIsFunction
<1>11. n \in 0 .. Len(scope)
  BY <1>1, <1>2
<1> QED BY <1>2, <1>10, <1>11 DEF Abstract!Leave, Values, InUse

(* A local and the closures that captured it are one variable, as long as   *)
(* any of them lives: each instruction is an operation of SharedVariables   *)
(* or leaves the variables alone.                                           *)
THEOREM UpvaluesShareVariables == ASSUME UpvaluesAssumption PROVE Spec => ImplementsSharing
<1>1. Init => Abstract!Init
  BY InitShares
<1>2. ASSUME IInv, IInv', [Next]_vars PROVE [Abstract!Next]_(Abstract!vars)
  <2>1. CASE Declare
    BY <1>2, <2>1, DeclareShares DEF Abstract!Next
  <2>2. CASE GetLocal \/ GetUpvalue
    BY <1>2, <2>2, ReadShares DEF Abstract!Next
  <2>3. CASE SetLocal
    BY <1>2, <2>3, SetLocalShares DEF Abstract!Next
  <2>4. CASE SetUpvalue
    BY <1>2, <2>4, SetUpvalueShares DEF Abstract!Next
  <2>5. CASE CaptureLocal \/ CaptureEnclosing
    BY <1>2, <2>5, CapturesShare DEF Abstract!Next
  <2>6. CASE Leaves
    BY <1>2, <2>6, LeaveShares DEF Abstract!Next
  <2>7. CASE Call \/ UNCHANGED vars
    <3>1. UNCHANGED <<stack, upvalues, closures, read, scope, held>>
      BY <2>7 DEF Call, vars
    <3> QED BY <3>1 DEF Abstract!vars, ValueOf, Dereferenced, Location
  <2> QED BY <1>2, <2>1, <2>2, <2>3, <2>4, <2>5, <2>6, <2>7 DEF Next, Leaves
<1> QED BY <1>1, <1>2, ListInvariant, PTL DEF Spec, Abstract!Spec, ImplementsSharing
=============================================================================
