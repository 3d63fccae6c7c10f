----------------------------- MODULE SlabProofs ------------------------------
(***************************************************************************)
(* Proofs about SlabArena: every arena has its place, memory is refused    *)
(* only when there is none, and the slots are blocks no two users share,   *)
(* for any classes, sizes and number of arenas.                            *)
(*                                                                         *)
(* The inductive invariant: the slots of an arena between its header and   *)
(* its bump position are each in use or once in its free list (InUse); the *)
(* chains and the pool are disjoint lists without doubles (Chains, Pools); *)
(* an arena outside the pool is in the chain of its class just when it has *)
(* a free slot (Places); and one with nothing in it is in the pool or a    *)
(* spare of its class (Spared).                                            *)
(***************************************************************************)
EXTENDS SlabArena, SequenceTheorems, FiniteSetTheorems, TLAPS

Arena ==
  [class : Class, freeSlotCount : Nat, freeList : Seq(Nat), dropped : BOOLEAN]
Slot == [arena : Nat, slot : Nat, class : Class]

(* The slots of an arena in use are V: those above its header that it has  *)
(* given out, without the ones that came back.                             *)
Bumped(arena) == TotalSlots(arena.class) - arena.freeSlotCount + Len(arena.freeList)
InUse(arena, V) ==
  /\ Len(arena.freeList) <= arena.freeSlotCount
  /\ IsInjective(arena.freeList)
  /\ \A i \in Nat :
       (i \in Range(arena.freeList) \/ \E s \in V : s.slot = i)
         <=> (HeaderSlots(arena.class) <= i /\ i < Bumped(arena))
  /\ \A s \in V : s.slot \notin Range(arena.freeList)
  /\ IsFiniteSet(V) /\ Cardinality(V) + arena.freeSlotCount = Capacity(arena.class)

Segment ==
  [arenas : Seq(Arena), partial : [Class -> Seq(Nat)], spare : [Class -> Seq(Nat)],
   resident : Seq(Nat), revive : Seq(Nat)]

Pool(seg) == Range(seg.resident) \cup Range(seg.revive)
LivesIn(L, a) == {s \in L : s.arena = a}

Types(seg, L) ==
  /\ seg \in Segment /\ Len(seg.arenas) <= MaxArenas
  /\ L \subseteq Slot
  /\ \A s \in L : s.arena \in Arenas(seg) /\ s.class = seg.arenas[s.arena].class

Chains(seg) ==
  \A c \in Class :
    /\ IsInjective(seg.partial[c])
    /\ \A a \in Range(seg.partial[c]) :
         a \in Arenas(seg) /\ a \notin Pool(seg) /\ seg.arenas[a].class = c

Pools(seg) ==
  /\ IsInjective(seg.resident) /\ IsInjective(seg.revive)
  /\ Range(seg.resident) \cap Range(seg.revive) = {}
  /\ Pool(seg) \subseteq Arenas(seg)

Places(seg, L) ==
  \A a \in Arenas(seg) :
    IF a \in Pool(seg)
      THEN LivesIn(L, a) = {} /\ (seg.arenas[a].dropped => a \in Range(seg.revive))
      ELSE /\ InUse(seg.arenas[a], LivesIn(L, a)) /\ ~ seg.arenas[a].dropped
           /\ a \in Range(seg.partial[seg.arenas[a].class]) <=> seg.arenas[a].freeSlotCount > 0

Good(seg, L) == Types(seg, L) /\ Chains(seg) /\ Pools(seg) /\ Places(seg, L)

(* An arena of which nothing is in use is a spare of its class or waits in *)
(* the pool, or is one of E.                                               *)
Spared(seg, L, E) ==
  \A a \in Arenas(seg) \ E :
    a \notin Pool(seg) /\ LivesIn(L, a) = {} => a \in Range(seg.spare[seg.arenas[a].class])

-----------------------------------------------------------------------------
(* A list that gains a new element in front.                               *)
LEMMA Pushed ==
  ASSUME NEW S, NEW s \in Seq(S), NEW a \in S, a \notin Range(s), IsInjective(s)
  PROVE  /\ <<a>> \o s \in Seq(S) /\ IsInjective(<<a>> \o s)
         /\ Range(<<a>> \o s) = {a} \cup Range(s)
         /\ <<a>> \o s # <<>> /\ Head(<<a>> \o s) = a
         /\ Len(<<a>> \o s) = Len(s) + 1
<1> DEFINE t == <<a>> \o s
<1>1. /\ t \in Seq(S) /\ Len(t) = Len(s) + 1 /\ t[1] = a
      /\ \A i \in 1 .. Len(s) : t[i + 1] = s[i]
  <2>1. <<a>> \in Seq(S) /\ Len(<<a>>) = 1
    OBVIOUS
  <2> QED BY <2>1, ConcatProperties
<1> HIDE DEF t
<1>2. Len(s) \in Nat /\ DOMAIN s = 1 .. Len(s) /\ DOMAIN t = 1 .. Len(s) + 1
  BY <1>1
<1>3. \A j \in 1 .. Len(s) + 1 : j = 1 \/ (j - 1 \in 1 .. Len(s) /\ t[j] = s[j - 1])
  BY <1>1, <1>2
<1>4. \A i \in 1 .. Len(s) : s[i] # a
  BY <1>2 DEF Range
<1>5. IsInjective(t)
  <2> SUFFICES ASSUME NEW i \in 1 .. Len(s) + 1, NEW j \in 1 .. Len(s) + 1, t[i] = t[j]
               PROVE  i = j
    BY <1>2 DEF IsInjective
  <2>1. CASE i = 1 \/ j = 1
    BY <1>1, <1>3, <1>4, <2>1
  <2>2. CASE i # 1 /\ j # 1
    <3>1. s[i - 1] = s[j - 1] /\ i - 1 \in DOMAIN s /\ j - 1 \in DOMAIN s
      BY <1>2, <1>3, <2>2
    <3>2. i - 1 = j - 1
      BY <3>1 DEF IsInjective
    <3> QED BY <1>2, <3>2
  <2> QED BY <2>1, <2>2
<1>6. Range(t) = {a} \cup Range(s)
  <2>1. \A x \in Range(t) : x \in {a} \cup Range(s)
    <3> SUFFICES ASSUME NEW j \in 1 .. Len(s) + 1 PROVE t[j] \in {a} \cup Range(s)
      BY <1>2 DEF Range
    <3>1. j = 1 \/ (j - 1 \in DOMAIN s /\ t[j] = s[j - 1])
      BY <1>2, <1>3
    <3> QED BY <1>1, <3>1 DEF Range
  <2>2. \A i \in 1 .. Len(s) : s[i] = t[i + 1] /\ i + 1 \in DOMAIN t
    BY <1>1, <1>2
  <2>3. a \in Range(t)
    BY <1>1, <1>2 DEF Range
  <2> QED BY <1>2, <2>1, <2>2, <2>3 DEF Range
<1>7. t # <<>> /\ Head(t) = a
  BY <1>1, <1>2
<1> QED BY <1>1, <1>5, <1>6, <1>7 DEF t

(* A list that loses its head.                                             *)
LEMMA Popped ==
  ASSUME NEW S, NEW s \in Seq(S), s # <<>>, IsInjective(s)
  PROVE  /\ Head(s) \in Range(s) /\ Head(s) \in S
         /\ Tail(s) \in Seq(S) /\ IsInjective(Tail(s))
         /\ Range(Tail(s)) = Range(s) \ {Head(s)}
         /\ Len(Tail(s)) = Len(s) - 1 /\ Len(s) \in Nat \ {0}
<1> DEFINE t == Tail(s)
<1>1. Len(s) \in Nat \ {0} /\ DOMAIN s = 1 .. Len(s) /\ Head(s) = s[1]
  BY EmptySeq
<1>2. /\ t \in Seq(S) /\ Len(t) = Len(s) - 1
      /\ \A i \in 1 .. Len(s) - 1 : t[i] = s[i + 1]
  BY HeadTailProperties
<1> HIDE DEF t
<1>3. DOMAIN t = 1 .. Len(s) - 1 /\ \A i \in 1 .. Len(s) - 1 : i + 1 \in DOMAIN s
  BY <1>1, <1>2
<1>4. \A j \in 1 .. Len(s) : j = 1 \/ (j - 1 \in 1 .. Len(s) - 1 /\ s[j] = t[j - 1])
  BY <1>1, <1>2
<1>5. IsInjective(t)
  <2> SUFFICES ASSUME NEW i \in 1 .. Len(s) - 1, NEW j \in 1 .. Len(s) - 1, t[i] = t[j]
               PROVE  i = j
    BY <1>3 DEF IsInjective
  <2>1. i + 1 = j + 1
    BY <1>2, <1>3 DEF IsInjective
  <2> QED BY <2>1
<1>6. \A i \in 1 .. Len(s) - 1 : s[i + 1] # s[1]
  <2> SUFFICES ASSUME NEW i \in 1 .. Len(s) - 1, s[i + 1] = s[1] PROVE FALSE
    OBVIOUS
  <2>1. i + 1 = 1
    BY <1>1, <1>3 DEF IsInjective
  <2> QED BY <1>1, <2>1
<1>7. Range(t) = Range(s) \ {Head(s)}
  <2>1. \A x \in Range(t) : x \in Range(s) /\ x # Head(s)
    BY <1>1, <1>2, <1>3, <1>6 DEF Range
  <2>2. \A x \in Range(s) : x = Head(s) \/ x \in Range(t)
    BY <1>1, <1>3, <1>4 DEF Range
  <2> QED BY <2>1, <2>2
<1>8. Head(s) \in Range(s) /\ Head(s) \in S
  BY <1>1 DEF Range
<1> QED BY <1>1, <1>2, <1>5, <1>7, <1>8 DEF t

(* Two lists without common elements, one after the other.                 *)
LEMMA Joined ==
  ASSUME NEW S, NEW s \in Seq(S), NEW t \in Seq(S), IsInjective(s), IsInjective(t),
         Range(s) \cap Range(t) = {}
  PROVE  /\ s \o t \in Seq(S) /\ IsInjective(s \o t)
         /\ Range(s \o t) = Range(s) \cup Range(t)
<1> DEFINE m == Len(s)
           n == Len(t)
           u == s \o t
<1>1. /\ m \in Nat /\ n \in Nat /\ DOMAIN s = 1 .. m /\ DOMAIN t = 1 .. n
      /\ u \in Seq(S) /\ Len(u) = m + n
      /\ \A i \in 1 .. m : u[i] = s[i]
      /\ \A i \in 1 .. n : u[m + i] = t[i]
  BY ConcatProperties
<1> HIDE DEF m, n, u
<1>2. DOMAIN u = 1 .. m + n
  BY <1>1
<1>3. \A j \in 1 .. m + n :
        (j \in 1 .. m /\ u[j] = s[j]) \/ (j - m \in 1 .. n /\ u[j] = t[j - m])
  <2> SUFFICES ASSUME NEW j \in 1 .. m + n, j \notin 1 .. m
               PROVE  j - m \in 1 .. n /\ u[j] = t[j - m]
    BY <1>1
  <2>1. j - m \in 1 .. n /\ m + (j - m) = j
    BY <1>1
  <2> QED BY <1>1, <2>1
<1>4. \A i \in 1 .. m, j \in 1 .. n : s[i] # t[j]
  BY <1>1 DEF Range
<1>5. IsInjective(u)
  <2> SUFFICES ASSUME NEW i \in 1 .. m + n, NEW j \in 1 .. m + n, u[i] = u[j]
               PROVE  i = j
    BY <1>2 DEF IsInjective
  <2>1. CASE i \in 1 .. m /\ j \in 1 .. m
    BY <1>1, <2>1 DEF IsInjective
  <2>2. CASE i \notin 1 .. m /\ j \notin 1 .. m
    <3>0. i - m \in DOMAIN t /\ j - m \in DOMAIN t /\ t[i - m] = t[j - m]
      BY <1>1, <1>3, <2>2
    <3>1. i - m = j - m
      BY <3>0 DEF IsInjective
    <3> QED BY <1>1, <3>1
  <2>3. CASE i \in 1 .. m /\ j \notin 1 .. m
    <3>1. u[i] = s[i] /\ j - m \in 1 .. n /\ u[j] = t[j - m]
      BY <1>3, <1>1, <2>3
    <3> QED BY <1>4, <2>3, <3>1
  <2>4. CASE i \notin 1 .. m /\ j \in 1 .. m
    <3>1. u[j] = s[j] /\ i - m \in 1 .. n /\ u[i] = t[i - m]
      BY <1>3, <1>1, <2>4
    <3> QED BY <1>4, <2>4, <3>1
  <2> QED BY <2>1, <2>2, <2>3, <2>4
<1>6. Range(u) = Range(s) \cup Range(t)
  <2>1. \A x \in Range(u) : x \in Range(s) \cup Range(t)
    BY <1>1, <1>2, <1>3 DEF Range
  <2>2. \A i \in 1 .. m : s[i] = u[i] /\ i \in DOMAIN u
    BY <1>1, <1>2
  <2>3. \A i \in 1 .. n : t[i] = u[m + i] /\ m + i \in DOMAIN u
    BY <1>1, <1>2
  <2>4. Range(s) \subseteq Range(u)
    BY <1>1, <2>2 DEF Range
  <2>5. Range(t) \subseteq Range(u)
    BY <1>1, <2>3 DEF Range
  <2> QED BY <2>1, <2>4, <2>5
<1> QED BY <1>1, <1>5, <1>6 DEF u

(* A list without the elements after position n up to m.                   *)
LEMMA Divided ==
  ASSUME NEW S, NEW s \in Seq(S), IsInjective(s), NEW n \in Nat, NEW m \in Nat,
         n <= m, m <= Len(s)
  PROVE  LET l == SubSeq(s, 1, n)
             r == SubSeq(s, m + 1, Len(s))
         IN /\ l \in Seq(S) /\ r \in Seq(S) /\ IsInjective(l) /\ IsInjective(r)
            /\ Range(l) \cap Range(r) = {}
            /\ Range(l) \cup Range(r) = Range(s) \ {s[i] : i \in n + 1 .. m}
<1> DEFINE l == SubSeq(s, 1, n)
           r == SubSeq(s, m + 1, Len(s))
           k == Len(s)
<1>1. k \in Nat /\ DOMAIN s = 1 .. k
  OBVIOUS
<1>2. /\ l \in Seq(S) /\ Len(l) = n /\ \A i \in 1 .. n : l[i] = s[i]
  <2>1. 1 \in 1 .. k + 1 /\ n \in 1 - 1 .. k
    BY <1>1
  <2> QED BY <1>1, <2>1, SubSeqProperties
<1>3. /\ r \in Seq(S) /\ Len(r) = k - m /\ \A i \in 1 .. k - m : r[i] = s[m + i]
  <2>1. m + 1 \in 1 .. k + 1 /\ k \in (m + 1) - 1 .. k
    BY <1>1
  <2>2. /\ r \in Seq(S) /\ Len(r) = k - (m + 1) + 1
        /\ \A i \in 1 .. k - (m + 1) + 1 : r[i] = s[(m + 1) + i - 1]
    BY <2>1, SubSeqProperties
  <2>3. k - (m + 1) + 1 = k - m /\ \A i \in 1 .. k - m : (m + 1) + i - 1 = m + i
    BY <1>1
  <2> HIDE DEF r
  <2> QED BY <2>2, <2>3
<1> HIDE DEF l, r
<1>4. DOMAIN l = 1 .. n /\ DOMAIN r = 1 .. k - m
  BY <1>1, <1>2, <1>3
<1>5. \A i \in 1 .. n : i \in DOMAIN s
  BY <1>1
<1>6. \A i \in 1 .. k - m : m + i \in DOMAIN s
  BY <1>1
<1>7. IsInjective(l)
  BY <1>2, <1>4, <1>5 DEF IsInjective
<1>8. IsInjective(r)
  <2> SUFFICES ASSUME NEW i \in 1 .. k - m, NEW j \in 1 .. k - m, r[i] = r[j] PROVE i = j
    BY <1>4 DEF IsInjective
  <2>1. m + i = m + j
    BY <1>3, <1>6 DEF IsInjective
  <2> QED BY <2>1
<1>9. \A i \in 1 .. n, j \in 1 .. k - m : l[i] # r[j]
  <2> SUFFICES ASSUME NEW i \in 1 .. n, NEW j \in 1 .. k - m, l[i] = r[j] PROVE FALSE
    OBVIOUS
  <2>1. i = m + j
    BY <1>2, <1>3, <1>5, <1>6 DEF IsInjective
  <2> QED BY <2>1
<1>10. Range(l) \cap Range(r) = {}
  BY <1>4, <1>9 DEF Range
<1>11. \A x \in Range(l) : x \in Range(s) /\ \A i \in n + 1 .. m : x # s[i]
  <2> SUFFICES ASSUME NEW j \in 1 .. n
               PROVE  l[j] \in Range(s) /\ \A i \in n + 1 .. m : l[j] # s[i]
    BY <1>4 DEF Range
  <2>1. l[j] = s[j] /\ j \in DOMAIN s
    BY <1>2, <1>5
  <2>2. \A i \in n + 1 .. m : i \in DOMAIN s /\ i # j
    BY <1>1
  <2> QED BY <2>1, <2>2 DEF IsInjective, Range
<1>12. \A x \in Range(r) : x \in Range(s) /\ \A i \in n + 1 .. m : x # s[i]
  <2> SUFFICES ASSUME NEW j \in 1 .. k - m
               PROVE  r[j] \in Range(s) /\ \A i \in n + 1 .. m : r[j] # s[i]
    BY <1>4 DEF Range
  <2>1. r[j] = s[m + j] /\ m + j \in DOMAIN s
    BY <1>3, <1>6
  <2>2. \A i \in n + 1 .. m : i \in DOMAIN s /\ i # m + j
    BY <1>1
  <2> QED BY <2>1, <2>2 DEF IsInjective, Range
<1>13. \A i \in 1 .. k : i \in 1 .. n \/ i \in n + 1 .. m \/ (i - m \in 1 .. k - m /\ m + (i - m) = i)
  BY <1>1
<1>14. \A x \in Range(s) : x \in Range(l) \/ x \in Range(r) \/ \E i \in n + 1 .. m : x = s[i]
  <2> SUFFICES ASSUME NEW i \in 1 .. k
               PROVE  s[i] \in Range(l) \/ s[i] \in Range(r) \/ i \in n + 1 .. m
    BY <1>1 DEF Range
  <2>1. CASE i \in 1 .. n
    BY <1>2, <1>4, <2>1 DEF Range
  <2>2. CASE i - m \in 1 .. k - m /\ m + (i - m) = i
    BY <1>3, <1>4, <2>2 DEF Range
  <2> QED BY <1>13, <2>1, <2>2
<1>15. Range(l) \cup Range(r) = Range(s) \ {s[i] : i \in n + 1 .. m}
  BY <1>11, <1>12, <1>14
<1> QED BY <1>2, <1>3, <1>7, <1>8, <1>10, <1>15 DEF l, r

(* chainDelink takes the element out, and nothing else.                    *)
LEMMA DelinkedProperties ==
  ASSUME NEW S, NEW s \in Seq(S), IsInjective(s), NEW a \in Range(s)
  PROVE  /\ Delinked(s, a) \in Seq(S) /\ IsInjective(Delinked(s, a))
         /\ Range(Delinked(s, a)) = Range(s) \ {a}
<1> DEFINE k == CHOOSE i \in DOMAIN s : s[i] = a
<1>1. k \in DOMAIN s /\ s[k] = a
  BY DEF Range
<1>2. Delinked(s, a) = SubSeq(s, 1, k - 1) \o SubSeq(s, k + 1, Len(s))
  BY DEF Delinked, RemoveAt
<1> HIDE DEF k
<1>3. k \in Nat /\ k - 1 \in Nat /\ k - 1 <= k /\ k <= Len(s)
  BY <1>1
<1>4. \A i \in (k - 1) + 1 .. k : i = k
  BY <1>3
<1>5. {s[i] : i \in (k - 1) + 1 .. k} = {a}
  <2>1. k \in (k - 1) + 1 .. k
    BY <1>3
  <2> QED BY <1>1, <1>4, <2>1
<1> DEFINE l == SubSeq(s, 1, k - 1)
           r == SubSeq(s, k + 1, Len(s))
<1>6. /\ l \in Seq(S) /\ r \in Seq(S) /\ IsInjective(l) /\ IsInjective(r)
      /\ Range(l) \cap Range(r) = {}
      /\ Range(l) \cup Range(r) = Range(s) \ {a}
  BY <1>3, <1>5, Divided
<1> HIDE DEF l, r
<1>7. /\ l \o r \in Seq(S) /\ IsInjective(l \o r)
      /\ Range(l \o r) = Range(s) \ {a}
  BY <1>6, Joined
<1> QED BY <1>2, <1>7 DEF l, r

-----------------------------------------------------------------------------
(* The header and the slots behind it fit in an arena.                     *)
LEMMA SlotCounts ==
  ASSUME SlabAssumption, NEW c \in Class
  PROVE  /\ c \in Nat \ {0} /\ ArenaSize \in Nat \ {0} /\ HeaderSize \in Nat \ {0}
         /\ TotalSlots(c) \in Nat /\ HeaderSlots(c) \in Nat
         /\ Capacity(c) = TotalSlots(c) - HeaderSlots(c)
         /\ Capacity(c) \in Nat /\ Capacity(c) >= 2
         /\ TotalSlots(c) * c <= ArenaSize
         /\ HeaderSize <= HeaderSlots(c) * c
<1>1. /\ c \in Nat \ {0} /\ ArenaSize \in Nat \ {0} /\ HeaderSize \in Nat \ {0}
      /\ Capacity(c) >= 2
  BY DEF SlabAssumption
<1>2. \A n \in Nat, d \in Nat \ {0} : n \div d \in Nat /\ (n \div d) * d <= n
                                    /\ n < (n \div d) * d + d
  OBVIOUS
<1>3. TotalSlots(c) \in Nat /\ TotalSlots(c) * c <= ArenaSize
  BY <1>1, <1>2 DEF TotalSlots
<1>4. HeaderSlots(c) \in Nat /\ HeaderSize <= HeaderSlots(c) * c
  <2>1. PICK n \in Nat : n = HeaderSize + c - 1
    BY <1>1
  <2>2. PICK q \in Nat : q = n \div c /\ n < q * c + c
    BY <1>1, <1>2
  <2>3. q = HeaderSlots(c)
    BY <2>1, <2>2 DEF HeaderSlots
  <2>4. PICK p \in Nat : p = q * c
    BY <1>1
  <2>5. HeaderSize <= p
    BY <1>1, <2>1, <2>2, <2>4
  <2> QED BY <2>2, <2>3, <2>4, <2>5
<1>5. Capacity(c) = TotalSlots(c) - HeaderSlots(c)
  BY DEF Capacity
<1> QED BY <1>1, <1>3, <1>4, <1>5

(* Nothing of an arena that begins is in use.                              *)
LEMMA NewInUse ==
  ASSUME SlabAssumption, NEW class \in Class
  PROVE  /\ NewArena(class) \in Arena /\ NewArena(class).class = class
         /\ NewArena(class).freeSlotCount = Capacity(class) /\ ~ NewArena(class).dropped
         /\ InUse(NewArena(class), {})
<1> DEFINE n == NewArena(class)
<1>1. /\ n.class = class /\ n.freeSlotCount = Capacity(class) /\ n.freeList = <<>>
      /\ n.dropped = FALSE /\ Capacity(class) \in Nat
  BY SlotCounts DEF NewArena
<1>2. n \in Arena
  BY SlotCounts DEF NewArena, Arena
<1>3. Range(n.freeList) = {} /\ Len(n.freeList) = 0 /\ IsInjective(n.freeList)
  BY <1>1 DEF Range, IsInjective
<1>4. Bumped(n) = HeaderSlots(class)
  BY <1>1, <1>3, SlotCounts DEF Bumped
<1>5. IsFiniteSet({}) /\ Cardinality({}) = 0
  BY FS_EmptySet
<1>6. InUse(n, {})
  <2> HIDE DEF n
  <2> QED BY <1>1, <1>3, <1>4, <1>5, SlotCounts DEF InUse
<1> QED BY <1>1, <1>2, <1>6

(* The types of a header.                                                  *)
LEMMA ArenaTypes ==
  ASSUME SlabAssumption, NEW arena \in Arena
  PROVE  /\ arena.class \in Class /\ arena.freeSlotCount \in Nat
         /\ arena.freeList \in Seq(Nat) /\ Len(arena.freeList) \in Nat
         /\ arena.dropped \in BOOLEAN
<1>1. arena.class \in Class /\ arena.freeSlotCount \in Nat
  BY DEF Arena
<1>2. arena.freeList \in Seq(Nat)
  BY DEF Arena
<1>3. arena.dropped \in BOOLEAN
  BY DEF Arena
<1> QED BY <1>1, <1>2, <1>3

(* arenaSlotClaim gives a slot that was not in use.                        *)
LEMMA ClaimedInUse ==
  ASSUME SlabAssumption, NEW arena \in Arena, NEW V, InUse(arena, V),
         arena.freeSlotCount > 0, NEW s, s.slot = SlotToClaim(arena)
  PROVE  /\ Claimed(arena) \in Arena /\ Claimed(arena).class = arena.class
         /\ Claimed(arena).dropped = arena.dropped
         /\ Claimed(arena).freeSlotCount = arena.freeSlotCount - 1
         /\ s \notin V /\ s.slot \in Nat
         /\ HeaderSlots(arena.class) <= s.slot /\ s.slot < TotalSlots(arena.class)
         /\ InUse(Claimed(arena), V \cup {s})
<1> DEFINE n == Claimed(arena)
           c == arena.class
           k == arena.freeSlotCount
           f == arena.freeList
           g == IF f = <<>> THEN f ELSE Tail(f)
<1>1. /\ c \in Class /\ k \in Nat /\ k - 1 \in Nat /\ f \in Seq(Nat) /\ Len(f) \in Nat
      /\ Len(f) <= k /\ IsInjective(f)
  BY ArenaTypes DEF InUse
<1>2. g \in Seq(Nat)
  BY <1>1, HeadTailProperties
<1>3. /\ n \in Arena /\ n.class = c /\ n.freeSlotCount = k - 1 /\ n.freeList = g
      /\ n.dropped = arena.dropped
  <2>1. n = [arena EXCEPT !.freeSlotCount = k - 1, !.freeList = g]
    BY DEF Claimed
  <2> HIDE DEF n, c, k, f, g
  <2>2. PICK j \in Nat : j = k - 1
    BY <1>1, <1>2
  <2>3. PICK h \in Seq(Nat) : h = g
    BY <1>2
  <2>4. n = [arena EXCEPT !.freeSlotCount = j, !.freeList = h]
    BY <2>1, <2>2, <2>3
  <2>5. n \in Arena
    BY <2>4 DEF Arena
  <2>6. n.class = arena.class /\ n.freeSlotCount = j /\ n.freeList = h
    BY <2>4 DEF Arena
  <2>7. n.dropped = arena.dropped
    BY <2>4 DEF Arena
  <2> QED BY <2>2, <2>3, <2>5, <2>6, <2>7 DEF c
<1>4. /\ TotalSlots(c) \in Nat /\ HeaderSlots(c) \in Nat
      /\ Capacity(c) = TotalSlots(c) - HeaderSlots(c)
  BY <1>1, SlotCounts
<1>5. Cardinality(V) \in Nat /\ Cardinality(V) + k = Capacity(c)
  BY FS_CardinalityType DEF InUse
<1>6. \A i \in Nat : (i \in Range(f) \/ \E t \in V : t.slot = i)
                     <=> (HeaderSlots(c) <= i /\ i < TotalSlots(c) - k + Len(f))
  BY DEF InUse, Bumped
<1>7. \A t \in V : t.slot \notin Range(f)
  BY DEF InUse
<1> HIDE DEF n, c, k, f, g
<1> DEFINE Gives ==
      /\ s.slot \in Nat /\ HeaderSlots(c) <= s.slot /\ s.slot < TotalSlots(c)
      /\ g \in Seq(Nat) /\ IsInjective(g) /\ Len(g) \in Nat /\ Len(g) <= k - 1
      /\ \A t \in V : t.slot # s.slot
      /\ \A i \in Nat : (i \in Range(g) \/ \E t \in V \cup {s} : t.slot = i)
                       <=> (HeaderSlots(c) <= i /\ i < TotalSlots(c) - (k - 1) + Len(g))
      /\ \A t \in V \cup {s} : t.slot \notin Range(g)
<1>8. ASSUME f = <<>> PROVE Gives
  <2>1. g = <<>> /\ Len(f) = 0 /\ Range(f) = {} /\ IsInjective(g) /\ Range(g) = {}
        /\ g \in Seq(Nat) /\ Len(g) = 0
    BY <1>8 DEF Range, IsInjective, g
  <2>2. s.slot = TotalSlots(c) - k
    BY <1>8 DEF SlotToClaim, f, c, k
  <2>3. s.slot \in Nat /\ HeaderSlots(c) <= s.slot /\ s.slot < TotalSlots(c)
    BY <1>1, <1>4, <1>5, <2>2
  <2>4. \A t \in V : t.slot # s.slot
    BY <1>1, <1>4, <1>6, <2>1, <2>2, <2>3
  <2>5. \A i \in Nat : (\E t \in V \cup {s} : t.slot = i)
                       <=> (HeaderSlots(c) <= i /\ i < TotalSlots(c) - (k - 1))
    <3> SUFFICES ASSUME NEW i \in Nat
                 PROVE  (\E t \in V \cup {s} : t.slot = i)
                          <=> (HeaderSlots(c) <= i /\ i < TotalSlots(c) - (k - 1))
      OBVIOUS
    <3>1. (\E t \in V \cup {s} : t.slot = i) <=> (\E t \in V : t.slot = i) \/ i = s.slot
      OBVIOUS
    <3>2. (\E t \in V : t.slot = i) <=> (HeaderSlots(c) <= i /\ i < TotalSlots(c) - k)
      BY <1>1, <1>4, <1>6, <2>1
    <3> QED BY <1>1, <1>4, <2>2, <2>3, <3>1, <3>2
  <2>6. TotalSlots(c) - (k - 1) + Len(g) = TotalSlots(c) - (k - 1) /\ Len(g) <= k - 1
    BY <1>1, <1>4, <2>1
  <2>7. Gives
    BY <2>1, <2>3, <2>4, <2>5, <2>6
  <2> QED BY <2>7
<1>9. ASSUME f # <<>> PROVE Gives
  <2>1. /\ g = Tail(f) /\ Head(f) \in Range(f) /\ Head(f) \in Nat
        /\ g \in Seq(Nat) /\ IsInjective(g)
        /\ Range(g) = Range(f) \ {Head(f)} /\ Len(g) = Len(f) - 1 /\ Len(f) \in Nat \ {0}
    BY <1>1, <1>9, Popped DEF g
  <2>2. s.slot = Head(f)
    BY <1>9 DEF SlotToClaim, f
  <2>3. s.slot \in Nat /\ HeaderSlots(c) <= s.slot /\ s.slot < TotalSlots(c)
    BY <1>1, <1>4, <1>6, <2>1, <2>2
  <2>4. \A t \in V : t.slot # s.slot
    BY <1>7, <2>1, <2>2
  <2>5. \A i \in Nat : (i \in Range(g) \/ \E t \in V \cup {s} : t.slot = i)
                       <=> (i \in Range(f) \/ \E t \in V : t.slot = i)
    BY <2>1, <2>2
  <2>6. TotalSlots(c) - (k - 1) + Len(g) = TotalSlots(c) - k + Len(f)
    BY <1>1, <1>4, <2>1
  <2>7. \A t \in V \cup {s} : t.slot \notin Range(g)
    BY <1>7, <2>1, <2>2
  <2>8. Len(g) \in Nat /\ Len(g) <= k - 1
    BY <1>1, <2>1
  <2>9. Gives
    BY <1>6, <2>1, <2>3, <2>4, <2>5, <2>6, <2>7, <2>8
  <2> QED BY <2>9
<1>10. Gives
  BY <1>8, <1>9
<1>12. s \notin V
  BY <1>10
<1>13. IsFiniteSet(V \cup {s}) /\ Cardinality(V \cup {s}) = Cardinality(V) + 1
  BY <1>12, FS_AddElement DEF InUse
<1>14. Cardinality(V \cup {s}) + (k - 1) = Capacity(c)
  BY <1>1, <1>5, <1>13
<1>15. Bumped(n) = TotalSlots(c) - (k - 1) + Len(g)
  BY <1>3 DEF Bumped
<1>16. InUse(n, V \cup {s})
  BY <1>3, <1>10, <1>13, <1>14, <1>15 DEF InUse
<1> QED BY <1>3, <1>10, <1>12, <1>16 DEF n, c, k

(* A slot that comes back goes to the free list.                           *)
LEMMA FreedInUse ==
  ASSUME SlabAssumption, NEW arena \in Arena, NEW V, InUse(arena, V), NEW s \in V,
         s.slot \in Nat, \A t \in V : t.slot = s.slot => t = s
  PROVE  /\ Freed(arena, s.slot) \in Arena /\ Freed(arena, s.slot).class = arena.class
         /\ Freed(arena, s.slot).dropped = arena.dropped
         /\ Freed(arena, s.slot).freeSlotCount = arena.freeSlotCount + 1
         /\ InUse(Freed(arena, s.slot), V \ {s})
<1> DEFINE n == Freed(arena, s.slot)
           c == arena.class
           k == arena.freeSlotCount
           f == arena.freeList
           g == <<s.slot>> \o f
<1>1. /\ c \in Class /\ k \in Nat /\ f \in Seq(Nat) /\ Len(f) \in Nat
      /\ Len(f) <= k /\ IsInjective(f)
  BY ArenaTypes DEF InUse
<1>2. g \in Seq(Nat) /\ k + 1 \in Nat
  BY <1>1, ConcatProperties
<1>3. /\ n \in Arena /\ n.class = c /\ n.freeSlotCount = k + 1 /\ n.freeList = g
      /\ n.dropped = arena.dropped
  <2>1. n = [arena EXCEPT !.freeSlotCount = k + 1, !.freeList = g]
    BY DEF Freed
  <2> HIDE DEF n, c, k, f, g
  <2>2. PICK j \in Nat : j = k + 1
    BY <1>1, <1>2
  <2>3. PICK h \in Seq(Nat) : h = g
    BY <1>2
  <2>4. n = [arena EXCEPT !.freeSlotCount = j, !.freeList = h]
    BY <2>1, <2>2, <2>3
  <2>5. n \in Arena
    BY <2>4 DEF Arena
  <2>6. n.class = arena.class /\ n.freeSlotCount = j /\ n.freeList = h
    BY <2>4 DEF Arena
  <2>7. n.dropped = arena.dropped
    BY <2>4 DEF Arena
  <2> QED BY <2>2, <2>3, <2>5, <2>6, <2>7 DEF c
<1>4. /\ TotalSlots(c) \in Nat /\ HeaderSlots(c) \in Nat
  BY <1>1, SlotCounts
<1>5. Cardinality(V) \in Nat /\ Cardinality(V) + k = Capacity(c) /\ IsFiniteSet(V)
  BY FS_CardinalityType DEF InUse
<1>6. \A i \in Nat : (i \in Range(f) \/ \E t \in V : t.slot = i)
                     <=> (HeaderSlots(c) <= i /\ i < TotalSlots(c) - k + Len(f))
  BY DEF InUse, Bumped
<1>7. \A t \in V : t.slot \notin Range(f)
  BY DEF InUse
<1>8. /\ g \in Seq(Nat) /\ IsInjective(g) /\ Range(g) = {s.slot} \cup Range(f)
      /\ Len(g) = Len(f) + 1
  <2>1. s.slot \notin Range(f)
    BY <1>7
  <2> HIDE DEF f
  <2> QED BY <1>1, <2>1, Pushed
<1> HIDE DEF n, c, k, f, g
<1>9. TotalSlots(c) - (k + 1) + Len(g) = TotalSlots(c) - k + Len(f) /\ Len(g) <= k + 1
  BY <1>1, <1>4, <1>8
<1>10. \A i \in Nat : (i \in Range(g) \/ \E t \in V \ {s} : t.slot = i)
                      <=> (i \in Range(f) \/ \E t \in V : t.slot = i)
  BY <1>8
<1>11. \A t \in V \ {s} : t.slot \notin Range(g)
  BY <1>7, <1>8
<1>12. IsFiniteSet(V \ {s}) /\ Cardinality(V \ {s}) = Cardinality(V) - 1
  BY <1>5, FS_RemoveElement
<1>13. Cardinality(V \ {s}) + (k + 1) = Capacity(c)
  BY <1>1, <1>5, <1>12
<1>14. Bumped(n) = TotalSlots(c) - (k + 1) + Len(g)
  BY <1>3 DEF Bumped
<1>15. InUse(n, V \ {s})
  BY <1>3, <1>6, <1>8, <1>9, <1>10, <1>11, <1>12, <1>13, <1>14 DEF InUse
<1> QED BY <1>3, <1>15 DEF n, c, k

-----------------------------------------------------------------------------
(* The types of the segment.                                               *)
LEMMA SegmentTypes ==
  ASSUME SlabAssumption, NEW seg \in Segment
  PROVE  /\ seg.arenas \in Seq(Arena) /\ Len(seg.arenas) \in Nat
         /\ DOMAIN seg.arenas = 1 .. Len(seg.arenas) /\ Arenas(seg) = 1 .. Len(seg.arenas)
         /\ seg.partial \in [Class -> Seq(Nat)] /\ seg.spare \in [Class -> Seq(Nat)]
         /\ seg.resident \in Seq(Nat) /\ seg.revive \in Seq(Nat)
         /\ \A a \in Arenas(seg) : seg.arenas[a] \in Arena /\ seg.arenas[a].class \in Class
<1>1. /\ seg.arenas \in Seq(Arena)
      /\ seg.partial \in [Class -> Seq(Nat)] /\ seg.spare \in [Class -> Seq(Nat)]
      /\ seg.resident \in Seq(Nat) /\ seg.revive \in Seq(Nat)
  BY DEF Segment
<1>2. /\ Len(seg.arenas) \in Nat /\ DOMAIN seg.arenas = 1 .. Len(seg.arenas)
      /\ \A a \in 1 .. Len(seg.arenas) : seg.arenas[a] \in Arena
  BY <1>1
<1>3. \A a \in 1 .. Len(seg.arenas) : seg.arenas[a].class \in Class
  BY <1>2, ArenaTypes
<1> QED BY <1>1, <1>2, <1>3 DEF Arenas

(* One arena in use changes, and its place in the chain of its class.      *)
LEMMA OneArena ==
  ASSUME SlabAssumption, NEW seg, NEW L, Good(seg, L),
         NEW a \in Arenas(seg), a \notin Pool(seg),
         NEW n \in Segment, NEW x \in Arena, NEW c \in Class, c = seg.arenas[a].class,
         n.arenas = [seg.arenas EXCEPT ![a] = x], x.class = c, ~ x.dropped,
         n.resident = seg.resident, n.revive = seg.revive,
         \A d \in Class : d # c => n.partial[d] = seg.partial[d],
         IsInjective(n.partial[c]),
         Range(n.partial[c]) \cup {a} = Range(seg.partial[c]) \cup {a},
         a \in Range(n.partial[c]) <=> x.freeSlotCount > 0,
         NEW M, M \subseteq Slot, \A s \in M : s \in L \/ (s.arena = a /\ s.class = c),
         \A s \in L : s \in M \/ s.arena = a,
         InUse(x, LivesIn(M, a))
  PROVE  Good(n, M)
<1>1. /\ seg \in Segment /\ Len(seg.arenas) <= MaxArenas
      /\ \A s \in L : s.arena \in Arenas(seg) /\ s.class = seg.arenas[s.arena].class
  BY DEF Good, Types
<1>2. /\ seg.arenas \in Seq(Arena) /\ DOMAIN seg.arenas = Arenas(seg)
  BY <1>1, SegmentTypes
<1>3. /\ Arenas(n) = Arenas(seg) /\ Len(n.arenas) = Len(seg.arenas)
      /\ n.arenas[a] = x /\ \A b \in Arenas(seg) : b # a => n.arenas[b] = seg.arenas[b]
  <2>1. DOMAIN n.arenas = DOMAIN seg.arenas
    OBVIOUS
  <2>2. Len(n.arenas) = Len(seg.arenas)
    BY <1>2, ExceptSeq DEF Arenas
  <2> QED BY <1>2, <2>1, <2>2 DEF Arenas
<1>4. Pool(n) = Pool(seg)
  BY DEF Pool
<1>5. \A b : b # a => LivesIn(M, b) = LivesIn(L, b)
  BY DEF LivesIn
<1>6. \A b \in Arenas(seg) : n.arenas[b].class = seg.arenas[b].class
  BY <1>3
<1>7. Types(n, M)
  BY <1>1, <1>3, <1>6 DEF Types
<1>8. Chains(n)
  <2> SUFFICES ASSUME NEW d \in Class
               PROVE  /\ IsInjective(n.partial[d])
                      /\ \A b \in Range(n.partial[d]) :
                           /\ b \in Arenas(n) /\ b \notin Pool(n)
                           /\ n.arenas[b].class = d
    BY DEF Chains
  <2>1. CASE d = c
    BY <1>3, <1>4, <1>6, <2>1 DEF Good, Chains
  <2>2. CASE d # c
    BY <1>3, <1>4, <1>6, <2>2 DEF Good, Chains
  <2> QED BY <2>1, <2>2
<1>9. Pools(n)
  BY <1>3, <1>4 DEF Pools, Good
<1>10. Places(n, M)
  <2> SUFFICES ASSUME NEW b \in Arenas(seg)
               PROVE  IF b \in Pool(n)
                        THEN LivesIn(M, b) = {} /\ (n.arenas[b].dropped => b \in Range(n.revive))
                        ELSE /\ InUse(n.arenas[b], LivesIn(M, b)) /\ ~ n.arenas[b].dropped
                             /\ b \in Range(n.partial[n.arenas[b].class])
                                  <=> n.arenas[b].freeSlotCount > 0
    BY <1>3 DEF Places
  <2>1. CASE b = a
    BY <1>3, <1>4, <2>1
  <2>2. CASE b # a
    <3>1. n.arenas[b] = seg.arenas[b] /\ LivesIn(M, b) = LivesIn(L, b)
          /\ (b \in Pool(n) <=> b \in Pool(seg)) /\ n.revive = seg.revive
      BY <1>3, <1>4, <1>5, <2>2
    <3>2. PICK d \in Class : d = seg.arenas[b].class
      BY <1>1, SegmentTypes
    <3>3. b \in Range(n.partial[d]) <=> b \in Range(seg.partial[d])
      BY <2>2
    <3> QED BY <3>1, <3>2, <3>3 DEF Good, Places
  <2> QED BY <2>1, <2>2
<1> QED BY <1>7, <1>8, <1>9, <1>10 DEF Good

(* An arena of the pool or a new one begins as one of a class whose chain  *)
(* is empty.                                                               *)
Takes(n, seg, class, a) ==
  /\ n \in Segment /\ (a \in Pool(seg) \/ a \notin Arenas(seg))
  /\ Arenas(n) = Arenas(seg) \cup {a} /\ Len(n.arenas) <= MaxArenas
  /\ n.arenas[a] = NewArena(class)
  /\ \A b \in Arenas(seg) : b # a => n.arenas[b] = seg.arenas[b]
  /\ IsInjective(n.resident) /\ Range(n.resident) = Range(seg.resident) \ {a}
  /\ IsInjective(n.revive) /\ Range(n.revive) = Range(seg.revive) \ {a}
  /\ IsInjective(n.partial[class]) /\ Range(n.partial[class]) = {a}
  /\ \A d \in Class : d # class => n.partial[d] = seg.partial[d]
  /\ n.spare = seg.spare

(* That keeps the invariant, but for what is in the arena.                 *)
LEMMA TakenArena ==
  ASSUME SlabAssumption, NEW seg, NEW L, Good(seg, L), Spared(seg, L, {}),
         NEW class, class \in Class, seg.partial[class] = <<>>,
         NEW n, NEW a, Takes(n, seg, class, a)
  PROVE  Good(n, L) /\ Spared(n, L, {a})
<1>0. /\ n \in Segment /\ (a \in Pool(seg) \/ a \notin Arenas(seg))
      /\ Arenas(n) = Arenas(seg) \cup {a} /\ Len(n.arenas) <= MaxArenas
      /\ n.arenas[a] = NewArena(class)
      /\ \A b \in Arenas(seg) : b # a => n.arenas[b] = seg.arenas[b]
      /\ IsInjective(n.resident) /\ Range(n.resident) = Range(seg.resident) \ {a}
      /\ IsInjective(n.revive) /\ Range(n.revive) = Range(seg.revive) \ {a}
      /\ IsInjective(n.partial[class]) /\ Range(n.partial[class]) = {a}
      /\ \A d \in Class : d # class => n.partial[d] = seg.partial[d]
      /\ n.spare = seg.spare
  BY DEF Takes
<1>1. /\ seg \in Segment /\ L \subseteq Slot
      /\ \A s \in L : s.arena \in Arenas(seg) /\ s.class = seg.arenas[s.arena].class
  BY DEF Good, Types
<1>2. Pool(n) = Pool(seg) \ {a}
  BY <1>0 DEF Pool
<1>3. LivesIn(L, a) = {}
  <2>1. CASE a \in Pool(seg)
    BY <2>1 DEF Good, Pools, Places
  <2>2. CASE a \notin Arenas(seg)
    BY <1>0, <1>1, <2>2 DEF LivesIn
  <2> QED BY <1>0, <2>1, <2>2
<1>4. \A s \in L : s.arena # a
  BY <1>3 DEF LivesIn
<1>5. /\ NewArena(class).class = class /\ NewArena(class).freeSlotCount > 0
      /\ InUse(NewArena(class), {}) /\ ~ NewArena(class).dropped
  <2>1. Capacity(class) \in Nat /\ Capacity(class) >= 2
    BY SlotCounts
  <2>2. NewArena(class).freeSlotCount > 0
    BY <2>1, NewInUse
  <2> QED BY <2>2, NewInUse
<1>6. Types(n, L)
  BY <1>0, <1>1, <1>4, <1>5 DEF Types
<1>7. Chains(n)
  <2> SUFFICES ASSUME NEW d \in Class
               PROVE  /\ IsInjective(n.partial[d])
                      /\ \A b \in Range(n.partial[d]) :
                           /\ b \in Arenas(n) /\ b \notin Pool(n)
                           /\ n.arenas[b].class = d
    BY DEF Chains
  <2>1. CASE d = class
    BY <1>0, <1>2, <1>5, <2>1
  <2>2. CASE d # class
    <3>1. n.partial[d] = seg.partial[d]
      BY <1>0, <2>2
    <3>2. /\ IsInjective(seg.partial[d])
          /\ \A b \in Range(seg.partial[d]) :
               b \in Arenas(seg) /\ b \notin Pool(seg) /\ seg.arenas[b].class = d
      BY DEF Good, Chains
    <3> QED BY <1>0, <1>2, <2>2, <3>1, <3>2
  <2> QED BY <2>1, <2>2
<1>8. Pools(n)
  BY <1>0, <1>2 DEF Pools, Good, Pool
<1>9. ASSUME NEW b \in Arenas(seg), b # a
      PROVE  /\ n.arenas[b] = seg.arenas[b] /\ (b \in Pool(n) <=> b \in Pool(seg))
             /\ (b \in Range(n.revive) <=> b \in Range(seg.revive))
             /\ b \in Range(n.partial[seg.arenas[b].class])
                  <=> b \in Range(seg.partial[seg.arenas[b].class])
  <2>1. PICK d \in Class : d = seg.arenas[b].class
    BY <1>1, SegmentTypes
  <2>2. b \in Range(n.partial[d]) <=> b \in Range(seg.partial[d])
    <3>1. CASE d = class
      <4>1. Range(seg.partial[class]) = {}
        BY DEF Range
      <4> QED BY <1>0, <1>9, <3>1, <4>1
    <3>2. CASE d # class
      BY <1>0, <3>2
    <3> QED BY <3>1, <3>2
  <2> QED BY <1>0, <1>2, <1>9, <2>1, <2>2
<1>10. Places(n, L)
  <2> SUFFICES ASSUME NEW b \in Arenas(n)
               PROVE  IF b \in Pool(n)
                        THEN LivesIn(L, b) = {} /\ (n.arenas[b].dropped => b \in Range(n.revive))
                        ELSE /\ InUse(n.arenas[b], LivesIn(L, b)) /\ ~ n.arenas[b].dropped
                             /\ b \in Range(n.partial[n.arenas[b].class])
                                  <=> n.arenas[b].freeSlotCount > 0
    BY DEF Places
  <2>1. CASE b = a
    BY <1>0, <1>2, <1>3, <1>5, <2>1
  <2>2. CASE b # a
    BY <1>0, <1>9, <2>2 DEF Good, Places
  <2> QED BY <2>1, <2>2
<1>11. Spared(n, L, {a})
  <2> SUFFICES ASSUME NEW b \in Arenas(seg), b # a, b \notin Pool(n), LivesIn(L, b) = {}
               PROVE  b \in Range(n.spare[n.arenas[b].class])
    BY <1>0 DEF Spared
  <2> QED BY <1>0, <1>9 DEF Spared
<1> QED BY <1>6, <1>7, <1>8, <1>10, <1>11 DEF Good

-----------------------------------------------------------------------------
(* Updates of the segment, one field at a time. *)
WithArena(seg, a, x) == [seg EXCEPT !.arenas[a] = x]
WithChain(seg, c, y) == [seg EXCEPT !.partial[c] = y]
WithResident(seg, y) == [seg EXCEPT !.resident = y]
WithRevive(seg, y) == [seg EXCEPT !.revive = y]

HasArena(n, seg, a, x) ==
  /\ n \in Segment /\ n.arenas = [seg.arenas EXCEPT ![a] = x]
  /\ n.partial = seg.partial /\ n.spare = seg.spare
  /\ n.resident = seg.resident /\ n.revive = seg.revive
  /\ Arenas(n) = Arenas(seg) /\ Len(n.arenas) = Len(seg.arenas)
  /\ n.arenas[a] = x /\ \A b \in Arenas(seg) : b # a => n.arenas[b] = seg.arenas[b]

(* What an update of a header leaves alone.                                *)
LEMMA WithArenaFields ==
  ASSUME SlabAssumption, NEW seg, seg \in Segment, NEW a, a \in Arenas(seg),
         NEW x, x \in Arena
  PROVE  HasArena(WithArena(seg, a, x), seg, a, x)
<1> DEFINE n == WithArena(seg, a, x)
<1>1. /\ n.arenas = [seg.arenas EXCEPT ![a] = x] /\ n.partial = seg.partial
      /\ n.spare = seg.spare /\ n.resident = seg.resident /\ n.revive = seg.revive
  BY DEF Segment, WithArena
<1>2. seg.arenas \in Seq(Arena) /\ a \in 1 .. Len(seg.arenas)
  BY SegmentTypes
<1>3. PICK f \in Seq(Arena) : f = [seg.arenas EXCEPT ![a] = x]
  BY <1>2, ExceptSeq
<1>4. n = [seg EXCEPT !.arenas = f]
  BY <1>3 DEF WithArena
<1>5. n \in Segment
  BY <1>4 DEF Segment
<1>6. /\ DOMAIN f = DOMAIN seg.arenas /\ Len(f) = Len(seg.arenas)
      /\ f[a] = x /\ \A b \in DOMAIN seg.arenas : b # a => f[b] = seg.arenas[b]
  BY <1>2, <1>3, ExceptSeq
<1> HIDE DEF n
<1>7. HasArena(n, seg, a, x)
  BY <1>1, <1>3, <1>5, <1>6 DEF Arenas, HasArena
<1> QED BY <1>7 DEF n

(* What an update of a chain leaves alone.                                 *)
LEMMA WithChainFields ==
  ASSUME SlabAssumption, NEW seg \in Segment, NEW c \in Class, NEW y \in Seq(Nat)
  PROVE  LET n == WithChain(seg, c, y)
         IN /\ n \in Segment /\ n.arenas = seg.arenas /\ Arenas(n) = Arenas(seg)
            /\ n.partial[c] = y /\ \A d \in Class : d # c => n.partial[d] = seg.partial[d]
            /\ n.spare = seg.spare /\ n.resident = seg.resident /\ n.revive = seg.revive
<1> DEFINE n == WithChain(seg, c, y)
<1>1. /\ n.arenas = seg.arenas /\ n.partial = [seg.partial EXCEPT ![c] = y]
      /\ n.spare = seg.spare /\ n.resident = seg.resident /\ n.revive = seg.revive
  BY DEF Segment, WithChain
<1>2. PICK f \in [Class -> Seq(Nat)] : f = [seg.partial EXCEPT ![c] = y]
  BY SegmentTypes
<1>3. n = [seg EXCEPT !.partial = f]
  BY <1>2 DEF WithChain
<1>4. n \in Segment
  BY <1>3 DEF Segment
<1>5. f[c] = y /\ \A d \in Class : d # c => f[d] = seg.partial[d]
  BY <1>2, SegmentTypes
<1> HIDE DEF n
<1> QED BY <1>1, <1>2, <1>4, <1>5 DEF n, Arenas

(* What an update of the resident list leaves alone.                       *)
LEMMA WithResidentFields ==
  ASSUME SlabAssumption, NEW seg \in Segment, NEW y \in Seq(Nat)
  PROVE  LET n == WithResident(seg, y)
         IN /\ n \in Segment /\ n.arenas = seg.arenas /\ Arenas(n) = Arenas(seg)
            /\ n.partial = seg.partial /\ n.spare = seg.spare
            /\ n.resident = y /\ n.revive = seg.revive
BY DEF WithResident, Segment, Arenas

(* What an update of the list of those given up leaves alone.              *)
LEMMA WithReviveFields ==
  ASSUME SlabAssumption, NEW seg \in Segment, NEW y \in Seq(Nat)
  PROVE  LET n == WithRevive(seg, y)
         IN /\ n \in Segment /\ n.arenas = seg.arenas /\ Arenas(n) = Arenas(seg)
            /\ n.partial = seg.partial /\ n.spare = seg.spare
            /\ n.resident = seg.resident /\ n.revive = y
BY DEF WithRevive, Segment, Arenas

-----------------------------------------------------------------------------
(* smallLayerAlloc *)
LEMMA ClaimKeeps ==
  ASSUME SlabAssumption, NEW seg, NEW L, Good(seg, L), NEW class \in Class,
         seg.partial[class] # <<>>
  PROVE  LET r == ClaimFromHead(seg, class)
         IN /\ Good(r.segment, L \cup {r.slot})
            /\ r.slot \in Slot /\ r.slot \notin L /\ r.slot # Null
            /\ r.slot.arena \in Arenas(seg) /\ r.slot.class = class
            /\ HeaderSlots(class) <= r.slot.slot /\ r.slot.slot < TotalSlots(class)
            /\ Arenas(r.segment) = Arenas(seg)
            /\ Spared(seg, L, {Head(seg.partial[class])})
                 => Spared(r.segment, L \cup {r.slot}, {})
<1> DEFINE a == Head(seg.partial[class])
           x == Claimed(seg.arenas[a])
           y == IF x.freeSlotCount = 0 THEN Tail(seg.partial[class]) ELSE seg.partial[class]
           m == WithArena(seg, a, x)
           n == WithChain(m, class, y)
           s == [arena |-> a, slot |-> SlotToClaim(seg.arenas[a]), class |-> class]
<1>1. seg \in Segment /\ seg.partial[class] \in Seq(Nat) /\ IsInjective(seg.partial[class])
  BY SegmentTypes DEF Good, Types, Chains
<1>2. ClaimFromHead(seg, class).segment = n /\ ClaimFromHead(seg, class).slot = s
  BY DEF ClaimFromHead, WithArena, WithChain
<1>3. /\ a \in Range(seg.partial[class]) /\ a \in Nat
      /\ Tail(seg.partial[class]) \in Seq(Nat) /\ IsInjective(Tail(seg.partial[class]))
      /\ Range(Tail(seg.partial[class])) = Range(seg.partial[class]) \ {a}
  BY <1>1, Popped
<1> HIDE DEF a
<1>4. a \in Arenas(seg) /\ a \notin Pool(seg) /\ seg.arenas[a].class = class
  BY <1>3 DEF Good, Chains
<1>5. /\ seg.arenas[a] \in Arena /\ InUse(seg.arenas[a], LivesIn(L, a))
      /\ ~ seg.arenas[a].dropped /\ seg.arenas[a].freeSlotCount > 0
  BY <1>1, <1>3, <1>4, SegmentTypes DEF Good, Places
<1>6. s.slot = SlotToClaim(seg.arenas[a]) /\ s.arena = a /\ s.class = class
  OBVIOUS
<1>7. seg.arenas[a].freeSlotCount \in Nat
  BY <1>5, ArenaTypes
<1>8. s = [arena |-> s.arena, slot |-> s.slot, class |-> s.class]
  OBVIOUS
<1> HIDE DEF x, s
<1>9. /\ x \in Arena /\ x.class = class /\ ~ x.dropped
      /\ x.freeSlotCount = seg.arenas[a].freeSlotCount - 1
      /\ s \notin LivesIn(L, a) /\ s.slot \in Nat
      /\ HeaderSlots(class) <= s.slot /\ s.slot < TotalSlots(class)
      /\ InUse(x, LivesIn(L, a) \cup {s})
  BY <1>4, <1>5, <1>6, ClaimedInUse DEF x
<1>10. s \in Slot
  BY <1>3, <1>6, <1>8, <1>9 DEF Slot
<1>11. s \notin L
  BY <1>6, <1>9 DEF LivesIn
<1>12. LivesIn(L \cup {s}, a) = LivesIn(L, a) \cup {s}
  BY <1>6 DEF LivesIn
<1>13. /\ y \in Seq(Nat) /\ IsInjective(y)
       /\ Range(y) \cup {a} = Range(seg.partial[class]) \cup {a}
       /\ a \in Range(y) <=> x.freeSlotCount > 0
  <2>1. x.freeSlotCount = 0 \/ x.freeSlotCount > 0
    BY <1>5, <1>7, <1>9
  <2>2. CASE x.freeSlotCount = 0
    BY <1>3, <2>2
  <2>3. CASE x.freeSlotCount > 0
    BY <1>1, <1>3, <2>3
  <2> QED BY <2>1, <2>2, <2>3
<1> HIDE DEF y
<1>14. /\ m \in Segment /\ m.arenas = [seg.arenas EXCEPT ![a] = x]
       /\ m.partial = seg.partial /\ m.spare = seg.spare
       /\ m.resident = seg.resident /\ m.revive = seg.revive
       /\ Arenas(m) = Arenas(seg) /\ m.arenas[a] = x
       /\ \A b \in Arenas(seg) : b # a => m.arenas[b] = seg.arenas[b]
  <2>1. HasArena(m, seg, a, x)
    BY <1>1, <1>4, <1>9, WithArenaFields
  <2> HIDE DEF m
  <2> QED BY <2>1 DEF HasArena
<1> HIDE DEF m
<1>15. /\ n \in Segment /\ n.arenas = m.arenas /\ Arenas(n) = Arenas(m)
       /\ n.partial[class] = y /\ \A d \in Class : d # class => n.partial[d] = m.partial[d]
       /\ n.spare = m.spare /\ n.resident = m.resident /\ n.revive = m.revive
  BY <1>13, <1>14, WithChainFields
<1> HIDE DEF n
<1>16. Good(n, L \cup {s})
  <2>1. L \subseteq Slot
    BY DEF Good, Types
  <2>2. L \cup {s} \subseteq Slot
    BY <1>10, <2>1
  <2>3. InUse(x, LivesIn(L \cup {s}, a))
    BY <1>9, <1>12
  <2>4. \A d \in Class : d # class => n.partial[d] = seg.partial[d]
    BY <1>14, <1>15
  <2>5. n.arenas = [seg.arenas EXCEPT ![a] = x] /\ n.resident = seg.resident
        /\ n.revive = seg.revive
    BY <1>14, <1>15
  <2>6. /\ IsInjective(n.partial[class])
        /\ Range(n.partial[class]) \cup {a} = Range(seg.partial[class]) \cup {a}
        /\ a \in Range(n.partial[class]) <=> x.freeSlotCount > 0
    BY <1>13, <1>15
  <2>7. \A t \in L \cup {s} : t \in L \/ (t.arena = a /\ t.class = class)
    BY <1>6
  <2> QED BY <1>4, <1>9, <1>15, <2>2, <2>3, <2>4, <2>5, <2>6, <2>7, OneArena
<1>17. ASSUME Spared(seg, L, {a}) PROVE Spared(n, L \cup {s}, {})
  <2> SUFFICES ASSUME NEW b \in Arenas(seg), b \notin Pool(n), LivesIn(L \cup {s}, b) = {}
               PROVE  b \in Range(n.spare[n.arenas[b].class])
    BY <1>14, <1>15 DEF Spared
  <2>1. b # a /\ LivesIn(L, b) = {}
    BY <1>6 DEF LivesIn
  <2>2. b \notin Pool(seg)
    BY <1>14, <1>15 DEF Pool
  <2>3. b \in Range(seg.spare[seg.arenas[b].class])
    BY <1>17, <2>1, <2>2 DEF Spared
  <2> QED BY <1>14, <1>15, <2>1, <2>3
<1>18. s # Null
  <2>1. a # 0
    BY <1>1, <1>4, SegmentTypes
  <2>2. Null.arena = 0
    BY DEF Null
  <2> QED BY <1>6, <2>1, <2>2
<1>19. Arenas(n) = Arenas(seg)
  BY <1>14, <1>15
<1> QED BY <1>2, <1>4, <1>6, <1>9, <1>10, <1>11, <1>16, <1>17, <1>18, <1>19 DEF a

(* The chain that was empty gets the arena a of another place.             *)
Offers(base, seg, a) ==
  /\ base \in Segment /\ a \in Nat /\ (a \in Pool(seg) \/ a \notin Arenas(seg))
  /\ Arenas(base) = Arenas(seg) \cup {a} /\ Len(base.arenas) <= MaxArenas
  /\ \A b \in Arenas(seg) : b # a => base.arenas[b] = seg.arenas[b]
  /\ base.partial = seg.partial /\ base.spare = seg.spare
  /\ IsInjective(base.resident) /\ Range(base.resident) = Range(seg.resident) \ {a}
  /\ IsInjective(base.revive) /\ Range(base.revive) = Range(seg.revive) \ {a}

Refills(n, L, class) ==
  Good(n, L) /\ n.partial[class] # <<>> /\ Spared(n, L, {Head(n.partial[class])})

(* An arena that is offered refills the empty chain.                       *)
LEMMA ChainedKeeps ==
  ASSUME SlabAssumption, NEW seg, NEW L, Good(seg, L), Spared(seg, L, {}),
         NEW class, class \in Class, seg.partial[class] = <<>>,
         NEW base, NEW a, Offers(base, seg, a)
  PROVE  Refills(Chained(base, a, class), L, class)
<1> DEFINE x == NewArena(class)
           e == <<>>
           y == <<a>> \o e
           m == WithArena(base, a, x)
           n == WithChain(m, class, y)
<1>0. /\ base \in Segment /\ a \in Nat /\ (a \in Pool(seg) \/ a \notin Arenas(seg))
      /\ Arenas(base) = Arenas(seg) \cup {a} /\ Len(base.arenas) <= MaxArenas
      /\ \A b \in Arenas(seg) : b # a => base.arenas[b] = seg.arenas[b]
      /\ base.partial = seg.partial /\ base.spare = seg.spare
      /\ IsInjective(base.resident) /\ Range(base.resident) = Range(seg.resident) \ {a}
      /\ IsInjective(base.revive) /\ Range(base.revive) = Range(seg.revive) \ {a}
  BY DEF Offers
<1>1. Chained(base, a, class) = n
  <2>1. base.partial[class] = e /\ m.partial[class] = e
    BY <1>0 DEF WithArena, Segment
  <2> QED BY <2>1 DEF Chained, WithArena, WithChain
<1>2. a \in Arenas(base) /\ x \in Arena
  BY <1>0, NewInUse
<1>3. /\ y \in Seq(Nat) /\ IsInjective(y) /\ Range(y) = {a} /\ y # <<>> /\ Head(y) = a
  <2>1. e \in Seq(Nat) /\ IsInjective(e) /\ Range(e) = {}
    BY DEF IsInjective, Range
  <2> HIDE DEF e
  <2>2. a \notin Range(e)
    BY <2>1
  <2>3. /\ y \in Seq(Nat) /\ IsInjective(y) /\ Range(y) = {a} \cup Range(e)
        /\ y # <<>> /\ Head(y) = a
    BY <1>0, <2>1, <2>2, Pushed
  <2> QED BY <2>1, <2>3
<1> HIDE DEF x, y
<1>4. /\ m \in Segment /\ m.partial = base.partial /\ m.spare = base.spare
      /\ m.resident = base.resident /\ m.revive = base.revive
      /\ Arenas(m) = Arenas(base) /\ Len(m.arenas) = Len(base.arenas)
      /\ m.arenas[a] = x /\ \A b \in Arenas(base) : b # a => m.arenas[b] = base.arenas[b]
  <2>1. HasArena(m, base, a, x)
    BY <1>0, <1>2, WithArenaFields
  <2> HIDE DEF m
  <2> QED BY <2>1 DEF HasArena
<1> HIDE DEF m
<1>5. /\ n \in Segment /\ n.arenas = m.arenas /\ Arenas(n) = Arenas(m)
      /\ n.partial[class] = y /\ \A d \in Class : d # class => n.partial[d] = m.partial[d]
      /\ n.spare = m.spare /\ n.resident = m.resident /\ n.revive = m.revive
  BY <1>3, <1>4, WithChainFields
<1> HIDE DEF n
<1>6. /\ Arenas(n) = Arenas(seg) \cup {a} /\ Len(n.arenas) <= MaxArenas
      /\ n.arenas[a] = NewArena(class)
      /\ \A b \in Arenas(seg) : b # a => n.arenas[b] = seg.arenas[b]
  BY <1>0, <1>4, <1>5 DEF x
<1>7. /\ IsInjective(n.resident) /\ Range(n.resident) = Range(seg.resident) \ {a}
      /\ IsInjective(n.revive) /\ Range(n.revive) = Range(seg.revive) \ {a}
      /\ IsInjective(n.partial[class]) /\ Range(n.partial[class]) = {a}
      /\ \A d \in Class : d # class => n.partial[d] = seg.partial[d]
      /\ n.spare = seg.spare
  BY <1>0, <1>3, <1>4, <1>5
<1>8. Good(n, L) /\ Spared(n, L, {a})
  <2>1. Takes(n, seg, class, a)
    BY <1>0, <1>5, <1>6, <1>7 DEF Takes
  <2> QED BY <2>1, TakenArena
<1>9. Refills(n, L, class)
  BY <1>3, <1>5, <1>8 DEF Refills
<1> QED BY <1>1, <1>9

(* smallLayerAllocSlow finds an arena, or there is none to be had.         *)
LEMMA RefillKeeps ==
  ASSUME SlabAssumption, NEW seg, NEW L, Good(seg, L), Spared(seg, L, {}),
         NEW class \in Class, seg.partial[class] = <<>>, NEW ok \in BOOLEAN
  PROVE  LET n == Refilled(seg, class, ok)
         IN \/ /\ n = seg
               /\ ok => /\ Range(seg.resident) = {} /\ Range(seg.revive) = {}
                        /\ Len(seg.arenas) = MaxArenas
            \/ Refills(n, L, class)
<1> DEFINE n == Refilled(seg, class, ok)
<1>1. /\ seg \in Segment /\ seg.resident \in Seq(Nat) /\ seg.revive \in Seq(Nat)
      /\ IsInjective(seg.resident) /\ IsInjective(seg.revive)
      /\ Range(seg.resident) \cap Range(seg.revive) = {} /\ Pool(seg) \subseteq Arenas(seg)
      /\ Len(seg.arenas) <= MaxArenas
  BY SegmentTypes DEF Good, Types, Pools
<1>2. CASE seg.resident # <<>>
  <2> DEFINE a == Head(seg.resident)
             base == WithResident(seg, Tail(seg.resident))
  <2>1. n = Chained(base, a, class)
    BY <1>2 DEF Refilled, WithResident
  <2>2. /\ a \in Range(seg.resident) /\ a \in Nat
        /\ Tail(seg.resident) \in Seq(Nat) /\ IsInjective(Tail(seg.resident))
        /\ Range(Tail(seg.resident)) = Range(seg.resident) \ {a}
    BY <1>1, <1>2, Popped
  <2> HIDE DEF n, a
  <2>3. /\ base \in Segment /\ base.arenas = seg.arenas /\ Arenas(base) = Arenas(seg)
        /\ base.partial = seg.partial /\ base.spare = seg.spare
        /\ base.resident = Tail(seg.resident) /\ base.revive = seg.revive
    BY <1>1, <2>2, WithResidentFields
  <2> HIDE DEF base
  <2>4. a \in Pool(seg) /\ Range(seg.revive) = Range(seg.revive) \ {a}
    BY <1>1, <2>2 DEF Pool
  <2>5. Arenas(base) = Arenas(seg) \cup {a}
    BY <1>1, <2>3, <2>4
  <2>6. Offers(base, seg, a)
    BY <1>1, <2>2, <2>3, <2>4, <2>5 DEF Offers
  <2>7. Refills(n, L, class)
    BY <2>1, <2>6, ChainedKeeps
  <2> QED BY <2>7 DEF n
<1>3. CASE seg.resident = <<>> /\ seg.revive # <<>>
  <2>1. CASE seg.arenas[Head(seg.revive)].dropped /\ ~ ok
    BY <1>3, <2>1 DEF Refilled
  <2>2. CASE ~ (seg.arenas[Head(seg.revive)].dropped /\ ~ ok)
    <3> DEFINE a == Head(seg.revive)
               base == WithRevive(seg, Tail(seg.revive))
    <3>1. n = Chained(base, a, class)
      BY <1>3, <2>2 DEF Refilled, WithRevive
    <3>2. /\ a \in Range(seg.revive) /\ a \in Nat
          /\ Tail(seg.revive) \in Seq(Nat) /\ IsInjective(Tail(seg.revive))
          /\ Range(Tail(seg.revive)) = Range(seg.revive) \ {a}
      BY <1>1, <1>3, Popped
    <3> HIDE DEF n, a
    <3>3. /\ base \in Segment /\ base.arenas = seg.arenas /\ Arenas(base) = Arenas(seg)
          /\ base.partial = seg.partial /\ base.spare = seg.spare
          /\ base.resident = seg.resident /\ base.revive = Tail(seg.revive)
      BY <1>1, <3>2, WithReviveFields
    <3> HIDE DEF base
    <3>4. a \in Pool(seg) /\ Range(seg.resident) = Range(seg.resident) \ {a}
      BY <1>1, <3>2 DEF Pool
    <3>5. Arenas(base) = Arenas(seg) \cup {a}
      BY <1>1, <3>3, <3>4
    <3>6. Offers(base, seg, a)
      BY <1>1, <3>2, <3>3, <3>4, <3>5 DEF Offers
    <3>7. Refills(n, L, class)
      BY <3>1, <3>6, ChainedKeeps
    <3> QED BY <3>7 DEF n
  <2> QED BY <2>1, <2>2
<1>4. CASE seg.resident = <<>> /\ seg.revive = <<>> /\ Len(seg.arenas) < MaxArenas /\ ok
  <2> DEFINE a == Len(seg.arenas) + 1
             l == Append(seg.arenas, NewArena(class))
             base == [seg EXCEPT !.arenas = l]
  <2>1. n = Chained(base, a, class)
    BY <1>4 DEF Refilled
  <2>2. /\ seg.arenas \in Seq(Arena) /\ NewArena(class) \in Arena
        /\ Arenas(seg) = 1 .. Len(seg.arenas) /\ Len(seg.arenas) \in Nat /\ MaxArenas \in Nat
    BY <1>1, SegmentTypes, NewInUse DEF SlabAssumption
  <2>3. /\ l \in Seq(Arena) /\ Len(l) = Len(seg.arenas) + 1
        /\ \A b \in 1 .. Len(seg.arenas) : l[b] = seg.arenas[b]
    BY <2>2, AppendProperties
  <2> HIDE DEF n, l
  <2>4. /\ base \in Segment /\ base.arenas = l
        /\ base.partial = seg.partial /\ base.spare = seg.spare
        /\ base.resident = seg.resident /\ base.revive = seg.revive
    BY <1>1, <2>3 DEF Segment
  <2> HIDE DEF base
  <2>5. Arenas(base) = 1 .. Len(seg.arenas) + 1
    BY <2>3, <2>4 DEF Arenas
  <2>6. a \in Nat /\ a \notin Arenas(seg) /\ Arenas(base) = Arenas(seg) \cup {a}
        /\ Len(base.arenas) <= MaxArenas
    BY <1>4, <2>2, <2>3, <2>4, <2>5
  <2>7. a \notin Range(seg.resident) /\ a \notin Range(seg.revive)
    BY <1>1, <2>6 DEF Pool
  <2>8. /\ IsInjective(base.resident) /\ Range(base.resident) = Range(seg.resident) \ {a}
        /\ IsInjective(base.revive) /\ Range(base.revive) = Range(seg.revive) \ {a}
    BY <1>1, <2>4, <2>7
  <2>9. \A b \in Arenas(seg) : b # a => base.arenas[b] = seg.arenas[b]
    BY <2>2, <2>3, <2>4
  <2> HIDE DEF a
  <2>10. Offers(base, seg, a)
    BY <2>4, <2>6, <2>8, <2>9 DEF Offers
  <2>11. Refills(n, L, class)
    BY <2>1, <2>10, ChainedKeeps
  <2> QED BY <2>11 DEF n
<1>5. CASE seg.resident = <<>> /\ seg.revive = <<>> /\ ~ (Len(seg.arenas) < MaxArenas /\ ok)
  <2>1. n = seg
    BY <1>5 DEF Refilled
  <2>2. Range(seg.resident) = {} /\ Range(seg.revive) = {}
    BY <1>5 DEF Range
  <2>3. ok => Len(seg.arenas) = MaxArenas
    <3>1. Len(seg.arenas) \in Nat /\ MaxArenas \in Nat
      BY <1>1, SegmentTypes DEF SlabAssumption
    <3> QED BY <1>1, <1>5, <3>1
  <2> QED BY <2>1, <2>2, <2>3
<1> QED BY <1>2, <1>3, <1>4, <1>5

(* What a request leaves: one that the system does not fail is refused     *)
(* only when no memory is left, and a slot that is given was free.         *)
Refused(r, seg, class, ok) ==
  /\ r.slot = Null /\ r.segment = seg /\ seg.partial[class] = <<>>
  /\ ok => /\ Range(seg.resident) = {} /\ Range(seg.revive) = {}
           /\ Len(seg.arenas) = MaxArenas

Given(r, L, class) ==
  /\ Good(r.segment, L \cup {r.slot}) /\ Spared(r.segment, L \cup {r.slot}, {})
  /\ r.slot \notin L /\ r.slot # Null /\ r.slot.class = class

(* smallLayerAlloc keeps the invariant and gives a new slot, or none.      *)
LEMMA AllocKeeps ==
  ASSUME SlabAssumption, NEW seg, NEW L, Good(seg, L), Spared(seg, L, {}),
         NEW class, class \in Class, NEW ok, ok \in BOOLEAN
  PROVE  LET r == SmallLayerAlloc(seg, class, ok)
         IN Refused(r, seg, class, ok) \/ Given(r, L, class)
<1> DEFINE r == SmallLayerAlloc(seg, class, ok)
<1>1. CASE seg.partial[class] # <<>>
  <2>1. r = ClaimFromHead(seg, class)
    BY <1>1 DEF SmallLayerAlloc
  <2>2. Spared(seg, L, {Head(seg.partial[class])})
    BY DEF Spared
  <2> HIDE DEF r
  <2>3. /\ Good(r.segment, L \cup {r.slot})
        /\ r.slot \in Slot /\ r.slot \notin L /\ r.slot # Null
        /\ r.slot.arena \in Arenas(seg) /\ r.slot.class = class
        /\ HeaderSlots(class) <= r.slot.slot /\ r.slot.slot < TotalSlots(class)
        /\ Arenas(r.segment) = Arenas(seg)
        /\ Spared(r.segment, L \cup {r.slot}, {})
    BY <1>1, <2>1, <2>2, ClaimKeeps
  <2>4. Given(r, L, class)
    BY <2>3 DEF Given
  <2> QED BY <2>4 DEF r
<1>2. CASE seg.partial[class] = <<>>
  <2> DEFINE n == Refilled(seg, class, ok)
  <2>1. r = IF n.partial[class] # <<>> THEN ClaimFromHead(n, class)
            ELSE [segment |-> n, slot |-> Null]
    BY <1>2 DEF SmallLayerAlloc
  <2>2. \/ /\ n = seg
           /\ ok => /\ Range(seg.resident) = {} /\ Range(seg.revive) = {}
                    /\ Len(seg.arenas) = MaxArenas
        \/ Refills(n, L, class)
    BY <1>2, RefillKeeps
  <2> HIDE DEF n, r
  <2>3. CASE /\ n = seg
             /\ ok => /\ Range(seg.resident) = {} /\ Range(seg.revive) = {}
                      /\ Len(seg.arenas) = MaxArenas
    <3>1. r.segment = seg /\ r.slot = Null
      BY <1>2, <2>1, <2>3
    <3>2. Refused(r, seg, class, ok)
      BY <1>2, <2>3, <3>1 DEF Refused
    <3> QED BY <3>2 DEF r
  <2>4. CASE Refills(n, L, class)
    <3>0. /\ Good(n, L) /\ n.partial[class] # <<>>
          /\ Spared(n, L, {Head(n.partial[class])})
      BY <2>4 DEF Refills
    <3>1. r = ClaimFromHead(n, class)
      BY <2>1, <3>0
    <3>2. /\ Good(r.segment, L \cup {r.slot})
          /\ r.slot \in Slot /\ r.slot \notin L /\ r.slot # Null
          /\ r.slot.arena \in Arenas(n) /\ r.slot.class = class
          /\ HeaderSlots(class) <= r.slot.slot /\ r.slot.slot < TotalSlots(class)
          /\ Arenas(r.segment) = Arenas(n)
          /\ Spared(r.segment, L \cup {r.slot}, {})
      BY <3>0, <3>1, ClaimKeeps
    <3>3. Given(r, L, class)
      BY <3>2 DEF Given
    <3> QED BY <3>3 DEF r
  <2> QED BY <2>2, <2>3, <2>4
<1> QED BY <1>1, <1>2

-----------------------------------------------------------------------------
(* smallLayerFree *)

(* The empty arena becomes a spare of its class, or one that waits.        *)
LEMMA ParkedKeeps ==
  ASSUME SlabAssumption, NEW seg, NEW L, Good(seg, L), NEW a, Spared(seg, L, {a}),
         a \in Arenas(seg), a \notin Pool(seg), LivesIn(L, a) = {},
         a \in Range(seg.partial[seg.arenas[a].class])
  PROVE  Good(Parked(seg, a), L) /\ Spared(Parked(seg, a), L, {})
<1>1. /\ seg \in Segment /\ Pool(seg) \subseteq Arenas(seg)
      /\ IsInjective(seg.resident) /\ IsInjective(seg.revive)
      /\ Range(seg.resident) \cap Range(seg.revive) = {}
  BY DEF Good, Types, Pools
<1>2. PICK c \in Class : c = seg.arenas[a].class
  BY <1>1, SegmentTypes
<1>3. /\ seg.partial[c] \in Seq(Nat) /\ seg.spare[c] \in Seq(Nat) /\ seg.resident \in Seq(Nat)
      /\ a \in Nat /\ IsInjective(seg.partial[c]) /\ a \in Range(seg.partial[c])
  BY <1>1, <1>2, SegmentTypes DEF Good, Chains
<1>4. /\ IsLinked(seg, a) /\ ~ seg.arenas[a].dropped
  BY DEF IsLinked, Good, Places
<1>5. CASE a \in Range(seg.spare[c])
  <2>1. Parked(seg, a) = seg
    BY <1>2, <1>5 DEF Parked
  <2>2. Spared(seg, L, {})
    BY <1>2, <1>5 DEF Spared
  <2> QED BY <2>1, <2>2
<1>6. CASE a \notin Range(seg.spare[c]) /\ Len(seg.spare[c]) < ClassSpareKeep
  <2> DEFINE z == Append(seg.spare[c], a)
             n == [seg EXCEPT !.spare[c] = z]
  <2>1. Parked(seg, a) = n
    BY <1>2, <1>4, <1>6 DEF Parked
  <2>2. z \in Seq(Nat) /\ Range(z) = {a} \cup Range(seg.spare[c])
    <3>1. /\ z \in Seq(Nat) /\ DOMAIN z = 1 .. Len(seg.spare[c]) + 1
          /\ z[Len(seg.spare[c]) + 1] = a /\ Len(seg.spare[c]) \in Nat
          /\ DOMAIN seg.spare[c] = 1 .. Len(seg.spare[c])
          /\ \A i \in 1 .. Len(seg.spare[c]) : z[i] = seg.spare[c][i]
      BY <1>3, AppendProperties
    <3> HIDE DEF z
    <3>2. \A i \in 1 .. Len(seg.spare[c]) + 1 :
            i \in 1 .. Len(seg.spare[c]) \/ i = Len(seg.spare[c]) + 1
      BY <3>1
    <3>3. Range(z) \subseteq {a} \cup Range(seg.spare[c])
      BY <3>1, <3>2 DEF Range
    <3>4. a \in Range(z)
      BY <3>1 DEF Range
    <3>5. Range(seg.spare[c]) \subseteq Range(z)
      <4>1. \A i \in DOMAIN seg.spare[c] : i \in DOMAIN z /\ z[i] = seg.spare[c][i]
        BY <3>1
      <4> QED BY <4>1 DEF Range
    <3> QED BY <3>1, <3>3, <3>4, <3>5
  <2> HIDE DEF z
  <2>3. PICK f \in [Class -> Seq(Nat)] : f = [seg.spare EXCEPT ![c] = z]
    BY <1>1, <2>2, SegmentTypes
  <2>4. /\ n \in Segment /\ n.arenas = seg.arenas /\ n.partial = seg.partial /\ n.spare = f
        /\ n.resident = seg.resident /\ n.revive = seg.revive
    BY <1>1, <2>3 DEF Segment
  <2> HIDE DEF n
  <2>5. Arenas(n) = Arenas(seg) /\ Pool(n) = Pool(seg)
    BY <2>4 DEF Arenas, Pool
  <2>6. Good(n, L)
    BY <2>4, <2>5 DEF Good, Types, Chains, Pools, Places
  <2>7. Spared(n, L, {})
    <3> SUFFICES ASSUME NEW b \in Arenas(seg), b \notin Pool(seg), LivesIn(L, b) = {}
                 PROVE  b \in Range(f[seg.arenas[b].class])
      BY <2>4, <2>5 DEF Spared
    <3>1. PICK d \in Class : d = seg.arenas[b].class
      BY <1>1, SegmentTypes
    <3>2. d # c => f[d] = seg.spare[d]
      BY <1>1, <2>3, SegmentTypes
    <3>3. f[c] = z
      BY <1>1, <2>3, SegmentTypes
    <3>4. b # a => b \in Range(seg.spare[d])
      BY <3>1 DEF Spared
    <3> QED BY <1>2, <2>2, <3>1, <3>2, <3>3, <3>4
  <2> QED BY <2>1, <2>6, <2>7
<1>7. CASE a \notin Range(seg.spare[c]) /\ ~ (Len(seg.spare[c]) < ClassSpareKeep)
  <2> DEFINE y == Delinked(seg.partial[c], a)
             w == <<a>> \o seg.resident
             m == WithChain(seg, c, y)
             n == WithResident(m, w)
  <2>1. Parked(seg, a) = n
    BY <1>2, <1>4, <1>7 DEF Parked, WithChain, WithResident
  <2>2. y \in Seq(Nat) /\ IsInjective(y) /\ Range(y) = Range(seg.partial[c]) \ {a}
    BY <1>3, DelinkedProperties
  <2>3. /\ w \in Seq(Nat) /\ IsInjective(w) /\ Range(w) = {a} \cup Range(seg.resident)
    <3>1. a \notin Range(seg.resident)
      BY DEF Pool
    <3> QED BY <1>1, <1>3, <3>1, Pushed
  <2> HIDE DEF y, w
  <2>4. /\ m \in Segment /\ m.arenas = seg.arenas /\ Arenas(m) = Arenas(seg)
        /\ m.partial[c] = y /\ \A d \in Class : d # c => m.partial[d] = seg.partial[d]
        /\ m.spare = seg.spare /\ m.resident = seg.resident /\ m.revive = seg.revive
    BY <1>1, <2>2, WithChainFields
  <2> HIDE DEF m
  <2>5. /\ n \in Segment /\ n.arenas = m.arenas /\ Arenas(n) = Arenas(m)
        /\ n.partial = m.partial /\ n.spare = m.spare
        /\ n.resident = w /\ n.revive = m.revive
    BY <2>3, <2>4, WithResidentFields
  <2> HIDE DEF n
  <2>6. Pool(n) = {a} \cup Pool(seg) /\ Arenas(n) = Arenas(seg)
    BY <2>3, <2>4, <2>5 DEF Pool
  <2>7. Types(n, L)
    BY <2>4, <2>5, <2>6 DEF Good, Types
  <2>8. Chains(n)
    <3> SUFFICES ASSUME NEW d \in Class
                 PROVE  /\ IsInjective(n.partial[d])
                        /\ \A b \in Range(n.partial[d]) :
                             /\ b \in Arenas(n) /\ b \notin Pool(n)
                             /\ n.arenas[b].class = d
      BY DEF Chains
    <3>1. CASE d = c
      BY <2>2, <2>4, <2>5, <2>6, <3>1 DEF Good, Chains
    <3>2. CASE d # c
      <4>1. n.partial[d] = seg.partial[d] /\ n.arenas = seg.arenas
        BY <2>4, <2>5, <3>2
      <4>2. /\ IsInjective(seg.partial[d])
            /\ \A b \in Range(seg.partial[d]) :
                 b \in Arenas(seg) /\ b \notin Pool(seg) /\ seg.arenas[b].class = d
        BY DEF Good, Chains
      <4> QED BY <1>2, <2>6, <3>2, <4>1, <4>2
    <3> QED BY <3>1, <3>2
  <2>9. Pools(n)
    <3>1. a \notin Range(seg.revive)
      BY DEF Pool
    <3> QED BY <1>1, <2>3, <2>4, <2>5, <2>6, <3>1 DEF Pools
  <2>10. Places(n, L)
    <3> SUFFICES ASSUME NEW b \in Arenas(seg)
                 PROVE  IF b \in Pool(n)
                          THEN /\ LivesIn(L, b) = {}
                               /\ n.arenas[b].dropped => b \in Range(n.revive)
                          ELSE /\ InUse(n.arenas[b], LivesIn(L, b)) /\ ~ n.arenas[b].dropped
                               /\ b \in Range(n.partial[n.arenas[b].class])
                                    <=> n.arenas[b].freeSlotCount > 0
      BY <2>6 DEF Places
    <3>1. n.arenas = seg.arenas /\ n.revive = seg.revive
      BY <2>4, <2>5
    <3>2. CASE b = a
      BY <1>4, <2>6, <3>1, <3>2
    <3>3. CASE b # a
      <4>1. PICK d \in Class : d = seg.arenas[b].class
        BY <1>1, SegmentTypes
      <4>2. b \in Range(n.partial[d]) <=> b \in Range(seg.partial[d])
        BY <2>2, <2>4, <2>5, <3>3
      <4> QED BY <2>6, <3>1, <3>3, <4>1, <4>2 DEF Good, Places
    <3> QED BY <3>2, <3>3
  <2>11. Spared(n, L, {})
    BY <2>4, <2>5, <2>6 DEF Spared
  <2> QED BY <2>1, <2>7, <2>8, <2>9, <2>10, <2>11 DEF Good
<1> QED BY <1>5, <1>6, <1>7

(* A slot in use is one of an arena in use, in which it is the only one    *)
(* with its position.                                                      *)
LEMMA LiveSlot ==
  ASSUME SlabAssumption, NEW seg, NEW L, Good(seg, L), NEW s \in L
  PROVE  /\ s.arena \in Arenas(seg) /\ s.arena \notin Pool(seg)
         /\ s \in LivesIn(L, s.arena) /\ s.slot \in Nat /\ s.class \in Class
         /\ s.class = seg.arenas[s.arena].class
         /\ HeaderSlots(s.class) <= s.slot /\ s.slot < TotalSlots(s.class)
         /\ \A t \in LivesIn(L, s.arena) : t.slot = s.slot => t = s
<1>1. /\ L \subseteq Slot /\ seg \in Segment
      /\ \A t \in L : t.arena \in Arenas(seg) /\ t.class = seg.arenas[t.arena].class
  BY DEF Good, Types
<1>2. /\ s.slot \in Nat /\ s.class \in Class
  BY <1>1 DEF Slot
<1>3. s \in LivesIn(L, s.arena)
  BY DEF LivesIn
<1>4. s.arena \notin Pool(seg)
  BY <1>1, <1>3 DEF Good, Places
<1>5. \A t \in LivesIn(L, s.arena) : t.slot = s.slot => t = s
  <2> SUFFICES ASSUME NEW t \in L, t.arena = s.arena, t.slot = s.slot PROVE t = s
    BY DEF LivesIn
  <2>1. t.class = s.class
    BY <1>1
  <2>2. t \in Slot /\ s \in Slot
    BY <1>1
  <2> QED BY <2>1, <2>2 DEF Slot
<1>6. HeaderSlots(s.class) <= s.slot /\ s.slot < TotalSlots(s.class)
  <2>1. PICK arena \in Arena : arena = seg.arenas[s.arena]
    BY <1>1, SegmentTypes
  <2>2. InUse(arena, LivesIn(L, s.arena)) /\ arena.class = s.class
    BY <1>1, <1>4, <2>1 DEF Good, Places
  <2>3. HeaderSlots(s.class) <= s.slot /\ s.slot < Bumped(arena)
    BY <1>2, <1>3, <2>2 DEF InUse
  <2>4. Len(arena.freeList) <= arena.freeSlotCount
    BY <2>2 DEF InUse
  <2>5. TotalSlots(s.class) \in Nat /\ Len(arena.freeList) \in Nat /\ arena.freeSlotCount \in Nat
        /\ HeaderSlots(s.class) \in Nat
    BY <1>2, ArenaTypes, SlotCounts
  <2>6. Bumped(arena) = TotalSlots(s.class) - arena.freeSlotCount + Len(arena.freeList)
    BY <2>2 DEF Bumped
  <2> QED BY <1>2, <2>3, <2>4, <2>5, <2>6
<1> QED BY <1>1, <1>2, <1>3, <1>4, <1>5, <1>6

(* smallLayerFree keeps the invariant.                                     *)
LEMMA FreeKeeps ==
  ASSUME SlabAssumption, NEW seg, NEW L, Good(seg, L), Spared(seg, L, {}), NEW s \in L
  PROVE  /\ Good(SmallLayerFree(seg, s), L \ {s})
         /\ Spared(SmallLayerFree(seg, s), L \ {s}, {})
<1> DEFINE a == s.arena
           M == L \ {s}
           x == Freed(seg.arenas[a], s.slot)
           f == WithArena(seg, a, x)
<1>1. /\ seg \in Segment /\ L \subseteq Slot /\ a \in Arenas(seg) /\ a \notin Pool(seg)
      /\ s \in LivesIn(L, a) /\ s.slot \in Nat /\ s.class \in Class
      /\ s.class = seg.arenas[a].class
      /\ \A t \in LivesIn(L, a) : t.slot = s.slot => t = s
  BY LiveSlot DEF Good, Types
<1>2. PICK c \in Class : c = seg.arenas[a].class
  BY <1>1
<1>3. PICK arena \in Arena : arena = seg.arenas[a]
  BY <1>1, SegmentTypes
<1>4. /\ InUse(arena, LivesIn(L, a)) /\ ~ arena.dropped
      /\ a \in Range(seg.partial[c]) <=> arena.freeSlotCount > 0
  BY <1>1, <1>2, <1>3 DEF Good, Places
<1> HIDE DEF a, x
<1>5. /\ x \in Arena /\ x.class = c /\ ~ x.dropped
      /\ x.freeSlotCount = arena.freeSlotCount + 1 /\ arena.freeSlotCount \in Nat
      /\ InUse(x, LivesIn(L, a) \ {s})
  <2>1. /\ Freed(arena, s.slot) \in Arena /\ Freed(arena, s.slot).class = arena.class
        /\ Freed(arena, s.slot).dropped = arena.dropped
        /\ Freed(arena, s.slot).freeSlotCount = arena.freeSlotCount + 1
        /\ InUse(Freed(arena, s.slot), LivesIn(L, a) \ {s})
    BY <1>1, <1>4, FreedInUse
  <2>2. arena.freeSlotCount \in Nat
    BY ArenaTypes
  <2> QED BY <1>2, <1>3, <1>4, <2>1, <2>2 DEF x
<1>6. LivesIn(M, a) = LivesIn(L, a) \ {s} /\ \A b : b # a => LivesIn(M, b) = LivesIn(L, b)
  BY DEF LivesIn, a
<1>7. M \subseteq Slot
  BY <1>1
<1>8. HasArena(f, seg, a, x)
  BY <1>1, <1>5, WithArenaFields
<1> HIDE DEF f
<1>9. /\ f \in Segment /\ f.arenas = [seg.arenas EXCEPT ![a] = x]
      /\ f.partial = seg.partial /\ f.spare = seg.spare
      /\ f.resident = seg.resident /\ f.revive = seg.revive
      /\ Arenas(f) = Arenas(seg) /\ f.arenas[a] = x
      /\ \A b \in Arenas(seg) : b # a => f.arenas[b] = seg.arenas[b]
  BY <1>8 DEF HasArena
<1>10. /\ seg.partial[c] \in Seq(Nat) /\ IsInjective(seg.partial[c])
       /\ seg.partial \in [Class -> Seq(Nat)] /\ a \in Nat
  BY <1>1, SegmentTypes DEF Good, Chains
(* What holds once the chain of the class agrees with the count again.     *)
<1>11. ASSUME NEW n \in Segment, n.arenas = f.arenas, n.resident = seg.resident,
              n.revive = seg.revive, n.spare = seg.spare,
              \A d \in Class : d # c => n.partial[d] = seg.partial[d],
              IsInjective(n.partial[c]),
              Range(n.partial[c]) = Range(seg.partial[c]) \cup {a}
       PROVE  Good(n, M) /\ Spared(n, M, {a})
  <2>1. /\ Range(n.partial[c]) \cup {a} = Range(seg.partial[c]) \cup {a}
        /\ a \in Range(n.partial[c]) <=> x.freeSlotCount > 0
    BY <1>5, <1>11
  <2>2. \A t \in M : t \in L \/ (t.arena = a /\ t.class = c)
    OBVIOUS
  <2>3. \A t \in L : t \in M \/ t.arena = a
    BY DEF a
  <2>4. InUse(x, LivesIn(M, a)) /\ n.arenas = [seg.arenas EXCEPT ![a] = x]
    BY <1>5, <1>6, <1>9, <1>11
  <2> HIDE DEF M
  <2>5. Good(n, M)
    BY <1>1, <1>2, <1>5, <1>7, <1>11, <2>1, <2>2, <2>3, <2>4, OneArena
  <2>6. Spared(n, M, {a})
    <3> SUFFICES ASSUME NEW b \in Arenas(n) \ {a}, b \notin Pool(n), LivesIn(M, b) = {}
                 PROVE  b \in Range(n.spare[n.arenas[b].class])
      BY DEF Spared
    <3>1. b \in Arenas(seg) /\ b # a /\ b \notin Pool(seg) /\ LivesIn(L, b) = {}
      BY <1>6, <1>9, <1>11 DEF Pool, Arenas
    <3>2. n.arenas[b] = seg.arenas[b] /\ n.spare = seg.spare
      BY <1>9, <1>11, <3>1
    <3> QED BY <3>1, <3>2 DEF Spared
  <2> QED BY <2>5, <2>6
<1>12. /\ Capacity(c) \in Nat /\ Capacity(c) >= 2
  BY SlotCounts
<1>13. /\ IsLinked(f, a) <=> arena.freeSlotCount > 0
       /\ IsLinked(seg, a) <=> arena.freeSlotCount > 0
  BY <1>2, <1>4, <1>5, <1>9 DEF IsLinked
<1> DEFINE r == SmallLayerFree(seg, s)
<1>14. r = IF arena.freeSlotCount + 1 = Capacity(c) THEN Parked(f, a)
           ELSE IF arena.freeSlotCount = 0 /\ ~ IsLinked(seg, a)
             THEN WithChain(f, c, <<a>> \o f.partial[c])
           ELSE f
  BY <1>2, <1>3 DEF SmallLayerFree, WithArena, WithChain, f, x, a
<1> HIDE DEF r
<1>15. CASE arena.freeSlotCount + 1 = Capacity(c)
  <2>1. r = Parked(f, a)
    BY <1>14, <1>15
  <2>2. arena.freeSlotCount > 0
    BY <1>5, <1>12, <1>15
  <2>3. a \in Range(seg.partial[c])
    BY <1>4, <2>2
  <2>4. Good(f, M) /\ Spared(f, M, {a})
    BY <1>9, <1>10, <1>11, <2>3
  <2>5. LivesIn(M, a) = {}
    <3>1. /\ IsFiniteSet(LivesIn(M, a))
          /\ Cardinality(LivesIn(M, a)) + x.freeSlotCount = Capacity(c)
      BY <1>5, <1>6 DEF InUse
    <3>2. Cardinality(LivesIn(M, a)) \in Nat
      BY <3>1, FS_CardinalityType
    <3>3. Cardinality(LivesIn(M, a)) = 0
      BY <1>5, <1>12, <1>15, <3>1, <3>2
    <3> QED BY <3>1, <3>3, FS_EmptySet
  <2>6. a \notin Pool(f)
    BY <1>1, <1>9 DEF Pool
  <2>7. a \in Range(f.partial[f.arenas[a].class]) /\ a \in Arenas(f)
    BY <1>1, <1>5, <1>9, <2>3
  <2> HIDE DEF M
  <2>8. Good(r, M) /\ Spared(r, M, {})
    BY <2>1, <2>4, <2>5, <2>6, <2>7, ParkedKeeps
  <2> QED BY <2>8 DEF M, r
<1>16. ASSUME NEW n \in Segment, n.arenas = f.arenas, Spared(n, M, {a}),
              arena.freeSlotCount + 1 # Capacity(c)
       PROVE  Spared(n, M, {})
  <2>1. /\ IsFiniteSet(LivesIn(M, a))
        /\ Cardinality(LivesIn(M, a)) + x.freeSlotCount = Capacity(c)
    BY <1>5, <1>6 DEF InUse
  <2>2. Cardinality(LivesIn(M, a)) \in Nat
    BY <2>1, FS_CardinalityType
  <2>3. Cardinality(LivesIn(M, a)) # 0
    BY <1>5, <1>12, <1>16, <2>1, <2>2
  <2>4. LivesIn(M, a) # {}
    BY <2>3, FS_EmptySet
  <2> HIDE DEF M
  <2> QED BY <1>16, <2>4 DEF Spared
<1>17. CASE /\ arena.freeSlotCount + 1 # Capacity(c)
            /\ arena.freeSlotCount = 0 /\ ~ IsLinked(seg, a)
  <2> DEFINE y == <<a>> \o f.partial[c]
  <2>1. r = WithChain(f, c, y)
    BY <1>14, <1>17
  <2>2. a \notin Range(seg.partial[c])
    BY <1>4, <1>17
  <2>3. y \in Seq(Nat) /\ IsInjective(y) /\ Range(y) = {a} \cup Range(seg.partial[c])
    BY <1>9, <1>10, <2>2, Pushed
  <2> HIDE DEF y
  <2>4. /\ r \in Segment /\ r.arenas = f.arenas
        /\ r.partial[c] = y /\ \A d \in Class : d # c => r.partial[d] = f.partial[d]
        /\ r.spare = f.spare /\ r.resident = f.resident /\ r.revive = f.revive
    BY <1>9, <2>1, <2>3, WithChainFields
  <2>5. Good(r, M) /\ Spared(r, M, {a})
    BY <1>9, <1>11, <2>3, <2>4
  <2>6. Spared(r, M, {})
    BY <1>16, <1>17, <2>4, <2>5
  <2> QED BY <2>5, <2>6 DEF r
<1>18. CASE /\ arena.freeSlotCount + 1 # Capacity(c)
            /\ ~ (arena.freeSlotCount = 0 /\ ~ IsLinked(seg, a))
  <2>1. r = f
    BY <1>14, <1>18
  <2>2. a \in Range(seg.partial[c])
    BY <1>4, <1>5, <1>13, <1>18
  <2>3. Good(f, M) /\ Spared(f, M, {a})
    BY <1>9, <1>10, <1>11, <2>2
  <2>4. Spared(f, M, {})
    BY <1>9, <1>16, <1>18, <2>3
  <2> QED BY <2>1, <2>3, <2>4 DEF r
<1> QED BY <1>15, <1>17, <1>18

-----------------------------------------------------------------------------
(* arenaSlab_trim *)

(* arenaSlab_trim keeps the invariant.                                     *)
LEMMA TrimKeeps ==
  ASSUME SlabAssumption, NEW seg, NEW L, Good(seg, L), Spared(seg, L, {}),
         NEW kept, kept = SubSeq(seg.resident, 1, TrimPoolMaxResident),
         NEW excess, excess = SubSeq(seg.resident, TrimPoolMaxResident + 1, Len(seg.resident)),
         excess # <<>>, NEW drop \in SUBSET Range(excess), NEW g, NEW n,
         g = Dropped(seg.arenas, drop),
         n = [seg EXCEPT !.arenas = g, !.resident = kept, !.revive = excess \o @]
  PROVE  Good(n, L) /\ Spared(n, L, {})
<1>1. /\ seg \in Segment /\ seg.resident \in Seq(Nat) /\ seg.revive \in Seq(Nat)
      /\ IsInjective(seg.resident) /\ IsInjective(seg.revive)
      /\ Range(seg.resident) \cap Range(seg.revive) = {}
      /\ Pool(seg) \subseteq Arenas(seg) /\ Len(seg.arenas) <= MaxArenas
      /\ TrimPoolMaxResident \in Nat /\ Len(seg.resident) \in Nat
  BY SegmentTypes DEF Good, Types, Pools, SlabAssumption
<1>2. TrimPoolMaxResident < Len(seg.resident)
  <2> SUFFICES ASSUME Len(seg.resident) < TrimPoolMaxResident + 1 PROVE FALSE
    BY <1>1
  <2>1. excess = <<>>
    BY <1>1, SubSeqEmpty
  <2> QED BY <2>1
<1>3. /\ kept \in Seq(Nat) /\ excess \in Seq(Nat) /\ IsInjective(kept) /\ IsInjective(excess)
      /\ Range(kept) \cap Range(excess) = {}
      /\ Range(kept) \cup Range(excess) = Range(seg.resident)
  <2>1. TrimPoolMaxResident <= TrimPoolMaxResident /\ TrimPoolMaxResident <= Len(seg.resident)
    BY <1>1, <1>2
  <2>2. TrimPoolMaxResident + 1 .. TrimPoolMaxResident = {}
    BY <1>1
  <2>3. /\ kept \in Seq(Nat) /\ excess \in Seq(Nat) /\ IsInjective(kept) /\ IsInjective(excess)
        /\ Range(kept) \cap Range(excess) = {}
        /\ Range(kept) \cup Range(excess)
             = Range(seg.resident)
                 \ {seg.resident[i] : i \in TrimPoolMaxResident + 1 .. TrimPoolMaxResident}
    BY <1>1, <2>1, Divided
  <2> QED BY <2>2, <2>3
<1>4. PICK rev \in Seq(Nat) : /\ rev = excess \o seg.revive /\ IsInjective(rev)
                              /\ Range(rev) = Range(excess) \cup Range(seg.revive)
  <2>1. Range(excess) \cap Range(seg.revive) = {}
    BY <1>1, <1>3
  <2>2. /\ excess \o seg.revive \in Seq(Nat) /\ IsInjective(excess \o seg.revive)
        /\ Range(excess \o seg.revive) = Range(excess) \cup Range(seg.revive)
    BY ONLY <1>1, <1>3, <2>1, Joined
  <2> QED BY <2>2
<1>5. /\ seg.arenas \in Seq(Arena) /\ DOMAIN seg.arenas = 1 .. Len(seg.arenas)
      /\ Len(seg.arenas) \in Nat /\ Arenas(seg) = DOMAIN seg.arenas
      /\ \A a \in DOMAIN seg.arenas : seg.arenas[a] \in Arena
  BY <1>1, SegmentTypes
<1>6. \A a \in DOMAIN seg.arenas :
        /\ g[a] \in Arena /\ g[a].class = seg.arenas[a].class
        /\ g[a].freeSlotCount = seg.arenas[a].freeSlotCount
        /\ g[a].freeList = seg.arenas[a].freeList
        /\ g[a].dropped <=> (seg.arenas[a].dropped \/ a \in drop)
  <2> SUFFICES ASSUME NEW a \in DOMAIN seg.arenas
               PROVE  /\ g[a] \in Arena /\ g[a].class = seg.arenas[a].class
                      /\ g[a].freeSlotCount = seg.arenas[a].freeSlotCount
                      /\ g[a].freeList = seg.arenas[a].freeList
                      /\ g[a].dropped <=> (seg.arenas[a].dropped \/ a \in drop)
    OBVIOUS
  <2>1. g[a] = [seg.arenas[a] EXCEPT !.dropped = @ \/ a \in drop]
    BY DEF Dropped
  <2>2. PICK arena : arena = seg.arenas[a] /\ arena \in Arena
    BY <1>5
  <2>3. CASE a \in drop
    <3>1. g[a] = [arena EXCEPT !.dropped = TRUE]
      BY <2>1, <2>2, <2>3 DEF Arena
    <3>2. /\ g[a] \in Arena /\ g[a].class = arena.class
          /\ g[a].freeSlotCount = arena.freeSlotCount
          /\ g[a].freeList = arena.freeList /\ g[a].dropped
      BY <2>2, <3>1 DEF Arena
    <3> QED BY <2>2, <2>3, <3>2
  <2>4. CASE a \notin drop
    <3>1. arena.dropped \in BOOLEAN
      BY <2>2 DEF Arena
    <3>2. (arena.dropped \/ a \in drop) = arena.dropped
      BY <2>4, <3>1
    <3>3. g[a] = [arena EXCEPT !.dropped = arena.dropped]
      BY <2>1, <2>2, <3>2
    <3>4. g[a] = arena
      BY ONLY <2>2, <3>3 DEF Arena
    <3> QED BY <2>2, <2>4, <3>4
  <2> QED BY <2>3, <2>4
<1>7. DOMAIN g = DOMAIN seg.arenas
  BY DEF Dropped
<1>8. g \in Seq(Arena) /\ Len(g) = Len(seg.arenas)
  <2>1. g \in [1 .. Len(seg.arenas) -> Arena]
    <3>1. g = [a \in 1 .. Len(seg.arenas) |-> g[a]]
      BY <1>5, <1>7 DEF Dropped
    <3> QED BY <1>5, <1>6, <3>1
  <2>2. PICK k \in Nat : k = Len(seg.arenas)
    BY <1>5
  <2>3. g \in [1 .. k -> Arena]
    BY <2>1, <2>2
  <2>4. g \in Seq(Arena)
    BY ONLY <2>3, SeqDef, SMTT(30)
  <2>5. Len(g) = k
    BY <2>3, <2>4, LenProperties
  <2> QED BY <2>2, <2>4, <2>5
<1>9. /\ n \in Segment /\ n.arenas = g /\ n.partial = seg.partial /\ n.spare = seg.spare
      /\ n.resident = kept /\ n.revive = rev
  <2>1. n = [seg EXCEPT !.arenas = g, !.resident = kept, !.revive = rev]
    BY <1>1, <1>4
  <2> QED BY <1>1, <1>3, <1>4, <1>8, <2>1 DEF Segment
<1>10. Arenas(n) = Arenas(seg) /\ Pool(n) = Pool(seg)
  BY <1>3, <1>4, <1>5, <1>7, <1>9 DEF Arenas, Pool
<1> DEFINE SameHeader(a) ==
      g[a].class = seg.arenas[a].class /\ g[a].freeSlotCount = seg.arenas[a].freeSlotCount
<1>11. \A a \in Arenas(seg) : SameHeader(a)
  BY <1>5, <1>6
<1>12. Types(n, L) /\ Chains(n)
  <2>1. \A a \in Arenas(seg) : n.arenas[a].class = seg.arenas[a].class
    BY <1>9, <1>11
  <2>2. Len(n.arenas) <= MaxArenas
    BY <1>1, <1>8, <1>9
  <2>3. /\ L \subseteq Slot
        /\ \A s \in L : s.arena \in Arenas(seg) /\ s.class = seg.arenas[s.arena].class
    BY DEF Good, Types
  <2>4. Types(n, L)
    BY <1>9, <1>10, <2>1, <2>2, <2>3 DEF Types
  <2>5. Chains(seg) /\ n.partial = seg.partial
    BY <1>9 DEF Good
  <2>6. Chains(n)
    BY <1>10, <2>1, <2>5 DEF Chains
  <2> QED BY <2>4, <2>6
<1>13. Pools(n)
  BY <1>1, <1>3, <1>4, <1>9, <1>10 DEF Pools
<1>14. Places(n, L)
  <2> SUFFICES ASSUME NEW a \in Arenas(seg)
               PROVE  IF a \in Pool(seg)
                        THEN LivesIn(L, a) = {} /\ (g[a].dropped => a \in Range(rev))
                        ELSE /\ InUse(g[a], LivesIn(L, a)) /\ ~ g[a].dropped
                             /\ a \in Range(seg.partial[g[a].class]) <=> g[a].freeSlotCount > 0
    BY <1>9, <1>10 DEF Places
  <2>1. CASE a \in Pool(seg)
    BY <1>4, <1>5, <1>6, <2>1 DEF Places, Good
  <2>2. CASE a \notin Pool(seg)
    <3>1. ~ g[a].dropped
      BY <1>3, <1>5, <1>6, <2>2 DEF Places, Good, Pool
    <3>2. InUse(seg.arenas[a], LivesIn(L, a))
      BY <2>2 DEF Places, Good
    <3>3. InUse(g[a], LivesIn(L, a))
      <4>1. Bumped(g[a]) = Bumped(seg.arenas[a])
        BY <1>5, <1>6 DEF Bumped
      <4> QED BY <1>5, <1>6, <3>2, <4>1 DEF InUse
    <3> QED BY <1>5, <1>6, <2>2, <3>1, <3>3 DEF Places, Good
  <2> QED BY <2>1, <2>2
<1>15. Spared(n, L, {})
  <2>1. \A a \in Arenas(seg) : n.arenas[a].class = seg.arenas[a].class
    BY <1>9, <1>11
  <2>2. n.spare = seg.spare
    BY <1>9
  <2> QED BY <1>10, <2>1, <2>2 DEF Spared
<1> QED BY <1>12, <1>13, <1>14, <1>15 DEF Good

-----------------------------------------------------------------------------
IInv == Good(segment, live) /\ Spared(segment, live, {})

(* The segment begins empty.                                               *)
LEMMA InitGood ==
  ASSUME SlabAssumption, Init
  PROVE  IInv
<1> DEFINE e == [c \in Class |-> <<>>]
<1>1. /\ segment.arenas = <<>> /\ segment.partial = e /\ segment.spare = e
      /\ segment.resident = <<>> /\ segment.revive = <<>> /\ live = {}
  BY DEF Init
<1>2. e \in [Class -> Seq(Nat)]
  OBVIOUS
<1>3. segment \in Segment
  <2>1. segment = [arenas |-> <<>>, partial |-> e, spare |-> e,
                   resident |-> <<>>, revive |-> <<>>]
    BY DEF Init
  <2> HIDE DEF e
  <2> QED BY <1>2, <2>1 DEF Segment
<1>4. Range(<<>>) = {} /\ IsInjective(<<>>) /\ \A c \in Class : e[c] = <<>>
  BY DEF Range, IsInjective
<1>5. Len(segment.arenas) = 0 /\ Arenas(segment) = {} /\ MaxArenas \in Nat
  BY <1>1 DEF Arenas, SlabAssumption
<1> HIDE DEF e
<1>6. Types(segment, live)
  BY <1>1, <1>3, <1>5 DEF Types
<1>7. Chains(segment)
  BY <1>1, <1>4 DEF Chains
<1>8. Pools(segment)
  BY <1>1, <1>4 DEF Pools, Pool
<1>9. Places(segment, live) /\ Spared(segment, live, {})
  BY <1>5 DEF Places, Spared
<1> QED BY <1>6, <1>7, <1>8, <1>9 DEF IInv, Good

(* Every step keeps the invariant.                                         *)
LEMMA StepKeeps ==
  ASSUME SlabAssumption, IInv, [Next]_vars
  PROVE  IInv'
<1> USE DEF IInv
<1>1. ASSUME NEW class \in Class, Alloc(class) PROVE IInv'
  <2>1. PICK ok \in BOOLEAN :
          LET result == SmallLayerAlloc(segment, class, ok)
          IN /\ segment' = result.segment
             /\ live' = live \cup ({result.slot} \ {Null})
    BY <1>1 DEF Alloc
  <2> DEFINE r == SmallLayerAlloc(segment, class, ok)
  <2>2. Refused(r, segment, class, ok) \/ Given(r, live, class)
    BY AllocKeeps
  <2>3. segment' = r.segment /\ live' = live \cup ({r.slot} \ {Null})
    BY <2>1
  <2> HIDE DEF r
  <2>4. CASE Refused(r, segment, class, ok)
    <3>1. segment' = segment /\ live' = live
      BY <2>3, <2>4 DEF Refused
    <3>2. Good(segment', live') /\ Spared(segment', live', {})
      BY <3>1
    <3> QED BY <3>2
  <2>5. CASE Given(r, live, class)
    <3>1. segment' = r.segment /\ live' = live \cup {r.slot}
      BY <2>3, <2>5 DEF Given
    <3>2. Good(segment', live') /\ Spared(segment', live', {})
      BY <2>5, <3>1 DEF Given
    <3> QED BY <3>2
  <2> QED BY <2>2, <2>4, <2>5
<1>2. ASSUME NEW s \in live, Free(s) PROVE IInv'
  <2>1. segment' = SmallLayerFree(segment, s) /\ live' = live \ {s}
    BY <1>2 DEF Free
  <2>2. /\ Good(SmallLayerFree(segment, s), live \ {s})
        /\ Spared(SmallLayerFree(segment, s), live \ {s}, {})
    BY FreeKeeps
  <2>3. Good(segment', live') /\ Spared(segment', live', {})
    BY <2>1, <2>2
  <2> QED BY <2>3
<1>3. ASSUME Trim PROVE IInv'
  <2>1. PICK kept, excess :
          /\ kept = SubSeq(segment.resident, 1, TrimPoolMaxResident)
          /\ excess = SubSeq(segment.resident, TrimPoolMaxResident + 1, Len(segment.resident))
    OBVIOUS
  <2>2. PICK drop \in SUBSET Range(excess) :
          segment' = [segment EXCEPT
            !.arenas = Dropped(@, drop),
            !.resident = kept,
            !.revive = excess \o @]
    BY <1>3, <2>1 DEF Trim
  <2>3. excess # <<>> /\ live' = live
    BY <1>3, <2>1 DEF Trim
  <2>4. PICK g : g = Dropped(segment.arenas, drop)
    OBVIOUS
  <2>5. PICK n : n = [segment EXCEPT !.arenas = g, !.resident = kept, !.revive = excess \o @]
    OBVIOUS
  <2>6. segment' = n
    BY <2>2, <2>4, <2>5
  <2>7. Good(n, live) /\ Spared(n, live, {})
    BY <2>1, <2>3, <2>4, <2>5, TrimKeeps
  <2>8. Good(segment', live') /\ Spared(segment', live', {})
    BY <2>3, <2>6, <2>7
  <2> QED BY <2>8
<1>4. ASSUME UNCHANGED vars PROVE IInv'
  <2>1. segment' = segment /\ live' = live
    BY <1>4 DEF vars
  <2>2. Good(segment', live') /\ Spared(segment', live', {})
    BY <2>1
  <2> QED BY <2>2
<1> QED BY <1>1, <1>2, <1>3, <1>4 DEF Next

(* The inductive invariant of the slab arena.                              *)
THEOREM SlabInvariant == ASSUME SlabAssumption PROVE Spec => []IInv
<1>1. Init => IInv
  BY InitGood
<1>2. IInv /\ [Next]_vars => IInv'
  BY StepKeeps
<1> QED BY <1>1, <1>2, PTL DEF Spec

-----------------------------------------------------------------------------
(* The invariant gives every arena its place.                              *)
LEMMA PlacesFollow == ASSUME SlabAssumption, IInv PROVE EveryArenaHasItsPlace
<1> USE DEF IInv
<1>1. /\ segment \in Segment /\ segment.resident \in Seq(Nat) /\ segment.revive \in Seq(Nat)
      /\ IsInjective(segment.resident) /\ IsInjective(segment.revive)
      /\ Range(segment.resident) \cap Range(segment.revive) = {}
  BY SegmentTypes DEF Good, Types, Pools
<1> DEFINE pool == segment.resident \o segment.revive
<1>2. pool \in Seq(Nat) /\ IsInjective(pool) /\ Range(pool) = Pool(segment)
  BY <1>1, Joined DEF Pool
<1>3. ASSUME NEW c \in Class
      PROVE  /\ IsInjective(segment.partial[c] \o segment.resident \o segment.revive)
             /\ \A a \in Range(segment.partial[c]) : segment.arenas[a].class = c
  <2>1. /\ segment.partial[c] \in Seq(Nat) /\ IsInjective(segment.partial[c])
        /\ \A a \in Range(segment.partial[c]) :
             a \notin Pool(segment) /\ segment.arenas[a].class = c
    BY <1>1, SegmentTypes DEF Good, Chains
  <2>2. PICK chain \in Seq(Nat) : chain = segment.partial[c]
    BY <2>1
  <2>3. /\ Range(chain) \cap Range(segment.resident) = {}
        /\ Range(chain) \cap Range(segment.revive) = {}
    BY <2>1, <2>2 DEF Pool
  <2>4. /\ chain \o segment.resident \in Seq(Nat) /\ IsInjective(chain \o segment.resident)
        /\ Range(chain \o segment.resident) = Range(chain) \cup Range(segment.resident)
    BY <1>1, <2>1, <2>2, <2>3, Joined
  <2>5. Range(chain \o segment.resident) \cap Range(segment.revive) = {}
    BY <1>1, <2>3, <2>4
  <2>6. IsInjective((chain \o segment.resident) \o segment.revive)
    BY <1>1, <2>4, <2>5, Joined
  <2> QED BY <2>1, <2>2, <2>6
<1>4. ASSUME NEW a \in Arenas(segment)
      PROVE  LET arena == segment.arenas[a]
                 free == arena.freeSlotCount
             IN IF a \in Range(pool)
                  THEN LiveIn(a) = {} /\ (arena.dropped => a \in Range(segment.revive))
                  ELSE /\ Cardinality(LiveIn(a)) + free = Capacity(arena.class)
                       /\ IsLinked(segment, a) <=> free > 0
                       /\ ~ arena.dropped
  <2>1. LiveIn(a) = LivesIn(live, a)
    BY DEF LiveIn, LivesIn
  <2> HIDE DEF pool
  <2>2. CASE a \in Pool(segment)
    BY <1>2, <2>1, <2>2 DEF Good, Places
  <2>3. CASE a \notin Pool(segment)
    BY <1>2, <2>1, <2>3 DEF Good, Places, InUse, IsLinked
  <2> QED BY <2>2, <2>3
<1> QED BY <1>3, <1>4 DEF EveryArenaHasItsPlace

(* The invariant leaves no memory to a request that is refused.            *)
LEMMA RefusalFollows == ASSUME SlabAssumption, IInv PROVE RefusedOnlyWhenFull
<1> USE DEF IInv
<1> SUFFICES ASSUME NEW class \in Class, SmallLayerAlloc(segment, class, TRUE).slot = Null
             PROVE  /\ Len(segment.arenas) = MaxArenas
                    /\ \A a \in Arenas(segment) :
                         LET arena == segment.arenas[a]
                         IN IF arena.class = class
                              THEN Cardinality(LiveIn(a)) = Capacity(class)
                              ELSE LiveIn(a) # {} \/ a \in Range(segment.spare[arena.class])
  BY DEF RefusedOnlyWhenFull
<1> DEFINE r == SmallLayerAlloc(segment, class, TRUE)
<1>1. Refused(r, segment, class, TRUE) \/ Given(r, live, class)
  BY AllocKeeps
<1>2. /\ segment.partial[class] = <<>> /\ Pool(segment) = {}
      /\ Len(segment.arenas) = MaxArenas
  BY <1>1 DEF Pool, Refused, Given
<1>3. ASSUME NEW a \in Arenas(segment)
      PROVE  IF segment.arenas[a].class = class
               THEN Cardinality(LiveIn(a)) = Capacity(class)
               ELSE LiveIn(a) # {} \/ a \in Range(segment.spare[segment.arenas[a].class])
  <2>1. LiveIn(a) = LivesIn(live, a)
    BY DEF LiveIn, LivesIn
  <2>2. CASE segment.arenas[a].class = class
    <3>1. PICK arena \in Arena : arena = segment.arenas[a]
      BY SegmentTypes DEF Good, Types
    <3>2. a \notin Range(segment.partial[class])
      BY <1>2 DEF Range
    <3>3. /\ InUse(arena, LivesIn(live, a)) /\ ~ (arena.freeSlotCount > 0)
          /\ arena.freeSlotCount \in Nat
      BY <1>2, <2>2, <3>1, <3>2, ArenaTypes DEF Good, Places
    <3>4. /\ Cardinality(LivesIn(live, a)) + arena.freeSlotCount = Capacity(class)
          /\ Cardinality(LivesIn(live, a)) \in Nat
      BY <2>2, <3>1, <3>3, FS_CardinalityType DEF InUse
    <3>5. Cardinality(LivesIn(live, a)) = Capacity(class)
      BY <3>3, <3>4
    <3> QED BY <2>1, <2>2, <3>5
  <2>3. CASE segment.arenas[a].class # class
    BY <1>2, <2>1, <2>3 DEF Spared
  <2> QED BY <2>2, <2>3
<1> QED BY <1>2, <1>3

(* Every arena is in the chain of its class when it has a free slot, in no *)
(* list when it is full, in the pool only while nothing is in it, and its  *)
(* count is the number of slots in use (smallLayerAlloc, smallLayerFree).  *)
THEOREM ArenasHavePlaces == ASSUME SlabAssumption PROVE Spec => []EveryArenaHasItsPlace
<1>1. IInv => EveryArenaHasItsPlace
  BY PlacesFollow
<1> QED BY <1>1, SlabInvariant, PTL

(* A request that the system does not fail is refused only when all arenas *)
(* are carved, those of the class are full and the others hold something   *)
(* or are spares (smallLayerAllocSlow).                                    *)
THEOREM MemoryIsRefusedWhenFull == ASSUME SlabAssumption PROVE Spec => []RefusedOnlyWhenFull
<1>1. IInv => RefusedOnlyWhenFull
  BY RefusalFollows
<1> QED BY <1>1, SlabInvariant, PTL

-----------------------------------------------------------------------------
Block(s) == [first |-> First(s), last |-> First(s) + s.class - 1]

(* The remainder of a quotient and a rest is the rest.                     *)
LEMMA Remainder ==
  ASSUME NEW q \in Nat, NEW n \in Nat \ {0}, NEW r \in Nat, r < n
  PROVE  (q * n + r) % n = r
<1>1. PICK x \in Nat : x = q * n + r
  OBVIOUS
<1>2. PICK d \in Int, m \in Int : d = x \div n /\ m = x % n
  OBVIOUS
<1>3. x = n * d + m /\ 0 <= m /\ m < n
  BY <1>2
<1>4. PICK e \in Int : e = q - d
  BY <1>2
<1>5. n * e = m - r
  <2>1. n * e = n * q - n * d
    BY <1>4
  <2>2. n * q = q * n
    OBVIOUS
  <2> QED BY <1>1, <1>3, <2>1, <2>2
<1>6. CASE e >= 1
  <2>1. n * e >= n
    BY <1>6
  <2> QED BY <1>3, <1>5, <2>1
<1>7. CASE e <= -1
  <2>1. n * e <= -n
    BY <1>7
  <2> QED BY <1>3, <1>5, <2>1
<1>8. CASE e = 0
  BY <1>1, <1>2, <1>5, <1>8
<1> QED BY <1>6, <1>7, <1>8

(* A slot lies in its arena, above the header.                             *)
LEMMA SlotBytes ==
  ASSUME SlabAssumption, NEW s, s.class \in Class, s.slot \in Nat, s.arena \in 1 .. MaxArenas,
         HeaderSlots(s.class) <= s.slot, s.slot < TotalSlots(s.class)
  PROVE  /\ First(s) \in Usable /\ First(s) + s.class - 1 \in Usable
         /\ (s.arena - 1) * ArenaSize <= First(s)
         /\ First(s) + s.class - 1 < s.arena * ArenaSize
<1>1. PICK c \in Nat \ {0}, k \in Nat, p \in Nat, A \in Nat \ {0}, N \in Nat, H \in Nat :
        /\ c = s.class /\ k = s.slot /\ p = s.arena - 1 /\ A = ArenaSize
        /\ N = MaxArenas /\ H = HeaderSize
  <2>1. s.class \in Nat \ {0} /\ ArenaSize \in Nat \ {0} /\ HeaderSize \in Nat
    BY SlotCounts
  <2>2. MaxArenas \in Nat
    BY DEF SlabAssumption
  <2>3. s.arena - 1 \in Nat
    BY <2>2
  <2> QED BY <2>1, <2>2, <2>3
<1>2. PICK h \in Nat, w \in Nat : h = HeaderSlots(c) /\ w = TotalSlots(c)
  BY <1>1, SlotCounts
<1>3. /\ H <= h * c /\ w * c <= A /\ h <= k /\ k < w
  BY <1>1, <1>2, SlotCounts
<1>4. PICK o \in Nat : o = k * c
  OBVIOUS
<1>5. H <= o
  <2>1. h * c <= k * c
    BY <1>3
  <2> QED BY <1>3, <1>4, <2>1
<1>6. o + c <= A
  <2>1. (k + 1) * c <= w * c
    BY <1>3
  <2>2. (k + 1) * c = k * c + c
    OBVIOUS
  <2> QED BY <1>3, <1>4, <2>1, <2>2
<1>7. First(s) = p * A + o
  BY <1>1, <1>4 DEF First
<1>8. s.arena * ArenaSize = p * A + A /\ (s.arena - 1) * ArenaSize = p * A
  <2>1. (p + 1) * A = p * A + A
    OBVIOUS
  <2>2. s.arena = p + 1
    BY <1>1
  <2> QED BY <1>1, <2>1, <2>2
<1>9. PICK b \in Nat : b = p * A
  OBVIOUS
<1>10. b + A <= N * A
  <2>1. p + 1 <= N
    BY <1>1
  <2>2. (p + 1) * A <= N * A
    BY <2>1
  <2>3. (p + 1) * A = p * A + A
    OBVIOUS
  <2> QED BY <1>9, <2>2, <2>3
<1>11. PICK e \in Nat : e = N * A
  OBVIOUS
<1>12. o \in 0 .. A - 1 /\ o + c - 1 \in Nat /\ o + c - 1 < A /\ o < A
  BY <1>6
<1>13. (b + o) % A = o
  BY <1>9, <1>12, Remainder
<1>14. (b + (o + c - 1)) % A = o + c - 1
  <2>1. PICK j \in Nat : j = o + c - 1 /\ j < A
    BY <1>12
  <2>2. (b + j) % A = j
    BY <1>9, <2>1, Remainder
  <2> QED BY <2>1, <2>2
<1>15. Usable = {i \in 0 .. e - 1 : i % A >= H}
  BY <1>1, <1>11 DEF Usable
<1>16. b + o \in Usable
  <2>1. b + o \in 0 .. e - 1
    BY <1>10, <1>11, <1>12
  <2> QED BY <1>5, <1>13, <1>15, <2>1
<1>17. b + (o + c - 1) \in Usable
  <2>1. b + (o + c - 1) \in 0 .. e - 1
    BY <1>10, <1>11, <1>12
  <2>2. o + c - 1 >= H
    BY <1>5
  <2> QED BY <1>14, <1>15, <2>1, <2>2
<1>18. First(s) + s.class - 1 = b + (o + c - 1) /\ First(s) = b + o
  BY <1>1, <1>7, <1>9
<1> QED BY <1>6, <1>8, <1>9, <1>16, <1>17, <1>18

(* The bytes of a slot in use.                                             *)
LEMMA LiveBytes ==
  ASSUME SlabAssumption, NEW seg, NEW L, Good(seg, L), NEW s \in L
  PROVE  /\ First(s) \in Usable /\ First(s) + s.class - 1 \in Usable
         /\ (s.arena - 1) * ArenaSize <= First(s)
         /\ First(s) + s.class - 1 < s.arena * ArenaSize
         /\ s.arena \in Nat \ {0} /\ s.slot \in Nat /\ s.class \in Nat \ {0}
<1>1. /\ s.arena \in Arenas(seg) /\ s.slot \in Nat /\ s.class \in Class
      /\ HeaderSlots(s.class) <= s.slot /\ s.slot < TotalSlots(s.class)
  BY LiveSlot
<1>2. /\ Arenas(seg) = 1 .. Len(seg.arenas) /\ Len(seg.arenas) \in Nat
      /\ Len(seg.arenas) <= MaxArenas /\ MaxArenas \in Nat
  BY SegmentTypes DEF Good, Types, SlabAssumption
<1>3. s.arena \in 1 .. MaxArenas /\ s.arena \in Nat \ {0}
  BY <1>1, <1>2
<1>4. s.class \in Nat \ {0}
  BY <1>1, SlotCounts
<1> QED BY <1>1, <1>3, <1>4, SlotBytes

(* Two slots in use do not overlap.                                        *)
LEMMA BlocksApart ==
  ASSUME SlabAssumption, NEW seg, NEW L, Good(seg, L), NEW s \in L, NEW t \in L, s # t
  PROVE  ~ Memory!Overlap(Block(s), Block(t))
<1>1. PICK f \in Int, g \in Int, c \in Nat \ {0}, d \in Nat \ {0}, A \in Nat \ {0},
           p \in Nat \ {0}, q \in Nat \ {0}, i \in Nat, j \in Nat :
        /\ f = First(s) /\ g = First(t) /\ c = s.class /\ d = t.class /\ A = ArenaSize
        /\ p = s.arena /\ q = t.arena /\ i = s.slot /\ j = t.slot
  <2>1. First(s) \in Int /\ First(t) \in Int
    BY LiveBytes DEF Usable
  <2> QED BY <2>1, LiveBytes DEF SlabAssumption
<1>2. /\ (p - 1) * A <= f /\ f + c - 1 < p * A
      /\ (q - 1) * A <= g /\ g + d - 1 < q * A
  BY <1>1, LiveBytes
<1>3. /\ Block(s).first = f /\ Block(s).last = f + c - 1
      /\ Block(t).first = g /\ Block(t).last = g + d - 1
  BY <1>1 DEF Block
<1> SUFFICES ASSUME f <= g + d - 1, g <= f + c - 1 PROVE FALSE
  BY <1>3 DEF Memory!Overlap
<1>4. CASE p < q
  <2>1. p * A <= (q - 1) * A
    BY <1>4
  <2>2. PICK x \in Int, y \in Int : x = p * A /\ y = (q - 1) * A
    OBVIOUS
  <2> QED BY <1>2, <2>1, <2>2
<1>5. CASE q < p
  <2>1. q * A <= (p - 1) * A
    BY <1>5
  <2>2. PICK x \in Int, y \in Int : x = q * A /\ y = (p - 1) * A
    OBVIOUS
  <2> QED BY <1>2, <2>1, <2>2
<1>6. CASE p = q
  <2>1. c = d /\ i # j
    <3>1. /\ s.class = seg.arenas[s.arena].class /\ t.class = seg.arenas[t.arena].class
          /\ t \in LivesIn(L, t.arena)
          /\ \A u \in LivesIn(L, s.arena) : u.slot = s.slot => u = s
      BY LiveSlot
    <3> QED BY <1>1, <1>6, <3>1
  <2>2. PICK b \in Int : b = (p - 1) * A
    OBVIOUS
  <2>3. f = b + i * c /\ g = b + j * c
    BY <1>1, <1>6, <2>1, <2>2 DEF First
  <2>4. CASE i < j
    <3>1. (i + 1) * c <= j * c
      BY <2>4
    <3>2. (i + 1) * c = i * c + c
      OBVIOUS
    <3>3. PICK x \in Int, y \in Int : x = i * c /\ y = j * c
      OBVIOUS
    <3> QED BY <2>1, <2>3, <3>1, <3>2, <3>3
  <2>5. CASE j < i
    <3>1. (j + 1) * c <= i * c
      BY <2>5
    <3>2. (j + 1) * c = j * c + c
      OBVIOUS
    <3>3. PICK x \in Int, y \in Int : x = i * c /\ y = j * c
      OBVIOUS
    <3> QED BY <2>1, <2>3, <3>1, <3>2, <3>3
  <2> QED BY <2>1, <2>4, <2>5
<1> QED BY <1>4, <1>5, <1>6

(* Every step is one of the abstract allocator, or changes no block.       *)
LEMMA StepsAreMemory ==
  ASSUME SlabAssumption, IInv, [Next]_vars
  PROVE  [Memory!Next]_Blocks
<1> USE DEF IInv
<1>0. Good(segment', live') /\ Spared(segment', live', {})
  <2>1. IInv'
    BY StepKeeps
  <2> QED BY <2>1
<1>1. Blocks = {Block(s) : s \in live} /\ Blocks' = {Block(s) : s \in live'}
  BY DEF Blocks, Block, First
<1>2. ASSUME NEW class \in Class, Alloc(class) PROVE [Memory!Next]_Blocks
  <2>1. PICK ok \in BOOLEAN :
          live' = live \cup ({SmallLayerAlloc(segment, class, ok).slot} \ {Null})
    BY <1>2 DEF Alloc
  <2>2. PICK s : s = SmallLayerAlloc(segment, class, ok).slot
    OBVIOUS
  <2>3. s = Null \/ (s \notin live /\ s # Null /\ s.class = class)
    <3> DEFINE r == SmallLayerAlloc(segment, class, ok)
    <3>1. Refused(r, segment, class, ok) \/ Given(r, live, class)
      BY AllocKeeps
    <3> QED BY <2>2, <3>1 DEF Refused, Given
  <2>4. CASE s = Null
    <3>1. live' = live
      BY <2>1, <2>2, <2>4
    <3> QED BY <1>1, <3>1
  <2>5. CASE s \notin live /\ s # Null /\ s.class = class
    <3>1. live' = live \cup {s} /\ s \in live'
      BY <2>1, <2>2, <2>5
    <3>2. PICK blocks : blocks = Blocks
      OBVIOUS
    <3>3. Blocks' = blocks \cup {Block(s)}
      BY <1>1, <3>1, <3>2
    <3>4. \A b \in blocks : ~ Memory!Overlap(Block(s), b)
      <4> SUFFICES ASSUME NEW t \in live PROVE ~ Memory!Overlap(Block(s), Block(t))
        BY <1>1, <3>2
      <4>1. t \in live' /\ s # t
        BY <2>5, <3>1
      <4>2. PICK M, n : M = live' /\ n = segment'
        OBVIOUS
      <4> QED BY <1>0, <3>1, <4>1, <4>2, BlocksApart
    <3>5. /\ First(s) \in Usable /\ First(s) + s.class - 1 \in Usable
      <4>1. PICK M, n : M = live' /\ n = segment'
        OBVIOUS
      <4> QED BY <1>0, <3>1, <4>1, LiveBytes
    <3>6. /\ Block(s) = [first |-> First(s), last |-> First(s) + class - 1]
          /\ Block(s).last = First(s) + s.class - 1
      BY <2>5 DEF Block
    <3>7. Memory!Allocate
      BY <2>5, <3>2, <3>3, <3>4, <3>5, <3>6 DEF Memory!Allocate
    <3> QED BY <3>7 DEF Memory!Next
  <2> QED BY <2>3, <2>4, <2>5
<1>3. ASSUME NEW s \in live, Free(s) PROVE [Memory!Next]_Blocks
  <2>1. live' = live \ {s}
    BY <1>3 DEF Free
  <2>2. \A t \in live : t # s => Block(t) # Block(s)
    <3> SUFFICES ASSUME NEW t \in live, t # s, Block(t) = Block(s) PROVE FALSE
      OBVIOUS
    <3>1. ~ Memory!Overlap(Block(s), Block(t))
      BY BlocksApart
    <3>2. First(s) \in Int /\ s.class \in Nat \ {0}
      BY LiveBytes DEF Usable
    <3>3. First(s) <= First(s) + s.class - 1
      BY <3>2
    <3>4. Memory!Overlap(Block(s), Block(s))
      BY <3>3 DEF Memory!Overlap, Block
    <3> QED BY <3>1, <3>4
  <2>3. PICK blocks : blocks = Blocks
    OBVIOUS
  <2>4. Blocks' = blocks \ {Block(s)} /\ Block(s) \in blocks
    BY <1>1, <2>1, <2>2, <2>3
  <2>5. Memory!Free
    BY <2>3, <2>4 DEF Memory!Free
  <2> QED BY <2>5 DEF Memory!Next
<1>4. ASSUME Trim PROVE [Memory!Next]_Blocks
  <2>1. live' = live
    BY <1>4 DEF Trim
  <2> QED BY <1>1, <2>1
<1>5. ASSUME UNCHANGED vars PROVE [Memory!Next]_Blocks
  <2>1. live' = live
    BY <1>5 DEF vars
  <2> QED BY <1>1, <2>1
<1> QED BY <1>2, <1>3, <1>4, <1>5 DEF Next

(* The slots are blocks that no two users share and that touch no header,  *)
(* whatever class their arena had before (slab_allocObject,                *)
(* slab_freeObject).                                                       *)
THEOREM SlabImplementsAllocator == ASSUME SlabAssumption PROVE Spec => ImplementsAllocator
<1>1. Init => Memory!Init
  BY DEF Init, Memory!Init, Blocks
<1>2. IInv /\ [Next]_vars => [Memory!Next]_Blocks
  BY StepsAreMemory
<1> QED BY <1>1, <1>2, SlabInvariant, PTL DEF Spec, ImplementsAllocator, Memory!Spec, Memory!vars
=============================================================================
