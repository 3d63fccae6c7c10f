--------------------------- MODULE TableTheorems ----------------------------
(***************************************************************************)
(* What the operations of the hash table (src/table.c) keep and do, for    *)
(* every set of keys, every hash, every array and every order of calls.    *)
(* Then that the tables of instances and classes, and the one of the       *)
(* global variables with the index that every name caches, stay well       *)
(* formed, that tombstones are used again, and that they implement         *)
(* dictionaries and variables, for every program.                          *)
(*                                                                         *)
(* The invariant is that every table is Sound: its array has a hole, no    *)
(* search for a key passes one before it, and every slot that is no hole   *)
(* recalls a key of its own, which a tombstone has lost.                   *)
(***************************************************************************)
EXTENDS Fields, Globals, SequenceTheorems, FiniteSetTheorems, WellFoundedInduction, TLAPS

-----------------------------------------------------------------------------
(* Numbers and sets of numbers.                                            *)

(* A set of numbers has a least member. *)
LEMMA LeastMember ==
  ASSUME NEW S, S \subseteq Nat, S # {}
  PROVE  \E m \in S : \A n \in S : m <= n
<1>1. IsWellFoundedOn(OpToRel(<, Nat), Nat)
  BY NatLessThanWellFounded
<1>2. PICK x \in S : \A y \in S : ~ (<<y, x>> \in OpToRel(<, Nat))
  BY <1>1, WFMin
<1>3. \A y \in S : <<y, x>> \in Nat \X Nat
  OBVIOUS
<1>4. \A y \in S : ~ (y < x)
  BY <1>2, <1>3 DEF OpToRel
<1> QED BY <1>4

(* Induction, for a set of numbers instead of a predicate. *)
LEMMA Induct ==
  ASSUME NEW S, NEW n, n \in Nat, 0 \in S,
         \A i \in Nat : i < n /\ i \in S => i + 1 \in S
  PROVE  \A i \in 0 .. n : i \in S
<1> DEFINE Out == {i \in 0 .. n : i \notin S}
<1>1. SUFFICES ASSUME Out # {} PROVE FALSE
  OBVIOUS
<1>2. PICK m \in Out : \A i \in Out : m <= i
  <2>1. Out \subseteq Nat
    OBVIOUS
  <2> HIDE DEF Out
  <2> QED BY <1>1, <2>1, LeastMember
<1>3. m \in Nat /\ m # 0 /\ m <= n /\ m \notin S
  OBVIOUS
<1>4. m - 1 \in Nat /\ m - 1 < n /\ m - 1 \in 0 .. n /\ ~ (m <= m - 1) /\ (m - 1) + 1 = m
  BY <1>3
<1>5. m - 1 \in S
  BY <1>2, <1>4
<1> QED BY <1>3, <1>4, <1>5

LEMMA MinIs ==
  ASSUME NEW S, S \subseteq Nat, NEW m \in S, \A n \in S : m <= n
  PROVE  Min(S) = m
<1>1. PICK x : x = Min(S)
  OBVIOUS
<1>2. x \in S /\ \A y \in S : x <= y
  BY <1>1 DEF Min
<1>3. x <= m /\ m <= x /\ x \in Nat /\ m \in Nat
  BY <1>2
<1> QED BY <1>1, <1>3

LEMMA MaxIs ==
  ASSUME NEW S, S \subseteq Nat, NEW m \in S, \A n \in S : n <= m
  PROVE  Max(S) = m
<1>1. PICK x : x = Max(S)
  OBVIOUS
<1>2. x \in S /\ \A y \in S : x >= y
  BY <1>1 DEF Max
<1>3. x <= m /\ m <= x /\ x \in Nat /\ m \in Nat
  BY <1>2
<1> QED BY <1>1, <1>3

(* A set of numbers up to n that is not empty has its greatest member. *)
LEMMA MaxMember ==
  ASSUME NEW n, n \in Nat, NEW S, S \subseteq 1 .. n, S # {}
  PROVE  Max(S) \in S /\ \A k \in S : k <= Max(S)
<1> DEFINE T == {n - k : k \in S}
<1>0. \A k \in S : k \in Nat /\ n - k \in Nat
  OBVIOUS
<1>1. T \subseteq Nat /\ T # {}
  BY <1>0
<1>2. PICK m \in T : \A k \in T : m <= k
  <2> HIDE DEF T
  <2> QED BY <1>1, LeastMember
<1>3. PICK s \in S : m = n - s
  OBVIOUS
<1>4. \A k \in S : n - s <= n - k
  BY <1>2, <1>3
<1>5. \A k \in S : k <= s
  BY <1>0, <1>4
<1>6. S \subseteq Nat
  BY <1>0
<1>7. Max(S) = s
  BY <1>5, <1>6, MaxIs
<1> QED BY <1>5, <1>7

LEMMA Division ==
  ASSUME NEW c, c \in Nat \ {0}, NEW x, x \in Nat
  PROVE  \E q \in Nat : x = c * q + (x % c)
<1>1. x % c \in 0 .. c - 1 /\ x \div c \in Nat /\ x = c * (x \div c) + (x % c)
  OBVIOUS
<1> QED BY <1>1

(* Division with a remainder has one result. *)
LEMMA RemainderIs ==
  ASSUME NEW c, c \in Nat \ {0}, NEW q, q \in Nat, NEW h, h \in 0 .. c - 1
  PROVE  (c * q + h) % c = h
<1>1. PICK x \in Nat : x = c * q + h
  OBVIOUS
<1>2. x % c \in 0 .. c - 1 /\ x \div c \in Nat /\ x = c * (x \div c) + (x % c)
  BY <1>1
<1>3. PICK r \in 0 .. c - 1, p \in Nat : r = x % c /\ p = x \div c
  BY <1>2
<1>4. c * q + h = c * p + r
  BY <1>1, <1>2, <1>3
<1>5. c * (q - p) = r - h
  BY <1>3, <1>4
<1>6. ~ (q - p >= 1)
  <2> SUFFICES ASSUME q - p >= 1 PROVE FALSE
    OBVIOUS
  <2>1. PICK e \in Nat : q - p = 1 + e
    <3>1. (q - p) - 1 \in Nat
      OBVIOUS
    <3>2. q - p = 1 + ((q - p) - 1)
      OBVIOUS
    <3> QED BY <3>1, <3>2
  <2>2. c * (1 + e) = c + c * e
    OBVIOUS
  <2>3. c * e \in Nat
    OBVIOUS
  <2>4. r - h < c
    OBVIOUS
  <2> QED BY <1>5, <2>1, <2>2, <2>3, <2>4
<1>7. ~ (p - q >= 1)
  <2> SUFFICES ASSUME p - q >= 1 PROVE FALSE
    OBVIOUS
  <2>1. PICK e \in Nat : p - q = 1 + e
    <3>1. (p - q) - 1 \in Nat
      OBVIOUS
    <3>2. p - q = 1 + ((p - q) - 1)
      OBVIOUS
    <3> QED BY <3>1, <3>2
  <2>2. c * (1 + e) = c + c * e
    OBVIOUS
  <2>3. c * e \in Nat
    OBVIOUS
  <2>4. h - r < c
    OBVIOUS
  <2>5. c * (p - q) = h - r
    BY <1>5
  <2> QED BY <2>1, <2>2, <2>3, <2>4, <2>5
<1>8. q = p
  BY <1>6, <1>7
<1>9. r = h
  BY <1>4, <1>8
<1> QED BY <1>1, <1>3, <1>9

(* Adding a multiple does not change the remainder. *)
LEMMA RemainderOfSum ==
  ASSUME NEW c, c \in Nat \ {0}, NEW x, x \in Nat, NEW d, d \in Nat
  PROVE  (x + d) % c = ((x % c) + d) % c
<1>1. PICK q \in Nat, h \in 0 .. c - 1 : q = x \div c /\ h = x % c /\ x = c * q + h
  OBVIOUS
<1>2. PICK p \in Nat, g \in 0 .. c - 1 :
        p = (h + d) \div c /\ g = (h + d) % c /\ h + d = c * p + g
  OBVIOUS
<1>3. x + d = c * q + (c * p + g)
  <2>1. PICK u \in Nat, v \in Nat : u = c * q /\ v = c * p
    OBVIOUS
  <2>2. x = u + h /\ h + d = v + g
    BY <1>1, <1>2, <2>1
  <2>3. x + d = u + (v + g)
    BY <2>2
  <2> QED BY <2>1, <2>3
<1>4. c * q + (c * p + g) = c * (q + p) + g
  OBVIOUS
<1>5. (c * (q + p) + g) % c = g
  BY RemainderIs
<1> QED BY <1>1, <1>2, <1>3, <1>4, <1>5

-----------------------------------------------------------------------------
(* Probing.                                                                *)

Slot == [key : Key \cup {NoKey}, value : Value]
Array(c) == [0 .. c - 1 -> Slot]

LEMMA ProbedIsASlot ==
  ASSUME TableAssumption, NEW c, c \in Nat \ {0}, NEW k, k \in Key, NEW i, i \in Nat
  PROVE  Probed(c, k, i) \in 0 .. c - 1
<1>1. Hash[k] + i \in Nat
  BY DEF TableAssumption
<1> QED BY <1>1 DEF Probed

(* Two probes for one key go through the same slot only at the same step.  *)
LEMMA ProbesDiffer ==
  ASSUME TableAssumption, NEW c, c \in Nat \ {0}, NEW k, k \in Key,
         NEW i, i \in 0 .. c - 1, NEW j, j \in 0 .. c - 1,
         Probed(c, k, i) = Probed(c, k, j)
  PROVE  i = j
<1>1. PICK a \in Nat : a = Hash[k]
  BY DEF TableAssumption
<1>2. PICK h \in 0 .. c - 1 : h = (a + i) % c /\ h = (a + j) % c
  BY <1>1 DEF Probed
<1>3. PICK q \in Nat, p \in Nat : a + i = c * q + h /\ a + j = c * p + h
  <2>1. PICK x \in Nat, y \in Nat : x = a + i /\ y = a + j
    OBVIOUS
  <2>2. PICK q \in Nat : x = c * q + (x % c)
    BY Division
  <2>3. PICK p \in Nat : y = c * p + (y % c)
    BY Division
  <2>4. h = x % c /\ h = y % c
    BY <1>2, <2>1
  <2> QED BY <2>1, <2>2, <2>3, <2>4
<1>4. PICK u \in Nat, v \in Nat : u = c * q /\ v = c * p
  OBVIOUS
<1>5. a + i = u + h /\ a + j = v + h
  BY <1>3, <1>4
<1>6. i = j + (u - v)
  BY <1>5
<1>7. CASE q = p
  BY <1>4, <1>6, <1>7
<1>8. CASE q < p
  <2>1. PICK e \in Nat : p = q + (1 + e)
    <3>1. (p - q) - 1 \in Nat /\ p = q + (1 + ((p - q) - 1))
      BY <1>8
    <3> QED BY <3>1
  <2>2. c * (q + (1 + e)) = c * q + (c + c * e) /\ c * e \in Nat
    OBVIOUS
  <2>3. PICK w \in Nat : w = c * e
    BY <2>2
  <2>4. v = u + (c + w)
    BY <1>4, <2>1, <2>2, <2>3
  <2> QED BY <1>6, <2>4
<1>9. CASE p < q
  <2>1. PICK e \in Nat : q = p + (1 + e)
    <3>1. (q - p) - 1 \in Nat /\ q = p + (1 + ((q - p) - 1))
      BY <1>9
    <3> QED BY <3>1
  <2>2. c * (p + (1 + e)) = c * p + (c + c * e) /\ c * e \in Nat
    OBVIOUS
  <2>3. PICK w \in Nat : w = c * e
    BY <2>2
  <2>4. u = v + (c + w)
    BY <1>4, <2>1, <2>2, <2>3
  <2> QED BY <1>6, <2>4
<1> QED BY <1>7, <1>8, <1>9

(* The probes go through every slot. *)
Reached(c, k, h) == \E i \in 0 .. c - 1 : Probed(c, k, i) = h

LEMMA ProbesReach ==
  ASSUME TableAssumption, NEW c, c \in Nat \ {0}, NEW k, k \in Key
  PROVE  \A h \in 0 .. c - 1 : Reached(c, k, h)
<1> SUFFICES ASSUME NEW h \in 0 .. c - 1 PROVE \E i \in 0 .. c - 1 : Probed(c, k, i) = h
  BY DEF Reached
<1>1. PICK a \in Nat : a = Hash[k]
  BY DEF TableAssumption
<1>2. PICK r \in 0 .. c - 1 : r = a % c
  OBVIOUS
<1>3. \A i \in Nat : Probed(c, k, i) = (r + i) % c
  BY <1>1, <1>2, RemainderOfSum DEF Probed
<1>4. CASE r <= h
  <2>1. h - r \in 0 .. c - 1 /\ h - r \in Nat /\ r + (h - r) = h
    BY <1>4
  <2>2. h % c = h
    <3>1. c * 0 + h = h /\ 0 \in Nat
      OBVIOUS
    <3> QED BY <3>1, RemainderIs
  <2>3. Probed(c, k, h - r) = h
    BY <1>3, <2>1, <2>2
  <2> QED BY <2>1, <2>3
<1>5. CASE ~ (r <= h)
  <2>1. PICK i \in 0 .. c - 1 : i = h + c - r
    BY <1>5
  <2>2. r + i = c + h /\ i \in Nat
    BY <2>1
  <2>3. (c + h) % c = h
    <3>1. c * 1 + h = c + h /\ 1 \in Nat
      OBVIOUS
    <3> QED BY <3>1, RemainderIs
  <2>4. Probed(c, k, i) = h
    BY <1>3, <2>2, <2>3
  <2> QED BY <2>4
<1> QED BY <1>4, <1>5

(* From a common slot on two keys go through the same slots. *)
Meet(c, k, i, n, j) == Probed(c, k, i) = Probed(c, n, j)

LEMMA ProbesMeet ==
  ASSUME TableAssumption, NEW c, c \in Nat \ {0}, NEW k, k \in Key, NEW n, n \in Key,
         NEW i, i \in Nat, NEW j, j \in Nat, Meet(c, k, i, n, j)
  PROVE  \A d \in Nat : Meet(c, k, i + d, n, j + d)
<1> SUFFICES ASSUME NEW d, d \in Nat PROVE Meet(c, k, i + d, n, j + d)
  OBVIOUS
<1>0. PICK x, y : x = i + d /\ y = j + d
  OBVIOUS
<1>1. PICK a \in Nat, b \in Nat : a = Hash[k] /\ b = Hash[n]
  BY DEF TableAssumption
<1>2. (a + i) % c = (b + j) % c
  BY <1>1 DEF Probed, Meet
<1>3. a + i \in Nat /\ b + j \in Nat /\ a + x = (a + i) + d /\ b + y = (b + j) + d
  BY <1>0
<1>4. ((a + i) + d) % c = (((a + i) % c) + d) % c
  BY <1>3, RemainderOfSum
<1>5. ((b + j) + d) % c = (((b + j) % c) + d) % c
  BY <1>3, RemainderOfSum
<1>6. (a + x) % c = (b + y) % c
  BY <1>2, <1>3, <1>4, <1>5
<1> QED BY <1>0, <1>1, <1>6 DEF Probed, Meet

-----------------------------------------------------------------------------
(* The search.                                                             *)

(* The search for k in the array e of c slots ends after d steps. *)
EndsAfter(e, c, k, d) ==
  /\ d \in 0 .. c - 1 /\ StopsAt(e, c, k, d)
  /\ \A i \in 0 .. c - 1 : i < d => ~ StopsAt(e, c, k, i)

HasHole(e, c) == \E i \in 0 .. c - 1 : IsHole(e[i])

LEMMA SearchIs ==
  ASSUME NEW e, NEW c, c \in Nat, NEW k, NEW d, EndsAfter(e, c, k, d)
  PROVE  Min(Stops(e, c, k)) = d /\ SearchEnd(e, c, k) = Probed(c, k, d)
<1>1. Stops(e, c, k) \subseteq Nat /\ d \in Stops(e, c, k)
  BY DEF Stops, EndsAfter
<1>2. \A i \in Stops(e, c, k) : d <= i
  BY DEF Stops, EndsAfter
<1>3. Min(Stops(e, c, k)) = d
  BY <1>1, <1>2, MinIs
<1> QED BY <1>3 DEF SearchEnd

(* A search ends after one number of steps. *)
LEMMA EndIsUnique ==
  ASSUME NEW e, NEW c, c \in Nat, NEW k, NEW d, EndsAfter(e, c, k, d),
         NEW n, EndsAfter(e, c, k, n)
  PROVE  d = n
  BY DEF EndsAfter

(* A search ends when one of its slots would stop it. *)
LEMMA SearchStops ==
  ASSUME NEW e, NEW c, c \in Nat, NEW k, NEW i, i \in 0 .. c - 1, StopsAt(e, c, k, i)
  PROVE  \E d \in 0 .. c - 1 : EndsAfter(e, c, k, d) /\ d <= i
<1>1. Stops(e, c, k) \subseteq Nat /\ i \in Stops(e, c, k)
  BY DEF Stops
<1>2. PICK d \in Stops(e, c, k) : \A n \in Stops(e, c, k) : d <= n
  BY <1>1, LeastMember
<1>3. d \in 0 .. c - 1 /\ StopsAt(e, c, k, d) /\ d <= i
  BY <1>1, <1>2 DEF Stops
<1>4. \A n \in 0 .. c - 1 : n < d => ~ StopsAt(e, c, k, n)
  <2> SUFFICES ASSUME NEW n \in 0 .. c - 1, n < d, StopsAt(e, c, k, n) PROVE FALSE
    OBVIOUS
  <2>1. n \in Stops(e, c, k)
    BY DEF Stops
  <2> QED BY <2>1, <1>2, <1>3
<1> QED BY <1>3, <1>4 DEF EndsAfter

(* While the array has a hole every search ends (findEntry has no bound). *)
LEMMA SearchEnds ==
  ASSUME TableAssumption, NEW e, NEW c, c \in Nat \ {0}, HasHole(e, c), NEW k, k \in Key
  PROVE  \E d \in 0 .. c - 1 : EndsAfter(e, c, k, d)
<1>1. PICK h \in 0 .. c - 1 : IsHole(e[h])
  BY DEF HasHole
<1>2. PICK i \in 0 .. c - 1 : Probed(c, k, i) = h
  <2>1. Reached(c, k, h)
    BY ProbesReach
  <2> QED BY <2>1 DEF Reached
<1>3. StopsAt(e, c, k, i)
  BY <1>1, <1>2 DEF StopsAt
<1> QED BY <1>3, SearchStops

(* What findEntry yields: the slot of the key, or the first of the probes  *)
(* that is free when the key is not there.                                 *)
Finds(e, c, k, d, t) ==
  /\ t \in 0 .. d
  /\ e[Probed(c, k, d)].key = k => t = d
  /\ e[Probed(c, k, d)].key # k =>
       /\ e[Probed(c, k, t)].key = NoKey
       /\ \A i \in 0 .. t - 1 : e[Probed(c, k, i)].key # NoKey

LEMMA FindEntryIs ==
  ASSUME TableAssumption, NEW e, NEW c, c \in Nat \ {0}, e \in Array(c),
         NEW k, k \in Key, NEW d, EndsAfter(e, c, k, d)
  PROVE  \E t \in 0 .. d : Finds(e, c, k, d, t) /\ FindEntry(e, c, k) = Probed(c, k, t)
<1>1. Min(Stops(e, c, k)) = d /\ SearchEnd(e, c, k) = Probed(c, k, d)
      /\ d \in 0 .. c - 1 /\ d \in Nat
  BY SearchIs DEF EndsAfter
<1>2. PICK passed : passed = Passed(e, c, k)
  OBVIOUS
<1>3. passed = {i \in 0 .. d - 1 : IsTombstone(e[Probed(c, k, i)])}
  BY <1>1, <1>2 DEF Passed
<1>4. FindEntry(e, c, k) =
        IF e[Probed(c, k, d)].key = k \/ passed = {} THEN Probed(c, k, d)
        ELSE Probed(c, k, Min(passed))
  BY <1>1, <1>2 DEF FindEntry
<1>5. \A i \in 0 .. d - 1 : i \in 0 .. c - 1 /\ ~ IsHole(e[Probed(c, k, i)])
  BY <1>1 DEF EndsAfter, StopsAt
<1>6. \A i \in 0 .. d - 1 : e[Probed(c, k, i)].key = NoKey => i \in passed
  BY <1>3, <1>5 DEF IsHole, IsTombstone
<1>7. CASE e[Probed(c, k, d)].key = k
  <2>1. Finds(e, c, k, d, d)
    BY <1>1, <1>7 DEF Finds
  <2> QED BY <2>1, <1>1, <1>4, <1>7
<1>8. CASE e[Probed(c, k, d)].key # k /\ passed = {}
  <2>1. e[Probed(c, k, d)].key = NoKey
    BY <1>8 DEF EndsAfter, StopsAt, IsHole
  <2>2. Finds(e, c, k, d, d)
    BY <2>1, <1>1, <1>6, <1>8 DEF Finds
  <2> QED BY <2>2, <1>1, <1>4, <1>8
<1>9. CASE e[Probed(c, k, d)].key # k /\ passed # {}
  <2>1. passed \subseteq Nat
    BY <1>3
  <2>2. PICK t \in passed : \A i \in passed : t <= i
    BY <1>9, <2>1, LeastMember
  <2>3. Min(passed) = t
    BY <2>1, <2>2, MinIs
  <2>4. t \in 0 .. d - 1 /\ e[Probed(c, k, t)].key = NoKey
    BY <1>3, <2>2 DEF IsTombstone
  <2>5. \A i \in 0 .. t - 1 : e[Probed(c, k, i)].key # NoKey
    <3> SUFFICES ASSUME NEW i \in 0 .. t - 1, e[Probed(c, k, i)].key = NoKey PROVE FALSE
      OBVIOUS
    <3>1. i \in 0 .. d - 1
      BY <2>4, <1>1
    <3>2. t <= i
      BY <3>1, <1>6, <2>2
    <3> QED BY <3>2, <2>4
  <2>6. t \in 0 .. d /\ Finds(e, c, k, d, t)
    BY <2>4, <2>5, <1>1, <1>9 DEF Finds
  <2> QED BY <2>3, <2>6, <1>4, <1>9
<1> QED BY <1>7, <1>8, <1>9
-----------------------------------------------------------------------------
(* Arrays in which every key is found.                                     *)

(* The search for k ends at slot h. *)
EndsAt(e, c, k, h) ==
  \E d \in 0 .. c - 1 : EndsAfter(e, c, k, d) /\ Probed(c, k, d) = h

WellPlaced(e, c) ==
  \A h \in 0 .. c - 1 : e[h].key # NoKey => EndsAt(e, c, e[h].key, h)

(* No key is in two slots. *)
LEMMA OneSlot ==
  ASSUME NEW e, NEW c, c \in Nat, WellPlaced(e, c),
         NEW h, h \in 0 .. c - 1, NEW g, g \in 0 .. c - 1,
         e[h].key # NoKey, e[h].key = e[g].key
  PROVE  h = g
<1>1. PICK k : k = e[h].key /\ k = e[g].key
  OBVIOUS
<1>2. PICK d \in 0 .. c - 1 : EndsAfter(e, c, k, d) /\ Probed(c, k, d) = h
  BY <1>1 DEF WellPlaced, EndsAt
<1>3. PICK n \in 0 .. c - 1 : EndsAfter(e, c, k, n) /\ Probed(c, k, n) = g
  BY <1>1 DEF WellPlaced, EndsAt
<1>4. d = n
  BY <1>2, <1>3, EndIsUnique
<1> QED BY <1>2, <1>3, <1>4

(* Where k belongs: p is on its way, it is there or nowhere. *)
Belongs(e, c, k, p) ==
  /\ p \in 0 .. c - 1 /\ e[p].key \in {k, NoKey}
  /\ e[p].key = NoKey => \A h \in 0 .. c - 1 : e[h].key # k
  /\ \E t \in 0 .. c - 1 :
       /\ Probed(c, k, t) = p
       /\ \A i \in 0 .. t - 1 : ~ StopsAt(e, c, k, i)
       /\ e[p].key = NoKey => \A i \in 0 .. t - 1 : e[Probed(c, k, i)].key # NoKey

LEMMA FindEntryBelongs ==
  ASSUME TableAssumption, NEW e, NEW c, c \in Nat \ {0}, e \in Array(c),
         HasHole(e, c), WellPlaced(e, c), NEW k, k \in Key
  PROVE  Belongs(e, c, k, FindEntry(e, c, k))
<1>1. PICK d \in 0 .. c - 1 : EndsAfter(e, c, k, d)
  BY SearchEnds
<1>2. PICK t \in 0 .. d : Finds(e, c, k, d, t) /\ FindEntry(e, c, k) = Probed(c, k, t)
  BY <1>1, FindEntryIs
<1>3. PICK p : p = Probed(c, k, t)
  OBVIOUS
<1>4. t \in 0 .. c - 1 /\ t \in Nat /\ d \in Nat /\ t <= d
  BY <1>1
<1>5. p \in 0 .. c - 1
  BY <1>3, <1>4, ProbedIsASlot
<1>6. \A i \in 0 .. t - 1 : ~ StopsAt(e, c, k, i)
  <2> SUFFICES ASSUME NEW i \in 0 .. t - 1 PROVE ~ StopsAt(e, c, k, i)
    OBVIOUS
  <2>1. i \in 0 .. c - 1 /\ i < d
    BY <1>4
  <2> QED BY <2>1, <1>1 DEF EndsAfter
<1>7. CASE e[Probed(c, k, d)].key = k
  <2>1. t = d /\ e[p].key = k
    BY <1>2, <1>3, <1>7 DEF Finds
  <2>2. k # NoKey
    BY DEF TableAssumption
  <2>3. Belongs(e, c, k, p)
    BY <2>1, <2>2, <1>3, <1>4, <1>5, <1>6 DEF Belongs
  <2> QED BY <2>3, <1>2, <1>3
<1>8. CASE e[Probed(c, k, d)].key # k
  <2>1. e[p].key = NoKey /\ \A i \in 0 .. t - 1 : e[Probed(c, k, i)].key # NoKey
    BY <1>2, <1>3, <1>8 DEF Finds
  <2>2. ASSUME NEW h \in 0 .. c - 1, e[h].key = k PROVE FALSE
    <3>1. k # NoKey
      BY DEF TableAssumption
    <3>2. PICK n \in 0 .. c - 1 : EndsAfter(e, c, k, n) /\ Probed(c, k, n) = h
      BY <2>2, <3>1 DEF WellPlaced, EndsAt
    <3>3. n = d
      BY <3>2, <1>1, EndIsUnique
    <3> QED BY <3>2, <3>3, <2>2, <1>8
  <2>3. Belongs(e, c, k, p)
    BY <2>1, <2>2, <1>3, <1>4, <1>5, <1>6 DEF Belongs
  <2> QED BY <2>3, <1>2, <1>3
<1> QED BY <1>7, <1>8

(* The slot e has at p becomes s. *)
Put(e, p, s) == [e EXCEPT ![p] = s]

LEMMA PutIs ==
  ASSUME NEW c, NEW e, e \in Array(c), NEW p, p \in 0 .. c - 1, NEW s, s \in Slot
  PROVE  /\ Put(e, p, s) \in Array(c) /\ Put(e, p, s)[p] = s
         /\ \A h \in 0 .. c - 1 : h # p => Put(e, p, s)[h] = e[h]
  BY DEF Array, Put

LEMMA StoreKeepsPlaces ==
  ASSUME TableAssumption, NEW e, NEW c, c \in Nat \ {0}, e \in Array(c),
         WellPlaced(e, c), NEW k, k \in Key, NEW v, v \in Value,
         NEW p, Belongs(e, c, k, p)
  PROVE  WellPlaced(Put(e, p, [key |-> k, value |-> v]), c)
<1>1. PICK s : s = [key |-> k, value |-> v]
  OBVIOUS
<1>2. PICK new : new = Put(e, p, s)
  OBVIOUS
<1>3. s \in Slot /\ s.key = k /\ k # NoKey /\ ~ IsHole(s)
  BY <1>1 DEF Slot, TableAssumption, IsHole
<1>4. new[p] = s /\ \A h \in 0 .. c - 1 : h # p => new[h] = e[h]
  BY <1>2, <1>3, PutIs DEF Belongs
<1>5. ASSUME NEW h \in 0 .. c - 1, h # p, e[h].key # NoKey
      PROVE  EndsAt(new, c, e[h].key, h)
  <2>1. PICK n : n = e[h].key
    OBVIOUS
  <2>2. n # k
    <3> SUFFICES ASSUME n = k PROVE FALSE
      OBVIOUS
    <3>1. e[p].key = k
      BY <2>1 DEF Belongs
    <3>2. h = p
      BY <3>1, <2>1, <1>3, OneSlot DEF Belongs
    <3> QED BY <3>2, <1>5
  <2>3. PICK d \in 0 .. c - 1 : EndsAfter(e, c, n, d) /\ Probed(c, n, d) = h
    BY <1>5, <2>1 DEF WellPlaced, EndsAt
  <2>4. n \in Key
    BY <1>5, <2>1 DEF Array, Slot
  <2>5. ASSUME NEW i \in 0 .. c - 1, i < d PROVE ~ StopsAt(new, c, n, i)
    <3>1. ~ StopsAt(e, c, n, i)
      BY <2>3, <2>5 DEF EndsAfter
    <3>2. PICK q : q = Probed(c, n, i)
      OBVIOUS
    <3>3. q \in 0 .. c - 1
      <4>1. i \in Nat
        OBVIOUS
      <4> QED BY <4>1, <2>4, <3>2, ProbedIsASlot
    <3>4. CASE q = p
      BY <3>2, <3>4, <1>3, <1>4, <2>2 DEF StopsAt
    <3>5. CASE q # p
      BY <3>1, <3>2, <3>3, <3>5, <1>4 DEF StopsAt
    <3> QED BY <3>4, <3>5
  <2>6. StopsAt(new, c, n, d)
    BY <1>4, <1>5, <2>1, <2>3 DEF StopsAt
  <2> QED BY <2>1, <2>3, <2>5, <2>6 DEF EndsAt, EndsAfter
<1>6. EndsAt(new, c, k, p)
  <2>1. PICK t \in 0 .. c - 1 :
          Probed(c, k, t) = p /\ \A i \in 0 .. t - 1 : ~ StopsAt(e, c, k, i)
    BY DEF Belongs
  <2>2. StopsAt(new, c, k, t)
    BY <2>1, <1>3, <1>4 DEF StopsAt
  <2>3. ASSUME NEW i \in 0 .. c - 1, i < t PROVE ~ StopsAt(new, c, k, i)
    <3>1. i \in 0 .. t - 1
      BY <2>3
    <3>2. PICK q : q = Probed(c, k, i)
      OBVIOUS
    <3>3. q \in 0 .. c - 1
      <4>1. i \in Nat
        OBVIOUS
      <4> QED BY <4>1, <3>2, ProbedIsASlot
    <3>4. q # p
      <4>1. c \in Nat \ {0} /\ k \in Key /\ i \in 0 .. c - 1 /\ t \in 0 .. c - 1 /\ i # t
        BY <2>3
      <4> QED BY ONLY TableAssumption, <4>1, <2>1, <3>2, ProbesDiffer
    <3> QED BY <3>1, <3>2, <3>3, <3>4, <2>1, <1>4 DEF StopsAt
  <2> QED BY <2>1, <2>2, <2>3 DEF EndsAt, EndsAfter
<1>7. WellPlaced(new, c)
  <2> SUFFICES ASSUME NEW h \in 0 .. c - 1, new[h].key # NoKey
               PROVE  EndsAt(new, c, new[h].key, h)
    BY DEF WellPlaced
  <2>1. CASE h = p
    BY <2>1, <1>3, <1>4, <1>6
  <2>2. CASE h # p
    BY <2>2, <1>4, <1>5
  <2> QED BY <2>1, <2>2
<1> QED BY <1>1, <1>2, <1>7

(* A tombstone in the place of a key keeps the other keys in theirs. *)
LEMMA DeleteKeepsPlaces ==
  ASSUME TableAssumption, NEW e, NEW c, c \in Nat \ {0}, e \in Array(c),
         WellPlaced(e, c), NEW p, p \in 0 .. c - 1, e[p].key # NoKey
  PROVE  WellPlaced(Put(e, p, Tombstone), c)
<1>0. PICK s : s = Tombstone
  OBVIOUS
<1>1. PICK new : new = Put(e, p, s)
  OBVIOUS
<1>2. s \in Slot /\ s.key = NoKey /\ ~ IsHole(s)
  BY <1>0 DEF Tombstone, Slot, TableAssumption, IsHole
<1>3. new[p] = s /\ \A h \in 0 .. c - 1 : h # p => new[h] = e[h]
  <2>1. e \in Array(c) /\ p \in 0 .. c - 1
    OBVIOUS
  <2> QED BY ONLY <2>1, <1>1, <1>2, PutIs
<1>4. ASSUME NEW h \in 0 .. c - 1, new[h].key # NoKey
      PROVE  EndsAt(new, c, new[h].key, h)
  <2>0. h # p /\ new[h] = e[h]
    BY <1>2, <1>3, <1>4
  <2>1. PICK n : n = e[h].key
    OBVIOUS
  <2>3. PICK d \in 0 .. c - 1 : EndsAfter(e, c, n, d) /\ Probed(c, n, d) = h
    BY <1>4, <2>0, <2>1 DEF WellPlaced, EndsAt
  <2>4. n \in Key
    BY <1>4, <2>0, <2>1 DEF Array, Slot
  <2>5. ASSUME NEW i \in 0 .. c - 1, i < d PROVE ~ StopsAt(new, c, n, i)
    <3>1. ~ StopsAt(e, c, n, i)
      BY <2>3, <2>5 DEF EndsAfter
    <3>2. PICK q : q = Probed(c, n, i)
      OBVIOUS
    <3>3. q \in 0 .. c - 1
      <4>1. i \in Nat
        OBVIOUS
      <4> QED BY <4>1, <2>4, <3>2, ProbedIsASlot
    <3>4. CASE q = p
      <4>1. n # NoKey
        BY <2>0, <2>1, <1>4
      <4> QED BY <4>1, <3>2, <3>4, <1>2, <1>3 DEF StopsAt
    <3>5. CASE q # p
      BY <3>1, <3>2, <3>3, <3>5, <1>3 DEF StopsAt
    <3> QED BY <3>4, <3>5
  <2>6. StopsAt(new, c, n, d)
    BY <2>0, <2>1, <2>3 DEF StopsAt
  <2> QED BY <2>0, <2>1, <2>3, <2>5, <2>6 DEF EndsAt, EndsAfter
<1> QED BY <1>0, <1>1, <1>4 DEF WellPlaced

(* A key that is in the array is found (KeysAreFound). *)
LEMMA PlacedIsFound ==
  ASSUME TableAssumption, NEW e, NEW c, c \in Nat \ {0}, e \in Array(c),
         WellPlaced(e, c), NEW h, h \in 0 .. c - 1, e[h].key # NoKey
  PROVE  FindEntry(e, c, e[h].key) = h
<1>1. PICK k : k = e[h].key
  OBVIOUS
<1>2. k \in Key
  BY <1>1 DEF Array, Slot
<1>3. PICK d \in 0 .. c - 1 : EndsAfter(e, c, k, d) /\ Probed(c, k, d) = h
  BY <1>1 DEF WellPlaced, EndsAt
<1>4. PICK t \in 0 .. d : Finds(e, c, k, d, t) /\ FindEntry(e, c, k) = Probed(c, k, t)
  BY <1>2, <1>3, FindEntryIs
<1>5. t = d
  BY <1>1, <1>3, <1>4 DEF Finds
<1> QED BY <1>1, <1>3, <1>4, <1>5

-----------------------------------------------------------------------------
(* How many slots are used.                                                *)

NonHoles(e, c) == {i \in 0 .. c - 1 : ~ IsHole(e[i])}

LEMMA NonHolesAreCounted ==
  ASSUME NEW e, NEW c, c \in Nat
  PROVE  /\ IsFiniteSet(NonHoles(e, c)) /\ Cardinality(NonHoles(e, c)) \in Nat
         /\ Cardinality(NonHoles(e, c)) < c => HasHole(e, c)
<1>1. IsFiniteSet(0 .. c - 1) /\ Cardinality(0 .. c - 1) = c
  <2>1. Cardinality(0 .. c - 1) = IF 0 > c - 1 THEN 0 ELSE (c - 1) - 0 + 1
    BY FS_Interval
  <2> QED BY <2>1, FS_Interval
<1>2. NonHoles(e, c) \subseteq 0 .. c - 1
  BY DEF NonHoles
<1>3. IsFiniteSet(NonHoles(e, c)) /\ Cardinality(NonHoles(e, c)) \in Nat
  BY <1>1, <1>2, FS_Subset, FS_CardinalityType
<1>4. ASSUME ~ HasHole(e, c) PROVE Cardinality(NonHoles(e, c)) = c
  <2>1. NonHoles(e, c) = 0 .. c - 1
    BY <1>4 DEF HasHole, NonHoles
  <2> QED BY <2>1, <1>1
<1> QED BY <1>3, <1>4

LEMMA PutNonHole ==
  ASSUME NEW c, NEW e, e \in Array(c), NEW p, p \in 0 .. c - 1, NEW s, s \in Slot,
         ~ IsHole(s)
  PROVE  NonHoles(Put(e, p, s), c) = NonHoles(e, c) \cup {p}
<1>1. PICK new : new = Put(e, p, s)
  OBVIOUS
<1>2. new[p] = s /\ \A h \in 0 .. c - 1 : h # p => new[h] = e[h]
  BY <1>1, PutIs
<1>3. \A h \in 0 .. c - 1 : ~ IsHole(new[h]) <=> ~ IsHole(e[h]) \/ h = p
  BY <1>2
<1>4. NonHoles(new, c) = NonHoles(e, c) \cup {p}
  BY <1>3 DEF NonHoles
<1> QED BY <1>1, <1>4
-----------------------------------------------------------------------------
(* Every slot that was ever used recalls a key of its own: the key it has, *)
(* or, of a tombstone, one that would be stored there or before it.        *)

(* From k's home one comes to h before any hole. *)
Walks(e, c, k, h) ==
  \E d \in Nat : /\ Probed(c, k, d) = h
                 /\ \A i \in 0 .. d - 1 : ~ IsHole(e[Probed(c, k, i)])

Recalled(e, c, f) ==
  /\ f \in [NonHoles(e, c) -> Key]
  /\ \A h, g \in NonHoles(e, c) : f[h] = f[g] => h = g
  /\ \A h \in NonHoles(e, c) : e[h].key # NoKey => f[h] = e[h].key
  /\ \A h \in NonHoles(e, c) : Walks(e, c, f[h], h)

Recalls(e, c) == \E f : Recalled(e, c, f)

(* A walk is still one when there are fewer holes. *)
LEMMA WalksStay ==
  ASSUME TableAssumption, NEW e, NEW c, c \in Nat \ {0}, NEW k, k \in Key,
         NEW h, Walks(e, c, k, h), NEW new, NonHoles(e, c) \subseteq NonHoles(new, c)
  PROVE  Walks(new, c, k, h)
<1>1. PICK d \in Nat : /\ Probed(c, k, d) = h
                       /\ \A i \in 0 .. d - 1 : ~ IsHole(e[Probed(c, k, i)])
  BY DEF Walks
<1>2. ASSUME NEW i \in 0 .. d - 1 PROVE ~ IsHole(new[Probed(c, k, i)])
  <2>1. i \in Nat
    OBVIOUS
  <2>2. PICK q : q = Probed(c, k, i)
    OBVIOUS
  <2>3. q \in 0 .. c - 1
    BY <2>1, <2>2, ProbedIsASlot
  <2>4. q \in NonHoles(e, c)
    BY <1>1, <2>2, <2>3 DEF NonHoles
  <2>5. q \in NonHoles(new, c)
    BY <2>4
  <2> QED BY <2>2, <2>5 DEF NonHoles
<1> QED BY <1>1, <1>2 DEF Walks

(* A key that is in no slot and would be stored in a hole is recalled by   *)
(* no slot.                                                                *)
LEMMA NotRecalled ==
  ASSUME TableAssumption, NEW e, NEW c, c \in Nat \ {0}, e \in Array(c),
         NEW f, Recalled(e, c, f), NEW k, k \in Key,
         NEW t, t \in 0 .. c - 1, IsHole(e[Probed(c, k, t)]),
         \A i \in 0 .. t - 1 : e[Probed(c, k, i)].key # NoKey,
         \A h \in 0 .. c - 1 : e[h].key # k
  PROVE  \A h \in NonHoles(e, c) : f[h] # k
<1> SUFFICES ASSUME NEW h \in NonHoles(e, c), f[h] = k PROVE FALSE
  OBVIOUS
<1>1. h \in 0 .. c - 1 /\ ~ IsHole(e[h])
  BY DEF NonHoles
<1>2. e[h].key = NoKey
  <2> SUFFICES ASSUME e[h].key # NoKey PROVE FALSE
    OBVIOUS
  <2>1. f[h] = e[h].key
    BY DEF Recalled
  <2> QED BY <2>1, <1>1
<1>3. Walks(e, c, k, h)
  BY DEF Recalled
<1>4. PICK d \in Nat : /\ Probed(c, k, d) = h
                       /\ \A i \in 0 .. d - 1 : ~ IsHole(e[Probed(c, k, i)])
  BY <1>3 DEF Walks
<1>5. t \in Nat /\ ~ (t < d)
  <2>1. t \in Nat
    OBVIOUS
  <2> SUFFICES ASSUME t < d PROVE FALSE
    BY <2>1
  <2>2. t \in 0 .. d - 1
    BY <2>1
  <2> QED BY <2>2, <1>4
<1>6. t # d
  BY <1>1, <1>4
<1>7. d \in 0 .. t - 1
  BY <1>4, <1>5, <1>6
<1> QED BY <1>2, <1>4, <1>7

(* From p on, which is on the way of k to h, the walk of n goes to h too.  *)
LEMMA WalksOn ==
  ASSUME TableAssumption, NEW e, NEW c, c \in Nat \ {0}, NEW k, k \in Key, NEW n, n \in Key,
         NEW p, Walks(e, c, n, p), NEW h, Walks(e, c, k, h),
         NEW t, t \in Nat, Probed(c, k, t) = p, p # h,
         e[h].key = NoKey, \A i \in 0 .. t - 1 : e[Probed(c, k, i)].key # NoKey
  PROVE  Walks(e, c, n, h)
<1>1. PICK d \in Nat : /\ Probed(c, k, d) = h
                       /\ \A i \in 0 .. d - 1 : ~ IsHole(e[Probed(c, k, i)])
  BY DEF Walks
<1>2. PICK m \in Nat : /\ Probed(c, n, m) = p
                       /\ \A i \in 0 .. m - 1 : ~ IsHole(e[Probed(c, n, i)])
  BY DEF Walks
<1>3. t < d
  <2>1. t # d
    BY <1>1
  <2>2. ~ (d < t)
    <3> SUFFICES ASSUME d < t PROVE FALSE
      OBVIOUS
    <3>1. d \in 0 .. t - 1
      BY <1>1
    <3> QED BY <3>1, <1>1
  <2> QED BY <2>1, <2>2
<1>4. PICK x \in Nat : d = t + x
  <2>1. d - t \in Nat /\ d = t + (d - t)
    BY <1>3
  <2> QED BY <2>1
<1>5. \A y \in Nat : Probed(c, n, m + y) = Probed(c, k, t + y)
  <2>1. Meet(c, n, m, k, t)
    BY <1>2 DEF Meet
  <2>2. c \in Nat \ {0} /\ k \in Key /\ n \in Key /\ m \in Nat /\ t \in Nat
    OBVIOUS
  <2>3. \A y \in Nat : Meet(c, n, m + y, k, t + y)
    BY ONLY TableAssumption, <2>1, <2>2, ProbesMeet
  <2> QED BY <2>3 DEF Meet
<1>6. Probed(c, n, m + x) = h
  BY <1>1, <1>4, <1>5
<1>7. ASSUME NEW i \in 0 .. (m + x) - 1 PROVE ~ IsHole(e[Probed(c, n, i)])
  <2>1. CASE i < m
    <3>1. i \in 0 .. m - 1
      BY <2>1
    <3> QED BY <3>1, <1>2
  <2>2. CASE ~ (i < m)
    <3>1. PICK y \in Nat : i = m + y
      <4>1. i - m \in Nat /\ i = m + (i - m)
        BY <2>2
      <4> QED BY <4>1
    <3>2. t + y \in 0 .. d - 1
      BY <3>1, <1>4
    <3>3. Probed(c, n, i) = Probed(c, k, t + y)
      BY <3>1, <1>5
    <3> QED BY <3>2, <3>3, <1>1
  <2> QED BY <2>1, <2>2
<1> QED BY <1>6, <1>7 DEF Walks

LEMMA StoreRecalls ==
  ASSUME TableAssumption, NEW e, NEW c, c \in Nat \ {0}, e \in Array(c),
         Recalls(e, c), NEW k, k \in Key, NEW v, v \in Value,
         NEW p, Belongs(e, c, k, p)
  PROVE  Recalls(Put(e, p, [key |-> k, value |-> v]), c)
<1>1. PICK s : s = [key |-> k, value |-> v]
  OBVIOUS
<1>2. PICK new : new = Put(e, p, s)
  OBVIOUS
<1>3. s \in Slot /\ s.key = k /\ k # NoKey /\ ~ IsHole(s)
  BY <1>1 DEF Slot, TableAssumption, IsHole
<1>4. p \in 0 .. c - 1
  BY DEF Belongs
<1>5. new[p] = s /\ \A h \in 0 .. c - 1 : h # p => new[h] = e[h]
  <2>1. e \in Array(c)
    OBVIOUS
  <2> QED BY ONLY <2>1, <1>2, <1>3, <1>4, PutIs
<1>6. NonHoles(new, c) = NonHoles(e, c) \cup {p}
  BY <1>2, <1>3, <1>4, PutNonHole
<1>7. NonHoles(e, c) \subseteq 0 .. c - 1
  BY DEF NonHoles
<1>8. PICK f : Recalled(e, c, f)
  BY DEF Recalls
<1>9. PICK t \in 0 .. c - 1 :
        /\ Probed(c, k, t) = p
        /\ \A i \in 0 .. t - 1 : ~ StopsAt(e, c, k, i)
        /\ e[p].key = NoKey => \A i \in 0 .. t - 1 : e[Probed(c, k, i)].key # NoKey
  BY DEF Belongs
<1>10. t \in Nat
  OBVIOUS
<1>11. Walks(e, c, k, p)
  <2>1. \A i \in 0 .. t - 1 : ~ IsHole(e[Probed(c, k, i)])
    BY <1>9 DEF StopsAt
  <2> QED BY <2>1, <1>9, <1>10 DEF Walks
<1>12. ASSUME NEW g, g \in [NonHoles(new, c) -> Key],
              \A h, i \in NonHoles(new, c) : g[h] = g[i] => h = i,
              g[p] = k, \A h \in NonHoles(e, c) : h # p /\ e[h].key # NoKey => g[h] = e[h].key,
              \A h \in NonHoles(e, c) : h # p => Walks(e, c, g[h], h)
       PROVE  Recalled(new, c, g)
  <2>1. ASSUME NEW h \in NonHoles(new, c) PROVE new[h].key # NoKey => g[h] = new[h].key
    <3>1. CASE h = p
      BY <3>1, <1>3, <1>5, <1>12
    <3>2. CASE h # p
      <4>1. h \in NonHoles(e, c) /\ new[h] = e[h]
        BY <3>2, <1>5, <1>6, <1>7
      <4> QED BY <4>1, <3>2, <1>12
    <3> QED BY <3>1, <3>2
  <2>2. ASSUME NEW h \in NonHoles(new, c) PROVE Walks(new, c, g[h], h)
    <3>1. PICK n : n = g[h]
      OBVIOUS
    <3>2. n \in Key
      BY <3>1, <1>12
    <3>3. Walks(e, c, n, h)
      <4>1. CASE h = p
        BY <4>1, <3>1, <1>11, <1>12
      <4>2. CASE h # p
        BY <4>2, <3>1, <1>6, <1>12
      <4> QED BY <4>1, <4>2
    <3>4. NonHoles(e, c) \subseteq NonHoles(new, c)
      BY <1>6
    <3> QED BY <3>1, <3>2, <3>3, <3>4, WalksStay
  <2> QED BY <2>1, <2>2, <1>12 DEF Recalled
<1>13. CASE e[p].key = k
  <2>1. p \in NonHoles(e, c)
    BY <1>3, <1>4, <1>13 DEF NonHoles, IsHole
  <2>2. NonHoles(new, c) = NonHoles(e, c) /\ f[p] = k
    BY <2>1, <1>3, <1>6, <1>8, <1>13 DEF Recalled
  <2>3. Recalled(new, c, f)
    BY <2>1, <2>2, <1>8, <1>12 DEF Recalled
  <2> QED BY <2>3, <1>1, <1>2 DEF Recalls
<1>14. CASE e[p].key # k
  <2>1. e[p].key = NoKey /\ \A h \in 0 .. c - 1 : e[h].key # k
    BY <1>14 DEF Belongs
  <2>2. \A i \in 0 .. t - 1 : e[Probed(c, k, i)].key # NoKey
    BY <2>1, <1>9
  <2>3. CASE \A h \in NonHoles(e, c) : h # p => f[h] # k
    <3>1. PICK g : g = [h \in NonHoles(new, c) |-> IF h = p THEN k ELSE f[h]]
      OBVIOUS
    <3>2. g \in [NonHoles(new, c) -> Key] /\ g[p] = k
          /\ \A h \in NonHoles(e, c) : h # p => g[h] = f[h]
      BY <3>1, <1>6, <1>8 DEF Recalled
    <3>3. ASSUME NEW h \in NonHoles(new, c), NEW i \in NonHoles(new, c), g[h] = g[i]
          PROVE  h = i
      <4>1. CASE h = p /\ i = p
        BY <4>1
      <4>2. CASE h = p /\ i # p
        BY <4>2, <3>2, <3>3, <2>3, <1>6
      <4>3. CASE h # p /\ i = p
        BY <4>3, <3>2, <3>3, <2>3, <1>6
      <4>4. CASE h # p /\ i # p
        <5>1. h \in NonHoles(e, c) /\ i \in NonHoles(e, c) /\ f[h] = f[i]
          BY <4>4, <3>2, <3>3, <1>6
        <5> QED BY <5>1, <1>8 DEF Recalled
      <4> QED BY <4>1, <4>2, <4>3, <4>4
    <3>4. \A h \in NonHoles(e, c) : h # p =>
            Walks(e, c, g[h], h) /\ (e[h].key # NoKey => g[h] = e[h].key)
      BY <3>2, <1>8 DEF Recalled
    <3>5. Recalled(new, c, g)
      BY <3>2, <3>3, <3>4, <1>12
    <3> QED BY <3>5, <1>1, <1>2 DEF Recalls
  <2>4. CASE \E h \in NonHoles(e, c) : h # p /\ f[h] = k
    <3>1. PICK b \in NonHoles(e, c) : b # p /\ f[b] = k
      BY <2>4
    <3>2. b \in 0 .. c - 1 /\ e[b].key = NoKey
      BY <3>1, <2>1, <1>7, <1>8 DEF Recalled
    <3>3. p \in NonHoles(e, c)
      <4> SUFFICES ASSUME p \notin NonHoles(e, c) PROVE FALSE
        OBVIOUS
      <4>1. IsHole(e[Probed(c, k, t)])
        BY <1>4, <1>9 DEF NonHoles
      <4> HIDE <1>12
      <4>2. \A h \in NonHoles(e, c) : f[h] # k
        BY <4>1, <2>1, <2>2, <1>8, NotRecalled
      <4> QED BY <4>2, <3>1
    <3>4. NonHoles(new, c) = NonHoles(e, c)
      BY <3>3, <1>6
    <3>5. PICK n : n = f[p]
      OBVIOUS
    <3>6. n \in Key /\ Walks(e, c, n, p)
      BY <3>3, <3>5, <1>8 DEF Recalled
    <3>7. Walks(e, c, k, b)
      BY <3>1, <1>8 DEF Recalled
    <3>8. Walks(e, c, n, b)
      BY <3>1, <3>2, <3>6, <3>7, <2>2, <1>9, <1>10, WalksOn
    <3>9. PICK g : g = [h \in NonHoles(e, c) |-> IF h = p THEN k
                                                 ELSE IF h = b THEN n ELSE f[h]]
      OBVIOUS
    <3>10. g \in [NonHoles(new, c) -> Key] /\ g[p] = k /\ g[b] = n
           /\ \A h \in NonHoles(e, c) : h # p /\ h # b => g[h] = f[h]
      BY <3>1, <3>3, <3>4, <3>6, <3>9, <1>8 DEF Recalled
    <3>11. \A h, i \in NonHoles(e, c) : f[h] = f[i] => h = i
      BY <1>8 DEF Recalled
    <3>12. ASSUME NEW h \in NonHoles(e, c), NEW i \in NonHoles(e, c), g[h] = g[i]
           PROVE  h = i
      BY <3>1, <3>3, <3>5, <3>10, <3>11, <3>12
    <3>13. \A h \in NonHoles(e, c) : h # p =>
             Walks(e, c, g[h], h) /\ (e[h].key # NoKey => g[h] = e[h].key)
      BY <3>2, <3>8, <3>10, <1>8 DEF Recalled
    <3>14. Recalled(new, c, g)
      BY <3>4, <3>10, <3>12, <3>13, <1>12
    <3> QED BY <3>14, <1>1, <1>2 DEF Recalls
  <2> QED BY <2>3, <2>4
<1> QED BY <1>13, <1>14

LEMMA DeleteRecalls ==
  ASSUME TableAssumption, NEW e, NEW c, c \in Nat \ {0}, e \in Array(c),
         Recalls(e, c), NEW p, p \in 0 .. c - 1, e[p].key # NoKey
  PROVE  /\ Recalls(Put(e, p, Tombstone), c)
         /\ NonHoles(Put(e, p, Tombstone), c) = NonHoles(e, c)
<1>0. PICK s : s = Tombstone
  OBVIOUS
<1>1. PICK new : new = Put(e, p, s)
  OBVIOUS
<1>2. s \in Slot /\ s.key = NoKey /\ ~ IsHole(s)
  BY <1>0 DEF Tombstone, Slot, TableAssumption, IsHole
<1>3. new[p] = s /\ \A h \in 0 .. c - 1 : h # p => new[h] = e[h]
  <2>1. e \in Array(c) /\ p \in 0 .. c - 1
    OBVIOUS
  <2> QED BY ONLY <2>1, <1>1, <1>2, PutIs
<1>4. NonHoles(new, c) = NonHoles(e, c)
  <2>1. e \in Array(c) /\ p \in 0 .. c - 1
    OBVIOUS
  <2>2. NonHoles(new, c) = NonHoles(e, c) \cup {p}
    BY ONLY <2>1, <1>1, <1>2, PutNonHole
  <2>3. p \in NonHoles(e, c)
    BY DEF NonHoles, IsHole
  <2> QED BY <2>2, <2>3
<1>5. PICK f : Recalled(e, c, f)
  BY DEF Recalls
<1>6. \A h \in NonHoles(new, c) : new[h].key # NoKey => f[h] = new[h].key
  <2> SUFFICES ASSUME NEW h \in NonHoles(new, c), new[h].key # NoKey
               PROVE  f[h] = new[h].key
    OBVIOUS
  <2>1. h # p /\ h \in 0 .. c - 1
    BY <1>2, <1>3 DEF NonHoles
  <2> QED BY <2>1, <1>3, <1>4, <1>5 DEF Recalled
<1>7. \A h \in NonHoles(new, c) : Walks(new, c, f[h], h)
  <2> SUFFICES ASSUME NEW h \in NonHoles(new, c) PROVE Walks(new, c, f[h], h)
    OBVIOUS
  <2>1. PICK k : k = f[h]
    OBVIOUS
  <2>2. k \in Key /\ Walks(e, c, k, h) /\ NonHoles(e, c) \subseteq NonHoles(new, c)
    BY <2>1, <1>4, <1>5 DEF Recalled
  <2> QED BY <2>1, <2>2, WalksStay
<1>8. Recalled(new, c, f)
  BY <1>4, <1>5, <1>6, <1>7 DEF Recalled
<1> QED BY <1>0, <1>1, <1>4, <1>8 DEF Recalls

(* An array without tombstones recalls the keys it has. *)
LEMMA KeysAreRecalled ==
  ASSUME TableAssumption, NEW e, NEW c, c \in Nat, e \in Array(c), WellPlaced(e, c),
         \A h \in 0 .. c - 1 : e[h].key = NoKey => IsHole(e[h])
  PROVE  Recalls(e, c)
<1>1. PICK f : f = [h \in NonHoles(e, c) |-> e[h].key]
  OBVIOUS
<1>2. \A h \in NonHoles(e, c) :
        h \in 0 .. c - 1 /\ e[h].key # NoKey /\ e[h].key \in Key /\ f[h] = e[h].key
  BY <1>1 DEF NonHoles, Array, Slot
<1>3. f \in [NonHoles(e, c) -> Key]
  BY <1>1, <1>2
<1>4. \A h, g \in NonHoles(e, c) : f[h] = f[g] => h = g
  BY <1>2, OneSlot
<1>5. ASSUME NEW h \in NonHoles(e, c) PROVE Walks(e, c, f[h], h)
  <2>1. PICK d \in 0 .. c - 1 : EndsAfter(e, c, f[h], d) /\ Probed(c, f[h], d) = h
    BY <1>2 DEF WellPlaced, EndsAt
  <2>2. d \in Nat
    OBVIOUS
  <2>3. ASSUME NEW i \in 0 .. d - 1 PROVE ~ IsHole(e[Probed(c, f[h], i)])
    <3>1. i \in 0 .. c - 1 /\ i < d
      OBVIOUS
    <3> QED BY <3>1, <2>1 DEF EndsAfter, StopsAt
  <2> QED BY <2>1, <2>2, <2>3 DEF Walks
<1> QED BY <1>2, <1>3, <1>4, <1>5 DEF Recalls, Recalled

(* As many slots recall a key as there are keys, at most. *)
LEMMA RecalledKeys ==
  ASSUME NEW e, NEW c, c \in Nat, Recalls(e, c), IsFiniteSet(Key)
  PROVE  Cardinality(NonHoles(e, c)) <= Cardinality(Key)
<1>1. PICK f : Recalled(e, c, f)
  BY DEF Recalls
<1>2. f \in Injection(NonHoles(e, c), Key)
  BY <1>1 DEF Recalled, Injection, IsInjective
<1> QED BY <1>2, NonHolesAreCounted, FS_Injection

-----------------------------------------------------------------------------
(* Folds: a function of the sets of steps that were taken, as the folds of *)
(* the community modules define it, and the proof that there is one.       *)

Follows(f, n, base, step) ==
  \A s \in SUBSET (1 .. n) :
    f[s] = IF s = {} THEN base ELSE step[<<f[s \ {Max(s)}], Max(s)>>]

LEMMA FoldGrows ==
  ASSUME NEW S, NEW n, n \in Nat, NEW step, step \in [S \X (1 .. n) -> S],
         NEW base, base \in S, NEW k, k \in Nat, k < n,
         NEW f, f \in [SUBSET (1 .. k) -> S], Follows(f, k, base, step)
  PROVE  \E g \in [SUBSET (1 .. k + 1) -> S] : Follows(g, k + 1, base, step)
<1>1. PICK m \in 1 .. n : m = k + 1
  OBVIOUS
<1>2. PICK g : g = [s \in SUBSET (1 .. m) |->
                      IF m \in s THEN step[<<f[s \ {m}], m>>] ELSE f[s]]
  OBVIOUS
<1>3. \A s \in SUBSET (1 .. m) : s \ {m} \in SUBSET (1 .. k)
  BY <1>1
<1>4. ASSUME NEW s \in SUBSET (1 .. m), m \in s
      PROVE  /\ g[s] = step[<<f[s \ {m}], m>>] /\ g[s] \in S
             /\ Max(s) = m /\ g[s \ {m}] = f[s \ {m}]
  <2>1. g[s] = step[<<f[s \ {m}], m>>]
    BY <1>2, <1>4
  <2>2. f[s \ {m}] \in S
    BY <1>3
  <2>3. <<f[s \ {m}], m>> \in S \X (1 .. n)
    BY <2>2
  <2>4. step[<<f[s \ {m}], m>>] \in S
    BY <2>3
  <2>5. Max(s) = m
    <3>1. s \subseteq Nat /\ \A x \in s : x <= m
      BY <1>1
    <3> QED BY <3>1, <1>4, MaxIs
  <2>6. g[s \ {m}] = f[s \ {m}]
    BY <1>2
  <2> QED BY <2>1, <2>4, <2>5, <2>6
<1>5. ASSUME NEW s \in SUBSET (1 .. m), m \notin s
      PROVE  s \in SUBSET (1 .. k) /\ g[s] = f[s] /\ g[s] \in S
  <2>1. s \in SUBSET (1 .. k)
    BY <1>3, <1>5
  <2> QED BY <2>1, <1>2, <1>5
<1>6. g \in [SUBSET (1 .. m) -> S]
  <2>1. \A s \in SUBSET (1 .. m) : g[s] \in S
    BY <1>4, <1>5
  <2> QED BY <2>1, <1>2
<1>7. ASSUME NEW s \in SUBSET (1 .. m)
      PROVE  g[s] = IF s = {} THEN base ELSE step[<<g[s \ {Max(s)}], Max(s)>>]
  <2>1. CASE m \in s
    BY <2>1, <1>4
  <2>2. CASE m \notin s
    <3>1. s \in SUBSET (1 .. k) /\ g[s] = f[s]
      BY <2>2, <1>5
    <3>2. f[s] = IF s = {} THEN base ELSE step[<<f[s \ {Max(s)}], Max(s)>>]
      BY <3>1 DEF Follows
    <3>3. PICK r : r = s \ {Max(s)}
      OBVIOUS
    <3>4. r \in SUBSET (1 .. m) /\ m \notin r
      BY <2>2, <3>3
    <3>5. g[r] = f[r]
      BY <3>4, <1>5
    <3> QED BY <3>1, <3>2, <3>3, <3>5
  <2> QED BY <2>1, <2>2
<1>8. Follows(g, m, base, step)
  BY <1>7 DEF Follows
<1> QED BY <1>1, <1>6, <1>8

LEMMA FoldExists ==
  ASSUME NEW S, NEW n, n \in Nat, NEW step, step \in [S \X (1 .. n) -> S],
         NEW base, base \in S
  PROVE  \E f \in [SUBSET (1 .. n) -> S] : Follows(f, n, base, step)
<1> DEFINE Good == {k \in 0 .. n : \E f \in [SUBSET (1 .. k) -> S] : Follows(f, k, base, step)}
<1>1. 0 \in Good
  <2>1. PICK f : f = [s \in SUBSET (1 .. 0) |-> base]
    OBVIOUS
  <2>2. \A s \in SUBSET (1 .. 0) : s = {}
    OBVIOUS
  <2>3. f \in [SUBSET (1 .. 0) -> S] /\ Follows(f, 0, base, step)
    BY <2>1, <2>2 DEF Follows
  <2>4. \E g \in [SUBSET (1 .. 0) -> S] : Follows(g, 0, base, step)
    BY ONLY <2>3
  <2>5. 0 \in 0 .. n
    OBVIOUS
  <2> QED BY <2>4, <2>5
<1>2. ASSUME NEW k, k \in Nat, k < n, k \in Good PROVE k + 1 \in Good
  <2>1. PICK f \in [SUBSET (1 .. k) -> S] : Follows(f, k, base, step)
    BY <1>2
  <2>2. \E g \in [SUBSET (1 .. k + 1) -> S] : Follows(g, k + 1, base, step)
    BY <2>1, <1>2, FoldGrows
  <2>3. k + 1 \in 0 .. n
    BY <1>2
  <2> QED BY <2>2, <2>3
<1>3. n \in 0 .. n
  OBVIOUS
<1>4. n \in Good
  <2> HIDE DEF Good
  <2>1. \A i \in 0 .. n : i \in Good
    BY <1>1, <1>2, Induct
  <2> QED BY <2>1, <1>3
<1> QED BY <1>4

-----------------------------------------------------------------------------
(* The mapping an array stands for.                                        *)

Holds(e, c, k, v) == \E h \in 0 .. c - 1 : e[h].key = k /\ e[h].value = v

(* What a store and a deletion do to it. *)
AfterStore(new, e, c, k, v) ==
  \A n \in Key, w \in Value :
    Holds(new, c, n, w) <=> IF n = k THEN w = v ELSE Holds(e, c, n, w)
AfterDelete(new, e, c, k) ==
  \A n \in Key, w \in Value : Holds(new, c, n, w) <=> n # k /\ Holds(e, c, n, w)

LEMMA StoreHolds ==
  ASSUME TableAssumption, NEW e, NEW c, c \in Nat \ {0}, e \in Array(c),
         WellPlaced(e, c), NEW k, k \in Key, NEW v, v \in Value,
         NEW p, Belongs(e, c, k, p)
  PROVE  AfterStore(Put(e, p, [key |-> k, value |-> v]), e, c, k, v)
<1>1. PICK s : s = [key |-> k, value |-> v]
  OBVIOUS
<1>2. PICK new : new = Put(e, p, s)
  OBVIOUS
<1>3. s \in Slot /\ s.key = k /\ s.value = v /\ k # NoKey
  BY <1>1 DEF Slot, TableAssumption
<1>4. p \in 0 .. c - 1 /\ e[p].key \in {k, NoKey}
  BY DEF Belongs
<1>5. new[p] = s /\ \A h \in 0 .. c - 1 : h # p => new[h] = e[h]
  BY <1>2, <1>3, <1>4, PutIs
<1>6. ASSUME NEW h \in 0 .. c - 1, h # p PROVE e[h].key # k
  <2> SUFFICES ASSUME e[h].key = k PROVE FALSE
    OBVIOUS
  <2>1. e[p].key = k
    BY <1>4 DEF Belongs
  <2>2. h = p
    BY <2>1, <1>3, <1>4, OneSlot
  <2> QED BY <2>2, <1>6
<1>7. ASSUME NEW n \in Key, NEW w \in Value
      PROVE  Holds(new, c, n, w) <=> IF n = k THEN w = v ELSE Holds(e, c, n, w)
  <2>1. CASE n = k
    <3>1. Holds(new, c, n, w) => w = v
      BY <2>1, <1>3, <1>5, <1>6 DEF Holds
    <3>2. Holds(new, c, n, v)
      BY <2>1, <1>3, <1>4, <1>5 DEF Holds
    <3> QED BY <2>1, <3>1, <3>2
  <2>2. CASE n # k
    <3>1. n # NoKey
      BY DEF TableAssumption
    <3>2. ASSUME Holds(new, c, n, w) PROVE Holds(e, c, n, w)
      <4>1. PICK h \in 0 .. c - 1 : new[h].key = n /\ new[h].value = w
        BY <3>2 DEF Holds
      <4>2. h # p
        BY <4>1, <2>2, <1>3, <1>5
      <4> QED BY <4>1, <4>2, <1>5 DEF Holds
    <3>3. ASSUME Holds(e, c, n, w) PROVE Holds(new, c, n, w)
      <4>1. PICK h \in 0 .. c - 1 : e[h].key = n /\ e[h].value = w
        BY <3>3 DEF Holds
      <4>2. h # p
        BY <4>1, <2>2, <3>1, <1>4
      <4> QED BY <4>1, <4>2, <1>5 DEF Holds
    <3> QED BY <2>2, <3>2, <3>3
  <2> QED BY <2>1, <2>2
<1> QED BY <1>1, <1>2, <1>7 DEF AfterStore

LEMMA DeleteHolds ==
  ASSUME TableAssumption, NEW e, NEW c, c \in Nat \ {0}, e \in Array(c),
         WellPlaced(e, c), NEW p, p \in 0 .. c - 1, e[p].key # NoKey
  PROVE  AfterDelete(Put(e, p, Tombstone), e, c, e[p].key)
<1>1. PICK s : s = Tombstone
  OBVIOUS
<1>2. PICK new : new = Put(e, p, s)
  OBVIOUS
<1>3. PICK k : k = e[p].key
  OBVIOUS
<1>4. s \in Slot /\ s.key = NoKey
  BY <1>1 DEF Slot, TableAssumption, Tombstone
<1>5. new[p] = s /\ \A h \in 0 .. c - 1 : h # p => new[h] = e[h]
  BY <1>2, <1>4, PutIs
<1>6. ASSUME NEW h \in 0 .. c - 1, h # p PROVE e[h].key # k
  BY <1>3, <1>6, OneSlot
<1>7. ASSUME NEW n \in Key, NEW w \in Value
      PROVE  Holds(new, c, n, w) <=> n # k /\ Holds(e, c, n, w)
  <2>1. n # NoKey
    BY DEF TableAssumption
  <2>2. ASSUME Holds(new, c, n, w) PROVE n # k /\ Holds(e, c, n, w)
    <3>1. PICK h \in 0 .. c - 1 : new[h].key = n /\ new[h].value = w
      BY <2>2 DEF Holds
    <3>2. h # p
      BY <3>1, <2>1, <1>4, <1>5
    <3>3. new[h] = e[h] /\ e[h].key # k
      BY <3>2, <1>5, <1>6
    <3> QED BY <3>1, <3>3 DEF Holds
  <2>3. ASSUME n # k, Holds(e, c, n, w) PROVE Holds(new, c, n, w)
    <3>1. PICK h \in 0 .. c - 1 : e[h].key = n /\ e[h].value = w
      BY <2>3 DEF Holds
    <3>2. h # p
      BY <3>1, <2>3, <1>3
    <3> QED BY <3>1, <3>2, <1>5 DEF Holds
  <2> QED BY <2>2, <2>3
<1> QED BY <1>1, <1>2, <1>3, <1>7 DEF AfterDelete

-----------------------------------------------------------------------------
(* adjustCapacity.                                                         *)

(* One slot is moved to the new array. *)
Moved(m, c, slot) ==
  IF slot.key = NoKey THEN m ELSE Put(m, FindEntry(m, c, slot.key), slot)

MovesOf(e, c, base, n, f) ==
  [s \in SUBSET (1 .. n) |->
     IF s = {} THEN base ELSE Moved(f[s \ {Max(s)}], c, e[Max(s) - 1])]

LEMMA RehashIsAFold ==
  ASSUME NEW table, NEW n, n \in Nat, table.capacity = n, NEW c, NEW base
  PROVE  Rehash(base, table, c) =
           (CHOOSE f : f = MovesOf(table.entries, c, base, n, f))[1 .. n]
<1>1. PICK seq : seq = [i \in 1 .. n |-> i - 1]
  OBVIOUS
<1>2. \A s \in SUBSET (1 .. n) : s # {} => Max(s) \in 1 .. n /\ seq[Max(s)] = Max(s) - 1
  <2> SUFFICES ASSUME NEW s \in SUBSET (1 .. n), s # {} PROVE Max(s) \in 1 .. n
    BY <1>1
  <2> QED BY MaxMember
<1>3. DOMAIN seq = 1 .. n
  BY <1>1
<1> DEFINE Old(f) == [s \in SUBSET DOMAIN seq |->
                        IF s = {} THEN base
                        ELSE Moved(f[s \ {Max(s)}], c, table.entries[seq[Max(s)]])]
<1>4. Rehash(base, table, c) = (CHOOSE f : f = Old(f))[DOMAIN seq]
  BY <1>1 DEF Rehash, FoldLeft, MapThenFoldSet, Moved, Put
<1>5. \A f : Old(f) = MovesOf(table.entries, c, base, n, f)
  BY <1>2, <1>3 DEF MovesOf
<1> HIDE DEF Old
<1>6. (CHOOSE f : f = Old(f)) = CHOOSE f : f = MovesOf(table.entries, c, base, n, f)
  BY <1>5
<1> QED BY <1>3, <1>4, <1>6

LEMMA MovedIsAnArray ==
  ASSUME NEW c, NEW m, m \in Array(c), NEW slot, slot \in Slot
  PROVE  Moved(m, c, slot) \in Array(c)
<1>1. PICK p : p = FindEntry(m, c, slot.key)
  OBVIOUS
<1>2. Put(m, p, slot) \in Array(c)
  BY DEF Put, Array
<1> QED BY <1>1, <1>2 DEF Moved

(* The arrays between the first, base, and the last, which adjustCapacity  *)
(* makes the table's.                                                      *)
Moves(m, e, n, c, base, last) ==
  /\ m[0] = base /\ m[n] = last
  /\ \A i \in 0 .. n - 1 : m[i + 1] = Moved(m[i], c, e[i])

LEMMA RehashMoves ==
  ASSUME NEW table, NEW n, n \in Nat, table.capacity = n, NEW e, e \in Array(n),
         table.entries = e, NEW c, NEW base, base \in Array(c)
  PROVE  \E m : Moves(m, e, n, c, base, Rehash(base, table, c))
<1>1. PICK step : step = [x \in Array(c) \X (1 .. n) |-> Moved(x[1], c, e[x[2] - 1])]
  OBVIOUS
<1>2. ASSUME NEW a \in Array(c), NEW i \in 1 .. n
      PROVE  step[<<a, i>>] = Moved(a, c, e[i - 1]) /\ step[<<a, i>>] \in Array(c)
  <2>1. e[i - 1] \in Slot
    BY DEF Array
  <2>2. Moved(a, c, e[i - 1]) \in Array(c)
    BY <2>1, MovedIsAnArray
  <2>3. <<a, i>> \in Array(c) \X (1 .. n) /\ <<a, i>>[1] = a /\ <<a, i>>[2] = i
    OBVIOUS
  <2>4. step[<<a, i>>] = Moved(a, c, e[i - 1])
    BY <2>3, <1>1
  <2> QED BY <2>2, <2>4
<1>3. step \in [Array(c) \X (1 .. n) -> Array(c)]
  <2>1. \A x \in Array(c) \X (1 .. n) : step[x] \in Array(c)
    <3> SUFFICES ASSUME NEW x \in Array(c) \X (1 .. n) PROVE step[x] \in Array(c)
      OBVIOUS
    <3>1. PICK a \in Array(c), i \in 1 .. n : x = <<a, i>>
      OBVIOUS
    <3> QED BY <3>1, <1>2
  <2>2. step = [x \in Array(c) \X (1 .. n) |-> step[x]]
    BY <1>1
  <2> QED BY <2>1, <2>2
<1>4. PICK f \in [SUBSET (1 .. n) -> Array(c)] : Follows(f, n, base, step)
  BY <1>3, FoldExists
<1>5. f = MovesOf(e, c, base, n, f)
  <2>1. ASSUME NEW s \in SUBSET (1 .. n)
        PROVE  f[s] = IF s = {} THEN base ELSE Moved(f[s \ {Max(s)}], c, e[Max(s) - 1])
    <3>1. CASE s = {}
      BY <3>1, <1>4 DEF Follows
    <3>2. CASE s # {}
      <4>1. PICK i \in 1 .. n : i = Max(s)
        BY <3>2, MaxMember
      <4>2. s \ {i} \in SUBSET (1 .. n)
        OBVIOUS
      <4>3. PICK a \in Array(c) : a = f[s \ {i}]
        BY <4>2
      <4>4. f[s] = step[<<a, i>>]
        BY <3>2, <4>1, <4>3, <1>4 DEF Follows
      <4> QED BY <3>2, <4>1, <4>3, <4>4, <1>2
    <3> QED BY <3>1, <3>2
  <2>2. f = [s \in SUBSET (1 .. n) |-> f[s]]
    OBVIOUS
  <2> QED BY <2>1, <2>2 DEF MovesOf
<1>6. PICK g : g = CHOOSE h : h = MovesOf(e, c, base, n, h)
  OBVIOUS
<1>7. g = MovesOf(e, c, base, n, g)
  BY <1>5, <1>6
<1>8. g[1 .. n] = Rehash(base, table, c)
  BY <1>6, RehashIsAFold
<1>9. g[{}] = base
  <2>1. {} \in SUBSET (1 .. n)
    OBVIOUS
  <2>2. MovesOf(e, c, base, n, g)[{}] = base
    BY <2>1 DEF MovesOf
  <2> QED BY <2>2, <1>7
<1>10. ASSUME NEW i \in 0 .. n - 1 PROVE g[1 .. i + 1] = Moved(g[1 .. i], c, e[i])
  <2>1. PICK s : s = 1 .. i + 1
    OBVIOUS
  <2>2. PICK j : j = i + 1
    OBVIOUS
  <2>3. s \in SUBSET (1 .. n) /\ s # {} /\ j \in s /\ s \subseteq Nat /\ \A x \in s : x <= j
    <3>1. j \in 1 .. n /\ s = 1 .. j
      BY <2>1, <2>2
    <3>2. \A x \in s : x \in Nat /\ x \in 1 .. n /\ x <= j
      BY <3>1
    <3>3. j \in s
      BY <3>1
    <3> QED BY <3>2, <3>3
  <2>4. Max(s) = j
    BY <2>3, MaxIs
  <2>5. s \ {j} = 1 .. i /\ j - 1 = i
    BY <2>1, <2>2
  <2>6. MovesOf(e, c, base, n, g)[s] = Moved(g[s \ {j}], c, e[j - 1])
    BY <2>3, <2>4 DEF MovesOf
  <2> QED BY <2>1, <2>5, <2>6, <1>7
<1>11. PICK m : m = [i \in 0 .. n |-> g[1 .. i]]
  OBVIOUS
<1>12. m[0] = base /\ m[n] = g[1 .. n]
  <2>1. 1 .. 0 = {} /\ 0 \in 0 .. n /\ n \in 0 .. n
    OBVIOUS
  <2> QED BY <2>1, <1>9, <1>11
<1>13. \A i \in 0 .. n - 1 : m[i + 1] = Moved(m[i], c, e[i])
  <2> SUFFICES ASSUME NEW i \in 0 .. n - 1 PROVE m[i + 1] = Moved(m[i], c, e[i])
    OBVIOUS
  <2>1. i \in 0 .. n /\ i + 1 \in 0 .. n
    OBVIOUS
  <2>2. m[i] = g[1 .. i] /\ m[i + 1] = g[1 .. i + 1]
    BY <2>1, <1>11
  <2> QED BY <2>2, <1>10
<1> QED BY <1>8, <1>12, <1>13 DEF Moves

(* The first i slots of e have been moved to m. *)
Filled(e, i) == {j \in 0 .. i - 1 : e[j].key # NoKey}
Copied(m, c, e, i) ==
  /\ m \in Array(c) /\ WellPlaced(m, c)
  /\ \A h \in 0 .. c - 1 : m[h].key = NoKey => IsHole(m[h])
  /\ Cardinality(NonHoles(m, c)) = Cardinality(Filled(e, i))
  /\ \A k \in Key, w \in Value : Holds(m, c, k, w) <=> Holds(e, i, k, w)

LEMMA FilledGrows ==
  ASSUME NEW n, n \in Nat, NEW e, NEW i, i \in 0 .. n - 1
  PROVE  /\ IsFiniteSet(Filled(e, i)) /\ Cardinality(Filled(e, i)) \in Nat
         /\ e[i].key = NoKey => Filled(e, i + 1) = Filled(e, i)
         /\ e[i].key # NoKey => /\ Cardinality(Filled(e, i + 1)) = Cardinality(Filled(e, i)) + 1
                                /\ Cardinality(Filled(e, i)) < Cardinality(Filled(e, n))
<1>1. PICK j : j = i + 1
  OBVIOUS
<1>2. Filled(e, j) = Filled(e, i) \cup (IF e[i].key = NoKey THEN {} ELSE {i})
  <2>1. ASSUME NEW x PROVE x \in Filled(e, j) <=> x \in Filled(e, i) \/ (x = i /\ e[i].key # NoKey)
    <3>1. x \in 0 .. j - 1 <=> x \in 0 .. i - 1 \/ x = i
      BY <1>1
    <3> QED BY <3>1 DEF Filled
  <2> QED BY <2>1
<1>3. IsFiniteSet(0 .. n - 1)
  BY FS_Interval
<1>4. Filled(e, i) \subseteq 0 .. n - 1 /\ Filled(e, n) \subseteq 0 .. n - 1
      /\ Filled(e, j) \subseteq Filled(e, n) /\ i \notin Filled(e, i)
  BY <1>1 DEF Filled
<1>5. IsFiniteSet(Filled(e, i)) /\ IsFiniteSet(Filled(e, n))
  BY <1>3, <1>4, FS_Subset
<1>6. Cardinality(Filled(e, i)) \in Nat /\ Cardinality(Filled(e, n)) \in Nat
  BY <1>5, FS_CardinalityType
<1>7. CASE e[i].key = NoKey
  BY <1>1, <1>2, <1>5, <1>6, <1>7
<1>8. CASE e[i].key # NoKey
  <2>1. Filled(e, j) = Filled(e, i) \cup {i}
    BY <1>2, <1>8
  <2>2. Cardinality(Filled(e, j)) = Cardinality(Filled(e, i)) + 1
    BY <2>1, <1>4, <1>5, FS_AddElement
  <2>3. Cardinality(Filled(e, j)) <= Cardinality(Filled(e, n))
    BY <1>4, <1>5, FS_Subset
  <2>4. Cardinality(Filled(e, i)) < Cardinality(Filled(e, n))
    BY <2>2, <2>3, <1>6
  <2> QED BY <1>1, <1>5, <1>6, <1>8, <2>2, <2>4
<1> QED BY <1>7, <1>8

LEMMA MoveKeeps ==
  ASSUME TableAssumption, NEW n, n \in Nat, NEW e, e \in Array(n), WellPlaced(e, n),
         NEW c, c \in Nat \ {0}, Cardinality(Filled(e, n)) <= c,
         NEW i, i \in 0 .. n - 1, NEW m, Copied(m, c, e, i)
  PROVE  Copied(Moved(m, c, e[i]), c, e, i + 1)
<1>1. PICK j : j = i + 1
  OBVIOUS
<1>2. PICK new : new = Moved(m, c, e[i])
  OBVIOUS
<1>3. PICK k, v : k = e[i].key /\ v = e[i].value
  OBVIOUS
<1>4. k \in Key \cup {NoKey} /\ v \in Value /\ e[i] = [key |-> k, value |-> v] /\ i \in Nat
  BY <1>3 DEF Array, Slot
<1>5. \A x : x \in 0 .. j - 1 <=> x \in 0 .. i - 1 \/ x = i
  BY <1>1, <1>4
<1>6. ASSUME NEW q \in Key, NEW w \in Value
      PROVE  Holds(e, j, q, w) <=> Holds(e, i, q, w) \/ (q = k /\ w = v)
  BY <1>3, <1>5 DEF Holds
<1>7. CASE k = NoKey
  <2>1. new = m
    BY <1>2, <1>3, <1>7 DEF Moved
  <2>2. Filled(e, j) = Filled(e, i)
    <3>1. e[i].key = NoKey => Filled(e, i + 1) = Filled(e, i)
      BY FilledGrows
    <3> QED BY <3>1, <1>1, <1>3, <1>7
  <2>3. \A q \in Key : q # k
    BY <1>7 DEF TableAssumption
  <2>4. Copied(m, c, e, j)
    BY <2>2, <2>3, <1>6 DEF Copied
  <2> QED BY <2>1, <2>4, <1>1, <1>2
<1>8. CASE k # NoKey
  <2>1. k \in Key
    BY <1>4, <1>8
  <2>2. HasHole(m, c)
    <3>1. Cardinality(Filled(e, i)) < Cardinality(Filled(e, n))
      BY <1>3, <1>8, FilledGrows
    <3>2. Cardinality(Filled(e, i)) \in Nat
      BY FilledGrows
    <3>3. Cardinality(Filled(e, n)) \in Nat
      <4>1. Filled(e, n) \subseteq 0 .. n - 1
        BY DEF Filled
      <4>2. IsFiniteSet(0 .. n - 1)
        BY FS_Interval
      <4> QED BY <4>1, <4>2, FS_Subset, FS_CardinalityType
    <3>4. Cardinality(Filled(e, i)) < c
      BY <3>1, <3>2, <3>3
    <3>5. Cardinality(NonHoles(m, c)) < c
      BY <3>4 DEF Copied
    <3> QED BY <3>5, NonHolesAreCounted
  <2>3. m \in Array(c) /\ WellPlaced(m, c)
    BY DEF Copied
  <2>4. PICK p : p = FindEntry(m, c, k)
    OBVIOUS
  <2>5. Belongs(m, c, k, p)
    BY <2>1, <2>2, <2>3, <2>4, FindEntryBelongs
  <2>6. p \in 0 .. c - 1
    BY <2>5 DEF Belongs
  <2>7. m[p].key = NoKey
    <3> SUFFICES ASSUME m[p].key # NoKey PROVE FALSE
      OBVIOUS
    <3>1. m[p].key = k /\ m[p].value \in Value
      BY <2>3, <2>5, <2>6 DEF Belongs, Array, Slot
    <3>2. Holds(m, c, k, m[p].value)
      BY <3>1, <2>6 DEF Holds
    <3>3. Holds(e, i, k, m[p].value)
      BY <3>1, <3>2, <2>1 DEF Copied
    <3>4. PICK h \in 0 .. i - 1 : e[h].key = k
      BY <3>3 DEF Holds
    <3>5. h \in 0 .. n - 1 /\ i \in 0 .. n - 1 /\ h # i
      BY <1>4
    <3>6. h = i
      BY <3>4, <3>5, <1>3, <1>8, OneSlot
    <3> QED BY <3>5, <3>6
  <2>8. PICK s \in Slot : s = [key |-> k, value |-> v]
    BY <1>4 DEF Slot
  <2>9. new = Put(m, p, s)
    BY <1>2, <1>3, <1>4, <1>8, <2>4, <2>8 DEF Moved
  <2>10. new \in Array(c) /\ new[p] = s /\ \A h \in 0 .. c - 1 : h # p => new[h] = m[h]
    BY <2>3, <2>6, <2>9, PutIs
  <2>11. WellPlaced(new, c)
    BY <2>1, <2>3, <2>5, <2>8, <2>9, <1>4, StoreKeepsPlaces
  <2>12. \A h \in 0 .. c - 1 : new[h].key = NoKey => IsHole(new[h])
    BY <2>8, <2>10, <1>8 DEF Copied
  <2>13. NonHoles(new, c) = NonHoles(m, c) \cup {p} /\ p \notin NonHoles(m, c)
    <3>1. ~ IsHole(s)
      BY <2>8, <1>8 DEF IsHole
    <3>2. IsHole(m[p])
      BY <2>6, <2>7 DEF Copied
    <3> QED BY <3>1, <3>2, <2>3, <2>6, <2>9, PutNonHole DEF NonHoles
  <2>14. Cardinality(NonHoles(new, c)) = Cardinality(Filled(e, j))
    <3>1. Cardinality(NonHoles(new, c)) = Cardinality(NonHoles(m, c)) + 1
      BY <2>13, NonHolesAreCounted, FS_AddElement
    <3>2. Cardinality(Filled(e, j)) = Cardinality(Filled(e, i)) + 1
      BY <1>1, <1>3, <1>8, FilledGrows
    <3>3. Cardinality(NonHoles(m, c)) = Cardinality(Filled(e, i))
      BY DEF Copied
    <3> QED BY <3>1, <3>2, <3>3
  <2>15. ASSUME NEW q \in Key, NEW w \in Value PROVE Holds(new, c, q, w) <=> Holds(e, j, q, w)
    <3>1. Holds(new, c, q, w) <=> IF q = k THEN w = v ELSE Holds(m, c, q, w)
      <4>1. AfterStore(Put(m, p, [key |-> k, value |-> v]), m, c, k, v)
        BY <2>1, <2>3, <2>5, <1>4, StoreHolds
      <4> QED BY <4>1, <2>8, <2>9 DEF AfterStore
    <3>2. Holds(m, c, q, w) <=> Holds(e, i, q, w)
      BY DEF Copied
    <3>3. q = k => ~ Holds(e, i, q, w)
      <4> SUFFICES ASSUME Holds(e, i, k, w) PROVE FALSE
        OBVIOUS
      <4>1. PICK h \in 0 .. i - 1 : e[h].key = k
        BY DEF Holds
      <4>2. h \in 0 .. n - 1 /\ i \in 0 .. n - 1 /\ h # i
        BY <1>4
      <4>3. h = i
        BY <4>1, <4>2, <1>3, <1>8, OneSlot
      <4> QED BY <4>2, <4>3
    <3> QED BY <3>1, <3>2, <3>3, <1>6
  <2>16. Copied(new, c, e, j)
    BY <2>10, <2>11, <2>12, <2>14, <2>15 DEF Copied
  <2> QED BY <2>16, <1>1, <1>2
<1> QED BY <1>7, <1>8

LEMMA RehashCopies ==
  ASSUME TableAssumption, NEW table, NEW n, n \in Nat, table.capacity = n,
         NEW e, e \in Array(n), table.entries = e, WellPlaced(e, n),
         NEW c, c \in Nat \ {0}, Cardinality(Filled(e, n)) <= c
  PROVE  Copied(Rehash(NewEntries(c), table, c), c, e, n)
<1>1. PICK base : base = NewEntries(c)
  OBVIOUS
<1>2. base \in Array(c) /\ \A h \in 0 .. c - 1 : base[h] = EmptySlot
  BY <1>1 DEF NewEntries, Array, Slot, EmptySlot, TableAssumption
<1>3. Copied(base, c, e, 0)
  <2>1. \A h \in 0 .. c - 1 : base[h].key = NoKey /\ IsHole(base[h])
    BY <1>2 DEF EmptySlot, IsHole
  <2>2. NonHoles(base, c) = {}
    BY <2>1 DEF NonHoles
  <2>3. Filled(e, 0) = {}
    BY DEF Filled
  <2>4. WellPlaced(base, c)
    BY <2>1 DEF WellPlaced
  <2>5. \A k \in Key, w \in Value : ~ Holds(base, c, k, w) /\ ~ Holds(e, 0, k, w)
    BY <2>1 DEF Holds, TableAssumption
  <2> QED BY <2>1, <2>2, <2>3, <2>4, <2>5, <1>2 DEF Copied
<1>4. PICK m : Moves(m, e, n, c, base, Rehash(base, table, c))
  BY <1>2, RehashMoves
<1> DEFINE Good == {i \in 0 .. n : Copied(m[i], c, e, i)}
<1>5. 0 \in Good
  BY <1>3, <1>4 DEF Moves
<1>6. ASSUME NEW i, i \in Nat, i < n, i \in Good PROVE i + 1 \in Good
  <2>1. i \in 0 .. n - 1 /\ i + 1 \in 0 .. n
    BY <1>6
  <2>2. PICK a : a = m[i] /\ Copied(a, c, e, i)
    BY <1>6
  <2>3. Copied(Moved(a, c, e[i]), c, e, i + 1)
    BY <2>1, <2>2, MoveKeeps
  <2>4. m[i + 1] = Moved(a, c, e[i])
    BY <2>1, <2>2, <1>4 DEF Moves
  <2> QED BY <2>1, <2>3, <2>4
<1>7. n \in Good
  <2>1. n \in 0 .. n
    OBVIOUS
  <2> HIDE DEF Good
  <2>2. \A i \in 0 .. n : i \in Good
    BY <1>5, <1>6, Induct
  <2> QED BY <2>1, <2>2
<1> QED BY <1>1, <1>4, <1>7 DEF Moves

-----------------------------------------------------------------------------
(* Tables.                                                                 *)

SoundArray(e, c) ==
  /\ c \in Nat /\ e \in Array(c) /\ (c = 0 \/ c >= MinCapacity)
  /\ Cardinality(NonHoles(e, c)) <= (c * 3) \div 4
  /\ WellPlaced(e, c) /\ Recalls(e, c)

TableOf(e, c) ==
  [count |-> Cardinality(NonHoles(e, c)), capacity |-> c, entries |-> e]

(* The invariant of a table: that count is right, that a quarter is free,  *)
(* and what no test looks at, that the tombstones recall different keys.   *)
Sound(t) == SoundArray(t.entries, t.capacity) /\ t = TableOf(t.entries, t.capacity)

(* The table maps k to v. *)
Maps(t, k, v) == Holds(t.entries, t.capacity, k, v)

LEMMA TableOfIs ==
  ASSUME NEW e, NEW c, SoundArray(e, c)
  PROVE  /\ Sound(TableOf(e, c))
         /\ TableOf(e, c).entries = e /\ TableOf(e, c).capacity = c
         /\ \A k, v : Maps(TableOf(e, c), k, v) <=> Holds(e, c, k, v)
  BY DEF TableOf, Sound, Maps

(* Three quarters of an array. *)
LEMMA ThreeQuarters ==
  ASSUME NEW c, c \in Nat, NEW q, q = (c * 3) \div 4
  PROVE  q \in Nat /\ 4 * q <= 3 * c /\ 3 * c < 4 * q + 4
<1>1. PICK x \in Nat : x = c * 3
  OBVIOUS
<1>2. x \div 4 \in Nat /\ 4 * (x \div 4) <= x /\ x < 4 * (x \div 4) + 4
  <2>1. x % 4 \in 0 .. 3 /\ x = 4 * (x \div 4) + (x % 4) /\ x \div 4 \in Nat
    OBVIOUS
  <2> QED BY <2>1
<1> QED BY <1>1, <1>2

(* A table that is not empty has a hole. *)
LEMMA LeavesAHole ==
  ASSUME TableAssumption, NEW e, NEW c, SoundArray(e, c), c # 0
  PROVE  c \in Nat \ {0} /\ HasHole(e, c)
<1>1. PICK q : q = (c * 3) \div 4
  OBVIOUS
<1>2. c \in Nat /\ Cardinality(NonHoles(e, c)) <= q
  BY <1>1 DEF SoundArray
<1>3. q \in Nat /\ 4 * q <= 3 * c
  BY <1>1, <1>2, ThreeQuarters
<1>4. q < c
  BY <1>2, <1>3
<1>5. Cardinality(NonHoles(e, c)) \in Nat
  BY <1>2, NonHolesAreCounted
<1>6. Cardinality(NonHoles(e, c)) < c
  BY <1>2, <1>3, <1>4, <1>5
<1> QED BY <1>2, <1>6, NonHolesAreCounted

LEMMA EmptyIsSound ==
  ASSUME TableAssumption
  PROVE  /\ Sound(EmptyTable) /\ EmptyTable.capacity = 0
         /\ \A k \in Key, v \in Value : ~ Maps(EmptyTable, k, v)
<1>1. PICK e : e = << >>
  OBVIOUS
<1>2. e \in Array(0)
  <2>1. e \in Seq(Slot) /\ Len(e) = 0
    BY <1>1, EmptySeq
  <2>2. e \in [1 .. 0 -> Slot]
    BY <2>1, LenProperties
  <2>3. 1 .. 0 = 0 .. 0 - 1
    OBVIOUS
  <2> QED BY <2>2, <2>3 DEF Array
<1>3. NonHoles(e, 0) = {} /\ WellPlaced(e, 0)
  BY DEF NonHoles, WellPlaced
<1>4. Cardinality(NonHoles(e, 0)) = 0
  BY <1>3, FS_EmptySet
<1>5. Recalls(e, 0)
  <2>1. \A h \in 0 .. 0 - 1 : e[h].key = NoKey => IsHole(e[h])
    OBVIOUS
  <2>2. 0 \in Nat
    OBVIOUS
  <2> QED BY <2>1, <2>2, <1>2, <1>3, KeysAreRecalled
<1>6. Cardinality(NonHoles(e, 0)) <= (0 * 3) \div 4
  <2>1. (0 * 3) \div 4 \in Nat
    <3>1. PICK z : z = 0 * 3
      OBVIOUS
    <3>2. 0 \in Nat
      OBVIOUS
    <3> QED BY <3>2, ThreeQuarters
  <2> QED BY <2>1, <1>4
<1>7. SoundArray(e, 0)
  BY <1>2, <1>3, <1>5, <1>6 DEF SoundArray
<1>8. EmptyTable = TableOf(e, 0)
  BY <1>1, <1>4 DEF EmptyTable, TableOf
<1>9. \A k, v : ~ Holds(e, 0, k, v)
  BY DEF Holds
<1> QED BY <1>7, <1>8, <1>9, TableOfIs

(* What an array of twice the size, or the first one, leaves free. *)
LEMMA GrowthIsEnough ==
  ASSUME TableAssumption, NEW c, c \in Nat, c = 0 \/ c >= MinCapacity,
         NEW q, q = (c * 3) \div 4, NEW d, d = GrowCapacity(c)
  PROVE  /\ d \in Nat \ {0} /\ d >= MinCapacity /\ q <= d /\ q + 1 <= (d * 3) \div 4
         /\ c <= d
<1>1. MinCapacity \in Nat /\ MinCapacity >= 2
  BY DEF TableAssumption
<1>2. q \in Nat /\ 4 * q <= 3 * c
  BY ThreeQuarters
<1>3. d = IF c < MinCapacity THEN MinCapacity ELSE 2 * c
  BY DEF GrowCapacity
<1>4. d \in Nat /\ d >= MinCapacity /\ (c = 0 \/ d = 2 * c) /\ c <= d
  BY <1>1, <1>3
<1>5. PICK r : r = (d * 3) \div 4
  OBVIOUS
<1>6. r \in Nat /\ 3 * d < 4 * r + 4
  BY <1>4, <1>5, ThreeQuarters
<1>7. q + 1 <= r
  BY <1>1, <1>2, <1>4, <1>6
<1>8. q <= d
  BY <1>1, <1>2, <1>4
<1> QED BY <1>1, <1>4, <1>5, <1>7, <1>8

(* A table with room for one more key, that maps what t does. *)
HasRoom(e, c) == Cardinality(NonHoles(e, c)) + 1 <= (c * 3) \div 4
SameMapping(t, s) == \A k \in Key, w \in Value : Maps(t, k, w) <=> Maps(s, k, w)

LEMMA GrownIs ==
  ASSUME TableAssumption, NEW t, Sound(t)
  PROVE  \E e, c : /\ SoundArray(e, c) /\ HasRoom(e, c) /\ Grown(t) = TableOf(e, c)
                   /\ SameMapping(Grown(t), t) /\ t.capacity <= c
<1>1. PICK e, c : e = t.entries /\ c = t.capacity
  OBVIOUS
<1>2. SoundArray(e, c) /\ t = TableOf(e, c)
  BY <1>1 DEF Sound
<1>3. PICK q : q = (c * 3) \div 4
  OBVIOUS
<1>4. t.count = Cardinality(NonHoles(e, c)) /\ (MustGrow(t) <=> t.count + 1 > q)
  BY <1>1, <1>2, <1>3 DEF TableOf, MustGrow
<1>5. c \in Nat /\ q \in Nat /\ Cardinality(NonHoles(e, c)) \in Nat
  <2>1. c \in Nat
    BY <1>2 DEF SoundArray
  <2> QED BY <2>1, <1>3, ThreeQuarters, NonHolesAreCounted
<1>6. CASE ~ MustGrow(t)
  <2>1. Grown(t) = t
    BY <1>6 DEF Grown
  <2>2. HasRoom(e, c)
    <3>1. ~ (Cardinality(NonHoles(e, c)) + 1 > q)
      BY <1>4, <1>6
    <3> QED BY <3>1, <1>3, <1>5 DEF HasRoom
  <2> QED BY <2>1, <2>2, <1>1, <1>2, <1>5 DEF SameMapping
<1>7. CASE MustGrow(t)
  <2>1. PICK d : d = GrowCapacity(c)
    OBVIOUS
  <2>2. /\ d \in Nat \ {0} /\ d >= MinCapacity /\ q <= d /\ q + 1 <= (d * 3) \div 4
        /\ c <= d
    BY <2>1, <1>2, <1>3, GrowthIsEnough DEF SoundArray
  <2>3. PICK n : n = Cardinality(Filled(e, c))
    OBVIOUS
  <2>4. n \in Nat /\ n <= q
    <3>1. \A i \in 0 .. c - 1 : e[i].key # NoKey => ~ IsHole(e[i])
      BY DEF IsHole
    <3>2. Filled(e, c) \subseteq NonHoles(e, c)
      BY <3>1 DEF Filled, NonHoles
    <3>3. n \in Nat /\ n <= Cardinality(NonHoles(e, c))
      BY <2>3, <3>2, <1>5, NonHolesAreCounted, FS_Subset, FS_CardinalityType
    <3> QED BY <3>3, <1>2, <1>3, <1>5 DEF SoundArray
  <2>5. PICK f : f = Rehash(NewEntries(d), t, d)
    OBVIOUS
  <2>6. Copied(f, d, e, c)
    <3>1. e \in Array(c) /\ WellPlaced(e, c)
      BY <1>2 DEF SoundArray
    <3>2. n <= d
      BY <2>2, <2>4, <1>5
    <3> QED BY <3>1, <3>2, <2>2, <2>3, <2>5, <1>1, <1>5, RehashCopies
  <2>7. Used(t) = Filled(e, c)
    BY <1>1 DEF Used, Filled
  <2>8. Grown(t) = TableOf(f, d)
    BY <2>1, <2>5, <2>6, <2>7, <1>1, <1>7 DEF Grown, AdjustCapacity, TableOf, Copied
  <2>9. Cardinality(NonHoles(f, d)) = n
    BY <2>3, <2>6 DEF Copied
  <2>10. n + 1 <= (d * 3) \div 4
    BY <2>2, <2>4, <1>5, ThreeQuarters
  <2>11. n <= (d * 3) \div 4
    BY <2>2, <2>4, <2>10, ThreeQuarters
  <2>12. Recalls(f, d)
    BY <2>2, <2>6, KeysAreRecalled DEF Copied
  <2>13. SoundArray(f, d)
    BY <2>2, <2>6, <2>9, <2>11, <2>12 DEF SoundArray, Copied
  <2>14. SameMapping(Grown(t), t)
    <3>1. \A k \in Key, w \in Value : Maps(Grown(t), k, w) <=> Holds(e, c, k, w)
      BY <2>6, <2>8, <2>13, TableOfIs DEF Copied
    <3> QED BY <3>1, <1>1 DEF SameMapping, Maps
  <2>15. HasRoom(f, d) /\ t.capacity <= d
    BY <2>2, <2>9, <2>10, <1>1 DEF HasRoom
  <2> QED BY <2>8, <2>13, <2>14, <2>15
<1> QED BY <1>6, <1>7

-----------------------------------------------------------------------------
(* The operations of a table.                                              *)

Entry(k, v) == [key |-> k, value |-> v]

(* tableSet, after the growth. *)
LEMMA InsertIs ==
  ASSUME TableAssumption, NEW e, NEW c, SoundArray(e, c), HasRoom(e, c),
         NEW k, k \in Key, NEW v, v \in Value
  PROVE  \E p : /\ Belongs(e, c, k, p) /\ SoundArray(Put(e, p, Entry(k, v)), c)
                /\ Insert(TableOf(e, c), k, v) = TableOf(Put(e, p, Entry(k, v)), c)
<1>1. c \in Nat /\ e \in Array(c) /\ (c = 0 \/ c >= MinCapacity) /\ WellPlaced(e, c)
      /\ Recalls(e, c)
  BY DEF SoundArray
<1>2. PICK n, q : n = Cardinality(NonHoles(e, c)) /\ q = (c * 3) \div 4
  OBVIOUS
<1>3. n \in Nat /\ q \in Nat /\ 4 * q <= 3 * c /\ n + 1 <= q
  BY <1>1, <1>2, NonHolesAreCounted, ThreeQuarters DEF HasRoom
<1>4. c \in Nat \ {0} /\ HasHole(e, c)
  <2>1. c # 0
    BY <1>1, <1>3
  <2> QED BY <2>1, LeavesAHole
<1>5. PICK p : p = FindEntry(e, c, k)
  OBVIOUS
<1>6. Belongs(e, c, k, p)
  BY <1>1, <1>4, <1>5, FindEntryBelongs
<1>7. p \in 0 .. c - 1 /\ e[p].key \in {k, NoKey}
  BY <1>6 DEF Belongs
<1>8. PICK s : s = Entry(k, v)
  OBVIOUS
<1>9. s = [key |-> k, value |-> v] /\ s \in Slot /\ ~ IsHole(s)
  BY <1>8 DEF Entry, Slot, IsHole, TableAssumption
<1>10. PICK new : new = Put(e, p, s)
  OBVIOUS
<1>11. new \in Array(c)
  BY <1>1, <1>7, <1>9, <1>10, PutIs
<1>12. WellPlaced(new, c) /\ Recalls(new, c)
  <2>1. WellPlaced(Put(e, p, [key |-> k, value |-> v]), c)
    BY <1>1, <1>4, <1>6, StoreKeepsPlaces
  <2>2. Recalls(Put(e, p, [key |-> k, value |-> v]), c)
    BY <1>1, <1>4, <1>6, StoreRecalls
  <2> QED BY <2>1, <2>2, <1>9, <1>10
<1>13. PICK m : m = Cardinality(NonHoles(new, c))
  OBVIOUS
<1>14. m = (IF IsHole(e[p]) THEN n + 1 ELSE n)
  <2>1. NonHoles(new, c) = NonHoles(e, c) \cup {p}
    BY <1>1, <1>7, <1>9, <1>10, PutNonHole
  <2>2. CASE IsHole(e[p])
    <3>1. p \notin NonHoles(e, c)
      BY <2>2 DEF NonHoles
    <3> QED BY <2>1, <2>2, <3>1, <1>1, <1>2, <1>13, NonHolesAreCounted, FS_AddElement
  <2>3. CASE ~ IsHole(e[p])
    <3>1. p \in NonHoles(e, c)
      BY <2>3, <1>7 DEF NonHoles
    <3>2. NonHoles(new, c) = NonHoles(e, c)
      BY <2>1, <3>1
    <3> QED BY <2>3, <3>2, <1>2, <1>13
  <2> QED BY <2>2, <2>3
<1>15. m <= q
  BY <1>3, <1>14
<1>16. SoundArray(new, c)
  BY <1>1, <1>2, <1>11, <1>12, <1>13, <1>15 DEF SoundArray
<1>17. Insert(TableOf(e, c), k, v) = TableOf(new, c)
  <2>1. PICK t : t = TableOf(e, c)
    OBVIOUS
  <2>2. t = [count |-> n, capacity |-> c, entries |-> e]
    BY <2>1, <1>2 DEF TableOf
  <2>3. Place(t, k) = p
    BY <2>2, <1>5 DEF Place
  <2>4. Insert(t, k, v) = [count |-> m, capacity |-> c, entries |-> new]
    <3>1. t.entries = e /\ t.count = n
      BY <2>2
    <3>2. Insert(t, k, v) = [t EXCEPT !.entries[p] = s, !.count = m]
      BY <2>3, <3>1, <1>9, <1>14 DEF Insert
    <3>3. PICK u : u = [t EXCEPT !.entries[p] = s]
      OBVIOUS
    <3>4. u = [count |-> n, capacity |-> c, entries |-> new]
      BY <2>2, <3>3, <1>10 DEF Put
    <3>5. PICK x : x = [t EXCEPT !.entries[p] = s, !.count = m]
      OBVIOUS
    <3>6. x = [u EXCEPT !.count = m]
      BY <3>3, <3>5
    <3>7. [u EXCEPT !.count = m] = [count |-> m, capacity |-> c, entries |-> new]
      BY <3>4
    <3> QED BY <3>2, <3>5, <3>6, <3>7
  <2> QED BY <2>1, <2>4, <1>13, <1>14 DEF TableOf
<1> QED BY <1>6, <1>8, <1>10, <1>16, <1>17

(* Storing keeps a table sound, and changes what its key is mapped to.     *)
LEMMA TableSetIs ==
  ASSUME TableAssumption, NEW t, Sound(t), NEW k, k \in Key, NEW v, v \in Value
  PROVE  /\ Sound(TableSet(t, k, v))
         /\ \A n \in Key, w \in Value :
              Maps(TableSet(t, k, v), n, w) <=> IF n = k THEN w = v ELSE Maps(t, n, w)
         /\ TableSet(t, k, v).capacity = Grown(t).capacity
         /\ t.capacity <= Grown(t).capacity
<1>1. PICK e, c : /\ SoundArray(e, c) /\ HasRoom(e, c) /\ Grown(t) = TableOf(e, c)
                  /\ SameMapping(Grown(t), t) /\ t.capacity <= c
  BY GrownIs
<1>2. PICK p : /\ Belongs(e, c, k, p) /\ SoundArray(Put(e, p, Entry(k, v)), c)
               /\ Insert(TableOf(e, c), k, v) = TableOf(Put(e, p, Entry(k, v)), c)
  BY <1>1, InsertIs
<1>3. PICK new : new = Put(e, p, Entry(k, v))
  OBVIOUS
<1>4. TableSet(t, k, v) = TableOf(new, c)
  BY <1>1, <1>2, <1>3 DEF TableSet
<1>5. Sound(TableOf(new, c))
  BY <1>2, <1>3, TableOfIs
<1>6. AfterStore(new, e, c, k, v)
  <2>1. e \in Array(c) /\ WellPlaced(e, c) /\ c \in Nat
    BY <1>1 DEF SoundArray
  <2>2. c # 0
    BY <1>2 DEF Belongs
  <2>3. AfterStore(Put(e, p, [key |-> k, value |-> v]), e, c, k, v)
    BY <2>1, <2>2, <1>2, StoreHolds
  <2> QED BY <2>3, <1>3 DEF Entry
<1>7. ASSUME NEW n \in Key, NEW w \in Value
      PROVE  Maps(TableSet(t, k, v), n, w) <=> IF n = k THEN w = v ELSE Maps(t, n, w)
  <2>1. Maps(TableSet(t, k, v), n, w) <=> Holds(new, c, n, w)
    BY <1>2, <1>3, <1>4, TableOfIs
  <2>2. Maps(t, n, w) <=> Holds(e, c, n, w)
    <3>1. Maps(Grown(t), n, w) <=> Holds(e, c, n, w)
      BY <1>1, TableOfIs
    <3> QED BY <3>1, <1>1 DEF SameMapping
  <2> QED BY <2>1, <2>2, <1>6 DEF AfterStore
<1>8. TableSet(t, k, v).capacity = c /\ Grown(t).capacity = c
  BY <1>1, <1>4 DEF TableOf
<1> QED BY <1>1, <1>4, <1>5, <1>7, <1>8

(* A lookup finds what the key is mapped to.                               *)
LEMMA LookupIs ==
  ASSUME TableAssumption, NEW t, Sound(t), NEW k, k \in Key
  PROVE  /\ TableHas(t, k) => /\ TableGet(t, k) \in Value /\ Maps(t, k, TableGet(t, k))
                              /\ t.capacity # 0 /\ Place(t, k) \in 0 .. t.capacity - 1
                              /\ t.entries[Place(t, k)].key = k
         /\ \A w \in Value : Maps(t, k, w) => TableHas(t, k) /\ w = TableGet(t, k)
<1>1. PICK e, c : e = t.entries /\ c = t.capacity
  OBVIOUS
<1>2. SoundArray(e, c) /\ t = TableOf(e, c)
  BY <1>1 DEF Sound
<1>3. c \in Nat /\ e \in Array(c) /\ WellPlaced(e, c) /\ k # NoKey
  BY <1>2 DEF SoundArray, TableAssumption
<1>4. t.count = Cardinality(NonHoles(e, c))
  BY <1>2 DEF TableOf
<1>5. PICK p : p = Place(t, k)
  OBVIOUS
<1>6. TableHas(t, k) <=> t.count # 0 /\ e[p].key # NoKey
  BY <1>1, <1>5 DEF TableHas
<1>7. p = FindEntry(e, c, k) /\ TableGet(t, k) = e[p].value
  BY <1>1, <1>5 DEF Place, TableGet
<1>8. ASSUME t.count # 0 PROVE c # 0
  <2> SUFFICES ASSUME c = 0 PROVE FALSE
    OBVIOUS
  <2>1. NonHoles(e, c) = {}
    BY DEF NonHoles
  <2> QED BY <2>1, <1>4, <1>8, FS_EmptySet
<1>9. c # 0 => Belongs(e, c, k, p)
  BY <1>2, <1>3, <1>7, LeavesAHole, FindEntryBelongs
<1>10. ASSUME TableHas(t, k)
       PROVE  /\ c # 0 /\ p \in 0 .. c - 1 /\ e[p].key = k /\ e[p].value \in Value
              /\ Holds(e, c, k, e[p].value)
  <2>1. c # 0 /\ Belongs(e, c, k, p)
    BY <1>6, <1>8, <1>9, <1>10
  <2>2. p \in 0 .. c - 1 /\ e[p].key = k
    BY <2>1, <1>6, <1>10 DEF Belongs
  <2> QED BY <2>1, <2>2, <1>3 DEF Holds, Array, Slot
<1>11. ASSUME NEW w \in Value, Holds(e, c, k, w) PROVE TableHas(t, k) /\ w = e[p].value
  <2>1. PICK h \in 0 .. c - 1 : e[h].key = k /\ e[h].value = w
    BY <1>11 DEF Holds
  <2>2. c # 0
    BY <2>1, <1>3
  <2>3. e[p].key = k
    BY <2>1, <2>2, <1>9 DEF Belongs
  <2>4. h = p
    <3>1. p \in 0 .. c - 1
      BY <2>2, <1>9 DEF Belongs
    <3> QED BY <2>1, <2>3, <3>1, <1>3, OneSlot
  <2>5. t.count # 0
    <3>1. h \in NonHoles(e, c)
      BY <2>1, <1>3 DEF NonHoles, IsHole
    <3> QED BY <3>1, <1>3, <1>4, NonHolesAreCounted, FS_EmptySet
  <2> QED BY <2>1, <2>3, <2>4, <2>5, <1>3, <1>6
<1> QED BY <1>1, <1>5, <1>7, <1>10, <1>11 DEF Maps

(* The search for a key ends at a slot of the array, whatever is there. *)
LEMMA SearchEndIsASlot ==
  ASSUME TableAssumption, NEW e, NEW c, SoundArray(e, c), c # 0, NEW k, k \in Key
  PROVE  SearchEnd(e, c, k) \in 0 .. c - 1
<1>1. c \in Nat \ {0} /\ HasHole(e, c)
  BY LeavesAHole
<1>2. PICK d \in 0 .. c - 1 : EndsAfter(e, c, k, d)
  BY <1>1, SearchEnds
<1>3. SearchEnd(e, c, k) = Probed(c, k, d)
  BY <1>1, <1>2, SearchIs
<1>4. d \in Nat
  BY <1>1
<1> QED BY <1>1, <1>3, <1>4, ProbedIsASlot

(* Storing in the slot that has the key changes its value only. *)
LEMMA OverwriteIs ==
  ASSUME TableAssumption, NEW t, Sound(t), NEW k, k \in Key, NEW v, v \in Value,
         NEW p, p \in 0 .. t.capacity - 1, t.entries[p].key = k
  PROVE  /\ Sound([t EXCEPT !.entries[p].value = v])
         /\ [t EXCEPT !.entries[p].value = v].capacity = t.capacity
         /\ Place(t, k) = p /\ Maps(t, k, t.entries[p].value)
         /\ \A n \in Key, w \in Value :
              Maps([t EXCEPT !.entries[p].value = v], n, w) <=>
                IF n = k THEN w = v ELSE Maps(t, n, w)
<1>1. PICK e, c : e = t.entries /\ c = t.capacity
  OBVIOUS
<1>2. SoundArray(e, c) /\ t = TableOf(e, c)
  BY <1>1 DEF Sound
<1>3. c \in Nat /\ e \in Array(c) /\ WellPlaced(e, c) /\ Recalls(e, c) /\ k # NoKey
  BY <1>2 DEF SoundArray, TableAssumption
<1>4. p \in 0 .. c - 1 /\ e[p].key = k /\ c \in Nat \ {0}
  BY <1>1, <1>3
<1>5. HasHole(e, c)
  BY <1>2, <1>4, LeavesAHole
<1>6. FindEntry(e, c, k) = p
  BY <1>3, <1>4, PlacedIsFound
<1>7. Belongs(e, c, k, p)
  BY <1>3, <1>4, <1>5, <1>6, FindEntryBelongs
<1>8. PICK s : s = [key |-> k, value |-> v]
  OBVIOUS
<1>9. s \in Slot /\ ~ IsHole(s) /\ s = Entry(k, v)
  BY <1>3, <1>8 DEF Slot, IsHole, Entry
<1>10. PICK new : new = Put(e, p, s)
  OBVIOUS
<1>11. new \in Array(c) /\ NonHoles(new, c) = NonHoles(e, c)
  <2>1. NonHoles(new, c) = NonHoles(e, c) \cup {p} /\ new \in Array(c)
    BY <1>3, <1>4, <1>9, <1>10, PutNonHole, PutIs
  <2>2. p \in NonHoles(e, c)
    BY <1>3, <1>4 DEF NonHoles, IsHole
  <2> QED BY <2>1, <2>2
<1>12. WellPlaced(new, c) /\ Recalls(new, c) /\ AfterStore(new, e, c, k, v)
  BY <1>3, <1>4, <1>7, <1>8, <1>10, StoreKeepsPlaces, StoreRecalls, StoreHolds
<1>13. SoundArray(new, c)
  BY <1>2, <1>11, <1>12 DEF SoundArray
<1>14. [t EXCEPT !.entries[p].value = v] = TableOf(new, c)
  <2>1. t = [count |-> Cardinality(NonHoles(e, c)), capacity |-> c, entries |-> e]
    BY <1>2 DEF TableOf
  <2>2. PICK old : old = e[p]
    OBVIOUS
  <2>3. old \in Slot /\ old.key = k
    BY <1>3, <1>4, <2>2 DEF Array
  <2>4. [old EXCEPT !.value = v] = s
    BY <2>3, <1>8 DEF Slot
  <2>5. [e EXCEPT ![p].value = v] = new
    <3>1. [e EXCEPT ![p].value = v] = [e EXCEPT ![p] = [old EXCEPT !.value = v]]
      BY <2>2
    <3> QED BY <3>1, <2>4, <1>10 DEF Put
  <2>6. [t EXCEPT !.entries[p].value = v] = [t EXCEPT !.entries = [e EXCEPT ![p].value = v]]
    BY <1>1
  <2>7. [t EXCEPT !.entries = new] =
          [count |-> Cardinality(NonHoles(e, c)), capacity |-> c, entries |-> new]
    BY <2>1
  <2> QED BY <2>5, <2>6, <2>7, <1>11 DEF TableOf
<1>15. TableOf(new, c).capacity = c /\ \A n, w : Maps(TableOf(new, c), n, w) <=> Holds(new, c, n, w)
  BY <1>13, TableOfIs
<1>16. Place(t, k) = p /\ Maps(t, k, t.entries[p].value)
  BY <1>1, <1>4, <1>6 DEF Place, Maps, Holds
<1>17. Sound(TableOf(new, c))
  BY <1>13, TableOfIs
<1>18. \A n \in Key, w \in Value :
         Maps(TableOf(new, c), n, w) <=> IF n = k THEN w = v ELSE Maps(t, n, w)
  BY <1>1, <1>12, <1>15 DEF AfterStore, Maps
<1> QED BY <1>1, <1>14, <1>15, <1>16, <1>17, <1>18

(* tableSet reports a new key exactly when the key was mapped to nothing.  *)
LEMMA IsNewKeyIs ==
  ASSUME TableAssumption, NEW t, Sound(t), NEW k, k \in Key
  PROVE  IsNewKey(t, k) <=> \A w \in Value : ~ Maps(t, k, w)
<1>1. PICK e, c : /\ SoundArray(e, c) /\ HasRoom(e, c) /\ Grown(t) = TableOf(e, c)
                  /\ SameMapping(Grown(t), t) /\ t.capacity <= c
  BY GrownIs
<1>2. PICK p : p = FindEntry(e, c, k)
  OBVIOUS
<1>3. c # 0
  <2> SUFFICES ASSUME c = 0 PROVE FALSE
    OBVIOUS
  <2>1. PICK q, z : z = 0 /\ q = (z * 3) \div 4
    OBVIOUS
  <2>2. Cardinality(NonHoles(e, c)) \in Nat /\ Cardinality(NonHoles(e, c)) + 1 <= q
    BY <1>1, <2>1, NonHolesAreCounted DEF HasRoom, SoundArray
  <2>3. q \in Nat /\ 4 * q <= 3 * z
    BY <2>1, ThreeQuarters
  <2> QED BY <2>1, <2>2, <2>3
<1>4. Belongs(e, c, k, p) /\ e \in Array(c)
  BY <1>1, <1>2, <1>3, LeavesAHole, FindEntryBelongs DEF SoundArray
<1>5. IsNewKey(t, k) <=> e[p].key = NoKey
  <2>1. TableOf(e, c).entries = e /\ TableOf(e, c).capacity = c
    BY DEF TableOf
  <2> QED BY <2>1, <1>1, <1>2 DEF IsNewKey, Place
<1>6. \A w \in Value : Maps(t, k, w) <=> Holds(e, c, k, w)
  BY <1>1, TableOfIs DEF SameMapping
<1>7. CASE e[p].key = NoKey
  <2>1. \A h \in 0 .. c - 1 : e[h].key # k
    BY <1>4, <1>7 DEF Belongs
  <2> QED BY <2>1, <1>5, <1>6, <1>7 DEF Holds
<1>8. CASE e[p].key # NoKey
  <2>1. e[p].key = k /\ p \in 0 .. c - 1
    BY <1>4, <1>8 DEF Belongs
  <2>2. e[p].value \in Value /\ Holds(e, c, k, e[p].value)
    BY <2>1, <1>4 DEF Holds, Array, Slot
  <2> QED BY <2>2, <1>5, <1>6, <1>8
<1> QED BY <1>7, <1>8

(* Deleting keeps a table sound, and its key is mapped to nothing.         *)
LEMMA TableDeleteIs ==
  ASSUME TableAssumption, NEW t, Sound(t), NEW k, k \in Key
  PROVE  /\ Sound(TableDelete(t, k))
         /\ \A n \in Key, w \in Value :
              Maps(TableDelete(t, k), n, w) <=> n # k /\ Maps(t, n, w)
<1>1. PICK e, c : e = t.entries /\ c = t.capacity
  OBVIOUS
<1>2. SoundArray(e, c) /\ t = TableOf(e, c)
  BY <1>1 DEF Sound
<1>3. CASE ~ TableHas(t, k)
  <2>1. TableDelete(t, k) = t
    BY <1>3 DEF TableDelete
  <2>2. \A w \in Value : ~ Maps(t, k, w)
    BY <1>3, LookupIs
  <2> QED BY <2>1, <2>2
<1>4. CASE TableHas(t, k)
  <2>1. PICK p : p = Place(t, k)
    OBVIOUS
  <2>2. c # 0 /\ p \in 0 .. c - 1 /\ e[p].key = k
    BY <2>1, <1>1, <1>4, LookupIs
  <2>3. c \in Nat \ {0} /\ e \in Array(c) /\ WellPlaced(e, c) /\ Recalls(e, c) /\ k # NoKey
    BY <2>2, <1>2 DEF SoundArray, TableAssumption
  <2>4. PICK new : new = Put(e, p, Tombstone)
    OBVIOUS
  <2>5. WellPlaced(new, c)
    BY <2>2, <2>3, <2>4, DeleteKeepsPlaces
  <2>6. Recalls(new, c) /\ NonHoles(new, c) = NonHoles(e, c)
    BY <2>2, <2>3, <2>4, DeleteRecalls
  <2>7. new \in Array(c)
    <3>1. Tombstone \in Slot
      BY DEF Tombstone, Slot, TableAssumption
    <3> QED BY <3>1, <2>2, <2>3, <2>4, PutIs
  <2>8. SoundArray(new, c)
    BY <2>5, <2>6, <2>7, <1>2 DEF SoundArray
  <2>9. TableDelete(t, k) = TableOf(new, c)
    <3>1. t = [count |-> Cardinality(NonHoles(e, c)), capacity |-> c, entries |-> e]
      BY <1>2 DEF TableOf
    <3>2. TableDelete(t, k) = [t EXCEPT !.entries[p] = Tombstone]
      BY <2>1, <1>4 DEF TableDelete
    <3>3. TableDelete(t, k) =
            [count |-> Cardinality(NonHoles(e, c)), capacity |-> c, entries |-> new]
      BY <3>1, <3>2, <2>4 DEF Put
    <3> QED BY <3>3, <2>6 DEF TableOf
  <2>10. AfterDelete(new, e, c, k)
    BY <2>2, <2>3, <2>4, DeleteHolds
  <2>11. \A n \in Key, w \in Value :
           Maps(TableDelete(t, k), n, w) <=> n # k /\ Maps(t, n, w)
    <3>1. \A n, w : Maps(TableDelete(t, k), n, w) <=> Holds(new, c, n, w)
      BY <2>8, <2>9, TableOfIs
    <3> QED BY <3>1, <2>10, <1>1 DEF AfterDelete, Maps
  <2> QED BY <2>8, <2>9, <2>11, TableOfIs
<1> QED BY <1>3, <1>4

(* The invariant implies what makes a table correct: every search ends,    *)
(* every key is in one slot and is found there.                            *)
LEMMA SoundIsTable ==
  ASSUME TableAssumption, NEW t, Sound(t)
  PROVE  IsTable(t)
<1>1. PICK e, c : e = t.entries /\ c = t.capacity
  OBVIOUS
<1>2. SoundArray(e, c) /\ t = TableOf(e, c)
  BY <1>1 DEF Sound
<1>3. c \in Nat /\ e \in Array(c) /\ WellPlaced(e, c)
      /\ Cardinality(NonHoles(e, c)) <= (c * 3) \div 4
  BY <1>2 DEF SoundArray
<1>4. t.count = Cardinality(NonHoles(e, c))
  BY <1>2 DEF TableOf
<1>5. TableType(t)
  BY <1>1, <1>3, <1>4, NonHolesAreCounted DEF TableType, Array, Slot
<1>6. LoadIsBounded(t)
  BY <1>1, <1>3, <1>4 DEF LoadIsBounded, NonHoles
<1>7. KeysAreFound(t)
  <2> SUFFICES ASSUME NEW i \in Used(t) PROVE Place(t, t.entries[i].key) = i
    BY DEF KeysAreFound
  <2>1. i \in 0 .. c - 1 /\ e[i].key # NoKey
    BY <1>1 DEF Used
  <2>2. c \in Nat \ {0}
    BY <2>1, <1>3
  <2>3. FindEntry(e, c, e[i].key) = i
    BY <2>1, <2>2, <1>3, PlacedIsFound
  <2> QED BY <2>3, <1>1 DEF Place
<1> QED BY <1>5, <1>6, <1>7 DEF IsTable

(* A table has no more slots in use than there are keys.                   *)
LEMMA SoundIsSmall ==
  ASSUME NEW t, Sound(t), IsFiniteSet(Key)
  PROVE  t.count <= Cardinality(Key)
<1>1. PICK e, c : e = t.entries /\ c = t.capacity
  OBVIOUS
<1>2. SoundArray(e, c) /\ t.count = Cardinality(NonHoles(e, c))
  BY <1>1 DEF Sound, TableOf
<1> QED BY <1>2, RecalledKeys DEF SoundArray

-----------------------------------------------------------------------------
(* tableAddAll.                                                            *)

Tables == {t \in [count : Nat, capacity : Nat, entries : UNION {Array(c) : c \in Nat}] : Sound(t)}

LEMMA SoundIsInTables ==
  ASSUME NEW t, Sound(t)
  PROVE  t \in Tables
<1>1. PICK e, c : e = t.entries /\ c = t.capacity
  OBVIOUS
<1>2. SoundArray(e, c) /\ t = [count |-> Cardinality(NonHoles(e, c)), capacity |-> c, entries |-> e]
  BY <1>1 DEF Sound, TableOf
<1>3. c \in Nat /\ e \in Array(c)
  BY <1>2 DEF SoundArray
<1>4. Cardinality(NonHoles(e, c)) \in Nat
  BY <1>3, NonHolesAreCounted
<1>5. e \in UNION {Array(x) : x \in Nat}
  BY <1>3
<1>6. t \in [count : Nat, capacity : Nat, entries : UNION {Array(x) : x \in Nat}]
  BY <1>2, <1>3, <1>4, <1>5
<1> QED BY <1>6 DEF Tables

(* One slot is entered in the table. *)
Entered(t, slot) == IF slot.key = NoKey THEN t ELSE TableSet(t, slot.key, slot.value)

LEMMA EnteredIs ==
  ASSUME TableAssumption, NEW t, t \in Tables, NEW slot, slot \in Slot
  PROVE  /\ Entered(t, slot) \in Tables
         /\ slot.key = NoKey => Entered(t, slot) = t
         /\ slot.key # NoKey => \A n \in Key, w \in Value :
              Maps(Entered(t, slot), n, w) <=>
                IF n = slot.key THEN w = slot.value ELSE Maps(t, n, w)
<1>1. PICK k, v : k = slot.key /\ v = slot.value
  OBVIOUS
<1>2. k \in Key \cup {NoKey} /\ v \in Value /\ Sound(t)
  BY <1>1 DEF Slot, Tables
<1>3. CASE k = NoKey
  BY <1>1, <1>3 DEF Entered
<1>4. CASE k # NoKey
  <2>1. Entered(t, slot) = TableSet(t, k, v) /\ k \in Key
    BY <1>1, <1>2, <1>4 DEF Entered
  <2>2. /\ Sound(TableSet(t, k, v))
        /\ \A n \in Key, w \in Value :
             Maps(TableSet(t, k, v), n, w) <=> IF n = k THEN w = v ELSE Maps(t, n, w)
    BY <2>1, <1>2, TableSetIs
  <2>3. TableSet(t, k, v) \in Tables
    BY <2>2, SoundIsInTables
  <2> QED BY <2>1, <2>2, <2>3, <1>1, <1>4
<1> QED BY <1>3, <1>4

EntersOf(e, base, n, f) ==
  [s \in SUBSET (1 .. n) |->
     IF s = {} THEN base ELSE Entered(f[s \ {Max(s)}], e[Max(s) - 1])]

LEMMA AddAllIsAFold ==
  ASSUME NEW from, NEW n, n \in Nat, from.capacity = n, NEW to
  PROVE  TableAddAll(from, to) =
           (CHOOSE f : f = EntersOf(from.entries, to, n, f))[1 .. n]
<1>1. PICK seq : seq = [i \in 1 .. n |-> i - 1]
  OBVIOUS
<1>2. \A s \in SUBSET (1 .. n) : s # {} => Max(s) \in 1 .. n /\ seq[Max(s)] = Max(s) - 1
  <2> SUFFICES ASSUME NEW s \in SUBSET (1 .. n), s # {} PROVE Max(s) \in 1 .. n
    BY <1>1
  <2> QED BY MaxMember
<1>3. DOMAIN seq = 1 .. n
  BY <1>1
<1> DEFINE Old(f) == [s \in SUBSET DOMAIN seq |->
                        IF s = {} THEN to
                        ELSE Entered(f[s \ {Max(s)}], from.entries[seq[Max(s)]])]
<1>4. TableAddAll(from, to) = (CHOOSE f : f = Old(f))[DOMAIN seq]
  BY <1>1 DEF TableAddAll, FoldLeft, MapThenFoldSet, Entered
<1>5. \A f : Old(f) = EntersOf(from.entries, to, n, f)
  BY <1>2, <1>3 DEF EntersOf
<1> HIDE DEF Old
<1>6. (CHOOSE f : f = Old(f)) = CHOOSE f : f = EntersOf(from.entries, to, n, f)
  BY <1>5
<1> QED BY <1>3, <1>4, <1>6

(* The tables between the first and the last. *)
Enters(m, e, n, base, last) ==
  /\ m[0] = base /\ m[n] = last
  /\ \A i \in 0 .. n - 1 : m[i + 1] = Entered(m[i], e[i])

LEMMA AddAllEnters ==
  ASSUME TableAssumption, NEW from, NEW n, n \in Nat, from.capacity = n,
         NEW e, e \in Array(n), from.entries = e, NEW to, to \in Tables
  PROVE  \E m : Enters(m, e, n, to, TableAddAll(from, to))
<1>1. PICK step : step = [x \in Tables \X (1 .. n) |-> Entered(x[1], e[x[2] - 1])]
  OBVIOUS
<1>2. ASSUME NEW a \in Tables, NEW i \in 1 .. n
      PROVE  step[<<a, i>>] = Entered(a, e[i - 1]) /\ step[<<a, i>>] \in Tables
  <2>1. e[i - 1] \in Slot
    BY DEF Array
  <2>2. Entered(a, e[i - 1]) \in Tables
    BY <2>1, EnteredIs
  <2>3. <<a, i>> \in Tables \X (1 .. n) /\ <<a, i>>[1] = a /\ <<a, i>>[2] = i
    OBVIOUS
  <2>4. step[<<a, i>>] = Entered(a, e[i - 1])
    BY <2>3, <1>1
  <2> QED BY <2>2, <2>4
<1>3. step \in [Tables \X (1 .. n) -> Tables]
  <2>1. \A x \in Tables \X (1 .. n) : step[x] \in Tables
    <3> SUFFICES ASSUME NEW x \in Tables \X (1 .. n) PROVE step[x] \in Tables
      OBVIOUS
    <3>1. PICK a \in Tables, i \in 1 .. n : x = <<a, i>>
      OBVIOUS
    <3> QED BY <3>1, <1>2
  <2>2. step = [x \in Tables \X (1 .. n) |-> step[x]]
    BY <1>1
  <2> QED BY <2>1, <2>2
<1>4. PICK f \in [SUBSET (1 .. n) -> Tables] : Follows(f, n, to, step)
  BY <1>3, FoldExists
<1>5. f = EntersOf(e, to, n, f)
  <2>1. ASSUME NEW s \in SUBSET (1 .. n)
        PROVE  f[s] = IF s = {} THEN to ELSE Entered(f[s \ {Max(s)}], e[Max(s) - 1])
    <3>1. CASE s = {}
      BY <3>1, <1>4 DEF Follows
    <3>2. CASE s # {}
      <4>1. PICK i \in 1 .. n : i = Max(s)
        BY <3>2, MaxMember
      <4>2. s \ {i} \in SUBSET (1 .. n)
        OBVIOUS
      <4>3. PICK a \in Tables : a = f[s \ {i}]
        BY <4>2
      <4>4. f[s] = step[<<a, i>>]
        BY <3>2, <4>1, <4>3, <1>4 DEF Follows
      <4> QED BY <3>2, <4>1, <4>3, <4>4, <1>2
    <3> QED BY <3>1, <3>2
  <2>2. f = [s \in SUBSET (1 .. n) |-> f[s]]
    OBVIOUS
  <2> QED BY <2>1, <2>2 DEF EntersOf
<1>6. PICK g : g = CHOOSE h : h = EntersOf(e, to, n, h)
  OBVIOUS
<1>7. g = EntersOf(e, to, n, g)
  BY <1>5, <1>6
<1>8. g[1 .. n] = TableAddAll(from, to)
  BY <1>6, AddAllIsAFold
<1>9. g[{}] = to
  <2>1. {} \in SUBSET (1 .. n)
    OBVIOUS
  <2>2. EntersOf(e, to, n, g)[{}] = to
    BY <2>1 DEF EntersOf
  <2> QED BY <2>2, <1>7
<1>10. ASSUME NEW i \in 0 .. n - 1 PROVE g[1 .. i + 1] = Entered(g[1 .. i], e[i])
  <2>1. PICK s : s = 1 .. i + 1
    OBVIOUS
  <2>2. PICK j : j = i + 1
    OBVIOUS
  <2>3. s \in SUBSET (1 .. n) /\ s # {} /\ j \in s /\ s \subseteq Nat /\ \A x \in s : x <= j
    <3>1. j \in 1 .. n /\ s = 1 .. j
      BY <2>1, <2>2
    <3>2. \A x \in s : x \in Nat /\ x \in 1 .. n /\ x <= j
      BY <3>1
    <3>3. j \in s
      BY <3>1
    <3> QED BY <3>2, <3>3
  <2>4. Max(s) = j
    BY <2>3, MaxIs
  <2>5. s \ {j} = 1 .. i /\ j - 1 = i
    BY <2>1, <2>2
  <2>6. EntersOf(e, to, n, g)[s] = Entered(g[s \ {j}], e[j - 1])
    BY <2>3, <2>4 DEF EntersOf
  <2> QED BY <2>1, <2>5, <2>6, <1>7
<1>11. PICK m : m = [i \in 0 .. n |-> g[1 .. i]]
  OBVIOUS
<1>12. m[0] = to /\ m[n] = g[1 .. n]
  <2>1. 1 .. 0 = {} /\ 0 \in 0 .. n /\ n \in 0 .. n
    OBVIOUS
  <2> QED BY <2>1, <1>9, <1>11
<1>13. \A i \in 0 .. n - 1 : m[i + 1] = Entered(m[i], e[i])
  <2> SUFFICES ASSUME NEW i \in 0 .. n - 1 PROVE m[i + 1] = Entered(m[i], e[i])
    OBVIOUS
  <2>1. i \in 0 .. n /\ i + 1 \in 0 .. n
    OBVIOUS
  <2>2. m[i] = g[1 .. i] /\ m[i + 1] = g[1 .. i + 1]
    BY <2>1, <1>11
  <2> QED BY <2>2, <1>10
<1> QED BY <1>8, <1>12, <1>13 DEF Enters

(* The first i slots of e have been entered in t, which was to.            *)
Merged(t, e, i, to) ==
  /\ t \in Tables
  /\ \A k \in Key, w \in Value :
       Maps(t, k, w) <=> IF \E v \in Value : Holds(e, i, k, v) THEN Holds(e, i, k, w)
                         ELSE Maps(to, k, w)

LEMMA EnterKeeps ==
  ASSUME TableAssumption, NEW n, n \in Nat, NEW e, e \in Array(n), WellPlaced(e, n),
         NEW to, NEW i, i \in 0 .. n - 1, NEW t, Merged(t, e, i, to)
  PROVE  Merged(Entered(t, e[i]), e, i + 1, to)
<1>1. PICK j : j = i + 1
  OBVIOUS
<1>2. PICK s \in Slot : s = e[i]
  BY DEF Array
<1>3. PICK k, v : k = s.key /\ v = s.value
  OBVIOUS
<1>4. k \in Key \cup {NoKey} /\ v \in Value /\ i \in Nat /\ t \in Tables
  BY <1>3 DEF Slot, Merged
<1>5. \A x : x \in 0 .. j - 1 <=> x \in 0 .. i - 1 \/ x = i
  BY <1>1, <1>4
<1>6. ASSUME NEW q \in Key, NEW w \in Value
      PROVE  Holds(e, j, q, w) <=> Holds(e, i, q, w) \/ (q = k /\ w = v)
  BY <1>2, <1>3, <1>5 DEF Holds
<1>7. PICK new : new = Entered(t, s)
  OBVIOUS
<1>8. new \in Tables
  BY <1>4, <1>7, EnteredIs
<1>9. CASE k = NoKey
  <2>1. new = t
    BY <1>3, <1>4, <1>7, <1>9, EnteredIs
  <2>2. \A q \in Key : q # k
    BY <1>9 DEF TableAssumption
  <2>3. \A q \in Key, w \in Value : Holds(e, j, q, w) <=> Holds(e, i, q, w)
    BY <2>2, <1>6
  <2>4. Merged(new, e, j, to)
    BY <2>1, <2>3 DEF Merged
  <2> QED BY <2>4, <1>1, <1>2, <1>7
<1>10. CASE k # NoKey
  <2>1. k \in Key
    BY <1>4, <1>10
  <2>2. \A w \in Value : ~ Holds(e, i, k, w)
    <3> SUFFICES ASSUME NEW w \in Value, Holds(e, i, k, w) PROVE FALSE
      OBVIOUS
    <3>1. PICK h \in 0 .. i - 1 : e[h].key = k
      BY DEF Holds
    <3>2. h \in 0 .. n - 1 /\ i \in 0 .. n - 1 /\ h # i
      BY <1>4
    <3>3. h = i
      BY <3>1, <3>2, <1>2, <1>3, <1>10, OneSlot
    <3> QED BY <3>2, <3>3
  <2>3. ASSUME NEW q \in Key, NEW w \in Value
        PROVE  Maps(new, q, w) <=> IF \E x \in Value : Holds(e, j, q, x) THEN Holds(e, j, q, w)
                                   ELSE Maps(to, q, w)
    <3>1. Maps(new, q, w) <=> IF q = k THEN w = v ELSE Maps(t, q, w)
      BY <1>3, <1>4, <1>7, <1>10, EnteredIs
    <3>2. CASE q = k
      <4>1. \A x \in Value : Holds(e, j, q, x) <=> x = v
        BY <3>2, <2>2, <1>6
      <4> QED BY <4>1, <3>1, <3>2, <1>4
    <3>3. CASE q # k
      <4>1. \A x \in Value : Holds(e, j, q, x) <=> Holds(e, i, q, x)
        BY <3>3, <1>6
      <4> QED BY <4>1, <3>1, <3>3 DEF Merged
    <3> QED BY <3>2, <3>3
  <2>4. Merged(new, e, j, to)
    BY <2>3, <1>8 DEF Merged
  <2> QED BY <2>4, <1>1, <1>2, <1>7
<1> QED BY <1>9, <1>10

(* Copying all entries keeps a table sound; they hide the ones it had.     *)
LEMMA AddAllIs ==
  ASSUME TableAssumption, NEW from, Sound(from), NEW to, Sound(to)
  PROVE  /\ Sound(TableAddAll(from, to))
         /\ \A k \in Key, w \in Value :
              Maps(TableAddAll(from, to), k, w) <=>
                IF \E v \in Value : Maps(from, k, v) THEN Maps(from, k, w) ELSE Maps(to, k, w)
<1>1. PICK e, n : e = from.entries /\ n = from.capacity
  OBVIOUS
<1>2. n \in Nat /\ e \in Array(n) /\ WellPlaced(e, n) /\ to \in Tables
  BY <1>1, SoundIsInTables DEF Sound, SoundArray
<1>3. PICK m : Enters(m, e, n, to, TableAddAll(from, to))
  BY <1>1, <1>2, AddAllEnters
<1>4. Merged(to, e, 0, to)
  <2>1. \A k, w : ~ Holds(e, 0, k, w)
    BY DEF Holds
  <2> QED BY <2>1, <1>2 DEF Merged
<1> DEFINE Good == {i \in 0 .. n : Merged(m[i], e, i, to)}
<1>5. 0 \in Good
  BY <1>2, <1>3, <1>4 DEF Enters
<1>6. ASSUME NEW i, i \in Nat, i < n, i \in Good PROVE i + 1 \in Good
  <2>1. i \in 0 .. n - 1 /\ i + 1 \in 0 .. n
    BY <1>2, <1>6
  <2>2. PICK a : a = m[i] /\ Merged(a, e, i, to)
    BY <1>6
  <2>3. Merged(Entered(a, e[i]), e, i + 1, to)
    BY <2>1, <2>2, <1>2, EnterKeeps
  <2>4. m[i + 1] = Entered(a, e[i])
    BY <2>1, <2>2, <1>3 DEF Enters
  <2> QED BY <2>1, <2>3, <2>4
<1>7. n \in Good
  <2>1. n \in 0 .. n
    BY <1>2
  <2> HIDE DEF Good
  <2>2. \A i \in 0 .. n : i \in Good
    BY <1>2, <1>5, <1>6, Induct
  <2> QED BY <2>1, <2>2
<1>8. Merged(TableAddAll(from, to), e, n, to)
  BY <1>3, <1>7 DEF Enters
<1> QED BY <1>1, <1>8 DEF Merged, Tables, Maps

-----------------------------------------------------------------------------
(* The mapping a table stands for.                                         *)

(* What a table maps k to, or else d. *)
Mapped(t, k, d) ==
  IF Slots(t, k) = {} THEN d ELSE t.entries[CHOOSE i \in Slots(t, k) : TRUE].value

LEMMA MappedIs ==
  ASSUME TableAssumption, NEW d, d \notin Value, NEW t, t \in Tables, NEW k, k \in Key
  PROVE  /\ Mapped(t, k, d) \in Value \cup {d}
         /\ \A w \in Value : Mapped(t, k, d) = w <=> Maps(t, k, w)
         /\ Mapped(t, k, d) = IF TableHas(t, k) THEN TableGet(t, k) ELSE d
<1>1. PICK e, c : e = t.entries /\ c = t.capacity
  OBVIOUS
<1>2. SoundArray(e, c) /\ Sound(t)
  BY <1>1 DEF Tables, Sound
<1>3. c \in Nat /\ e \in Array(c) /\ WellPlaced(e, c) /\ k # NoKey
  BY <1>2 DEF SoundArray, TableAssumption
<1>4. PICK s : s = Slots(t, k)
  OBVIOUS
<1>5. s = {i \in 0 .. c - 1 : e[i].key = k}
  BY <1>1, <1>4 DEF Slots
<1>6. Mapped(t, k, d) = IF s = {} THEN d ELSE e[CHOOSE i \in s : TRUE].value
  BY <1>1, <1>4 DEF Mapped
<1>7. CASE s = {}
  <2>1. \A w \in Value : ~ Maps(t, k, w)
    BY <1>1, <1>5, <1>7 DEF Maps, Holds
  <2>2. ~ TableHas(t, k)
    BY <2>1, <1>2, LookupIs
  <2> QED BY <2>1, <2>2, <1>6, <1>7
<1>8. CASE s # {}
  <2>1. PICK i : i \in s /\ i = CHOOSE j \in s : TRUE
    BY <1>8
  <2>2. i \in 0 .. c - 1 /\ e[i].key = k /\ e[i].value \in Value
    BY <2>1, <1>3, <1>5 DEF Array, Slot
  <2>3. Maps(t, k, e[i].value)
    BY <2>2, <1>1 DEF Maps, Holds
  <2>4. TableHas(t, k) /\ \A w \in Value : Maps(t, k, w) => w = TableGet(t, k)
    BY <2>2, <2>3, <1>2, LookupIs
  <2>5. e[i].value = TableGet(t, k)
    BY <2>2, <2>3, <2>4
  <2>6. Mapped(t, k, d) = e[i].value
    BY <2>1, <1>6, <1>8
  <2> QED BY <2>2, <2>3, <2>4, <2>5, <2>6
<1> QED BY <1>7, <1>8

LEMMA ContentsIs ==
  ASSUME FieldsAssumption, NEW t, t \in Tables, NEW k, k \in Key
  PROVE  /\ Contents(t)[k] \in Value \cup {Absent}
         /\ \A w \in Value : Contents(t)[k] = w <=> Maps(t, k, w)
         /\ Contents(t)[k] = IF TableHas(t, k) THEN TableGet(t, k) ELSE Absent
<1>1. TableAssumption /\ Absent \notin Value
  BY DEF FieldsAssumption
<1>2. Contents(t)[k] = Mapped(t, k, Absent)
  BY DEF Contents, Mapped
<1>3. PICK d : d = Absent
  OBVIOUS
<1> QED BY <1>1, <1>2, <1>3, MappedIs

(* Two tables that map a key to the same value have the same contents.     *)
LEMMA SameContents ==
  ASSUME FieldsAssumption, NEW t, t \in Tables, NEW k, k \in Key,
         NEW x, x \in Value \cup {Absent},
         \A w \in Value : Maps(t, k, w) <=> w = x
  PROVE  Contents(t)[k] = x
  BY ContentsIs DEF FieldsAssumption

LEMMA StoredContents ==
  ASSUME FieldsAssumption, NEW t, t \in Tables, NEW k, k \in Key, NEW v, v \in Value
  PROVE  /\ TableSet(t, k, v) \in Tables
         /\ Contents(TableSet(t, k, v)) = [Contents(t) EXCEPT ![k] = v]
<1>1. PICK new : new = TableSet(t, k, v)
  OBVIOUS
<1>2. TableAssumption /\ Sound(t)
  BY DEF FieldsAssumption, Tables
<1>3. new \in Tables
  BY <1>1, <1>2, TableSetIs, SoundIsInTables
<1>4. \A n \in Key, w \in Value : Maps(new, n, w) <=> IF n = k THEN w = v ELSE Maps(t, n, w)
  BY <1>1, <1>2, TableSetIs
<1>5. ASSUME NEW n \in Key PROVE Contents(new)[n] = IF n = k THEN v ELSE Contents(t)[n]
  <2>1. CASE n = k
    <3>1. \A w \in Value : Maps(new, k, w) <=> w = v
      BY <1>4
    <3> QED BY <2>1, <3>1, <1>3, SameContents
  <2>2. CASE n # k
    <3>1. PICK x : x = Contents(t)[n]
      OBVIOUS
    <3>2. x \in Value \cup {Absent} /\ \A w \in Value : Maps(t, n, w) <=> w = x
      BY <3>1, ContentsIs
    <3>3. \A w \in Value : Maps(new, n, w) <=> w = x
      BY <2>2, <3>2, <1>4
    <3> QED BY <2>2, <3>1, <3>2, <3>3, <1>3, SameContents
  <2> QED BY <2>1, <2>2
<1>6. Contents(new) = [Contents(t) EXCEPT ![k] = v]
  BY <1>5 DEF Contents
<1> QED BY <1>1, <1>3, <1>6

LEMMA DeletedContents ==
  ASSUME FieldsAssumption, NEW t, t \in Tables, NEW k, k \in Key
  PROVE  /\ TableDelete(t, k) \in Tables
         /\ Contents(TableDelete(t, k)) = [Contents(t) EXCEPT ![k] = Absent]
<1>1. PICK new : new = TableDelete(t, k)
  OBVIOUS
<1>2. TableAssumption /\ Sound(t) /\ Absent \notin Value
  BY DEF FieldsAssumption, Tables
<1>3. new \in Tables
  BY <1>1, <1>2, TableDeleteIs, SoundIsInTables
<1>4. \A n \in Key, w \in Value : Maps(new, n, w) <=> n # k /\ Maps(t, n, w)
  BY <1>1, <1>2, TableDeleteIs
<1>5. ASSUME NEW n \in Key PROVE Contents(new)[n] = IF n = k THEN Absent ELSE Contents(t)[n]
  <2>1. CASE n = k
    <3>1. \A w \in Value : Maps(new, k, w) <=> w = Absent
      BY <1>2, <1>4
    <3> QED BY <2>1, <3>1, <1>3, SameContents
  <2>2. CASE n # k
    <3>1. PICK x : x = Contents(t)[n]
      OBVIOUS
    <3>2. x \in Value \cup {Absent} /\ \A w \in Value : Maps(t, n, w) <=> w = x
      BY <3>1, ContentsIs
    <3>3. \A w \in Value : Maps(new, n, w) <=> w = x
      BY <2>2, <3>2, <1>4
    <3> QED BY <2>2, <3>1, <3>2, <3>3, <1>3, SameContents
  <2> QED BY <2>1, <2>2
<1>6. Contents(new) = [Contents(t) EXCEPT ![k] = Absent]
  BY <1>5 DEF Contents
<1> QED BY <1>1, <1>3, <1>6

LEMMA CopiedContents ==
  ASSUME FieldsAssumption, NEW from, from \in Tables, NEW to, to \in Tables
  PROVE  /\ TableAddAll(from, to) \in Tables
         /\ Contents(TableAddAll(from, to)) =
              [k \in Key |-> IF Contents(from)[k] = Absent THEN Contents(to)[k]
                             ELSE Contents(from)[k]]
<1>1. PICK new : new = TableAddAll(from, to)
  OBVIOUS
<1>2. TableAssumption /\ Sound(from) /\ Sound(to) /\ Absent \notin Value
  BY DEF FieldsAssumption, Tables
<1>3. new \in Tables
  BY <1>1, <1>2, AddAllIs, SoundIsInTables
<1>4. \A k \in Key, w \in Value :
        Maps(new, k, w) <=>
          IF \E v \in Value : Maps(from, k, v) THEN Maps(from, k, w) ELSE Maps(to, k, w)
  BY <1>1, <1>2, AddAllIs
<1>5. ASSUME NEW k \in Key
      PROVE  Contents(new)[k] = IF Contents(from)[k] = Absent THEN Contents(to)[k]
                                ELSE Contents(from)[k]
  <2>1. PICK x, y : x = Contents(from)[k] /\ y = Contents(to)[k]
    OBVIOUS
  <2>2. x \in Value \cup {Absent} /\ \A w \in Value : Maps(from, k, w) <=> w = x
    BY <2>1, ContentsIs
  <2>3. y \in Value \cup {Absent} /\ \A w \in Value : Maps(to, k, w) <=> w = y
    BY <2>1, ContentsIs
  <2>4. \A w \in Value : Maps(new, k, w) <=> w = IF x = Absent THEN y ELSE x
    BY <2>2, <2>3, <1>2, <1>4
  <2>5. PICK z : z = IF x = Absent THEN y ELSE x
    OBVIOUS
  <2>6. z \in Value \cup {Absent} /\ \A w \in Value : Maps(new, k, w) <=> w = z
    BY <2>2, <2>3, <2>4, <2>5
  <2>7. Contents(new)[k] = z
    BY <2>6, <1>3, SameContents
  <2> QED BY <2>1, <2>5, <2>7
<1>6. Contents(new) = [k \in Key |-> IF Contents(from)[k] = Absent THEN Contents(to)[k]
                                     ELSE Contents(from)[k]]
  BY <1>5 DEF Contents
<1> QED BY <1>1, <1>3, <1>6

-----------------------------------------------------------------------------
(* The tables of instances and classes.                                    *)

TablesInv == program \in Programs /\ tables \in [Owner -> Tables]

LEMMA EmptyInTables ==
  ASSUME FieldsAssumption
  PROVE  EmptyTable \in Tables
  BY EmptyIsSound, SoundIsInTables DEF FieldsAssumption

LEMMA NamesAreKeys ==
  ASSUME FieldsAssumption, TablesInv, NEW o \in Owner, NEW k \in program[o]
  PROVE  k \in Key
  BY DEF FieldsAssumption, TablesInv

LEMMA NextKeepsTables ==
  ASSUME FieldsAssumption, TablesInv, [Next]_vars
  PROVE  TablesInv'
<1>1. CASE UNCHANGED vars
  BY <1>1 DEF TablesInv, vars
<1>2. ASSUME NEW o \in Owner, NEW k \in program[o], GetProperty(o, k)
      PROVE  TablesInv'
  BY <1>2 DEF TablesInv, GetProperty
<1>3. ASSUME NEW o \in Owner, NEW k \in program[o], NEW value \in Value,
             SetProperty(o, k, value)
      PROVE  TablesInv'
  <2>1. k \in Key /\ tables[o] \in Tables
    BY NamesAreKeys DEF TablesInv
  <2>2. PICK t : t = IF value = Nil THEN TableDelete(tables[o], k)
                     ELSE TableSet(tables[o], k, value)
    OBVIOUS
  <2>3. t \in Tables
    BY <2>1, <2>2, StoredContents, DeletedContents
  <2>4. tables' = [tables EXCEPT ![o] = t] /\ UNCHANGED program
    BY <2>2, <1>3 DEF SetProperty
  <2> QED BY <2>3, <2>4 DEF TablesInv
<1>4. ASSUME NEW o \in Owner, NEW k \in program[o], NEW value \in Value,
             NewProperty(o, k, value)
      PROVE  TablesInv'
  <2>1. k \in Key /\ tables[o] \in Tables
    BY NamesAreKeys DEF TablesInv
  <2>2. PICK t : t = TableSet(tables[o], k, value)
    OBVIOUS
  <2>3. t \in Tables
    BY <2>1, <2>2, StoredContents
  <2>4. tables' = [tables EXCEPT ![o] = t] /\ UNCHANGED program
    BY <2>2, <1>4 DEF NewProperty
  <2> QED BY <2>3, <2>4 DEF TablesInv
<1>5. ASSUME NEW super \in Owner, NEW sub \in Owner, Inherit(super, sub)
      PROVE  TablesInv'
  <2>1. tables[super] \in Tables /\ tables[sub] \in Tables
    BY DEF TablesInv
  <2>2. PICK t : t = TableAddAll(tables[super], tables[sub])
    OBVIOUS
  <2>3. t \in Tables
    BY <2>1, <2>2, CopiedContents
  <2>4. tables' = [tables EXCEPT ![sub] = t] /\ UNCHANGED program
    BY <2>2, <1>5 DEF Inherit
  <2> QED BY <2>3, <2>4 DEF TablesInv
<1> QED BY <1>1, <1>2, <1>3, <1>4, <1>5 DEF Next

(* Every table is Sound in every reachable state.                          *)
THEOREM TablesInvariant ==
  ASSUME FieldsAssumption
  PROVE  Spec => []TablesInv
<1>1. Init => TablesInv
  BY EmptyInTables DEF Init, TablesInv
<1>2. TablesInv /\ [Next]_vars => TablesInv'
  BY NextKeepsTables
<1> QED BY <1>1, <1>2, PTL DEF Spec

(* Whatever is set, deleted and inherited, in whatever order: a quarter of *)
(* every array is free, so every search ends, and it ends at the one slot  *)
(* that has the key (findEntry, tableSet, tableDelete, adjustCapacity).    *)
THEOREM TablesStayOK ==
  ASSUME FieldsAssumption
  PROVE  Spec => []TablesOK
<1>1. TablesInv => TablesOK
  <2> SUFFICES ASSUME TablesInv, NEW o \in Owner PROVE IsTable(tables[o])
    BY DEF TablesOK
  <2>1. PICK t : t = tables[o]
    OBVIOUS
  <2>2. Sound(t)
    BY <2>1 DEF TablesInv, Tables
  <2> QED BY <2>1, <2>2, SoundIsTable DEF FieldsAssumption
<1> QED BY <1>1, TablesInvariant, PTL

(* A table never uses more slots than there are keys: a key that is set    *)
(* again is put in the first tombstone on its way.                         *)
THEOREM TombstonesStayFew ==
  ASSUME FieldsAssumption
  PROVE  Spec => []TombstonesAreReused
<1>1. TablesInv => TombstonesAreReused
  <2> SUFFICES ASSUME TablesInv, NEW o \in Owner
               PROVE  tables[o].count <= Cardinality(Key)
    BY DEF TombstonesAreReused
  <2>1. PICK t : t = tables[o]
    OBVIOUS
  <2>2. Sound(t)
    BY <2>1 DEF TablesInv, Tables
  <2> QED BY <2>1, <2>2, SoundIsSmall DEF FieldsAssumption
<1> QED BY <1>1, TablesInvariant, PTL

-----------------------------------------------------------------------------
(* The refinement of dictionaries.                                         *)

Dictionaries == [o \in Owner |-> Contents(tables[o])]

LEMMA UpdatedDictionaries ==
  ASSUME TablesInv, NEW o \in Owner, NEW t, tables' = [tables EXCEPT ![o] = t]
  PROVE  Dictionaries' = [Dictionaries EXCEPT ![o] = Contents(t)]
<1>1. ASSUME NEW n \in Owner
      PROVE  Contents(tables'[n]) = IF n = o THEN Contents(t) ELSE Contents(tables[n])
  <2>1. tables'[n] = IF n = o THEN t ELSE tables[n]
    BY DEF TablesInv
  <2> QED BY <2>1
<1> QED BY <1>1 DEF Dictionaries

LEMMA NextIsADictionaryStep ==
  ASSUME FieldsAssumption, TablesInv, [Next]_vars
  PROVE  [D!Next]_(D!vars)
<1>1. CASE UNCHANGED vars
  BY <1>1 DEF vars, D!vars
<1>2. ASSUME NEW o \in Owner, NEW k \in program[o], GetProperty(o, k)
      PROVE  D!Next
  <2>1. k \in Key /\ tables[o] \in Tables
    BY NamesAreKeys DEF TablesInv
  <2>2. PICK v : v = Dictionaries[o][k]
    OBVIOUS
  <2>3. v \in Value \cup {D!Absent} /\ answer' = <<"lookup", o, k, v>>
    <3>1. PICK t : t = tables[o]
      OBVIOUS
    <3>2. /\ Contents(t)[k] \in Value \cup {Absent}
          /\ Contents(t)[k] = IF TableHas(t, k) THEN TableGet(t, k) ELSE Absent
      BY <2>1, <3>1, ContentsIs
    <3>3. v = Contents(t)[k]
      BY <2>2, <3>1 DEF Dictionaries
    <3>4. answer' = <<"lookup", o, k, IF TableHas(t, k) THEN TableGet(t, k) ELSE Absent>>
      BY <3>1, <1>2 DEF GetProperty
    <3> QED BY <3>2, <3>3, <3>4 DEF D!Absent, Absent
  <2>4. Dictionaries' = Dictionaries
    BY <1>2 DEF GetProperty, Dictionaries
  <2>5. D!Lookup(o, k, v)
    BY <2>2, <2>3, <2>4 DEF Dictionaries, D!Lookup
  <2> QED BY <2>1, <2>3, <2>5 DEF D!Next
<1>3. ASSUME NEW o \in Owner, NEW k \in program[o], NEW value \in Value,
             SetProperty(o, k, value)
      PROVE  D!Next
  <2>1. k \in Key /\ tables[o] \in Tables
    BY NamesAreKeys DEF TablesInv
  <2>2. PICK old, t : /\ old = tables[o]
                      /\ t = IF value = Nil THEN TableDelete(old, k)
                             ELSE TableSet(old, k, value)
    OBVIOUS
  <2>3. PICK v : v = IF value = Nil THEN Absent ELSE value
    OBVIOUS
  <2>4. Contents(t) = [Contents(old) EXCEPT ![k] = v]
    BY <2>1, <2>2, <2>3, StoredContents, DeletedContents
  <2>5. tables' = [tables EXCEPT ![o] = t]
    BY <2>2, <1>3 DEF SetProperty
  <2>6. Dictionaries' = [Dictionaries EXCEPT ![o][k] = v]
    <3>0. Dictionaries[o] = Contents(old)
      BY <2>2 DEF Dictionaries
    <3>1. PICK d : d = Dictionaries /\ d[o] = Contents(old)
      BY <3>0
    <3>2. Dictionaries' = [d EXCEPT ![o] = Contents(t)]
      BY <3>1, <2>5, UpdatedDictionaries
    <3>3. [d EXCEPT ![o] = [Contents(old) EXCEPT ![k] = v]] = [d EXCEPT ![o][k] = v]
      BY <3>1
    <3> QED BY <3>1, <3>2, <3>3, <2>4
  <2>7. D!Assign(o, k, value)
    BY <2>3, <2>6, <1>3 DEF SetProperty, Dictionaries, D!Assign, D!Absent, Absent
  <2> QED BY <2>1, <2>7 DEF D!Next
<1>4. ASSUME NEW o \in Owner, NEW k \in program[o], NEW value \in Value,
             NewProperty(o, k, value)
      PROVE  D!Next
  <2>1. k \in Key /\ tables[o] \in Tables
    BY NamesAreKeys DEF TablesInv
  <2>2. PICK old, t : old = tables[o] /\ t = TableSet(old, k, value)
    OBVIOUS
  <2>3. Contents(t) = [Contents(old) EXCEPT ![k] = value]
    BY <2>1, <2>2, StoredContents
  <2>4. tables' = [tables EXCEPT ![o] = t]
    BY <2>2, <1>4 DEF NewProperty
  <2>5. Dictionaries' = [Dictionaries EXCEPT ![o][k] = value]
    <3>0. Dictionaries[o] = Contents(old)
      BY <2>2 DEF Dictionaries
    <3>1. PICK d : d = Dictionaries /\ d[o] = Contents(old)
      BY <3>0
    <3>2. Dictionaries' = [d EXCEPT ![o] = Contents(t)]
      BY <3>1, <2>4, UpdatedDictionaries
    <3>3. [d EXCEPT ![o] = [Contents(old) EXCEPT ![k] = value]] = [d EXCEPT ![o][k] = value]
      BY <3>1
    <3> QED BY <3>1, <3>2, <3>3, <2>3
  <2>6. D!Initialise(o, k, value)
    BY <2>5, <1>4 DEF NewProperty, Dictionaries, D!Initialise
  <2> QED BY <2>1, <2>6 DEF D!Next
<1>5. ASSUME NEW super \in Owner, NEW sub \in Owner, Inherit(super, sub)
      PROVE  D!Next
  <2>1. tables[super] \in Tables /\ tables[sub] \in Tables
    BY DEF TablesInv
  <2>2. PICK from, to, t : /\ from = tables[super] /\ to = tables[sub]
                           /\ t = TableAddAll(from, to)
    OBVIOUS
  <2>3. Contents(t) = [k \in Key |-> IF Contents(from)[k] = Absent THEN Contents(to)[k]
                                     ELSE Contents(from)[k]]
    BY <2>1, <2>2, CopiedContents
  <2>4. tables' = [tables EXCEPT ![sub] = t]
    BY <2>2, <1>5 DEF Inherit
  <2>5. Dictionaries' = [Dictionaries EXCEPT ![sub] = Contents(t)]
    BY <2>4, UpdatedDictionaries
  <2>6. Dictionaries[super] = Contents(from) /\ Dictionaries[sub] = Contents(to)
    BY <2>2 DEF Dictionaries
  <2>7. PICK d : d = Dictionaries
    OBVIOUS
  <2>8. Contents(t) = [k \in Key |-> IF d[super][k] = Absent THEN d[sub][k] ELSE d[super][k]]
    BY <2>3, <2>6, <2>7
  <2>9. Dictionaries' = [d EXCEPT ![sub] = [k \in Key |-> IF d[super][k] = Absent THEN @[k]
                                                         ELSE d[super][k]]]
    BY <2>5, <2>7, <2>8
  <2>10. D!CopyAll(super, sub)
    BY <2>7, <2>9, <1>5 DEF Inherit, Dictionaries, D!CopyAll, D!Absent, Absent
  <2> QED BY <2>10 DEF D!Next
<1> QED BY <1>1, <1>2, <1>3, <1>4, <1>5 DEF Next

(* Instances and classes are dictionaries: a lookup finds what was stored   *)
(* last, a property set to nil is gone, a subclass starts with the methods  *)
(* of its superclass (tableGet, tableSet, tableDelete, tableAddAll).        *)
THEOREM FieldsAreDictionaries ==
  ASSUME FieldsAssumption
  PROVE  Spec => ImplementsDictionary
<1>1. Init => D!Init
  <2> SUFFICES ASSUME Init PROVE D!Init
    OBVIOUS
  <2>1. \A k \in Key : Contents(EmptyTable)[k] = Absent
    <3> SUFFICES ASSUME NEW k \in Key PROVE Contents(EmptyTable)[k] = Absent
      OBVIOUS
    <3>1. \A w \in Value : ~ Maps(EmptyTable, k, w)
      BY EmptyIsSound DEF FieldsAssumption
    <3>2. PICK t : t = EmptyTable
      OBVIOUS
    <3>3. t \in Tables
      BY <3>2, EmptyInTables
    <3> QED BY <3>1, <3>2, <3>3, ContentsIs
  <2>2. Contents(EmptyTable) = [k \in Key |-> Absent]
    BY <2>1 DEF Contents
  <2>3. Dictionaries = [o \in Owner |-> [k \in Key |-> Absent]]
    BY <2>2 DEF Init, Dictionaries
  <2> QED BY <2>3 DEF Init, Dictionaries, D!Init, D!Absent, Absent
<1>2. TablesInv /\ [Next]_vars => [D!Next]_(D!vars)
  BY NextIsADictionaryStep
<1> QED BY <1>1, <1>2, TablesInvariant, PTL DEF Spec, ImplementsDictionary, D!Spec

-----------------------------------------------------------------------------
(* The global variables.                                                   *)

Symbols(c) == [Key -> (0 .. c - 1) \cup {Invalid}]

GlobalsInv ==
  globals \in Tables /\ globals.capacity # 0 /\ symbol \in Symbols(globals.capacity)

(* Every key that findEntry was called for caches a slot of the new array, *)
(* the others one of the old array, which is no longer.                    *)
LEMMA SymbolsAfterIs ==
  ASSUME GlobalsAssumption, GlobalsInv, NEW n, n \in Key, NEW v, v \in Value
  PROVE  /\ TableSet(globals, n, v) \in Tables
         /\ TableSet(globals, n, v).capacity # 0
         /\ SymbolsAfter(globals, n) \in Symbols(TableSet(globals, n, v).capacity)
<1>1. PICK t : t = globals
  OBVIOUS
<1>2. TableAssumption /\ Sound(t) /\ t.capacity # 0
  BY <1>1 DEF GlobalsAssumption, GlobalsInv, Tables
<1>3. PICK e, c : /\ SoundArray(e, c) /\ HasRoom(e, c) /\ Grown(t) = TableOf(e, c)
                  /\ SameMapping(Grown(t), t) /\ t.capacity <= c
  BY <1>2, GrownIs
<1>4. PICK g : g = Grown(t) /\ g.entries = e /\ g.capacity = c
  BY <1>3 DEF TableOf
<1>5. Sound(TableSet(t, n, v)) /\ TableSet(t, n, v).capacity = c
  BY <1>2, <1>4, TableSetIs
<1>6. TableSet(t, n, v) \in Tables
  BY <1>5, SoundIsInTables
<1>7. t.capacity \in Nat /\ c \in Nat /\ c # 0
  BY <1>2, <1>3 DEF Sound, SoundArray
<1>8. \A k \in Key : SearchEnd(e, c, k) \in 0 .. c - 1
  BY <1>2, <1>3, <1>7, SearchEndIsASlot
<1>9. \A k \in Key : symbol[k] \in (0 .. c - 1) \cup {Invalid}
  <2>1. \A k \in Key : symbol[k] \in (0 .. t.capacity - 1) \cup {Invalid}
    BY <1>1 DEF GlobalsInv, Symbols
  <2>2. 0 .. t.capacity - 1 \subseteq 0 .. c - 1
    BY <1>3, <1>7
  <2> QED BY <2>1, <2>2
<1>10. PICK moved : moved = IF MustGrow(t) THEN {t.entries[i].key : i \in Used(t)} ELSE {}
  OBVIOUS
<1>11. SymbolsAfter(t, n) =
         [k \in Key |-> IF k \in moved \cup {n} THEN SearchEnd(e, c, k) ELSE symbol[k]]
  BY <1>4, <1>10 DEF SymbolsAfter
<1>12. SymbolsAfter(t, n) \in Symbols(c)
  BY <1>8, <1>9, <1>11 DEF Symbols
<1> QED BY <1>1, <1>5, <1>6, <1>7, <1>12

(* A cached index at which the key is found again is its slot.             *)
LEMMA CachedIs ==
  ASSUME GlobalsAssumption, GlobalsInv, NEW n, n \in Key, Cached(n)
  PROVE  symbol[n] \in 0 .. globals.capacity - 1 /\ globals.entries[symbol[n]].key = n
  BY DEF Cached, GlobalsInv, Symbols

LEMMA NextKeepsGlobals ==
  ASSUME GlobalsAssumption, GlobalsInv, [NextGlobal]_globalVars
  PROVE  GlobalsInv'
<1>0. TableAssumption /\ Sound(globals) /\ globals.capacity # 0
  BY DEF GlobalsAssumption, GlobalsInv, Tables
<1>1. CASE UNCHANGED globalVars
  BY <1>1 DEF GlobalsInv, globalVars
<1>2. ASSUME NEW n \in Key, GetCached(n) PROVE GlobalsInv'
  BY <1>2 DEF GlobalsInv, GetCached
<1>3. ASSUME NEW n \in Key, GetGlobal(n) PROVE GlobalsInv'
  <2>1. PICK t : t = globals
    OBVIOUS
  <2>2. SearchEnd(t.entries, t.capacity, n) \in 0 .. t.capacity - 1
    BY <1>0, <2>1, SearchEndIsASlot DEF Sound
  <2>3. symbol \in Symbols(t.capacity)
    BY <2>1 DEF GlobalsInv
  <2>4. PICK x : x = SearchEnd(t.entries, t.capacity, n)
    OBVIOUS
  <2>5. [symbol EXCEPT ![n] = x] \in Symbols(t.capacity)
    BY <2>2, <2>3, <2>4 DEF Symbols
  <2>6. SymbolsAfterSearch(t, n) \in Symbols(t.capacity)
    BY <2>3, <2>4, <2>5 DEF SymbolsAfterSearch
  <2> QED BY <2>1, <2>6, <1>3 DEF GetGlobal, GlobalsInv
<1>4. ASSUME NEW n \in Key, NEW value \in Value, DefineGlobal(n, value) PROVE GlobalsInv'
  BY <1>4, SymbolsAfterIs DEF DefineGlobal, GlobalsInv
<1>5. ASSUME NEW n \in Key, NEW value \in Value, SetCached(n, value) PROVE GlobalsInv'
  <2>1. PICK t, p : t = globals /\ p = symbol[n]
    OBVIOUS
  <2>2. p \in 0 .. t.capacity - 1 /\ t.entries[p].key = n
    BY <2>1, <1>5, CachedIs DEF SetCached
  <2>3. PICK new : new = [t EXCEPT !.entries[p].value = value]
    OBVIOUS
  <2>4. Sound(new) /\ new.capacity = t.capacity
    BY <1>0, <2>1, <2>2, <2>3, OverwriteIs
  <2>5. new \in Tables
    BY <2>4, SoundIsInTables
  <2>6. globals' = new /\ symbol' = symbol
    BY <2>1, <2>3, <1>5 DEF SetCached
  <2> QED BY <2>1, <2>4, <2>5, <2>6 DEF GlobalsInv
<1>6. ASSUME NEW n \in Key, NEW value \in Value, SetGlobal(n, value) PROVE GlobalsInv'
  BY <1>6, SymbolsAfterIs DEF SetGlobal, GlobalsInv
<1>7. ASSUME NEW n \in Key, NEW value \in Value, SetUndefined(n, value) PROVE GlobalsInv'
  <2>1. PICK s, f : s = TableSet(globals, n, value) /\ f = SymbolsAfter(globals, n)
    OBVIOUS
  <2>2. s \in Tables /\ s.capacity # 0 /\ f \in Symbols(s.capacity)
    BY <2>1, SymbolsAfterIs
  <2>3. Sound(s) /\ Maps(s, n, value)
    BY <1>0, <2>1, TableSetIs
  <2>4. TableHas(s, n) /\ Place(s, n) \in 0 .. s.capacity - 1
    BY <1>0, <2>3, LookupIs
  <2>5. PICK d : d = TableDelete(s, n)
    OBVIOUS
  <2>6. d \in Tables
    BY <1>0, <2>3, <2>5, TableDeleteIs, SoundIsInTables
  <2>7. d.capacity = s.capacity
    <3>1. s \in [count : Nat, capacity : Nat, entries : UNION {Array(c) : c \in Nat}]
      BY <2>2 DEF Tables
    <3>2. d = [s EXCEPT !.entries[Place(s, n)] = Tombstone]
      BY <2>4, <2>5 DEF TableDelete
    <3> QED BY <3>1, <3>2
  <2>8. PICK x \in 0 .. s.capacity - 1 : x = Place(s, n)
    BY <2>4
  <2>9. [f EXCEPT ![n] = x] \in Symbols(s.capacity)
    BY <2>2, <2>8 DEF Symbols
  <2>10. globals' = d /\ symbol' = [f EXCEPT ![n] = x]
    BY <2>1, <2>5, <2>8, <1>7 DEF SetUndefined
  <2> QED BY <2>2, <2>6, <2>7, <2>9, <2>10 DEF GlobalsInv
<1> QED BY <1>1, <1>2, <1>3, <1>4, <1>5, <1>6, <1>7 DEF NextGlobal

LEMMA FirstGlobals ==
  ASSUME GlobalsAssumption
  PROVE  /\ TableSet(EmptyTable, Clock, Native) \in Tables
         /\ TableSet(EmptyTable, Clock, Native).capacity >= MinCapacity
         /\ TableSet(EmptyTable, Clock, Native).capacity \in Nat \ {0}
         /\ \A k \in Key, w \in Value :
              Maps(TableSet(EmptyTable, Clock, Native), k, w) <=> k = Clock /\ w = Native
<1>1. TableAssumption /\ Clock \in Key /\ Native \in Value
  BY DEF GlobalsAssumption
<1>2. PICK z : z = EmptyTable
  OBVIOUS
<1>3. Sound(z) /\ \A k \in Key, v \in Value : ~ Maps(z, k, v)
  BY <1>1, <1>2, EmptyIsSound
<1>4. PICK t : t = TableSet(z, Clock, Native)
  OBVIOUS
<1>5. Sound(t) /\ \A k \in Key, w \in Value :
        Maps(t, k, w) <=> IF k = Clock THEN w = Native ELSE Maps(z, k, w)
  BY <1>1, <1>3, <1>4, TableSetIs
<1>6. Maps(t, Clock, Native)
  BY <1>1, <1>5
<1>7. t.capacity # 0
  BY <1>1, <1>5, <1>6, LookupIs
<1>8. t.capacity \in Nat /\ t.capacity >= MinCapacity
  BY <1>5, <1>7 DEF Sound, SoundArray
<1>9. t \in Tables
  BY <1>5, SoundIsInTables
<1> QED BY <1>2, <1>3, <1>4, <1>5, <1>7, <1>8, <1>9

(* The table of the globals is Sound, and every name caches a slot of it.  *)
THEOREM GlobalsInvariant ==
  ASSUME GlobalsAssumption
  PROVE  GlobalsSpec => []GlobalsInv
<1>1. InitGlobals => GlobalsInv
  <2> SUFFICES ASSUME InitGlobals PROVE GlobalsInv
    OBVIOUS
  <2>1. PICK c : c = globals.capacity
    OBVIOUS
  <2>2. globals \in Tables /\ c >= MinCapacity /\ c \in Nat \ {0}
    BY <2>1, FirstGlobals DEF InitGlobals
  <2>3. Hash[Clock] \in Nat /\ MinCapacity \in Nat \ {0}
    BY DEF GlobalsAssumption, TableAssumption
  <2>4. Hash[Clock] % MinCapacity \in 0 .. MinCapacity - 1
    BY <2>3
  <2>5. Hash[Clock] % MinCapacity \in 0 .. c - 1
    BY <2>2, <2>3, <2>4
  <2>6. symbol \in Symbols(c)
    BY <2>5 DEF InitGlobals, Symbols
  <2> QED BY <2>1, <2>2, <2>6 DEF GlobalsInv
<1>2. GlobalsInv /\ [NextGlobal]_globalVars => GlobalsInv'
  BY NextKeepsGlobals
<1> QED BY <1>1, <1>2, PTL DEF GlobalsSpec

(* The table of globals stays well formed, and a name's cached index lies   *)
(* in the array, at the slot the search would find if the key is still      *)
(* there, however the table grew since (OP_GET_GLOBAL, OP_SET_GLOBAL).      *)
THEOREM GlobalsStayOK ==
  ASSUME GlobalsAssumption
  PROVE  GlobalsSpec => []GlobalsOK
<1>1. GlobalsInv => GlobalsOK
  <2> SUFFICES ASSUME GlobalsInv PROVE GlobalsOK
    OBVIOUS
  <2>1. PICK t : t = globals
    OBVIOUS
  <2>2. TableAssumption /\ Sound(t)
    BY <2>1 DEF GlobalsAssumption, GlobalsInv, Tables
  <2>3. IsTable(t)
    BY <2>2, SoundIsTable
  <2>4. ASSUME NEW n \in Key, symbol[n] # Invalid
        PROVE  symbol[n] \in 0 .. t.capacity - 1 /\ (Cached(n) => symbol[n] = Place(t, n))
    <3>1. symbol[n] \in 0 .. t.capacity - 1
      BY <2>1, <2>4 DEF GlobalsInv, Symbols
    <3>2. ASSUME Cached(n) PROVE symbol[n] = Place(t, n)
      <4>1. PICK p : p = symbol[n]
        OBVIOUS
      <4>2. p \in 0 .. t.capacity - 1 /\ t.entries[p].key = n
        BY <4>1, <3>1, <3>2, <2>1 DEF Cached
      <4>3. Native \in Value
        BY DEF GlobalsAssumption
      <4>4. Place(t, n) = p
        BY <4>2, <4>3, <2>2, OverwriteIs
      <4> QED BY <4>1, <4>4
    <3> QED BY <3>1, <3>2
  <2> QED BY <2>1, <2>3, <2>4 DEF GlobalsOK, SymbolsOK
<1> QED BY <1>1, GlobalsInvariant, PTL

-----------------------------------------------------------------------------
(* The refinement of variables.                                            *)

LEMMA ValuesAre ==
  ASSUME GlobalsAssumption, GlobalsInv, NEW k, k \in Key
  PROVE  /\ Values[k] \in Value \cup {Undefined}
         /\ \A w \in Value : Values[k] = w <=> Maps(globals, k, w)
         /\ Values[k] = IF TableHas(globals, k) THEN TableGet(globals, k) ELSE Undefined
<1>1. TableAssumption /\ Undefined \notin Value /\ globals \in Tables
  BY DEF GlobalsAssumption, GlobalsInv
<1>2. Values[k] = Mapped(globals, k, Undefined)
  BY DEF Values, Mapped
<1>3. PICK d, t : d = Undefined /\ t = globals
  OBVIOUS
<1> QED BY <1>1, <1>2, <1>3, MappedIs

(* How the values follow the table. *)
ValuesMatch ==
  \A k \in Key : /\ Values[k] \in Value \cup {Undefined}
                 /\ \A w \in Value : Values[k] = w <=> Maps(globals, k, w)

LEMMA ValuesStillMatch ==
  ASSUME GlobalsAssumption
  PROVE  (GlobalsInv => ValuesMatch) /\ (GlobalsInv' => ValuesMatch')
<1>1. GlobalsInv => ValuesMatch
  BY ValuesAre DEF ValuesMatch
<1> QED BY <1>1, PTL

LEMMA UpdatedValues ==
  ASSUME GlobalsAssumption, GlobalsInv, GlobalsInv', NEW n, n \in Key, NEW v, v \in Value,
         \A k \in Key, w \in Value :
           Maps(globals', k, w) <=> IF k = n THEN w = v ELSE Maps(globals, k, w)
  PROVE  Values' = [Values EXCEPT ![n] = v]
<1>1. \A k \in Key : /\ Values[k] \in Value \cup {Undefined}
                     /\ \A w \in Value : Values[k] = w <=> Maps(globals, k, w)
  BY ValuesStillMatch DEF ValuesMatch
<1>2. \A k \in Key : /\ Values'[k] \in Value \cup {Undefined}
                     /\ \A w \in Value : Values'[k] = w <=> Maps(globals', k, w)
  BY ValuesStillMatch DEF ValuesMatch
<1>3. PICK old, new : old = Values /\ new = Values'
  OBVIOUS
<1>4. \A k \in Key : new[k] = IF k = n THEN v ELSE old[k]
  BY <1>1, <1>2, <1>3
<1>5. old = [k \in Key |-> old[k]] /\ new = [k \in Key |-> new[k]]
  BY <1>3 DEF Values
<1>6. new = [old EXCEPT ![n] = v]
  BY <1>4, <1>5
<1> QED BY <1>3, <1>6

LEMMA SameValues ==
  ASSUME GlobalsAssumption, GlobalsInv, GlobalsInv',
         \A k \in Key, w \in Value : Maps(globals', k, w) <=> Maps(globals, k, w)
  PROVE  Values' = Values
<1>1. \A k \in Key : /\ Values[k] \in Value \cup {Undefined}
                     /\ \A w \in Value : Values[k] = w <=> Maps(globals, k, w)
  BY ValuesStillMatch DEF ValuesMatch
<1>2. \A k \in Key : /\ Values'[k] \in Value \cup {Undefined}
                     /\ \A w \in Value : Values'[k] = w <=> Maps(globals', k, w)
  BY ValuesStillMatch DEF ValuesMatch
<1>3. PICK old, new : old = Values /\ new = Values'
  OBVIOUS
<1>4. \A k \in Key : new[k] = old[k]
  BY <1>1, <1>2, <1>3
<1>5. old = [k \in Key |-> old[k]] /\ new = [k \in Key |-> new[k]]
  BY <1>3 DEF Values
<1> QED BY <1>3, <1>4, <1>5

LEMMA NextIsAVariablesStep ==
  ASSUME GlobalsAssumption, GlobalsInv, GlobalsInv', [NextGlobal]_globalVars
  PROVE  [V!Next]_(V!vars)
<1>0. TableAssumption /\ Sound(globals) /\ Undefined \notin Value
  BY DEF GlobalsAssumption, GlobalsInv, Tables
<1>1. CASE UNCHANGED globalVars
  <2>1. Values' = Values
    BY <1>1 DEF globalVars, Values, Slots
  <2> QED BY <2>1, <1>1 DEF globalVars, V!vars
<1>2. ASSUME NEW n \in Key, GetCached(n) PROVE V!Next
  <2>1. PICK t, p : t = globals /\ p = symbol[n]
    OBVIOUS
  <2>2. p \in 0 .. t.capacity - 1 /\ t.entries[p].key = n
    BY <2>1, <1>2, CachedIs DEF GetCached
  <2>3. Native \in Value
    BY DEF GlobalsAssumption
  <2>4. Maps(t, n, t.entries[p].value)
    BY <1>0, <2>1, <2>2, <2>3, OverwriteIs
  <2>5. t.entries[p].value \in Value
    <3>1. t.entries \in Array(t.capacity)
      BY <1>0, <2>1 DEF Sound, SoundArray
    <3> QED BY <2>2, <3>1 DEF Array, Slot
  <2>6. Values[n] = t.entries[p].value /\ Values[n] # Undefined
    BY <1>0, <2>1, <2>4, <2>5, ValuesAre
  <2>7. read' = <<"get", n, Values[n]>> /\ Values' = Values
    BY <2>1, <2>6, <1>2 DEF GetCached, Values, Slots
  <2>8. V!Get(n)
    BY <2>6, <2>7 DEF V!Get, V!Undefined, Undefined
  <2> QED BY <2>8 DEF V!Next
<1>3. ASSUME NEW n \in Key, GetGlobal(n) PROVE V!Next
  <2>1. Values' = Values
    BY <1>3 DEF GetGlobal, Values, Slots
  <2>2. read' = <<"get", n, IF TableHas(globals, n) THEN TableGet(globals, n) ELSE "error">>
    BY <1>3 DEF GetGlobal
  <2>3. Values[n] = IF TableHas(globals, n) THEN TableGet(globals, n) ELSE Undefined
    BY ValuesAre
  <2>4. TableHas(globals, n) => TableGet(globals, n) # Undefined
    BY <1>0, LookupIs
  <2>5. read' = <<"get", n, IF Values[n] = Undefined THEN "error" ELSE Values[n]>>
    BY <2>2, <2>3, <2>4
  <2>6. V!Get(n)
    BY <2>1, <2>5 DEF V!Get, V!Undefined, Undefined
  <2> QED BY <2>6 DEF V!Next
<1>4. ASSUME NEW n \in Key, NEW value \in Value, DefineGlobal(n, value) PROVE V!Next
  <2>1. globals' = TableSet(globals, n, value) /\ read' = <<"define", n, value>>
    BY <1>4 DEF DefineGlobal
  <2>2. Values' = [Values EXCEPT ![n] = value]
    BY <1>0, <2>1, TableSetIs, UpdatedValues
  <2>3. V!Define(n, value)
    BY <2>1, <2>2 DEF V!Define
  <2> QED BY <2>3 DEF V!Next
<1>5. ASSUME NEW n \in Key, NEW value \in Value, SetCached(n, value) PROVE V!Next
  <2>1. PICK t, p : t = globals /\ p = symbol[n]
    OBVIOUS
  <2>2. p \in 0 .. t.capacity - 1 /\ t.entries[p].key = n
    BY <2>1, <1>5, CachedIs DEF SetCached
  <2>3. PICK new : new = [t EXCEPT !.entries[p].value = value]
    OBVIOUS
  <2>4. Maps(t, n, t.entries[p].value) /\ \A k \in Key, w \in Value :
          Maps(new, k, w) <=> IF k = n THEN w = value ELSE Maps(t, k, w)
    BY <1>0, <2>1, <2>2, <2>3, OverwriteIs
  <2>5. globals' = new /\ read' = <<"set", n, value>>
    BY <2>1, <2>3, <1>5 DEF SetCached
  <2>6. Values' = [Values EXCEPT ![n] = value]
    BY <2>1, <2>4, <2>5, UpdatedValues
  <2>7. t.entries[p].value \in Value
    <3>1. t.entries \in Array(t.capacity)
      BY <1>0, <2>1 DEF Sound, SoundArray
    <3> QED BY <2>2, <3>1 DEF Array, Slot
  <2>8. Values[n] # Undefined
    BY <1>0, <2>1, <2>4, <2>7, ValuesAre
  <2>9. V!Set(n, value)
    BY <2>5, <2>6, <2>8 DEF V!Set, V!Undefined, Undefined
  <2> QED BY <2>9 DEF V!Next
<1>6. ASSUME NEW n \in Key, NEW value \in Value, SetGlobal(n, value) PROVE V!Next
  <2>1. /\ globals' = TableSet(globals, n, value) /\ ~ IsNewKey(globals, n)
        /\ read' = <<"set", n, value>>
    BY <1>6 DEF SetGlobal
  <2>2. Values' = [Values EXCEPT ![n] = value]
    BY <1>0, <2>1, TableSetIs, UpdatedValues
  <2>3. PICK w \in Value : Maps(globals, n, w)
    BY <1>0, <2>1, IsNewKeyIs
  <2>4. Values[n] # Undefined
    BY <1>0, <2>3, ValuesAre
  <2>5. V!Set(n, value)
    BY <2>1, <2>2, <2>4 DEF V!Set, V!Undefined, Undefined
  <2> QED BY <2>5 DEF V!Next
<1>7. ASSUME NEW n \in Key, NEW value \in Value, SetUndefined(n, value) PROVE V!Next
  <2>1. PICK s : s = TableSet(globals, n, value)
    OBVIOUS
  <2>2. /\ globals' = TableDelete(s, n) /\ IsNewKey(globals, n)
        /\ read' = <<"set", n, "error">>
    BY <2>1, <1>7 DEF SetUndefined
  <2>3. \A w \in Value : ~ Maps(globals, n, w)
    BY <1>0, <2>2, IsNewKeyIs
  <2>4. Sound(s) /\ \A k \in Key, w \in Value :
          Maps(s, k, w) <=> IF k = n THEN w = value ELSE Maps(globals, k, w)
    BY <1>0, <2>1, TableSetIs
  <2>5. PICK d : d = TableDelete(s, n)
    OBVIOUS
  <2>6. \A k \in Key, w \in Value : Maps(d, k, w) <=> k # n /\ Maps(s, k, w)
    BY <1>0, <2>4, <2>5, TableDeleteIs
  <2>7. \A k \in Key, w \in Value : Maps(d, k, w) <=> Maps(globals, k, w)
    BY <2>3, <2>4, <2>6
  <2>8. Values' = Values
    BY <2>2, <2>5, <2>7, SameValues
  <2>9. Values[n] = Undefined
    BY <2>3, ValuesAre
  <2>10. V!SetUndefined(n)
    BY <2>2, <2>8, <2>9 DEF V!SetUndefined, V!Undefined, Undefined
  <2> QED BY <2>10 DEF V!Next
<1> QED BY <1>1, <1>2, <1>3, <1>4, <1>5, <1>6, <1>7 DEF NextGlobal

(* Globals are variables: no instruction reads or writes through an index   *)
(* that is no longer the name's, and a failed assignment leaves the name    *)
(* undefined (OP_DEFINE_GLOBAL, OP_GET_GLOBAL, OP_SET_GLOBAL).              *)
THEOREM GlobalsAreVariables ==
  ASSUME GlobalsAssumption
  PROVE  GlobalsSpec => ImplementsVariables
<1>1. InitGlobals /\ GlobalsInv => V!Init
  <2> SUFFICES ASSUME InitGlobals, GlobalsInv PROVE V!Init
    OBVIOUS
  <2>1. \A k \in Key, w \in Value : Maps(globals, k, w) <=> k = Clock /\ w = Native
    BY FirstGlobals DEF InitGlobals
  <2>2. ASSUME NEW k \in Key PROVE Values[k] = IF k = Clock THEN Native ELSE Undefined
    <3>1. Values[k] \in Value \cup {Undefined} /\ \A w \in Value : Values[k] = w <=> Maps(globals, k, w)
      BY ValuesAre
    <3>2. Native \in Value
      BY DEF GlobalsAssumption
    <3> QED BY <2>1, <3>1, <3>2
  <2>3. Values = [k \in Key |-> IF k = Clock THEN Native ELSE Undefined]
    BY <2>2 DEF Values
  <2> QED BY <2>3 DEF InitGlobals, V!Init, V!Undefined, Undefined
<1>2. GlobalsInv /\ GlobalsInv' /\ [NextGlobal]_globalVars => [V!Next]_(V!vars)
  BY NextIsAVariablesStep
<1> QED BY <1>1, <1>2, GlobalsInvariant, PTL DEF GlobalsSpec, ImplementsVariables, V!Spec
=============================================================================
