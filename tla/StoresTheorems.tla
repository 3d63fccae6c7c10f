--------------------------- MODULE StoresTheorems ---------------------------
(***************************************************************************)
(* The theorems about what holds data.  First the bump arena, for every    *)
(* page size, chunk and reservation: nothing is written beyond the         *)
(* committed pages, and stack_push tells their end from the end of the     *)
(* stack.  Then the pools of numbers and strings, for any literals, hashes *)
(* and capacities: equal strings are one object, and an index that is      *)
(* cached is the constant's.  Then the line table.  Last, for each model   *)
(* that MCStores composes: a behaviour of the composition is one of the    *)
(* model, so what is proved of the model holds of it.                      *)
(***************************************************************************)
EXTENDS MCStores, SequenceTheorems, FiniteSetTheorems, WellFoundedInduction, TLAPS

-----------------------------------------------------------------------------
(* The bump arena.                                                         *)

(* WritesAreCommitted needs the boundary to be the commit watermark, and   *)
(* the watermark never to be 0: the first push has a page.                 *)
BumpInv ==
  /\ {stackTop, stackBoundary, stackWritten, stringCommit, stringTop} \subseteq Nat
  /\ stackBoundary = stackCommit
  /\ B!WritesAreCommitted

LEMMA BumpParameters ==
  /\ Page \in Nat \ {0} /\ Length \subseteq Nat \ {0}
  /\ CommitChunk \in Nat \ {0} /\ StackSize \in Nat /\ StringSize \in Nat
  /\ CommitChunk < StackSize
  BY InstancesAssumption DEF B!BumpAssumption

(* Rounding up to a page does not round down (arenaBumpAlignUp). *)
LEMMA AlignUpGrows ==
  ASSUME NEW x \in Nat
  PROVE  B!AlignUp(x) \in Nat /\ B!AlignUp(x) >= x
<1> USE BumpParameters
<1> DEFINE y == x + Page - 1
<1>1. y \in Nat
  OBVIOUS
<1>2. y \div Page \in Nat /\ y % Page \in 0 .. Page - 1
       /\ y = Page * (y \div Page) + (y % Page)
  BY <1>1
<1>3. B!AlignUp(x) = Page * (y \div Page)
  BY <1>2 DEF B!AlignUp
<1> HIDE DEF y
<1>4. Page * (y \div Page) = y - (y % Page)
  BY <1>1, <1>2
<1>5. Page * (y \div Page) >= y - (Page - 1)
  BY <1>1, <1>2, <1>4
<1> QED
  BY <1>1, <1>2, <1>3, <1>4, <1>5 DEF y

(* A successful arenaBumpEnsure commits at least up to the end that was    *)
(* asked for, at most the reservation, and gives nothing back.             *)
LEMMA CommittedCovers ==
  ASSUME NEW commitTop \in Nat, NEW capacity \in Nat, NEW end \in Nat,
         commitTop <= capacity, end <= capacity
  PROVE  LET commit == B!Committed(commitTop, capacity, end)
         IN commit \in Nat /\ end <= commit /\ commitTop <= commit /\ commit <= capacity
BY AlignUpGrows, BumpParameters DEF B!Committed, B!AtMost, B!AtLeast

LEMMA InitInvariant == B!Init => BumpInv
<1> SUFFICES ASSUME B!Init PROVE BumpInv
  OBVIOUS
<1>1. CommitChunk \in Nat \ {0} /\ StackSize \in Nat /\ CommitChunk <= StackSize
       /\ StringSize \in Nat
  BY BumpParameters
<1>2. stackCommit \in Nat /\ CommitChunk <= stackCommit /\ stackCommit <= StackSize
  BY <1>1, CommittedCovers DEF B!Init
<1> QED
  BY <1>1, <1>2 DEF B!Init, BumpInv, B!WritesAreCommitted

(* Every step of the stack keeps the stack's half of the invariant, and    *)
(* leaves the strings'.                                                    *)
LEMMA PushInsidePreserves ==
  BumpInv /\ B!PushInside /\ UNCHANGED <<stringCommit, stringTop, exited>> => BumpInv'
BY DEF BumpInv, B!WritesAreCommitted, B!PushInside, B!Written, B!AtLeast

LEMMA PushLastPreserves ==
  BumpInv /\ B!PushLast /\ UNCHANGED <<stringCommit, stringTop, exited>> => BumpInv'
BY DEF BumpInv, B!WritesAreCommitted, B!PushLast, B!Written, B!AtLeast, B!StackReset

LEMMA PushCommitPreserves ==
  ASSUME NEW ok \in BOOLEAN, BumpInv, B!PushCommit(ok),
         UNCHANGED <<stringCommit, stringTop, exited>>
  PROVE  BumpInv'
<1> DEFINE end == B!AtMost(stackTop + 1 + CommitChunk, StackSize)
           commit == B!Committed(stackCommit, StackSize, end)
<1>1. CommitChunk \in Nat \ {0} /\ StackSize \in Nat
  BY BumpParameters
<1>2. stackTop \in Nat /\ stackWritten \in Nat /\ stackCommit \in Nat
       /\ stackTop + 1 = stackCommit /\ stackCommit < StackSize
       /\ stackWritten <= stackCommit
  BY DEF BumpInv, B!WritesAreCommitted, B!PushCommit
<1>3. end \in Nat /\ stackCommit < end /\ end <= StackSize
  BY <1>1, <1>2 DEF B!AtMost
<1> HIDE DEF end
<1>4. commit \in Nat /\ end <= commit /\ commit <= StackSize
  BY <1>1, <1>2, <1>3, CommittedCovers
<1> B!Written
  BY DEF B!PushCommit
<1>5. stackWritten' = stackTop + 1
  BY <1>2 DEF B!Written, B!AtLeast
<1>6. CASE ok
  <2>1. stackTop' = stackTop + 1 /\ stackCommit' = commit /\ stackBoundary' = commit
    BY <1>6 DEF B!PushCommit, end
  <2> HIDE DEF commit
  <2> QED
    BY <1>1, <1>2, <1>3, <1>4, <1>5, <2>1 DEF BumpInv, B!WritesAreCommitted
<1>7. CASE ~ok
  <2>1. stackTop' = 0 /\ stackCommit' = stackCommit /\ stackBoundary' = stackBoundary
    BY <1>7 DEF B!PushCommit, B!StackReset
  <2> HIDE DEF commit
  <2> QED
    BY <1>1, <1>2, <1>5, <2>1 DEF BumpInv, B!WritesAreCommitted
<1> QED
  BY <1>6, <1>7

LEMMA LowerPreserves ==
  BumpInv /\ B!Lower /\ UNCHANGED <<stringCommit, stringTop, exited>> => BumpInv'
BY DEF BumpInv, B!WritesAreCommitted, B!Lower

LEMMA AllocStringPreserves ==
  ASSUME NEW length \in Length, NEW ok \in BOOLEAN, BumpInv, B!AllocString(length, ok)
  PROVE  BumpInv'
<1> DEFINE end == stringTop + length
           commit == B!Committed(stringCommit, StringSize, end)
<1>1. StringSize \in Nat /\ end \in Nat /\ stringCommit \in Nat /\ stringCommit <= StringSize
  BY BumpParameters DEF BumpInv, B!WritesAreCommitted
<1>2. UNCHANGED B!stackVars
  BY DEF B!AllocString
<1>3. CASE end <= StringSize /\ (commit = stringCommit \/ ok)
  <2>1. stringTop' = end /\ stringCommit' = commit
    BY <1>3 DEF B!AllocString
  <2>2. commit \in Nat /\ end <= commit /\ commit <= StringSize
    BY <1>1, <1>3, CommittedCovers
  <2> HIDE DEF end, commit
  <2> QED
    BY <1>1, <1>2, <2>1, <2>2 DEF BumpInv, B!WritesAreCommitted, B!stackVars
<1>4. CASE ~(end <= StringSize /\ (commit = stringCommit \/ ok))
  <2>1. UNCHANGED <<stringTop, stringCommit>>
    BY <1>4 DEF B!AllocString
  <2> QED
    BY <1>2, <2>1 DEF BumpInv, B!WritesAreCommitted, B!stackVars
<1> QED
  BY <1>3, <1>4

-----------------------------------------------------------------------------
(* The boundary that stack_push tests is where the committed pages end.    *)
THEOREM BumpInvariant == B!Spec => []BumpInv
<1>1. ASSUME BumpInv, [B!Next]_(B!vars)
      PROVE  BumpInv'
  <2>1. CASE UNCHANGED B!vars
    BY <1>1, <2>1 DEF BumpInv, B!WritesAreCommitted, B!vars
  <2>2. ASSUME NEW ok \in BOOLEAN, B!PushCommit(ok),
               UNCHANGED <<stringCommit, stringTop, exited>>
        PROVE  BumpInv'
    BY <1>1, <2>2, PushCommitPreserves
  <2>3. ASSUME NEW length \in Length, NEW ok \in BOOLEAN, B!AllocString(length, ok)
        PROVE  BumpInv'
    BY <1>1, <2>3, AllocStringPreserves
  <2> QED
    BY <1>1, <2>1, <2>2, <2>3, PushInsidePreserves, PushLastPreserves, LowerPreserves
    DEF B!Next
<1> QED
  BY InitInvariant, <1>1, PTL DEF B!Spec

(* Every slot the machine writes, clears or will write next, and every     *)
(* string, lies in committed pages (stack_push, stack_reset, allocateObject).*)
THEOREM WritesAreInPages == B!Spec => []B!WritesAreCommitted
<1>1. BumpInv => B!WritesAreCommitted
  BY DEF BumpInv
<1> QED
  BY BumpInvariant, <1>1, PTL

(* stack_push says "Stack overflow." for want of space only at the last    *)
(* slot of the reservation, never where committed pages end.               *)
THEOREM OverflowsAreFull == B!Spec => B!OverflowIsReal
<1>1. ASSUME BumpInv, [B!Next]_(B!vars), overflowed' = "full", overflowed # "full"
      PROVE  stackTop = StackSize - 1
  <2>1. B!PushLast
    BY <1>1 DEF B!vars, B!Next, B!PushInside, B!PushCommit, B!Lower, B!AllocString, B!stackVars
  <2> QED
    BY <1>1, <2>1, BumpParameters DEF B!PushLast, BumpInv, B!WritesAreCommitted
<1> QED
  BY BumpInvariant, <1>1, PTL DEF B!Spec, B!OverflowIsReal

(* The bump arena of the composition runs as that of the module does. *)
LEMMA BumpRun == PartSpec => B!Spec
<1>1. PartInit => B!Init
  BY DEF PartInit
<1>2. [PartNext]_<<part, fields, variables, vars, slab, bump, lines>> => [B!Next]_(B!vars)
  BY DEF PartNext, B!vars, bump
<1> QED BY <1>1, <1>2, PTL DEF PartSpec, B!Spec

(* What is written in the composition lies in committed pages.             *)
THEOREM WritesStayCommitted == PartSpec => []WritesAreCommitted
<1>1. B!WritesAreCommitted => WritesAreCommitted
  BY DEF WritesAreCommitted
<1> QED BY <1>1, WritesAreInPages, BumpRun, PTL

(* The stack overflows in the composition only at its last slot.           *)
THEOREM OverflowsAreReal == PartSpec => OverflowIsReal
  BY OverflowsAreFull, BumpRun, PTL DEF OverflowIsReal

-----------------------------------------------------------------------------
(* The composition.                                                        *)

(* The slab arena of the composition runs as that of the module does. *)
LEMMA SlabRun == PartSpec => S!Spec
<1>1. PartInit => S!Init
  BY DEF PartInit
<1>2. [PartNext]_<<part, fields, variables, vars, slab, bump, lines>> => [S!Next]_(S!vars)
  BY DEF PartNext, S!vars, slab
<1> QED BY <1>1, <1>2, PTL DEF PartSpec, S!Spec

(* Every arena is in the chain of its class when it has a free slot, in no  *)
(* list when it is full, and in the pool only while nothing is in it.       *)
THEOREM ArenasKeepTheirPlaces == PartSpec => []EveryArenaHasItsPlace
<1>1. S!SlabAssumption
  BY InstancesAssumption
<1>2. S!Spec => []S!EveryArenaHasItsPlace
  BY <1>1, S!ArenasHavePlaces
<1>3. S!EveryArenaHasItsPlace => EveryArenaHasItsPlace
  BY DEF EveryArenaHasItsPlace
<1> QED BY <1>2, <1>3, SlabRun, PTL

(* A request is refused only when no memory is left to it.                  *)
THEOREM RefusalsAreDue == PartSpec => []RefusedOnlyWhenFull
<1>1. S!SlabAssumption
  BY InstancesAssumption
<1>2. S!Spec => []S!RefusedOnlyWhenFull
  BY <1>1, S!MemoryIsRefusedWhenFull
<1>3. S!RefusedOnlyWhenFull => RefusedOnlyWhenFull
  BY DEF RefusedOnlyWhenFull
<1> QED BY <1>2, <1>3, SlabRun, PTL

(* The slots in use do not overlap, whatever class their arena had before.  *)
THEOREM SlotsAreMemory == PartSpec => ImplementsAllocator
<1>1. S!SlabAssumption
  BY InstancesAssumption
<1>2. S!Spec => S!ImplementsAllocator
  BY <1>1, S!SlabImplementsAllocator
<1> QED BY <1>2, SlabRun, PTL DEF ImplementsAllocator

-----------------------------------------------------------------------------
(* The pools of constants: what least and greatest members and folds are.  *)

LEMMA LeastMember ==
  ASSUME NEW A, A \subseteq Nat, A # {}
  PROVE  \E m \in A : \A n \in A : m <= n
<1>1. IsWellFoundedOn(OpToRel(<, Nat), Nat)
  BY NatLessThanWellFounded
<1>2. PICK x \in A : \A y \in A : ~ (<<y, x>> \in OpToRel(<, Nat))
  BY <1>1, WFMin
<1>3. \A y \in A : <<y, x>> \in Nat \X Nat
  OBVIOUS
<1>4. \A y \in A : ~ (y < x)
  BY <1>2, <1>3 DEF OpToRel
<1> QED BY <1>4

LEMMA Induct ==
  ASSUME NEW A, NEW n, n \in Nat, 0 \in A,
         \A i \in Nat : i < n /\ i \in A => i + 1 \in A
  PROVE  \A i \in 0 .. n : i \in A
<1> DEFINE Out == {i \in 0 .. n : i \notin A}
<1>1. SUFFICES ASSUME Out # {} PROVE FALSE
  OBVIOUS
<1>2. PICK m \in Out : \A i \in Out : m <= i
  <2>1. Out \subseteq Nat
    OBVIOUS
  <2> HIDE DEF Out
  <2> QED BY <1>1, <2>1, LeastMember
<1>3. m \in Nat /\ m # 0 /\ m <= n /\ m \notin A
  OBVIOUS
<1>4. m - 1 \in Nat /\ m - 1 < n /\ m - 1 \in 0 .. n /\ ~ (m <= m - 1) /\ (m - 1) + 1 = m
  BY <1>3
<1>5. m - 1 \in A
  BY <1>2, <1>4
<1> QED BY <1>3, <1>4, <1>5

LEMMA MinIs ==
  ASSUME NEW A, A \subseteq Nat, NEW m \in A, \A n \in A : m <= n
  PROVE  Min(A) = m
<1>1. PICK x : x = Min(A)
  OBVIOUS
<1>2. x \in A /\ \A y \in A : x <= y
  BY <1>1 DEF Min
<1>3. x <= m /\ m <= x /\ x \in Nat /\ m \in Nat
  BY <1>2
<1> QED BY <1>1, <1>3

LEMMA MaxIs ==
  ASSUME NEW A, A \subseteq Nat, NEW m \in A, \A n \in A : n <= m
  PROVE  Max(A) = m
<1>1. PICK x : x = Max(A)
  OBVIOUS
<1>2. x \in A /\ \A y \in A : x >= y
  BY <1>1 DEF Max
<1>3. x <= m /\ m <= x /\ x \in Nat /\ m \in Nat
  BY <1>2
<1> QED BY <1>1, <1>3

LEMMA MaxMember ==
  ASSUME NEW n, n \in Nat, NEW A, A \subseteq 1 .. n, A # {}
  PROVE  Max(A) \in A /\ \A k \in A : k <= Max(A)
<1> DEFINE Below == {n - k : k \in A}
<1>0. \A k \in A : k \in Nat /\ n - k \in Nat
  OBVIOUS
<1>1. Below \subseteq Nat /\ Below # {}
  BY <1>0
<1>2. PICK m \in Below : \A k \in Below : m <= k
  <2> HIDE DEF Below
  <2> QED BY <1>1, LeastMember
<1>3. PICK s \in A : m = n - s
  OBVIOUS
<1>4. \A k \in A : n - s <= n - k
  BY <1>2, <1>3
<1>5. \A k \in A : k <= s
  BY <1>0, <1>4
<1>6. A \subseteq Nat
  BY <1>0
<1>7. Max(A) = s
  BY <1>5, <1>6, MaxIs
<1> QED BY <1>5, <1>7

LEMMA Division ==
  ASSUME NEW c, c \in Nat \ {0}, NEW x, x \in Nat
  PROVE  \E q \in Nat : x = c * q + (x % c)
<1>1. x % c \in 0 .. c - 1 /\ x \div c \in Nat /\ x = c * (x \div c) + (x % c)
  OBVIOUS
<1> QED BY <1>1

LEMMA RemainderIs ==
  ASSUME NEW c, c \in Nat \ {0}, NEW q, q \in Nat, NEW h, h \in 0 .. c - 1
  PROVE  (c * q + h) % c = h
<1>1. PICK x \in Nat : x = c * q + h
  OBVIOUS
<1>2. x % c \in 0 .. c - 1 /\ x \div c \in Nat /\ x = c * (x \div c) + (x % c)
  BY <1>1
<1>3. PICK r \in 0 .. c - 1, p \in Nat : r = x % c /\ p = x \div c
  BY <1>2
<1>4. c * q + h = c * p + r
  BY <1>1, <1>2, <1>3
<1>5. c * (q - p) = r - h
  BY <1>3, <1>4
<1>6. ~ (q - p >= 1)
  <2> SUFFICES ASSUME q - p >= 1 PROVE FALSE
    OBVIOUS
  <2>1. PICK e \in Nat : q - p = 1 + e
    <3>1. (q - p) - 1 \in Nat
      OBVIOUS
    <3>2. q - p = 1 + ((q - p) - 1)
      OBVIOUS
    <3> QED BY <3>1, <3>2
  <2>2. c * (1 + e) = c + c * e
    OBVIOUS
  <2>3. c * e \in Nat
    OBVIOUS
  <2>4. r - h < c
    OBVIOUS
  <2> QED BY <1>5, <2>1, <2>2, <2>3, <2>4
<1>7. ~ (p - q >= 1)
  <2> SUFFICES ASSUME p - q >= 1 PROVE FALSE
    OBVIOUS
  <2>1. PICK e \in Nat : p - q = 1 + e
    <3>1. (p - q) - 1 \in Nat
      OBVIOUS
    <3>2. p - q = 1 + ((p - q) - 1)
      OBVIOUS
    <3> QED BY <3>1, <3>2
  <2>2. c * (1 + e) = c + c * e
    OBVIOUS
  <2>3. c * e \in Nat
    OBVIOUS
  <2>4. h - r < c
    OBVIOUS
  <2>5. c * (p - q) = h - r
    BY <1>5
  <2> QED BY <2>1, <2>2, <2>3, <2>4, <2>5
<1>8. q = p
  BY <1>6, <1>7
<1>9. r = h
  BY <1>4, <1>8
<1> QED BY <1>1, <1>3, <1>9

LEMMA RemainderOfSum ==
  ASSUME NEW c, c \in Nat \ {0}, NEW x, x \in Nat, NEW d, d \in Nat
  PROVE  (x + d) % c = ((x % c) + d) % c
<1>1. PICK q \in Nat, h \in 0 .. c - 1 : q = x \div c /\ h = x % c /\ x = c * q + h
  OBVIOUS
<1>2. PICK p \in Nat, g \in 0 .. c - 1 :
        p = (h + d) \div c /\ g = (h + d) % c /\ h + d = c * p + g
  OBVIOUS
<1>3. x + d = c * q + (c * p + g)
  <2>1. PICK u \in Nat, v \in Nat : u = c * q /\ v = c * p
    OBVIOUS
  <2>2. x = u + h /\ h + d = v + g
    BY <1>1, <1>2, <2>1
  <2>3. x + d = u + (v + g)
    BY <2>2
  <2> QED BY <2>1, <2>3
<1>4. c * q + (c * p + g) = c * (q + p) + g
  OBVIOUS
<1>5. (c * (q + p) + g) % c = g
  BY RemainderIs
<1> QED BY <1>1, <1>2, <1>3, <1>4, <1>5

Follows(f, n, base, step) ==
  \A s \in SUBSET (1 .. n) :
    f[s] = IF s = {} THEN base ELSE step[<<f[s \ {Max(s)}], Max(s)>>]

LEMMA FoldGrows ==
  ASSUME NEW A, NEW n, n \in Nat, NEW step, step \in [A \X (1 .. n) -> A],
         NEW base, base \in A, NEW k, k \in Nat, k < n,
         NEW f, f \in [SUBSET (1 .. k) -> A], Follows(f, k, base, step)
  PROVE  \E g \in [SUBSET (1 .. k + 1) -> A] : Follows(g, k + 1, base, step)
<1>1. PICK m \in 1 .. n : m = k + 1
  OBVIOUS
<1>2. PICK g : g = [s \in SUBSET (1 .. m) |->
                      IF m \in s THEN step[<<f[s \ {m}], m>>] ELSE f[s]]
  OBVIOUS
<1>3. \A s \in SUBSET (1 .. m) : s \ {m} \in SUBSET (1 .. k)
  BY <1>1
<1>4. ASSUME NEW s \in SUBSET (1 .. m), m \in s
      PROVE  /\ g[s] = step[<<f[s \ {m}], m>>] /\ g[s] \in A
             /\ Max(s) = m /\ g[s \ {m}] = f[s \ {m}]
  <2>1. g[s] = step[<<f[s \ {m}], m>>]
    BY <1>2, <1>4
  <2>2. f[s \ {m}] \in A
    BY <1>3
  <2>3. <<f[s \ {m}], m>> \in A \X (1 .. n)
    BY <2>2
  <2>4. step[<<f[s \ {m}], m>>] \in A
    BY <2>3
  <2>5. Max(s) = m
    <3>1. s \subseteq Nat /\ \A x \in s : x <= m
      BY <1>1
    <3> QED BY <3>1, <1>4, MaxIs
  <2>6. g[s \ {m}] = f[s \ {m}]
    BY <1>2
  <2> QED BY <2>1, <2>4, <2>5, <2>6
<1>5. ASSUME NEW s \in SUBSET (1 .. m), m \notin s
      PROVE  s \in SUBSET (1 .. k) /\ g[s] = f[s] /\ g[s] \in A
  <2>1. s \in SUBSET (1 .. k)
    BY <1>3, <1>5
  <2> QED BY <2>1, <1>2, <1>5
<1>6. g \in [SUBSET (1 .. m) -> A]
  <2>1. \A s \in SUBSET (1 .. m) : g[s] \in A
    BY <1>4, <1>5
  <2> QED BY <2>1, <1>2
<1>7. ASSUME NEW s \in SUBSET (1 .. m)
      PROVE  g[s] = IF s = {} THEN base ELSE step[<<g[s \ {Max(s)}], Max(s)>>]
  <2>1. CASE m \in s
    BY <2>1, <1>4
  <2>2. CASE m \notin s
    <3>1. s \in SUBSET (1 .. k) /\ g[s] = f[s]
      BY <2>2, <1>5
    <3>2. f[s] = IF s = {} THEN base ELSE step[<<f[s \ {Max(s)}], Max(s)>>]
      BY <3>1 DEF Follows
    <3>3. PICK r : r = s \ {Max(s)}
      OBVIOUS
    <3>4. r \in SUBSET (1 .. m) /\ m \notin r
      BY <2>2, <3>3
    <3>5. g[r] = f[r]
      BY <3>4, <1>5
    <3> QED BY <3>1, <3>2, <3>3, <3>5
  <2> QED BY <2>1, <2>2
<1>8. Follows(g, m, base, step)
  BY <1>7 DEF Follows
<1> QED BY <1>1, <1>6, <1>8

LEMMA FoldExists ==
  ASSUME NEW A, NEW n, n \in Nat, NEW step, step \in [A \X (1 .. n) -> A],
         NEW base, base \in A
  PROVE  \E f \in [SUBSET (1 .. n) -> A] : Follows(f, n, base, step)
<1> DEFINE Good == {k \in 0 .. n : \E f \in [SUBSET (1 .. k) -> A] : Follows(f, k, base, step)}
<1>1. 0 \in Good
  <2>1. PICK f : f = [s \in SUBSET (1 .. 0) |-> base]
    OBVIOUS
  <2>2. \A s \in SUBSET (1 .. 0) : s = {}
    OBVIOUS
  <2>3. f \in [SUBSET (1 .. 0) -> A] /\ Follows(f, 0, base, step)
    BY <2>1, <2>2 DEF Follows
  <2>4. \E g \in [SUBSET (1 .. 0) -> A] : Follows(g, 0, base, step)
    BY ONLY <2>3
  <2>5. 0 \in 0 .. n
    OBVIOUS
  <2> QED BY <2>4, <2>5
<1>2. ASSUME NEW k, k \in Nat, k < n, k \in Good PROVE k + 1 \in Good
  <2>1. PICK f \in [SUBSET (1 .. k) -> A] : Follows(f, k, base, step)
    BY <1>2
  <2>2. \E g \in [SUBSET (1 .. k + 1) -> A] : Follows(g, k + 1, base, step)
    BY <2>1, <1>2, FoldGrows
  <2>3. k + 1 \in 0 .. n
    BY <1>2
  <2> QED BY <2>2, <2>3
<1>3. n \in 0 .. n
  OBVIOUS
<1>4. n \in Good
  <2> HIDE DEF Good
  <2>1. \A i \in 0 .. n : i \in Good
    BY <1>1, <1>2, Induct
  <2> QED BY <2>1, <1>3
<1> QED BY <1>4

(* The values a fold goes through, when g is what it is on the first i.     *)
Unrolled(g, n, A, base, step) ==
  /\ g[{}] = base
  /\ \A s \in SUBSET (1 .. n) :
       s # {} /\ g[s \ {Max(s)}] \in A => g[s] = step[<<g[s \ {Max(s)}], Max(s)>>]

Values(m, n, A, base, step, last) ==
  /\ m[0] = base /\ m[n] = last
  /\ \A i \in 0 .. n : m[i] \in A
  /\ \A i \in 0 .. n - 1 : m[i + 1] = step[<<m[i], i + 1>>]

LEMMA FoldSteps ==
  ASSUME NEW A, NEW n, n \in Nat, NEW step, step \in [A \X (1 .. n) -> A],
         NEW base, base \in A, NEW g, Unrolled(g, n, A, base, step)
  PROVE  \E m : Values(m, n, A, base, step, g[1 .. n])
<1>1. g[1 .. 0] = base
  <2>1. 1 .. 0 = {}
    OBVIOUS
  <2> QED BY <2>1 DEF Unrolled
<1>2. ASSUME NEW i \in 0 .. n - 1, g[1 .. i] \in A
      PROVE  g[1 .. i + 1] = step[<<g[1 .. i], i + 1>>] /\ g[1 .. i + 1] \in A
  <2>1. PICK s : s = 1 .. i + 1
    OBVIOUS
  <2>2. PICK j : j = i + 1
    OBVIOUS
  <2>3. s \in SUBSET (1 .. n) /\ s # {} /\ j \in s /\ s \subseteq Nat /\ \A x \in s : x <= j
    <3>1. j \in 1 .. n /\ s = 1 .. j
      BY <2>1, <2>2
    <3>2. \A x \in s : x \in Nat /\ x \in 1 .. n /\ x <= j
      BY <3>1
    <3>3. j \in s
      BY <3>1
    <3> QED BY <3>2, <3>3
  <2>4. Max(s) = j
    BY <2>3, MaxIs
  <2>5. s \ {j} = 1 .. i
    BY <2>1, <2>2
  <2>6. PICK v \in A : v = g[1 .. i]
    BY <1>2
  <2>7. g[s] = step[<<v, j>>]
    BY <2>3, <2>4, <2>5, <2>6 DEF Unrolled
  <2>8. <<v, j>> \in A \X (1 .. n)
    BY <2>3
  <2>9. step[<<v, j>>] \in A
    BY <2>8
  <2> QED BY <2>1, <2>2, <2>6, <2>7, <2>9
<1>3. \A i \in 0 .. n : g[1 .. i] \in A
  <2> DEFINE Good == {i \in 0 .. n : g[1 .. i] \in A}
  <2>1. 0 \in Good
    BY <1>1
  <2>2. ASSUME NEW i, i \in Nat, i < n, i \in Good PROVE i + 1 \in Good
    <3>1. i \in 0 .. n - 1 /\ i + 1 \in 0 .. n
      BY <2>2
    <3> QED BY <3>1, <2>2, <1>2
  <2>3. \A i \in 0 .. n : i \in Good
    <3> HIDE DEF Good
    <3> QED BY <2>1, <2>2, Induct
  <2> QED BY <2>3
<1>4. PICK m : m = [i \in 0 .. n |-> g[1 .. i]]
  OBVIOUS
<1>5. m[0] = base /\ m[n] = g[1 .. n]
  <2>1. 0 \in 0 .. n /\ n \in 0 .. n
    OBVIOUS
  <2> QED BY <2>1, <1>1, <1>4
<1>6. \A i \in 0 .. n : m[i] \in A
  BY <1>3, <1>4
<1>7. \A i \in 0 .. n - 1 : m[i + 1] = step[<<m[i], i + 1>>]
  <2> SUFFICES ASSUME NEW i \in 0 .. n - 1 PROVE m[i + 1] = step[<<m[i], i + 1>>]
    OBVIOUS
  <2>1. i \in 0 .. n /\ i + 1 \in 0 .. n
    OBVIOUS
  <2>2. m[i] = g[1 .. i] /\ m[i + 1] = g[1 .. i + 1]
    BY <2>1, <1>4
  <2> QED BY <2>1, <2>2, <1>2, <1>3
<1> QED BY <1>5, <1>6, <1>7 DEF Values

-----------------------------------------------------------------------------
(* Probing, where nothing is ever deleted.                                 *)

Cell == [key : Nat, index : Int]
Cells(c) == [0 .. c - 1 -> Cell]

(* The slot a search from hash a comes to after d steps. *)
StepTo(c, a, d) == (a + d) % c

LEMMA StepIsASlot ==
  ASSUME NEW c \in Nat \ {0}, NEW a \in Nat, NEW d \in Nat
  PROVE  StepTo(c, a, d) \in 0 .. c - 1
<1>1. a + d \in Nat
  OBVIOUS
<1> QED BY <1>1 DEF StepTo

(* A search comes to every slot. *)
LEMMA StepsReach ==
  ASSUME NEW c \in Nat \ {0}, NEW a \in Nat, NEW h \in 0 .. c - 1
  PROVE  \E i \in 0 .. c - 1 : StepTo(c, a, i) = h
<1>2. PICK r \in 0 .. c - 1 : r = a % c
  OBVIOUS
<1>3. \A i \in Nat : StepTo(c, a, i) = (r + i) % c
  BY <1>2, RemainderOfSum DEF StepTo
<1>4. CASE r <= h
  <2>1. h - r \in 0 .. c - 1 /\ h - r \in Nat /\ r + (h - r) = h
    BY <1>4
  <2>2. h % c = h
    <3>1. c * 0 + h = h /\ 0 \in Nat
      OBVIOUS
    <3> QED BY <3>1, RemainderIs
  <2>3. StepTo(c, a, h - r) = h
    BY <1>3, <2>1, <2>2
  <2> QED BY <2>1, <2>3
<1>5. CASE ~ (r <= h)
  <2>1. PICK i \in 0 .. c - 1 : i = h + c - r
    BY <1>5
  <2>2. r + i = c + h /\ i \in Nat
    BY <2>1
  <2>3. (c + h) % c = h
    <3>1. c * 1 + h = c + h /\ 1 \in Nat
      OBVIOUS
    <3> QED BY <3>1, RemainderIs
  <2>4. StepTo(c, a, i) = h
    BY <1>3, <2>2, <2>3
  <2> QED BY <2>4
<1> QED BY <1>4, <1>5

(* The search ends after d steps, at the first slot that has one of the     *)
(* keys or none.                                                           *)
EndsAfter(e, c, a, keys, d) ==
  /\ d \in 0 .. c - 1 /\ e[StepTo(c, a, d)].key \in keys \cup {Vacant}
  /\ \A i \in 0 .. c - 1 : i < d => e[StepTo(c, a, i)].key \notin keys \cup {Vacant}

LEMMA FindEnds ==
  ASSUME NEW c \in Nat \ {0}, NEW a \in Nat, NEW e, NEW keys, NEW n \in 0 .. c - 1,
         e[StepTo(c, a, n)].key \in keys \cup {Vacant}
  PROVE  \E d \in 0 .. n : /\ Find(e, c, a, keys) = StepTo(c, a, d)
                           /\ EndsAfter(e, c, a, keys, d)
<1>1. PICK ends : ends = {i \in 0 .. c - 1 : e[StepTo(c, a, i)].key \in keys \cup {Vacant}}
  OBVIOUS
<1>2. ends \subseteq Nat /\ n \in ends
  BY <1>1
<1>3. PICK d \in ends : \A i \in ends : d <= i
  BY <1>2, LeastMember
<1>4. Min(ends) = d
  BY <1>2, <1>3, MinIs
<1>5. Find(e, c, a, keys) = StepTo(c, a, Min(ends))
  BY <1>1 DEF Find, StepTo
<1>6. d \in 0 .. c - 1 /\ d <= n /\ e[StepTo(c, a, d)].key \in keys \cup {Vacant}
  BY <1>1, <1>2, <1>3
<1>7. ASSUME NEW i \in 0 .. c - 1, i < d PROVE e[StepTo(c, a, i)].key \notin keys \cup {Vacant}
  <2>1. ~ (d <= i)
    BY <1>6, <1>7
  <2>2. i \notin ends
    BY <1>3, <2>1
  <2> QED BY <2>2, <1>1
<1>8. EndsAfter(e, c, a, keys, d) /\ d \in 0 .. n
  BY <1>6, <1>7 DEF EndsAfter
<1> QED BY <1>4, <1>5, <1>8

Used(e, c) == {s \in 0 .. c - 1 : e[s].key # Vacant}

(* A search from a comes to slot s before it comes to a vacant one. *)
Reaches(e, c, a, s) ==
  \E d \in 0 .. c - 1 :
    StepTo(c, a, d) = s /\ \A i \in 0 .. c - 1 : i < d => StepTo(c, a, i) \in Used(e, c)

SoundArray(e, c, hashOf) ==
  /\ e \in Cells(c)
  /\ \A s, t \in Used(e, c) : e[s].key = e[t].key => s = t
  /\ \A s \in Used(e, c) : /\ e[s].key \in DOMAIN hashOf
                           /\ Reaches(e, c, hashOf[e[s].key], s)

LEMMA FindsKey ==
  ASSUME NEW e, NEW c \in Nat \ {0}, NEW hashOf, SoundArray(e, c, hashOf),
         NEW s \in Used(e, c), NEW k, k = e[s].key, NEW a \in Nat, a = hashOf[k]
  PROVE  Find(e, c, a, {k}) = s
<1>1. PICK n \in 0 .. c - 1 :
        StepTo(c, a, n) = s /\ \A i \in 0 .. c - 1 : i < n => e[StepTo(c, a, i)].key # Vacant
  BY DEF SoundArray, Reaches, Used
<1>2. e[StepTo(c, a, n)].key \in {k} \cup {Vacant}
  BY <1>1
<1>3. PICK d \in 0 .. n : Find(e, c, a, {k}) = StepTo(c, a, d) /\ EndsAfter(e, c, a, {k}, d)
  BY <1>2, FindEnds
<1>4. PICK t \in 0 .. c - 1 : t = StepTo(c, a, d)
  <2>1. d \in Nat
    OBVIOUS
  <2>2. StepTo(c, a, d) \in 0 .. c - 1
    BY <2>1, StepIsASlot
  <2> QED BY <2>2
<1>5. e[t].key # Vacant
  <2>1. CASE d = n
    BY <2>1, <1>1, <1>4 DEF Used
  <2>2. CASE d < n
    BY <2>2, <1>1, <1>4
  <2> QED BY <2>1, <2>2, <1>3
<1>6. t \in Used(e, c) /\ e[t].key = k
  BY <1>3, <1>4, <1>5 DEF Used, EndsAfter
<1> QED BY <1>3, <1>4, <1>6 DEF SoundArray

LEMMA FindsHole ==
  ASSUME NEW e, NEW c \in Nat \ {0}, NEW a \in Nat, NEW keys, Vacant \notin keys,
         \A s \in Used(e, c) : e[s].key \notin keys, NEW hole \in 0 .. c - 1, hole \notin Used(e, c)
  PROVE  /\ Find(e, c, a, keys) \in 0 .. c - 1 /\ Find(e, c, a, keys) \notin Used(e, c)
         /\ Reaches(e, c, a, Find(e, c, a, keys))
<1>1. PICK n \in 0 .. c - 1 : StepTo(c, a, n) = hole
  BY StepsReach
<1>2. e[StepTo(c, a, n)].key \in keys \cup {Vacant}
  BY <1>1 DEF Used
<1>3. PICK d \in 0 .. n : Find(e, c, a, keys) = StepTo(c, a, d) /\ EndsAfter(e, c, a, keys, d)
  BY <1>2, FindEnds
<1>4. PICK t \in 0 .. c - 1 : t = StepTo(c, a, d)
  <2>1. d \in Nat
    OBVIOUS
  <2>2. StepTo(c, a, d) \in 0 .. c - 1
    BY <2>1, StepIsASlot
  <2> QED BY <2>2
<1>5. t \notin Used(e, c)
  BY <1>3, <1>4 DEF Used, EndsAfter
<1>6. Reaches(e, c, a, t)
  <2>1. ASSUME NEW i \in 0 .. c - 1, i < d PROVE StepTo(c, a, i) \in Used(e, c)
    <3>1. e[StepTo(c, a, i)].key # Vacant
      BY <1>3, <2>1 DEF EndsAfter
    <3>2. i \in Nat
      OBVIOUS
    <3>3. StepTo(c, a, i) \in 0 .. c - 1
      BY <3>2, StepIsASlot
    <3> QED BY <3>1, <3>3 DEF Used
  <2> QED BY <2>1, <1>3, <1>4 DEF Reaches, EndsAfter
<1> QED BY <1>3, <1>4, <1>5, <1>6

(* A cell is put where a search for its key ends. *)
PutAt(e, s, cell) == [e EXCEPT ![s] = cell]

LEMMA PutKeeps ==
  ASSUME NEW e, NEW c \in Nat, NEW hashOf, SoundArray(e, c, hashOf),
         NEW s \in 0 .. c - 1, s \notin Used(e, c), NEW cell \in Cell, cell.key # Vacant,
         cell.key \in DOMAIN hashOf, Reaches(e, c, hashOf[cell.key], s),
         \A t \in Used(e, c) : e[t].key # cell.key,
         NEW e2, e2 = PutAt(e, s, cell)
  PROVE  /\ SoundArray(e2, c, hashOf) /\ Used(e2, c) = Used(e, c) \cup {s}
         /\ e2[s] = cell /\ \A t \in Used(e, c) : e2[t] = e[t]
<1>1. e \in Cells(c)
  BY DEF SoundArray
<1>2. e2 \in Cells(c) /\ e2[s] = cell /\ \A t \in 0 .. c - 1 : t # s => e2[t] = e[t]
  BY <1>1 DEF Cells, PutAt
<1>3. Used(e2, c) = Used(e, c) \cup {s} /\ Used(e, c) \subseteq 0 .. c - 1
  BY <1>2 DEF Used
<1>4. \A t \in Used(e, c) : t # s /\ e2[t] = e[t]
  BY <1>2, <1>3
<1>5. \A t \in 0 .. c - 1 : e[t].key # Vacant => e2[t].key # Vacant
  BY <1>2
<1>6. ASSUME NEW a, NEW t, Reaches(e, c, a, t) PROVE Reaches(e2, c, a, t)
  <2>1. PICK d \in 0 .. c - 1 :
          StepTo(c, a, d) = t /\ \A i \in 0 .. c - 1 : i < d => StepTo(c, a, i) \in Used(e, c)
    BY <1>6 DEF Reaches
  <2> QED BY <2>1, <1>3 DEF Reaches
<1>7. \A t, u \in Used(e2, c) : e2[t].key = e2[u].key => t = u
  <2> SUFFICES ASSUME NEW t \in Used(e2, c), NEW u \in Used(e2, c), e2[t].key = e2[u].key
               PROVE  t = u
    OBVIOUS
  <2>1. CASE t \in Used(e, c) /\ u \in Used(e, c)
    <3>1. e[t].key = e[u].key
      BY <2>1, <1>4
    <3> QED BY <2>1, <3>1 DEF SoundArray
  <2>2. CASE t \in Used(e, c) /\ u = s
    <3>1. e[t].key = cell.key
      BY <2>2, <1>2, <1>4
    <3> QED BY <2>2, <3>1
  <2>3. CASE u \in Used(e, c) /\ t = s
    <3>1. e[u].key = cell.key
      BY <2>3, <1>2, <1>4
    <3> QED BY <2>3, <3>1
  <2> QED BY <2>1, <2>2, <2>3, <1>3
<1>8. \A t \in Used(e2, c) : /\ e2[t].key \in DOMAIN hashOf
                             /\ Reaches(e2, c, hashOf[e2[t].key], t)
  <2> SUFFICES ASSUME NEW t \in Used(e2, c)
               PROVE  e2[t].key \in DOMAIN hashOf /\ Reaches(e2, c, hashOf[e2[t].key], t)
    OBVIOUS
  <2>1. CASE t = s
    BY <2>1, <1>2, <1>6
  <2>2. CASE t \in Used(e, c)
    BY <2>2, <1>4, <1>6 DEF SoundArray
  <2> QED BY <2>1, <2>2, <1>3
<1> QED BY <1>2, <1>3, <1>4, <1>7, <1>8 DEF SoundArray

-----------------------------------------------------------------------------
(* What an array has, whatever slots it is in.                             *)
Entries(e, c) == {e[s] : s \in Used(e, c)}

LEMMA PutAdds ==
  ASSUME NEW e, NEW c, NEW s, Used(e, c) \subseteq 0 .. c - 1, NEW cell, NEW e2,
         Used(e2, c) = Used(e, c) \cup {s}, e2[s] = cell, \A t \in Used(e, c) : e2[t] = e[t]
  PROVE  Entries(e2, c) = Entries(e, c) \cup {cell}
<1>1. ASSUME NEW x \in Entries(e2, c) PROVE x \in Entries(e, c) \cup {cell}
  <2>1. PICK t \in Used(e2, c) : x = e2[t]
    BY DEF Entries
  <2>2. CASE t = s
    BY <2>1, <2>2
  <2>3. CASE t \in Used(e, c)
    BY <2>1, <2>3 DEF Entries
  <2> QED BY <2>2, <2>3
<1>2. ASSUME NEW x \in Entries(e, c) PROVE x \in Entries(e2, c)
  <2>1. PICK t \in Used(e, c) : x = e[t]
    BY DEF Entries
  <2> QED BY <2>1 DEF Entries
<1>3. cell \in Entries(e2, c)
  BY DEF Entries
<1> QED BY <1>1, <1>2, <1>3

(* The index in a cell plays no part in a search. *)
IndexSet(e, s, x) == [e EXCEPT ![s].index = x]

LEMMA IndexKeeps ==
  ASSUME NEW e, NEW c \in Nat, NEW hashOf, SoundArray(e, c, hashOf), NEW s \in Used(e, c),
         NEW x \in Int, NEW e2, e2 = IndexSet(e, s, x),
         NEW old, old = e[s], NEW new, new = [key |-> old.key, index |-> x]
  PROVE  /\ SoundArray(e2, c, hashOf) /\ Used(e2, c) = Used(e, c)
         /\ Entries(e2, c) = (Entries(e, c) \ {old}) \cup {new} /\ e2[s] = new
<1>1. e \in Cells(c) /\ s \in 0 .. c - 1
  BY DEF SoundArray, Used
<1>2. old \in Cell /\ new \in Cell
  BY <1>1 DEF Cells, Cell
<1>3. e2 = [e EXCEPT ![s] = new]
  <2>1. PICK k \in Nat, i \in Int : old = [key |-> k, index |-> i]
    BY <1>2 DEF Cell
  <2>2. [old EXCEPT !.index = x] = [key |-> k, index |-> x]
    BY <2>1
  <2>3. [old EXCEPT !.index = x] = new
    BY <2>1, <2>2
  <2>4. e2 = [e EXCEPT ![s] = [old EXCEPT !.index = x]]
    BY DEF IndexSet
  <2> QED BY <2>3, <2>4
<1>4. e2 \in Cells(c) /\ e2[s] = new /\ \A t \in 0 .. c - 1 : t # s => e2[t] = e[t]
  BY <1>1, <1>2, <1>3 DEF Cells
<1>5. \A t \in 0 .. c - 1 : e2[t].key = e[t].key
  <2> TAKE t \in 0 .. c - 1
  <2>1. CASE t = s
    BY <2>1, <1>4
  <2>2. CASE t # s
    BY <2>2, <1>4
  <2> QED BY <2>1, <2>2
<1>6. Used(e2, c) = Used(e, c)
  BY <1>5 DEF Used
<1>7. SoundArray(e2, c, hashOf)
  <2>1. \A t, u \in Used(e2, c) : e2[t].key = e2[u].key => t = u
    BY <1>5, <1>6 DEF SoundArray, Used
  <2>2. ASSUME NEW a, NEW t, Reaches(e, c, a, t) PROVE Reaches(e2, c, a, t)
    BY <1>6, <2>2 DEF Reaches
  <2>3. ASSUME NEW t \in Used(e2, c)
        PROVE  e2[t].key \in DOMAIN hashOf /\ Reaches(e2, c, hashOf[e2[t].key], t)
    BY <1>5, <1>6, <2>2 DEF SoundArray, Used
  <2> QED BY <2>1, <2>3, <1>4 DEF SoundArray
<1>8. ASSUME NEW y \in Entries(e2, c) PROVE y \in (Entries(e, c) \ {old}) \cup {new}
  <2>1. PICK t \in Used(e, c) : y = e2[t]
    BY <1>6 DEF Entries
  <2>2. CASE t = s
    BY <2>1, <2>2, <1>4
  <2>3. CASE t # s
    <3>1. t \in 0 .. c - 1
      BY DEF Used
    <3>2. y = e[t] /\ e[t] # old
      BY <2>1, <2>3, <3>1, <1>4 DEF SoundArray
    <3> QED BY <3>2 DEF Entries
  <2> QED BY <2>2, <2>3
<1>9. ASSUME NEW y \in Entries(e, c), y # old PROVE y \in Entries(e2, c)
  <2>1. PICK t \in Used(e, c) : y = e[t]
    BY DEF Entries
  <2>2. t # s /\ t \in 0 .. c - 1
    BY <2>1, <1>9 DEF Used
  <2> QED BY <2>1, <2>2, <1>4, <1>6 DEF Entries
<1>10. new \in Entries(e2, c)
  BY <1>4, <1>6 DEF Entries
<1> QED BY <1>4, <1>6, <1>7, <1>8, <1>9, <1>10

(* The first slots of an array. *)
LEMMA UsedStays ==
  ASSUME NEW e, NEW i, i \in Nat, e[i].key = Vacant
  PROVE  Used(e, i + 1) = Used(e, i)
<1>1. \A x : x \in 0 .. (i + 1) - 1 <=> x \in 0 .. i - 1 \/ x = i
  OBVIOUS
<1> QED BY <1>1 DEF Used

LEMMA UsedGrows ==
  ASSUME NEW n, n \in Nat, NEW e, NEW i, i \in 0 .. n - 1, e[i].key # Vacant
  PROVE  /\ Used(e, i + 1) = Used(e, i) \cup {i} /\ Cardinality(Used(e, i)) \in Nat
         /\ Cardinality(Used(e, i + 1)) = Cardinality(Used(e, i)) + 1
         /\ Cardinality(Used(e, i)) < Cardinality(Used(e, n))
<1>1. PICK j : j = i + 1
  OBVIOUS
<1>2. Used(e, j) = Used(e, i) \cup {i}
  <2>1. ASSUME NEW x PROVE x \in Used(e, j) <=> x \in Used(e, i) \/ x = i
    <3>1. x \in 0 .. j - 1 <=> x \in 0 .. i - 1 \/ x = i
      BY <1>1
    <3> QED BY <3>1 DEF Used
  <2> QED BY <2>1
<1>3. IsFiniteSet(0 .. n - 1)
  BY FS_Interval
<1>4. Used(e, i) \subseteq 0 .. n - 1 /\ Used(e, n) \subseteq 0 .. n - 1
      /\ Used(e, j) \subseteq Used(e, n) /\ i \notin Used(e, i)
  BY <1>1 DEF Used
<1>5. IsFiniteSet(Used(e, i)) /\ IsFiniteSet(Used(e, n))
  BY <1>3, <1>4, FS_Subset
<1>6. Cardinality(Used(e, i)) \in Nat /\ Cardinality(Used(e, n)) \in Nat
  BY <1>5, FS_CardinalityType
<1>7. Cardinality(Used(e, j)) = Cardinality(Used(e, i)) + 1
  BY <1>2, <1>4, <1>5, FS_AddElement
<1>8. Cardinality(Used(e, j)) <= Cardinality(Used(e, n))
  BY <1>4, <1>5, FS_Subset
<1>9. Cardinality(Used(e, i)) < Cardinality(Used(e, n))
  BY <1>6, <1>7, <1>8
<1> QED BY <1>1, <1>2, <1>6, <1>7, <1>9

LEMMA UsedIsFinite ==
  ASSUME NEW e, NEW c, c \in Nat
  PROVE  /\ IsFiniteSet(Used(e, c)) /\ Cardinality(Used(e, c)) \in Nat
         /\ Cardinality(Used(e, c)) < c => \E s \in 0 .. c - 1 : s \notin Used(e, c)
<1>1. IsFiniteSet(0 .. c - 1) /\ Cardinality(0 .. c - 1) = c
  <2>1. Cardinality(0 .. c - 1) = IF 0 > c - 1 THEN 0 ELSE (c - 1) - 0 + 1
    BY FS_Interval
  <2> QED BY <2>1, FS_Interval
<1>2. Used(e, c) \subseteq 0 .. c - 1
  BY DEF Used
<1>3. IsFiniteSet(Used(e, c)) /\ Cardinality(Used(e, c)) \in Nat
  BY <1>1, <1>2, FS_Subset, FS_CardinalityType
<1>4. ASSUME Cardinality(Used(e, c)) < c PROVE \E s \in 0 .. c - 1 : s \notin Used(e, c)
  <2>1. Used(e, c) # 0 .. c - 1
    BY <1>1, <1>3, <1>4
  <2> QED BY <2>1, <1>2
<1> QED BY <1>3, <1>4

-----------------------------------------------------------------------------
(* adjustNumberCapacity, adjustStringCapacity.                             *)

MovedTo(m, c, hashOf, cell) ==
  IF cell.key = Vacant THEN m
  ELSE [m EXCEPT ![Find(m, c, hashOf[cell.key], {cell.key})] = Moved(cell)]

MovesOf(e, n, c, hashOf, base, f) ==
  [s \in SUBSET (1 .. n) |->
     IF s = {} THEN base ELSE MovedTo(f[s \ {Max(s)}], c, hashOf, e[Max(s) - 1])]

NewCapacity(c) == IF c < MinCapacity THEN MinCapacity ELSE 2 * c
WithArray(p, c, e) == [p EXCEPT !.capacity = c, !.entries = e]
NewArray(c) == [i \in 0 .. c - 1 |-> EmptyEntry]

LEMMA GrowthIsAFold ==
  ASSUME NEW p, NEW hashOf, NEW n, n \in Nat, p.capacity = n, NEW c, c = NewCapacity(n),
         NEW base, base = NewArray(c), ~ (p.count + 1 <= (n * 3) \div 4),
         NEW last, last = (CHOOSE f : f = MovesOf(p.entries, n, c, hashOf, base, f))[1 .. n]
  PROVE  GrownPool(p, hashOf) = WithArray(p, c, last)
<1>1. PICK seq : seq = [i \in 1 .. n |-> i - 1]
  OBVIOUS
<1>2. \A s \in SUBSET (1 .. n) : s # {} => Max(s) \in 1 .. n /\ seq[Max(s)] = Max(s) - 1
  <2> SUFFICES ASSUME NEW s \in SUBSET (1 .. n), s # {} PROVE Max(s) \in 1 .. n
    BY <1>1
  <2> QED BY MaxMember
<1>3. DOMAIN seq = 1 .. n
  BY <1>1, SMTT(30)
<1> DEFINE Old(f) == [s \in SUBSET DOMAIN seq |->
                        IF s = {} THEN base
                        ELSE MovedTo(f[s \ {Max(s)}], c, hashOf, p.entries[seq[Max(s)]])]
<1>4. GrownPool(p, hashOf) =
        [p EXCEPT !.capacity = c, !.entries = (CHOOSE f : f = Old(f))[DOMAIN seq]]
  BY <1>1 DEF GrownPool, FoldLeft, MapThenFoldSet, MovedTo, NewCapacity, NewArray
<1>5. \A f : Old(f) = MovesOf(p.entries, n, c, hashOf, base, f)
  BY <1>2, <1>3 DEF MovesOf
<1> HIDE DEF Old
<1>6. (CHOOSE f : f = Old(f)) = CHOOSE f : f = MovesOf(p.entries, n, c, hashOf, base, f)
  BY <1>5
<1> QED BY <1>3, <1>4, <1>6 DEF WithArray

(* The arrays between the first and the last. *)
Moves(m, e, n, c, hashOf, base, last) ==
  /\ m[0] = base /\ m[n] = last
  /\ \A i \in 0 .. n - 1 : m[i + 1] = MovedTo(m[i], c, hashOf, e[i])

LEMMA GrowthMoves ==
  ASSUME NEW n, n \in Nat, NEW e, e \in Cells(n), NEW c, NEW base, base \in Cells(c),
         NEW hashOf, NEW last,
         last = (CHOOSE f : f = MovesOf(e, n, c, hashOf, base, f))[1 .. n]
  PROVE  \E m : Moves(m, e, n, c, hashOf, base, last)
<1>1. PICK step : step = [x \in Cells(c) \X (1 .. n) |-> MovedTo(x[1], c, hashOf, e[x[2] - 1])]
  OBVIOUS
<1>2. ASSUME NEW a \in Cells(c), NEW i \in 1 .. n
      PROVE  step[<<a, i>>] = MovedTo(a, c, hashOf, e[i - 1]) /\ step[<<a, i>>] \in Cells(c)
  <2>1. PICK cell \in Cell : cell = e[i - 1]
    BY DEF Cells
  <2>2. PICK h : h = Find(a, c, hashOf[cell.key], {cell.key})
    OBVIOUS
  <2>3. MovedTo(a, c, hashOf, cell) \in Cells(c)
    BY <2>2 DEF MovedTo, Moved, Cells
  <2>4. <<a, i>> \in Cells(c) \X (1 .. n) /\ <<a, i>>[1] = a /\ <<a, i>>[2] = i
    OBVIOUS
  <2>5. step[<<a, i>>] = MovedTo(a, c, hashOf, e[i - 1])
    BY <2>4, <1>1
  <2> QED BY <2>1, <2>3, <2>5
<1>3. step \in [Cells(c) \X (1 .. n) -> Cells(c)]
  <2>1. \A x \in Cells(c) \X (1 .. n) : step[x] \in Cells(c)
    <3> SUFFICES ASSUME NEW x \in Cells(c) \X (1 .. n) PROVE step[x] \in Cells(c)
      OBVIOUS
    <3>1. PICK a \in Cells(c), i \in 1 .. n : x = <<a, i>>
      OBVIOUS
    <3> QED BY <3>1, <1>2
  <2>2. step = [x \in Cells(c) \X (1 .. n) |-> step[x]]
    BY <1>1
  <2> QED BY <2>1, <2>2
<1>4. PICK f \in [SUBSET (1 .. n) -> Cells(c)] : Follows(f, n, base, step)
  BY <1>3, FoldExists
<1>5. f = MovesOf(e, n, c, hashOf, base, f)
  <2>1. ASSUME NEW s \in SUBSET (1 .. n)
        PROVE  f[s] = IF s = {} THEN base ELSE MovedTo(f[s \ {Max(s)}], c, hashOf, e[Max(s) - 1])
    <3>1. CASE s = {}
      BY <3>1, <1>4 DEF Follows
    <3>2. CASE s # {}
      <4>1. PICK i \in 1 .. n : i = Max(s)
        BY <3>2, MaxMember
      <4>2. s \ {i} \in SUBSET (1 .. n)
        OBVIOUS
      <4>3. PICK a \in Cells(c) : a = f[s \ {i}]
        BY <4>2
      <4>4. f[s] = step[<<a, i>>]
        BY <3>2, <4>1, <4>3, <1>4 DEF Follows
      <4> QED BY <3>2, <4>1, <4>3, <4>4, <1>2
    <3> QED BY <3>1, <3>2
  <2>2. f = [s \in SUBSET (1 .. n) |-> f[s]]
    OBVIOUS
  <2> QED BY <2>1, <2>2 DEF MovesOf
<1>6. PICK g : g = CHOOSE h : h = MovesOf(e, n, c, hashOf, base, h)
  OBVIOUS
<1>7. g = MovesOf(e, n, c, hashOf, base, g)
  BY <1>5, <1>6
<1>8. Unrolled(g, n, Cells(c), base, step)
  <2>1. g[{}] = base
    <3>1. {} \in SUBSET (1 .. n)
      OBVIOUS
    <3>2. MovesOf(e, n, c, hashOf, base, g)[{}] = base
      BY <3>1 DEF MovesOf
    <3> QED BY <3>2, <1>7
  <2>2. ASSUME NEW s \in SUBSET (1 .. n), s # {}, g[s \ {Max(s)}] \in Cells(c)
        PROVE  g[s] = step[<<g[s \ {Max(s)}], Max(s)>>]
    <3>1. PICK i \in 1 .. n : i = Max(s)
      BY <2>2, MaxMember
    <3>2. PICK a \in Cells(c) : a = g[s \ {i}]
      BY <2>2, <3>1
    <3>3. MovesOf(e, n, c, hashOf, base, g)[s] = MovedTo(a, c, hashOf, e[i - 1])
      BY <2>2, <3>1, <3>2 DEF MovesOf
    <3> QED BY <3>1, <3>2, <3>3, <1>2, <1>7
  <2> QED BY <2>1, <2>2 DEF Unrolled
<1>9. PICK m : Values(m, n, Cells(c), base, step, g[1 .. n])
  BY <1>3, <1>8, FoldSteps
<1>10. ASSUME NEW i \in 0 .. n - 1 PROVE m[i + 1] = MovedTo(m[i], c, hashOf, e[i])
  <2>1. i + 1 \in 1 .. n /\ (i + 1) - 1 = i /\ i \in 0 .. n
    OBVIOUS
  <2>2. m[i] \in Cells(c) /\ m[i + 1] = step[<<m[i], i + 1>>]
    BY <2>1, <1>9 DEF Values
  <2> QED BY <2>1, <2>2, <1>2
<1>11. m[0] = base /\ m[n] = last
  BY <1>6, <1>9 DEF Values
<1> QED BY <1>10, <1>11 DEF Moves

(* The first i slots of e have been moved to m. *)
Copied(m, c, e, i, hashOf) ==
  /\ SoundArray(m, c, hashOf) /\ Entries(m, c) = Entries(e, i)
  /\ Cardinality(Used(m, c)) = Cardinality(Used(e, i))

LEMMA MoveKeeps ==
  ASSUME NEW hashOf, \A k \in DOMAIN hashOf : hashOf[k] \in Nat,
         NEW n, n \in Nat, NEW e, SoundArray(e, n, hashOf),
         NEW c, c \in Nat \ {0}, Cardinality(Used(e, n)) <= c,
         NEW i, i \in 0 .. n - 1, NEW m, Copied(m, c, e, i, hashOf)
  PROVE  Copied(MovedTo(m, c, hashOf, e[i]), c, e, i + 1, hashOf)
<1>1. PICK cell \in Cell : cell = e[i]
  BY DEF SoundArray, Cells
<1>2. PICK new : new = MovedTo(m, c, hashOf, e[i])
  OBVIOUS
<1>3. CASE cell.key = Vacant
  <2>1. Used(e, i + 1) = Used(e, i) /\ new = m
    <3>1. i \in Nat /\ e[i].key = Vacant
      BY <1>1, <1>3
    <3> QED BY <3>1, <1>1, <1>2, <1>3, UsedStays DEF MovedTo
  <2>2. Entries(e, i + 1) = Entries(e, i)
    BY <2>1 DEF Entries
  <2>3. Copied(new, c, e, i + 1, hashOf)
    BY <2>1, <2>2 DEF Copied
  <2> QED BY <2>3, <1>2
<1>4. CASE cell.key # Vacant
  <2>0. /\ Used(e, i + 1) = Used(e, i) \cup {i}
        /\ Cardinality(Used(e, i + 1)) = Cardinality(Used(e, i)) + 1
        /\ Cardinality(Used(e, i)) < Cardinality(Used(e, n)) /\ Cardinality(Used(e, i)) \in Nat
    <3>1. e[i].key # Vacant
      BY <1>1, <1>4
    <3> QED BY ONLY <3>1, n \in Nat, i \in 0 .. n - 1, UsedGrows
  <2>1. Used(e, i) \subseteq 0 .. i - 1 /\ Used(e, i) \subseteq Used(e, n) /\ i \in Used(e, n)
    <3>1. 0 .. i - 1 \subseteq 0 .. n - 1
      OBVIOUS
    <3> QED BY <3>1, <1>1, <1>4 DEF Used
  <2>2. PICK k \in Nat, h \in Nat : k = cell.key /\ h = hashOf[k] /\ k \in DOMAIN hashOf
    BY <1>1, <2>1 DEF SoundArray, Cell
  <2>3. \A t \in Used(m, c) : m[t].key # k
    <3> SUFFICES ASSUME NEW t \in Used(m, c), m[t].key = k PROVE FALSE
      OBVIOUS
    <3>1. m[t] \in Entries(e, i)
      BY DEF Copied, Entries
    <3>2. PICK u \in Used(e, i) : m[t] = e[u]
      BY <3>1 DEF Entries
    <3>3. u = i
      BY <3>2, <2>1, <2>2, <1>1 DEF SoundArray
    <3> QED BY <3>3, <2>1
  <2>4. SoundArray(m, c, hashOf) /\ Used(m, c) \subseteq 0 .. c - 1
    BY DEF Copied, Used
  <2>5. PICK hole \in 0 .. c - 1 : hole \notin Used(m, c)
    <3>1. Cardinality(Used(m, c)) < c
      <4>1. Cardinality(Used(m, c)) = Cardinality(Used(e, i))
        BY DEF Copied
      <4>2. Cardinality(Used(e, n)) \in Nat
        BY UsedIsFinite
      <4> QED BY <4>1, <4>2, <2>0
    <3> QED BY <3>1, UsedIsFinite
  <2>6. PICK s : s = Find(m, c, h, {k})
    OBVIOUS
  <2>7. s \in 0 .. c - 1 /\ s \notin Used(m, c) /\ Reaches(m, c, h, s)
    <3>1. Vacant \notin {k} /\ \A t \in Used(m, c) : m[t].key \notin {k}
      BY <1>4, <2>2, <2>3
    <3> QED BY <3>1, <2>5, <2>6, FindsHole
  <2>8. new = [m EXCEPT ![s] = cell]
    BY <1>1, <1>2, <1>4, <2>2, <2>6 DEF MovedTo, Moved
  <2>9. /\ SoundArray(new, c, hashOf) /\ Used(new, c) = Used(m, c) \cup {s}
        /\ new[s] = cell /\ \A t \in Used(m, c) : new[t] = m[t]
    <3>1. /\ cell.key \in DOMAIN hashOf /\ Reaches(m, c, hashOf[cell.key], s)
          /\ \A t \in Used(m, c) : m[t].key # cell.key
      BY <2>2, <2>3, <2>7
    <3>4. new = PutAt(m, s, cell)
      BY <2>8 DEF PutAt
    <3>2. SoundArray(m, c, hashOf) /\ s \in 0 .. c - 1 /\ s \notin Used(m, c)
      BY <2>4, <2>7
    <3>3. c \in Nat /\ cell \in Cell
      OBVIOUS
    <3> QED BY ONLY <1>4, <3>1, <3>2, <3>3, <3>4, PutKeeps
  <2>10. Entries(new, c) = Entries(m, c) \cup {cell}
    BY ONLY <2>4, <2>9, PutAdds
  <2>11. Entries(e, i + 1) = Entries(e, i) \cup {cell}
    BY <2>0, <1>1 DEF Entries
  <2>12. Cardinality(Used(new, c)) = Cardinality(Used(m, c)) + 1
    BY <2>7, <2>9, UsedIsFinite, FS_AddElement
  <2>13. Copied(new, c, e, i + 1, hashOf)
    BY <2>0, <2>9, <2>10, <2>11, <2>12 DEF Copied
  <2> QED BY <2>13, <1>2
<1> QED BY <1>3, <1>4

LEMMA EmptyArray ==
  ASSUME NEW c, c \in Nat \ {0}, NEW hashOf
  PROVE  SoundArray(NewArray(c), c, hashOf) /\ Used(NewArray(c), c) = {}
<1>1. PICK e : e = NewArray(c)
  OBVIOUS
<1>2. EmptyEntry \in Cell /\ EmptyEntry.key = Vacant
  BY DEF EmptyEntry, Cell, Vacant, NoIndex
<1>3. e \in Cells(c) /\ \A s \in 0 .. c - 1 : e[s].key = Vacant
  BY <1>1, <1>2 DEF NewArray, Cells
<1>4. Used(e, c) = {}
  BY <1>3 DEF Used
<1> QED BY <1>1, <1>3, <1>4 DEF SoundArray

LEMMA ArrayIsCopied ==
  ASSUME NEW hashOf, \A k \in DOMAIN hashOf : hashOf[k] \in Nat,
         NEW n, n \in Nat, NEW e, SoundArray(e, n, hashOf),
         NEW c, c \in Nat \ {0}, Cardinality(Used(e, n)) <= c, NEW last,
         last = (CHOOSE f : f = MovesOf(e, n, c, hashOf, NewArray(c), f))[1 .. n]
  PROVE  Copied(last, c, e, n, hashOf)
<1>1. PICK base : base = NewArray(c)
  OBVIOUS
<1>2. SoundArray(base, c, hashOf) /\ Used(base, c) = {}
  BY <1>1, EmptyArray
<1>3. Copied(base, c, e, 0, hashOf)
  <2>1. Used(e, 0) = {}
    BY DEF Used
  <2> QED BY <2>1, <1>2 DEF Copied, Entries
<1>4. PICK m : Moves(m, e, n, c, hashOf, base, last)
  <2>1. base \in Cells(c) /\ e \in Cells(n)
    BY <1>2 DEF SoundArray
  <2> QED BY <2>1, <1>1, GrowthMoves
<1> DEFINE Good == {i \in 0 .. n : Copied(m[i], c, e, i, hashOf)}
<1>5. 0 \in Good
  BY <1>3, <1>4 DEF Moves
<1>6. ASSUME NEW i, i \in Nat, i < n, i \in Good PROVE i + 1 \in Good
  <2>1. i \in 0 .. n - 1 /\ i + 1 \in 0 .. n
    BY <1>6
  <2>2. PICK a : a = m[i] /\ Copied(a, c, e, i, hashOf)
    BY <1>6
  <2>3. Copied(MovedTo(a, c, hashOf, e[i]), c, e, i + 1, hashOf)
    BY <2>1, <2>2, MoveKeeps
  <2>4. m[i + 1] = MovedTo(a, c, hashOf, e[i])
    BY <2>1, <2>2, <1>4 DEF Moves
  <2> QED BY <2>1, <2>3, <2>4
<1>7. n \in Good
  <2>1. n \in 0 .. n
    OBVIOUS
  <2> HIDE DEF Good
  <2>2. \A i \in 0 .. n : i \in Good
    BY <1>5, <1>6, Induct
  <2> QED BY <2>1, <2>2
<1> QED BY <1>4, <1>7 DEF Moves

-----------------------------------------------------------------------------
(* Pools.                                                                  *)

PoolOf(e, c) == [count |-> Cardinality(Used(e, c)), capacity |-> c, entries |-> e]

(* Every search of a pool ends, at its key if that is in the pool.         *)
SoundPool(p, hashOf) ==
  /\ p.capacity \in Nat /\ SoundArray(p.entries, p.capacity, hashOf)
  /\ p = PoolOf(p.entries, p.capacity)
  /\ p.capacity # 0 => p.capacity >= MinCapacity /\ p.count < p.capacity

Members(p) == Entries(p.entries, p.capacity)

(* There is room for one more key, with a slot to spare. *)
Roomy(p, hashOf) == SoundPool(p, hashOf) /\ p.capacity # 0 /\ p.count + 1 < p.capacity

LEMMA PoolOfIs ==
  ASSUME NEW e, NEW c, c \in Nat, NEW hashOf, SoundArray(e, c, hashOf),
         c # 0 => c >= MinCapacity /\ Cardinality(Used(e, c)) < c
  PROVE  /\ SoundPool(PoolOf(e, c), hashOf) /\ Members(PoolOf(e, c)) = Entries(e, c)
         /\ PoolOf(e, c).count = Cardinality(Used(e, c)) /\ PoolOf(e, c).capacity = c
<1>1. PICK p : p = PoolOf(e, c)
  OBVIOUS
<1>2. p.count = Cardinality(Used(e, c)) /\ p.capacity = c /\ p.entries = e
  BY <1>1 DEF PoolOf
<1> QED BY <1>1, <1>2 DEF SoundPool, Members

LEMMA MembersAre ==
  ASSUME NEW p, NEW hashOf, SoundPool(p, hashOf)
  PROVE  /\ \A x, y \in Members(p) : x.key = y.key => x = y
         /\ \A x \in Members(p) : x \in Cell /\ x.key # Vacant /\ x.key \in DOMAIN hashOf
         /\ p.count \in Nat /\ (p.count = 0 <=> Members(p) = {})
         /\ p.count # 0 => p.capacity \in Nat \ {0}
<1>1. PICK e, c : e = p.entries /\ c = p.capacity
  OBVIOUS
<1>2. c \in Nat /\ SoundArray(e, c, hashOf) /\ p = PoolOf(e, c) /\ Members(p) = Entries(e, c)
  BY <1>1 DEF SoundPool, Members
<1>3. p.count = Cardinality(Used(e, c))
  BY <1>2 DEF PoolOf
<1>4. IsFiniteSet(Used(e, c)) /\ Cardinality(Used(e, c)) \in Nat
  BY <1>2, UsedIsFinite
<1>5. Used(e, c) = {} <=> Cardinality(Used(e, c)) = 0
  BY <1>4, FS_EmptySet
<1>6. Used(e, c) = {} <=> Members(p) = {}
  BY <1>2 DEF Entries
<1>7. c = 0 => Used(e, c) = {}
  BY DEF Used
<1>8. ASSUME NEW x \in Members(p)
      PROVE  x \in Cell /\ x.key # Vacant /\ x.key \in DOMAIN hashOf
  <2>1. PICK s \in Used(e, c) : x = e[s]
    BY <1>2 DEF Entries
  <2>2. s \in 0 .. c - 1 /\ x.key # Vacant
    BY <2>1 DEF Used
  <2> QED BY <2>1, <2>2, <1>2 DEF SoundArray, Cells
<1>9. ASSUME NEW x \in Members(p), NEW y \in Members(p), x.key = y.key PROVE x = y
  <2>1. PICK s \in Used(e, c), t \in Used(e, c) : x = e[s] /\ y = e[t]
    BY <1>2 DEF Entries
  <2>2. s = t
    BY <2>1, <1>2, <1>9 DEF SoundArray
  <2> QED BY <2>1, <2>2
<1> QED BY <1>1, <1>2, <1>3, <1>4, <1>5, <1>6, <1>7, <1>8, <1>9

LEMMA EmptyPoolIsSound ==
  ASSUME NEW hashOf PROVE SoundPool(EmptyPool, hashOf) /\ Members(EmptyPool) = {}
<1>1. PICK e : e = << >>
  OBVIOUS
<1>2. e \in Cells(0)
  <2>1. e \in Seq(Cell) /\ Len(e) = 0
    BY <1>1, EmptySeq
  <2>2. e \in [1 .. 0 -> Cell]
    BY <2>1, LenProperties
  <2>3. 1 .. 0 = 0 .. 0 - 1
    OBVIOUS
  <2> QED BY <2>2, <2>3 DEF Cells
<1>3. Used(e, 0) = {}
  BY DEF Used
<1>4. SoundArray(e, 0, hashOf) /\ Entries(e, 0) = {}
  BY <1>2, <1>3 DEF SoundArray, Entries
<1>5. Cardinality(Used(e, 0)) = 0
  BY <1>3, FS_EmptySet
<1>6. EmptyPool = PoolOf(e, 0)
  BY <1>1, <1>5 DEF EmptyPool, PoolOf
<1>7. SoundPool(PoolOf(e, 0), hashOf) /\ Members(PoolOf(e, 0)) = Entries(e, 0)
  <2>1. 0 \in Nat
    OBVIOUS
  <2> QED BY <2>1, <1>4, PoolOfIs
<1> QED BY <1>4, <1>6, <1>7

(* A hash of a key that is new changes nothing. *)
LEMMA HashExtends ==
  ASSUME NEW p, NEW hashOf, SoundPool(p, hashOf), NEW longer, DOMAIN hashOf \subseteq DOMAIN longer,
         \A k \in DOMAIN hashOf : longer[k] = hashOf[k]
  PROVE  SoundPool(p, longer)
<1>1. SoundArray(p.entries, p.capacity, longer)
  BY DEF SoundPool, SoundArray
<1> QED BY <1>1 DEF SoundPool

(* Three quarters of an array. *)
LEMMA ThreeQuarters ==
  ASSUME NEW c, c \in Nat, NEW n, n \in Nat, n + 1 <= (c * 3) \div 4
  PROVE  n + 1 < c
<1>1. PICK x \in Nat : x = c * 3
  OBVIOUS
<1>2. x \div 4 \in Nat /\ 4 * (x \div 4) <= x
  <2>1. x % 4 \in 0 .. 3 /\ x = 4 * (x \div 4) + (x % 4) /\ x \div 4 \in Nat
    OBVIOUS
  <2> QED BY <2>1
<1>3. 4 * (n + 1) <= 3 * c
  BY <1>1, <1>2
<1> QED BY <1>3

LEMMA GrownIs ==
  ASSUME PoolsAssumption, NEW hashOf, \A k \in DOMAIN hashOf : hashOf[k] \in Nat,
         NEW p, SoundPool(p, hashOf)
  PROVE  Roomy(GrownPool(p, hashOf), hashOf) /\ Members(GrownPool(p, hashOf)) = Members(p)
<1>1. PICK e, n : e = p.entries /\ n = p.capacity
  OBVIOUS
<1>2. n \in Nat /\ SoundArray(e, n, hashOf) /\ p = PoolOf(e, n) /\ Members(p) = Entries(e, n)
  BY <1>1 DEF SoundPool, Members
<1>3. PICK count \in Nat : count = p.count /\ count = Cardinality(Used(e, n))
  <2>1. p.count = Cardinality(Used(e, n))
    BY <1>2 DEF PoolOf
  <2> QED BY <2>1, <1>2, UsedIsFinite
<1>4. CASE count + 1 <= (n * 3) \div 4
  <2>1. GrownPool(p, hashOf) = p
    BY <1>1, <1>3, <1>4 DEF GrownPool
  <2>2. count + 1 < n
    BY <1>2, <1>4, ThreeQuarters
  <2>3. Roomy(p, hashOf)
    BY <2>2, <1>1, <1>3 DEF Roomy
  <2> QED BY <2>1, <2>3
<1>5. CASE ~ (count + 1 <= (n * 3) \div 4)
  <2>1. PICK c : c = NewCapacity(n)
    OBVIOUS
  <2>2. PICK last : last = (CHOOSE f : f = MovesOf(e, n, c, hashOf, NewArray(c), f))[1 .. n]
    OBVIOUS
  <2>3. GrownPool(p, hashOf) = WithArray(p, c, last)
    <3>1. PICK base : base = NewArray(c)
      OBVIOUS
    <3>2. ~ (p.count + 1 <= (n * 3) \div 4) /\ p.capacity = n /\ n \in Nat
      BY <1>1, <1>2, <1>3, <1>5
    <3>3. last = (CHOOSE f : f = MovesOf(p.entries, n, c, hashOf, base, f))[1 .. n]
      BY <2>2, <3>1, <1>1
    <3> QED BY ONLY <3>1, <3>2, <3>3, <2>1, GrowthIsAFold
  <2>4. c \in Nat \ {0} /\ c >= MinCapacity /\ count + 1 < c
    <3>1. MinCapacity \in Nat /\ MinCapacity >= 2
      BY DEF PoolsAssumption
    <3>2. n # 0 => n >= MinCapacity /\ count < n
      BY <1>1, <1>3 DEF SoundPool
    <3>3. n = 0 => count = 0
      <4>1. n = 0 => Used(e, n) = {}
        BY DEF Used
      <4> QED BY <4>1, <1>3, FS_EmptySet
    <3>4. CASE n < MinCapacity
      <4>1. n = 0 /\ c = MinCapacity
        BY <3>1, <3>2, <3>4, <2>1, <1>2 DEF NewCapacity
      <4> QED BY <4>1, <3>1, <3>3
    <3>5. CASE ~ (n < MinCapacity)
      <4>1. c = 2 * n /\ n >= MinCapacity /\ n # 0
        BY <3>1, <3>5, <2>1, <1>2 DEF NewCapacity
      <4> QED BY <4>1, <3>1, <3>2, <1>2
    <3> QED BY <3>4, <3>5
  <2>5. Copied(last, c, e, n, hashOf)
    <3>1. Cardinality(Used(e, n)) <= c
      BY <2>4, <1>3
    <3> QED BY <3>1, <2>2, <2>4, <1>2, ArrayIsCopied
  <2>6. SoundArray(last, c, hashOf) /\ Entries(last, c) = Entries(e, n)
        /\ Cardinality(Used(last, c)) = count
    BY <2>5, <1>3 DEF Copied
  <2>7. GrownPool(p, hashOf) = PoolOf(last, c)
    <3>1. PICK q : q = [p EXCEPT !.capacity = c, !.entries = last]
      OBVIOUS
    <3>2. p = [count |-> count, capacity |-> n, entries |-> e]
      BY <1>2, <1>3 DEF PoolOf
    <3>3. q = [count |-> count, capacity |-> c, entries |-> last]
      BY <3>1, <3>2
    <3> QED BY <3>1, <3>3, <2>3, <2>6 DEF PoolOf, WithArray
  <2>8. /\ SoundPool(PoolOf(last, c), hashOf) /\ Members(PoolOf(last, c)) = Entries(last, c)
        /\ PoolOf(last, c).count = Cardinality(Used(last, c)) /\ PoolOf(last, c).capacity = c
    <3>1. c \in Nat /\ (c # 0 => c >= MinCapacity /\ Cardinality(Used(last, c)) < c)
      BY <2>4, <2>6
    <3> QED BY <3>1, <2>6, PoolOfIs
  <2>9. Roomy(PoolOf(last, c), hashOf)
    BY <2>4, <2>6, <2>8 DEF Roomy
  <2> QED BY <2>6, <2>7, <2>8, <2>9, <1>2
<1> QED BY <1>4, <1>5

LEMMA PlaceIs ==
  ASSUME NEW p, NEW hashOf, SoundPool(p, hashOf), NEW x \in Members(p), NEW k, k = x.key,
         NEW h, h \in Nat, h = hashOf[k]
  PROVE  /\ PlaceOf(p, h, k) \in Used(p.entries, p.capacity)
         /\ p.entries[PlaceOf(p, h, k)] = x
         /\ Find(p.entries, p.capacity, h, {k}) = PlaceOf(p, h, k)
<1>1. PICK e, c : e = p.entries /\ c = p.capacity
  OBVIOUS
<1>2. c \in Nat /\ SoundArray(e, c, hashOf)
  BY <1>1 DEF SoundPool
<1>3. PICK s \in Used(e, c) : x = e[s]
  BY <1>1 DEF Members, Entries
<1>4. c \in Nat \ {0}
  BY <1>2, <1>3 DEF Used
<1>5. Find(e, c, h, {k}) = s
  BY <1>2, <1>3, <1>4, FindsKey
<1> QED BY <1>1, <1>3, <1>5 DEF PlaceOf

LEMMA WithKeyKeeps ==
  ASSUME NEW p, NEW hashOf, SoundPool(p, hashOf), NEW x \in Members(p),
         NEW h, h \in Nat, h = hashOf[x.key]
  PROVE  WithKey(p, h, x.key) = p
<1>1. PICK k : k = x.key
  OBVIOUS
<1>2. h = hashOf[k]
  BY <1>1
<1>3. /\ PlaceOf(p, h, k) \in Used(p.entries, p.capacity)
      /\ p.entries[PlaceOf(p, h, k)] = x
      /\ Find(p.entries, p.capacity, h, {k}) = PlaceOf(p, h, k)
  BY ONLY <1>1, <1>2, SoundPool(p, hashOf), x \in Members(p), h \in Nat, PlaceIs
<1> QED BY <1>1, <1>3 DEF WithKey

LEMMA WithKeyAdds ==
  ASSUME NEW p, NEW hashOf, Roomy(p, hashOf), NEW k, k \in Nat, k # Vacant, k \in DOMAIN hashOf,
         \A x \in Members(p) : x.key # k, NEW h, h \in Nat, h = hashOf[k]
  PROVE  /\ SoundPool(WithKey(p, h, k), hashOf)
         /\ Members(WithKey(p, h, k)) = Members(p) \cup {[key |-> k, index |-> NoIndex]}
<1>1. PICK e, c : e = p.entries /\ c = p.capacity
  OBVIOUS
<1>2. /\ c \in Nat \ {0} /\ SoundArray(e, c, hashOf) /\ p = PoolOf(e, c)
      /\ c >= MinCapacity /\ Members(p) = Entries(e, c)
  BY <1>1 DEF Roomy, SoundPool, Members
<1>3. p.count = Cardinality(Used(e, c)) /\ p.count \in Nat /\ p.count + 1 < c
  <2>1. p.count = Cardinality(Used(e, c))
    BY <1>2 DEF PoolOf
  <2> QED BY <2>1, <1>1, <1>2, UsedIsFinite DEF Roomy
<1>4. PICK hole \in 0 .. c - 1 : hole \notin Used(e, c)
  <2>1. Cardinality(Used(e, c)) < c
    BY <1>2, <1>3
  <2> QED BY <2>1, <1>2, UsedIsFinite
<1>5. \A t \in Used(e, c) : e[t].key # k
  BY <1>2 DEF Entries
<1>6. PICK s : s = Find(e, c, h, {k})
  OBVIOUS
<1>7. s \in 0 .. c - 1 /\ s \notin Used(e, c) /\ Reaches(e, c, h, s)
  <2>1. Vacant \notin {k} /\ \A t \in Used(e, c) : e[t].key \notin {k}
    BY <1>5
  <2> QED BY <2>1, <1>2, <1>4, <1>6, FindsHole
<1>8. e[s].key = Vacant
  BY <1>7 DEF Used
<1>9. PICK cell : cell = [key |-> k, index |-> NoIndex]
  OBVIOUS
<1>10. cell \in Cell /\ cell.key = k
  BY <1>9 DEF Cell, NoIndex
<1>11. PICK e2 : e2 = PutAt(e, s, cell)
  OBVIOUS
<1>12. WithKey(p, h, k) = [p EXCEPT !.count = @ + 1, !.entries[s] = cell]
  BY <1>1, <1>6, <1>8, <1>9 DEF WithKey, PlaceOf
<1>13. /\ SoundArray(e2, c, hashOf) /\ Used(e2, c) = Used(e, c) \cup {s}
       /\ e2[s] = cell /\ \A t \in Used(e, c) : e2[t] = e[t]
  <2>1. /\ cell.key # Vacant /\ cell.key \in DOMAIN hashOf /\ Reaches(e, c, hashOf[cell.key], s)
        /\ \A t \in Used(e, c) : e[t].key # cell.key
    BY <1>5, <1>7, <1>10
  <2>2. c \in Nat
    BY <1>2
  <2> QED BY ONLY <2>1, <2>2, <1>2, <1>7, <1>10, <1>11, PutKeeps
<1>14. Entries(e2, c) = Entries(e, c) \cup {cell}
  <2>1. Used(e, c) \subseteq 0 .. c - 1
    BY DEF Used
  <2> QED BY ONLY <2>1, <1>13, PutAdds
<1>15. Cardinality(Used(e2, c)) = p.count + 1
  <2>1. IsFiniteSet(Used(e, c))
    BY <1>2, UsedIsFinite
  <2>2. Cardinality(Used(e, c) \cup {s}) = Cardinality(Used(e, c)) + 1
    BY <2>1, <1>7, FS_AddElement
  <2> QED BY <2>2, <1>3, <1>13
<1>16. WithKey(p, h, k) = PoolOf(e2, c)
  <2>1. PICK count : count = p.count
    OBVIOUS
  <2>2. p = [count |-> count, capacity |-> c, entries |-> e]
    BY <2>1, <1>2, <1>3 DEF PoolOf
  <2>3. p.count = count /\ p.entries = e
    BY <2>2
  <2>4. PICK more : more = count + 1
    OBVIOUS
  <2>5. [p EXCEPT !.count = @ + 1, !.entries[s] = cell] = [p EXCEPT !.count = more, !.entries = e2]
    BY <2>3, <2>4, <1>11 DEF PutAt
  <2>6. [p EXCEPT !.count = more, !.entries = e2] = [count |-> more, capacity |-> c, entries |-> e2]
    <3>1. PICK q : q = [p EXCEPT !.count = more]
      OBVIOUS
    <3>2. q = [count |-> more, capacity |-> c, entries |-> e]
      BY ONLY <2>2, <3>1
    <3>3. PICK r : r = [q EXCEPT !.entries = e2]
      OBVIOUS
    <3>4. r = [count |-> more, capacity |-> c, entries |-> e2]
      BY ONLY <3>2, <3>3
    <3> QED BY <3>1, <3>3, <3>4
  <2> QED BY <2>1, <2>4, <2>5, <2>6, <1>12, <1>15 DEF PoolOf
<1>17. SoundPool(PoolOf(e2, c), hashOf) /\ Members(PoolOf(e2, c)) = Entries(e2, c)
  <2>1. c \in Nat /\ (c # 0 => c >= MinCapacity /\ Cardinality(Used(e2, c)) < c)
    BY <1>2, <1>3, <1>15
  <2> QED BY <2>1, <1>13, PoolOfIs
<1> QED BY <1>2, <1>9, <1>14, <1>16, <1>17

(* The index of a member is set. *)
WithIndex(p, i, v) == [p EXCEPT !.entries[i].index = v]

LEMMA WithIndexIs ==
  ASSUME NEW p, NEW hashOf, SoundPool(p, hashOf), NEW x \in Members(p),
         NEW h, h \in Nat, h = hashOf[x.key], NEW v, v \in Int,
         NEW i, i = PlaceOf(p, h, x.key)
  PROVE  /\ SoundPool(WithIndex(p, i, v), hashOf)
         /\ Members(WithIndex(p, i, v)) = (Members(p) \ {x}) \cup {[key |-> x.key, index |-> v]}
<1>1. PICK e, c : e = p.entries /\ c = p.capacity
  OBVIOUS
<1>2. /\ c \in Nat /\ SoundArray(e, c, hashOf) /\ p = PoolOf(e, c)
      /\ c # 0 => c >= MinCapacity /\ p.count < c
      /\ Members(p) = Entries(e, c)
  BY <1>1 DEF SoundPool, Members
<1>3. p.count = Cardinality(Used(e, c))
  BY <1>2 DEF PoolOf
<1>4. i \in Used(e, c) /\ x = e[i]
  <2>1. PICK k : k = x.key
    OBVIOUS
  <2>2. h = hashOf[k]
    BY <2>1
  <2>3. PlaceOf(p, h, k) \in Used(p.entries, p.capacity) /\ p.entries[PlaceOf(p, h, k)] = x
    <3>1. /\ PlaceOf(p, h, k) \in Used(p.entries, p.capacity)
          /\ p.entries[PlaceOf(p, h, k)] = x
          /\ Find(p.entries, p.capacity, h, {k}) = PlaceOf(p, h, k)
      BY ONLY <2>1, <2>2, SoundPool(p, hashOf), x \in Members(p), h \in Nat, PlaceIs
    <3> QED BY <3>1
  <2> QED BY <2>1, <2>3, <1>1
<1>5. PICK e2 : e2 = IndexSet(e, i, v)
  OBVIOUS
<1>6. PICK new : new = [key |-> x.key, index |-> v]
  OBVIOUS
<1>7. /\ SoundArray(e2, c, hashOf) /\ Used(e2, c) = Used(e, c)
      /\ Entries(e2, c) = (Entries(e, c) \ {x}) \cup {new}
  BY ONLY v \in Int, <1>2, <1>4, <1>5, <1>6, IndexKeeps
<1>8. WithIndex(p, i, v) = PoolOf(e2, c)
  <2>1. p = [count |-> Cardinality(Used(e, c)), capacity |-> c, entries |-> e]
    BY <1>2 DEF PoolOf
  <2>2. [p EXCEPT !.entries[i].index = v]
          = [count |-> Cardinality(Used(e, c)), capacity |-> c, entries |-> [e EXCEPT ![i].index = v]]
    BY <2>1
  <2> QED BY <2>2, <1>5, <1>7 DEF PoolOf, WithIndex, IndexSet
<1>9. SoundPool(PoolOf(e2, c), hashOf) /\ Members(PoolOf(e2, c)) = Entries(e2, c)
  <2>1. c # 0 => c >= MinCapacity /\ Cardinality(Used(e2, c)) < c
    BY <1>2, <1>3, <1>7
  <2> QED BY <2>1, <1>2, <1>7, PoolOfIs
<1> QED BY <1>2, <1>6, <1>7, <1>8, <1>9

(* A search for no key ends where there is none. *)
LEMMA NothingIsFound ==
  ASSUME NEW p, NEW hashOf, SoundPool(p, hashOf), p.count # 0, NEW h, h \in Nat
  PROVE  p.entries[Find(p.entries, p.capacity, h, {})].key = Vacant
<1>1. PICK e, c : e = p.entries /\ c = p.capacity
  OBVIOUS
<1>2. c \in Nat \ {0} /\ p.count < c
  BY <1>1, MembersAre DEF SoundPool
<1>3. p.count = Cardinality(Used(e, c))
  BY <1>1 DEF SoundPool, PoolOf
<1>4. PICK hole \in 0 .. c - 1 : hole \notin Used(e, c)
  BY <1>2, <1>3, UsedIsFinite
<1>5. Find(e, c, h, {}) \in 0 .. c - 1 /\ Find(e, c, h, {}) \notin Used(e, c)
  <2>1. Vacant \notin {} /\ \A t \in Used(e, c) : e[t].key \notin {}
    OBVIOUS
  <2> QED BY <2>1, <1>2, <1>4, FindsHole
<1> QED BY <1>1, <1>5 DEF Used

-----------------------------------------------------------------------------
(* Constants.                                                              *)

(* A key is asked for: it is in the pool then, once. *)
Requested(p, q, k, x) ==
  /\ x \in Members(q) /\ x.key = k /\ Members(q) = Members(p) \cup {x}
  /\ x \notin Members(p) => x.index = NoIndex /\ \A y \in Members(p) : y.key # k

LEMMA RequestIs ==
  ASSUME PoolsAssumption, NEW hashOf, \A j \in DOMAIN hashOf : hashOf[j] \in Nat,
         NEW p, SoundPool(p, hashOf), NEW k, k \in Nat, k # Vacant, k \in DOMAIN hashOf,
         NEW q, q = WithKey(GrownPool(p, hashOf), hashOf[k], k)
  PROVE  SoundPool(q, hashOf) /\ \E x : Requested(p, q, k, x)
<1>1. PICK g : g = GrownPool(p, hashOf)
  OBVIOUS
<1>2. Roomy(g, hashOf) /\ Members(g) = Members(p)
  BY <1>1, GrownIs
<1>3. SoundPool(g, hashOf)
  BY <1>2 DEF Roomy
<1>4. PICK h \in Nat : h = hashOf[k]
  OBVIOUS
<1>5. CASE \E x \in Members(p) : x.key = k
  <2>1. PICK x \in Members(g) : x.key = k
    BY <1>2, <1>5
  <2>2. WithKey(g, h, x.key) = g
    <3>1. h = hashOf[x.key] /\ h \in Nat
      BY <1>4, <2>1
    <3> QED BY <3>1, <1>3, WithKeyKeeps
  <2>3. q = g
    BY <1>1, <1>4, <2>1, <2>2
  <2>4. Requested(p, q, k, x)
    BY <2>1, <2>3, <1>2 DEF Requested
  <2> QED BY <2>3, <2>4, <1>3
<1>6. CASE ~ \E x \in Members(p) : x.key = k
  <2>1. \A x \in Members(g) : x.key # k
    BY <1>2, <1>6
  <2>2. /\ SoundPool(WithKey(g, h, k), hashOf)
        /\ Members(WithKey(g, h, k)) = Members(g) \cup {[key |-> k, index |-> NoIndex]}
    BY <2>1, <1>2, <1>4, WithKeyAdds
  <2>3. PICK x : x = [key |-> k, index |-> NoIndex]
    OBVIOUS
  <2>4. Requested(p, q, k, x)
    BY <2>2, <2>3, <1>1, <1>2, <1>4, <1>6 DEF Requested
  <2> QED BY <2>2, <2>4, <1>1, <1>4
<1> QED BY <1>5, <1>6

(* What the members say about the constants: val is the constant of a key. *)
Tied(members, val, consts) ==
  /\ \A x \in members :
       \/ x.index = NoIndex
       \/ x.index \in 0 .. Len(consts) - 1 /\ consts[x.index + 1] = val[x.key]
  /\ \A i \in 1 .. Len(consts), k \in DOMAIN val :
       consts[i] = val[k] => \E x \in members : x.key = k /\ x.index # NoIndex

(* What makeConstant does about v. *)
Given(consts, after, index, v) ==
  \/ /\ \A i \in 1 .. Len(consts) : consts[i] # v
     /\ after = Append(consts, v) /\ index = Len(consts)
  \/ \E i \in 1 .. Len(consts) : consts[i] = v /\ after = consts /\ index = i - 1

LEMMA TiedExtends ==
  ASSUME NEW V, NEW consts, consts \in Seq(V), NEW members, NEW val, Tied(members, val, consts),
         NEW v, v \in V, \A k \in DOMAIN val : val[k] # v
  PROVE  Tied(members, val, Append(consts, v))
<1>1. PICK c : c = Append(consts, v)
  OBVIOUS
<1>2. Len(consts) \in Nat /\ Len(c) = Len(consts) + 1 /\ c[Len(consts) + 1] = v
      /\ \A i \in 1 .. Len(consts) : c[i] = consts[i]
  BY <1>1, AppendProperties, LenProperties
<1>3. ASSUME NEW x \in members
      PROVE  \/ x.index = NoIndex
             \/ x.index \in 0 .. Len(c) - 1 /\ c[x.index + 1] = val[x.key]
  <2>1. CASE x.index = NoIndex
    BY <2>1
  <2>2. CASE x.index # NoIndex
    <3>1. x.index \in 0 .. Len(consts) - 1 /\ consts[x.index + 1] = val[x.key]
      BY <2>2 DEF Tied
    <3>2. PICK j : j = x.index
      OBVIOUS
    <3>3. j + 1 \in 1 .. Len(consts) /\ j \in 0 .. Len(c) - 1
      BY <3>1, <3>2, <1>2
    <3> QED BY <3>1, <3>2, <3>3, <1>2
  <2> QED BY <2>1, <2>2
<1>4. ASSUME NEW i \in 1 .. Len(c), NEW k \in DOMAIN val, c[i] = val[k]
      PROVE  \E x \in members : x.key = k /\ x.index # NoIndex
  <2>1. i # Len(consts) + 1
    BY <1>2, <1>4
  <2>2. i \in 1 .. Len(consts) /\ consts[i] = val[k]
    BY <2>1, <1>2, <1>4
  <2> QED BY <2>2 DEF Tied
<1> QED BY <1>1, <1>3, <1>4 DEF Tied

LEMMA TiedToMore ==
  ASSUME NEW members, NEW val, NEW consts, Tied(members, val, consts),
         NEW x, x.index = NoIndex
  PROVE  Tied(members \cup {x}, val, consts)
<1>1. \A y \in members \cup {x} :
        \/ y.index = NoIndex
        \/ y.index \in 0 .. Len(consts) - 1 /\ consts[y.index + 1] = val[y.key]
  BY DEF Tied
<1>2. \A i \in 1 .. Len(consts), k \in DOMAIN val :
        consts[i] = val[k] => \E y \in members \cup {x} : y.key = k /\ y.index # NoIndex
  BY DEF Tied
<1> QED BY <1>1, <1>2 DEF Tied

(* The index a member is given, and the constants with it. *)
IndexOf(x, consts) == IF x.index = NoIndex THEN Len(consts) ELSE x.index
With(x, consts, v) == IF x.index = NoIndex THEN Append(consts, v) ELSE consts

Reindexed(members, x, consts) ==
  (members \ {x}) \cup {[key |-> x.key, index |-> IndexOf(x, consts)]}

KeysDiffer(members) == \A x, y \in members : x.key = y.key => x = y
ValuesDiffer(val) == \A j, k \in DOMAIN val : val[j] = val[k] => j = k

LEMMA MemberIsGiven ==
  ASSUME NEW V, NEW consts, consts \in Seq(V), NEW members,
         KeysDiffer(members), NEW val, ValuesDiffer(val), Tied(members, val, consts),
         NEW x, x \in members, x.key \in DOMAIN val, val[x.key] \in V
  PROVE  /\ Tied(Reindexed(members, x, consts), val, With(x, consts, val[x.key]))
         /\ Given(consts, With(x, consts, val[x.key]), IndexOf(x, consts), val[x.key])
         /\ With(x, consts, val[x.key]) \in Seq(V) /\ IndexOf(x, consts) \in Nat
<1>a. PICK k, v : k = x.key /\ v = val[k] /\ k \in DOMAIN val /\ v \in V
  OBVIOUS
<1>b. PICK index, after : index = IndexOf(x, consts) /\ after = With(x, consts, v)
  OBVIOUS
<1>c. PICK new : new = [key |-> k, index |-> index]
  OBVIOUS
<1>d. PICK more : more = (members \ {x}) \cup {new}
  OBVIOUS
<1>e. more = Reindexed(members, x, consts)
  BY <1>a, <1>b, <1>c, <1>d DEF Reindexed
<1> SUFFICES /\ Tied(more, val, after) /\ Given(consts, after, index, v)
             /\ after \in Seq(V) /\ index \in Nat
  BY <1>a, <1>b, <1>e
<1> USE <1>a, <1>c, <1>d
<1>0. Len(consts) \in Nat
  BY LenProperties
<1>1. CASE x.index # NoIndex
  <2>1. index = x.index /\ after = consts
    BY <1>1, <1>b DEF IndexOf, With
  <2>2. index \in 0 .. Len(consts) - 1 /\ consts[index + 1] = v
    BY <1>1, <2>1 DEF Tied
  <2>3. Given(consts, after, index, v)
    <3>1. index + 1 \in 1 .. Len(consts) /\ index = (index + 1) - 1
      BY <2>2, <1>0
    <3>2. \E i \in 1 .. Len(consts) : consts[i] = v /\ after = consts /\ index = i - 1
      BY <3>1, <2>1, <2>2
    <3> QED BY <3>2 DEF Given
  <2>4. \A y \in more :
          \/ y.index = NoIndex
          \/ y.index \in 0 .. Len(after) - 1 /\ after[y.index + 1] = val[y.key]
    BY <2>1, <2>2 DEF Tied
  <2>5. ASSUME NEW i \in 1 .. Len(after), NEW j \in DOMAIN val, after[i] = val[j]
        PROVE  \E y \in more : y.key = j /\ y.index # NoIndex
    <3>1. PICK y \in members : y.key = j /\ y.index # NoIndex
      BY <2>1, <2>5 DEF Tied
    <3>2. CASE y = x
      <4>1. new.key = j /\ new.index # NoIndex
        BY <3>1, <3>2, <2>1, <1>1
      <4> QED BY <4>1
    <3>3. CASE y # x
      BY <3>1, <3>3
    <3> QED BY <3>2, <3>3
  <2>6. Tied(more, val, after)
    BY <2>4, <2>5 DEF Tied
  <2> QED BY <2>1, <2>2, <2>3, <2>6
<1>2. CASE x.index = NoIndex
  <2>1. index = Len(consts) /\ after = Append(consts, v)
    BY <1>2, <1>b DEF IndexOf, With
  <2>2. /\ after \in Seq(V) /\ Len(after) = Len(consts) + 1 /\ after[Len(consts) + 1] = v
        /\ \A i \in 1 .. Len(consts) : after[i] = consts[i]
    BY <2>1, AppendProperties
  <2>3. \A i \in 1 .. Len(consts) : consts[i] # v
    <3> SUFFICES ASSUME NEW i \in 1 .. Len(consts), consts[i] = v PROVE FALSE
      OBVIOUS
    <3>1. PICK y \in members : y.key = k /\ y.index # NoIndex
      BY DEF Tied
    <3>2. y = x
      BY <3>1 DEF KeysDiffer
    <3> QED BY <3>1, <3>2, <1>2
  <2>4. Given(consts, after, index, v)
    BY <2>1, <2>3 DEF Given
  <2>5. ASSUME NEW y \in more
        PROVE  \/ y.index = NoIndex
               \/ y.index \in 0 .. Len(after) - 1 /\ after[y.index + 1] = val[y.key]
    <3>1. CASE y = new
      <4>1. y.index = Len(consts) /\ y.key = k
        BY <3>1, <2>1
      <4> QED BY <4>1, <2>2, <1>0
    <3>2. CASE y \in members
      <4>1. CASE y.index = NoIndex
        BY <4>1
      <4>2. CASE y.index # NoIndex
        <5>1. y.index \in 0 .. Len(consts) - 1 /\ consts[y.index + 1] = val[y.key]
          BY <3>2, <4>2 DEF Tied
        <5>2. PICK j : j = y.index
          OBVIOUS
        <5>3. j + 1 \in 1 .. Len(consts) /\ j \in 0 .. Len(after) - 1
          BY <5>1, <5>2, <2>2, <1>0
        <5> QED BY <5>1, <5>2, <5>3, <2>2
      <4> QED BY <4>1, <4>2
    <3> QED BY <3>1, <3>2
  <2>6. ASSUME NEW i \in 1 .. Len(after), NEW j \in DOMAIN val, after[i] = val[j]
        PROVE  \E y \in more : y.key = j /\ y.index # NoIndex
    <3>1. CASE i = Len(consts) + 1
      <4>1. j = k
        BY <3>1, <2>2, <2>6 DEF ValuesDiffer
      <4>2. new.key = j /\ new.index # NoIndex
        BY <4>1, <2>1, <1>0 DEF NoIndex
      <4> QED BY <4>2
    <3>2. CASE i # Len(consts) + 1
      <4>1. i \in 1 .. Len(consts)
        BY <3>2, <2>2, <1>0
      <4>2. PICK y \in members : y.key = j /\ y.index # NoIndex
        BY <4>1, <2>2, <2>6 DEF Tied
      <4>3. y # x
        BY <4>2, <1>2
      <4> QED BY <4>2, <4>3
    <3> QED BY <3>1, <3>2
  <2>7. Tied(more, val, after)
    BY <2>5, <2>6 DEF Tied
  <2> QED BY <2>1, <2>2, <2>4, <2>7, <1>0
<1> QED BY <1>1, <1>2

-----------------------------------------------------------------------------
(* The hash of a string.                                                   *)

(* One byte of a block. *)
Doubled(value, byte) == 2 * value + byte
DoubledBy(block, n) ==
  [x \in Nat \X (1 .. n) |-> Doubled(x[1], block[n - x[2] + 1])]

LEMMA BlockFolds ==
  ASSUME PoolsAssumption, NEW block, block \in Seq(Nat),
         NEW n, n = Len(block), n \in Nat, NEW last, last = BlockValue(block)
  PROVE  \E m : Values(m, n, Nat, 0, DoubledBy(block, n), last)
<1>0. 0 \in Nat
  OBVIOUS
<1>1. PICK step : step = DoubledBy(block, n)
  OBVIOUS
<1>2. ASSUME NEW a \in Nat, NEW i \in 1 .. n
      PROVE  step[<<a, i>>] = Doubled(a, block[n - i + 1]) /\ step[<<a, i>>] \in Nat
  <2>1. Doubled(a, block[n - i + 1]) \in Nat
    <3>1. n - i + 1 \in 1 .. Len(block)
      OBVIOUS
    <3>2. block[n - i + 1] \in Nat
      BY <3>1
    <3> QED BY <3>2 DEF Doubled
  <2>2. <<a, i>> \in Nat \X (1 .. n) /\ <<a, i>>[1] = a /\ <<a, i>>[2] = i
    OBVIOUS
  <2>3. step[<<a, i>>] = Doubled(a, block[n - i + 1])
    BY <2>2, <1>1 DEF DoubledBy
  <2> QED BY <2>1, <2>3
<1>3. step \in [Nat \X (1 .. n) -> Nat]
  <2>1. \A x \in Nat \X (1 .. n) : step[x] \in Nat
    <3> SUFFICES ASSUME NEW x \in Nat \X (1 .. n) PROVE step[x] \in Nat
      OBVIOUS
    <3>1. PICK a \in Nat, i \in 1 .. n : x = <<a, i>>
      OBVIOUS
    <3> QED BY <3>1, <1>2
  <2>2. step = [x \in Nat \X (1 .. n) |-> step[x]]
    BY <1>1 DEF DoubledBy
  <2> QED BY <2>1, <2>2
<1>4. PICK f \in [SUBSET (1 .. n) -> Nat] : Follows(f, n, 0, step)
  BY <1>0, <1>3, FoldExists
<1> DEFINE Of(k) == [s \in SUBSET (1 .. n) |->
                       IF s = {} THEN 0 ELSE Doubled(k[s \ {Max(s)}], block[n - Max(s) + 1])]
<1>5. f = Of(f)
  <2>1. ASSUME NEW s \in SUBSET (1 .. n)
        PROVE  f[s] = IF s = {} THEN 0 ELSE Doubled(f[s \ {Max(s)}], block[n - Max(s) + 1])
    <3>1. CASE s = {}
      BY <3>1, <1>4 DEF Follows
    <3>2. CASE s # {}
      <4>1. PICK i \in 1 .. n : i = Max(s)
        BY <3>2, MaxMember
      <4>2. s \ {i} \in SUBSET (1 .. n)
        OBVIOUS
      <4>3. PICK a \in Nat : a = f[s \ {i}]
        BY <4>2
      <4>4. f[s] = step[<<a, i>>]
        BY <3>2, <4>1, <4>3, <1>4 DEF Follows
      <4> QED BY <3>2, <4>1, <4>3, <4>4, <1>2
    <3> QED BY <3>1, <3>2
  <2>2. f = [s \in SUBSET (1 .. n) |-> f[s]]
    OBVIOUS
  <2> QED BY <2>1, <2>2
<1>6. PICK g : g = CHOOSE k : k = Of(k)
  OBVIOUS
<1>7. g = Of(g)
  <2> HIDE DEF Of
  <2> QED BY <1>5, <1>6
<1>8. last = g[1 .. n]
  <2>1. PICK seq : seq = Reverse(block)
    OBVIOUS
  <2>2. DOMAIN seq = 1 .. n
    BY <2>1 DEF Reverse
  <2>3. \A s \in SUBSET (1 .. n) : s # {} => seq[Max(s)] = block[n - Max(s) + 1]
    <3> SUFFICES ASSUME NEW s \in SUBSET (1 .. n), s # {} PROVE seq[Max(s)] = block[n - Max(s) + 1]
      OBVIOUS
    <3>1. PICK i \in 1 .. n : i = Max(s)
      BY MaxMember
    <3> QED BY <3>1, <2>1 DEF Reverse
  <2> DEFINE Old(k) == [s \in SUBSET DOMAIN seq |->
                          IF s = {} THEN 0 ELSE Doubled(k[s \ {Max(s)}], seq[Max(s)])]
  <2>4. last = (CHOOSE k : k = Old(k))[DOMAIN seq]
    BY <2>1 DEF FoldLeft, MapThenFoldSet, BlockValue, Doubled
  <2>5. \A k : Old(k) = Of(k)
    BY <2>2, <2>3
  <2> HIDE DEF Old, Of
  <2>6. (CHOOSE k : k = Old(k)) = CHOOSE k : k = Of(k)
    BY <2>5
  <2> QED BY <2>2, <2>4, <2>6, <1>6
<1>9. Unrolled(g, n, Nat, 0, step)
  <2>1. g[{}] = 0
    <3>1. {} \in SUBSET (1 .. n)
      OBVIOUS
    <3>2. Of(g)[{}] = 0
      BY <3>1
    <3> HIDE DEF Of
    <3> QED BY <3>2, <1>7
  <2>2. ASSUME NEW s \in SUBSET (1 .. n), s # {}, g[s \ {Max(s)}] \in Nat
        PROVE  g[s] = step[<<g[s \ {Max(s)}], Max(s)>>]
    <3>1. PICK i \in 1 .. n : i = Max(s)
      BY <2>2, MaxMember
    <3>2. PICK a \in Nat : a = g[s \ {i}]
      BY <2>2, <3>1
    <3>3. Of(g)[s] = Doubled(a, block[n - i + 1])
      BY <2>2, <3>1, <3>2
    <3> HIDE DEF Of
    <3> QED BY <3>1, <3>2, <3>3, <1>2, <1>7
  <2> QED BY <2>1, <2>2 DEF Unrolled
<1>10. \E m : Values(m, n, Nat, 0, step, g[1 .. n])
  BY <1>0, <1>3, <1>9, FoldSteps
<1> QED BY <1>1, <1>8, <1>10

LEMMA BlockIsNat ==
  ASSUME PoolsAssumption, NEW block, block \in Seq(Nat)
  PROVE  BlockValue(block) \in Nat
<1>1. PICK n \in Nat : n = Len(block)
  BY LenProperties
<1>2. PICK m : Values(m, n, Nat, 0, DoubledBy(block, n), BlockValue(block))
  BY <1>1, BlockFolds
<1>3. n \in 0 .. n
  OBVIOUS
<1> QED BY <1>2, <1>3 DEF Values

LEMMA MixIsNat ==
  ASSUME PoolsAssumption, NEW h, h \in Nat, NEW block, block \in Seq(Nat)
  PROVE  Mix(h, block) \in Nat /\ MixTail(h, block) \in Nat
<1>1. PICK v \in Nat : v = BlockValue(block)
  BY BlockIsNat
<1>2. HashSize \in Nat \ {0}
  BY DEF PoolsAssumption
<1>3. 5 * h + v \in Nat /\ h + 3 * v \in Nat
  OBVIOUS
<1>4. (5 * h + v) % HashSize \in Nat /\ (h + 3 * v) % HashSize \in Nat
  BY <1>2, <1>3
<1> QED BY <1>1, <1>4 DEF Mix, MixTail

(* The whole blocks of a string. *)
BlockAt(bytes, i) == SubSeq(bytes, (i - 1) * BlockSize + 1, i * BlockSize)
MixedBy(bytes, n) ==
  [x \in Nat \X (1 .. n) |-> Mix(x[1], BlockAt(bytes, x[2]))]
Blocks(bytes) == Len(bytes) \div BlockSize

(* The bytes that are left are mixed in at the end. *)
TailOf(bytes) == SubSeq(bytes, Blocks(bytes) * BlockSize + 1, Len(bytes))
Mixed(bytes) ==
  FoldLeft(LAMBDA h, i : Mix(h, BlockAt(bytes, i)), Len(bytes), [i \in 1 .. Blocks(bytes) |-> i])

LEMMA BlocksAre ==
  ASSUME PoolsAssumption, NEW bytes, bytes \in Seq(Nat), NEW n, n = Blocks(bytes)
  PROVE  /\ n \in Nat /\ n * BlockSize \in Nat /\ n * BlockSize <= Len(bytes)
         /\ Len(bytes) < n * BlockSize + BlockSize
<1>1. PICK l \in Nat : l = Len(bytes)
  BY LenProperties
<1>2. PICK b \in Nat \ {0} : b = BlockSize
  BY DEF PoolsAssumption
<1>3. n = l \div b
  BY <1>1, <1>2 DEF Blocks
<1>4. PICK d \in Nat, r \in 0 .. b - 1 : d = l \div b /\ r = l % b /\ l = b * d + r
  <2>1. l % b \in 0 .. b - 1 /\ l \div b \in Nat /\ l = b * (l \div b) + (l % b)
    OBVIOUS
  <2> QED BY <2>1
<1>5. b * d = d * b /\ d * b \in Nat
  OBVIOUS
<1>6. PICK u \in Nat : u = d * b /\ l = u + r
  BY <1>4, <1>5
<1> QED BY <1>1, <1>2, <1>3, <1>4, <1>6

LEMMA BlockIsBytes ==
  ASSUME PoolsAssumption, NEW bytes, bytes \in Seq(Nat), NEW i, i \in 1 .. Blocks(bytes)
  PROVE  BlockAt(bytes, i) \in Seq(Nat)
<1>1. PICK n \in Nat : n = Blocks(bytes) /\ n * BlockSize <= Len(bytes)
  BY BlocksAre
<1>2. PICK b \in Nat \ {0} : b = BlockSize
  BY DEF PoolsAssumption
<1>3. PICK l \in Nat : l = Len(bytes)
  BY LenProperties
<1>4. i * b <= n * b /\ i * b \in Nat /\ (i - 1) * b \in Nat
  <2>1. PICK d \in Nat : n = i + d
    <3>1. i \in 1 .. n /\ n - i \in Nat /\ n = i + (n - i)
      BY <1>1
    <3> QED BY <3>1
  <2>2. (i + d) * b = i * b + d * b
    OBVIOUS
  <2>3. d * b \in Nat /\ i * b \in Nat
    OBVIOUS
  <2>4. i - 1 \in Nat
    OBVIOUS
  <2>5. (i - 1) * b \in Nat
    BY <2>4
  <2> QED BY <2>1, <2>2, <2>3, <2>5
<1>5. PICK low \in Nat, high \in Nat : low = (i - 1) * b /\ high = i * b /\ high <= l
  BY <1>1, <1>2, <1>3, <1>4
<1>6. \A j \in low + 1 .. high : bytes[j] \in Nat
  <2> TAKE j \in low + 1 .. high
  <2>1. j \in 1 .. Len(bytes)
    BY <1>3, <1>5
  <2> QED BY <2>1
<1>7. SubSeq(bytes, low + 1, high) \in Seq(Nat)
  BY <1>6, SubSeqProperties
<1> QED BY <1>2, <1>5, <1>7 DEF BlockAt

LEMMA OneShotFolds ==
  ASSUME PoolsAssumption, NEW bytes, bytes \in Seq(Nat),
         NEW n, n = Blocks(bytes), n \in Nat, NEW last, last = Mixed(bytes)
  PROVE  \E m : Values(m, n, Nat, Len(bytes), MixedBy(bytes, n), last)
<1>0. Len(bytes) \in Nat
  BY LenProperties
<1>1. PICK step : step = MixedBy(bytes, n)
  OBVIOUS
<1>2. ASSUME NEW a \in Nat, NEW i \in 1 .. n
      PROVE  step[<<a, i>>] = Mix(a, BlockAt(bytes, i)) /\ step[<<a, i>>] \in Nat
  <2>1. Mix(a, BlockAt(bytes, i)) \in Nat
    <3>1. BlockAt(bytes, i) \in Seq(Nat)
      BY BlockIsBytes
    <3> QED BY <3>1, MixIsNat
  <2>2. <<a, i>> \in Nat \X (1 .. n) /\ <<a, i>>[1] = a /\ <<a, i>>[2] = i
    OBVIOUS
  <2>3. step[<<a, i>>] = Mix(a, BlockAt(bytes, i))
    BY <2>2, <1>1 DEF MixedBy
  <2> QED BY <2>1, <2>3
<1>3. step \in [Nat \X (1 .. n) -> Nat]
  <2>1. \A x \in Nat \X (1 .. n) : step[x] \in Nat
    <3> SUFFICES ASSUME NEW x \in Nat \X (1 .. n) PROVE step[x] \in Nat
      OBVIOUS
    <3>1. PICK a \in Nat, i \in 1 .. n : x = <<a, i>>
      OBVIOUS
    <3> QED BY <3>1, <1>2
  <2>2. step = [x \in Nat \X (1 .. n) |-> step[x]]
    BY <1>1 DEF MixedBy
  <2> QED BY <2>1, <2>2
<1>4. PICK f \in [SUBSET (1 .. n) -> Nat] : Follows(f, n, Len(bytes), step)
  BY <1>0, <1>3, FoldExists
<1> DEFINE Of(k) == [s \in SUBSET (1 .. n) |->
                       IF s = {} THEN Len(bytes) ELSE Mix(k[s \ {Max(s)}], BlockAt(bytes, Max(s)))]
<1>5. f = Of(f)
  <2>1. ASSUME NEW s \in SUBSET (1 .. n)
        PROVE  f[s] = IF s = {} THEN Len(bytes) ELSE Mix(f[s \ {Max(s)}], BlockAt(bytes, Max(s)))
    <3>1. CASE s = {}
      BY <3>1, <1>4 DEF Follows
    <3>2. CASE s # {}
      <4>1. PICK i \in 1 .. n : i = Max(s)
        BY <3>2, MaxMember
      <4>2. s \ {i} \in SUBSET (1 .. n)
        OBVIOUS
      <4>3. PICK a \in Nat : a = f[s \ {i}]
        BY <4>2
      <4>4. f[s] = step[<<a, i>>]
        BY <3>2, <4>1, <4>3, <1>4 DEF Follows
      <4> QED BY <3>2, <4>1, <4>3, <4>4, <1>2
    <3> QED BY <3>1, <3>2
  <2>2. f = [s \in SUBSET (1 .. n) |-> f[s]]
    OBVIOUS
  <2> QED BY <2>1, <2>2
<1>6. PICK g : g = CHOOSE k : k = Of(k)
  OBVIOUS
<1>7. g = Of(g)
  <2> HIDE DEF Of
  <2> QED BY <1>5, <1>6
<1>8. last = g[1 .. n]
  <2>1. PICK seq : seq = [i \in 1 .. n |-> i]
    OBVIOUS
  <2>2. DOMAIN seq = 1 .. n
    BY <2>1
  <2>3. \A s \in SUBSET (1 .. n) : s # {} => seq[Max(s)] = Max(s)
    <3> SUFFICES ASSUME NEW s \in SUBSET (1 .. n), s # {} PROVE seq[Max(s)] = Max(s)
      OBVIOUS
    <3>1. PICK i \in 1 .. n : i = Max(s)
      BY MaxMember
    <3> QED BY <3>1, <2>1
  <2> DEFINE Old(k) == [s \in SUBSET DOMAIN seq |->
                          IF s = {} THEN Len(bytes) ELSE Mix(k[s \ {Max(s)}], BlockAt(bytes, seq[Max(s)]))]
  <2>4. last = (CHOOSE k : k = Old(k))[DOMAIN seq]
    BY <2>1 DEF FoldLeft, MapThenFoldSet, Mixed
  <2>5. \A k : Old(k) = Of(k)
    BY <2>2, <2>3
  <2> HIDE DEF Old, Of
  <2>6. (CHOOSE k : k = Old(k)) = CHOOSE k : k = Of(k)
    BY <2>5
  <2> QED BY <2>2, <2>4, <2>6, <1>6
<1>9. Unrolled(g, n, Nat, Len(bytes), step)
  <2>1. g[{}] = Len(bytes)
    <3>1. {} \in SUBSET (1 .. n)
      OBVIOUS
    <3>2. Of(g)[{}] = Len(bytes)
      BY <3>1
    <3> HIDE DEF Of
    <3> QED BY <3>2, <1>7
  <2>2. ASSUME NEW s \in SUBSET (1 .. n), s # {}, g[s \ {Max(s)}] \in Nat
        PROVE  g[s] = step[<<g[s \ {Max(s)}], Max(s)>>]
    <3>1. PICK i \in 1 .. n : i = Max(s)
      BY <2>2, MaxMember
    <3>2. PICK a \in Nat : a = g[s \ {i}]
      BY <2>2, <3>1
    <3>3. Of(g)[s] = Mix(a, BlockAt(bytes, i))
      BY <2>2, <3>1, <3>2
    <3> HIDE DEF Of
    <3> QED BY <3>1, <3>2, <3>3, <1>2, <1>7
  <2> QED BY <2>1, <2>2 DEF Unrolled
<1>10. \E m : Values(m, n, Nat, Len(bytes), step, g[1 .. n])
  BY <1>0, <1>3, <1>9, FoldSteps
<1> QED BY <1>1, <1>8, <1>10

LEMMA OneShotIs ==
  ASSUME NEW bytes
  PROVE  OneShotHash(bytes) = MixTail(Mixed(bytes), TailOf(bytes))
  BY DEF OneShotHash, Mixed, TailOf, Blocks, BlockAt

LEMMA HashIsNat ==
  ASSUME PoolsAssumption, NEW bytes, bytes \in Seq(Nat)
  PROVE  OneShotHash(bytes) \in Nat
<1>1. PICK n \in Nat : n = Blocks(bytes) /\ n * BlockSize <= Len(bytes) /\ n * BlockSize \in Nat
  BY BlocksAre
<1>2. PICK m : Values(m, n, Nat, Len(bytes), MixedBy(bytes, n), Mixed(bytes))
  BY <1>1, OneShotFolds
<1>3. n \in 0 .. n
  OBVIOUS
<1>4. Mixed(bytes) \in Nat
  BY <1>2, <1>3 DEF Values
<1>5. TailOf(bytes) \in Seq(Nat)
  <2>1. PICK u \in Nat, l \in Nat : u = n * BlockSize /\ l = Len(bytes)
    BY <1>1, LenProperties
  <2>2. \A j \in u + 1 .. l : bytes[j] \in Nat
    <3> TAKE j \in u + 1 .. l
    <3>1. j \in 1 .. Len(bytes)
      BY <2>1
    <3> QED BY <3>1
  <2>3. SubSeq(bytes, u + 1, l) \in Seq(Nat)
    BY <2>2, SubSeqProperties
  <2> QED BY <2>1, <2>3, <1>1 DEF TailOf
<1>6. MixTail(Mixed(bytes), TailOf(bytes)) \in Nat
  BY <1>4, <1>5, MixIsNat
<1> QED BY <1>6, OneShotIs

(* The hash of pieces. *)
Streams == [h : Nat, block : Seq(Nat)]
StreamedBy(bytes, n) == [x \in Streams \X (1 .. n) |-> StreamByte(x[1], bytes[x[2]])]

LEMMA StreamByteIs ==
  ASSUME PoolsAssumption, NEW stream, stream \in Streams, NEW byte, byte \in Nat
  PROVE  StreamByte(stream, byte) \in Streams
<1>1. PICK block \in Seq(Nat) : block = Append(stream.block, byte)
  <2>1. stream.block \in Seq(Nat)
    BY DEF Streams
  <2>2. Append(stream.block, byte) \in Seq(Nat)
    BY <2>1, AppendProperties
  <2> QED BY <2>2
<1>2. stream.h \in Nat
  BY DEF Streams
<1>3. Mix(stream.h, block) \in Nat
  BY <1>2, MixIsNat
<1>4. << >> \in Seq(Nat)
  BY EmptySeq
<1>5. [h |-> Mix(stream.h, block), block |-> << >>] \in Streams
  BY <1>3, <1>4 DEF Streams
<1>6. [stream EXCEPT !.block = block] \in Streams
  BY DEF Streams
<1> QED BY <1>1, <1>5, <1>6 DEF StreamByte

LEMMA StreamFolds ==
  ASSUME PoolsAssumption, NEW bytes, bytes \in Seq(Nat), NEW stream, stream \in Streams,
         NEW n, n = Len(bytes), n \in Nat, NEW last, last = StreamUpdate(stream, bytes)
  PROVE  \E m : Values(m, n, Streams, stream, StreamedBy(bytes, n), last)
<1>0. stream \in Streams
  OBVIOUS
<1>1. PICK step : step = StreamedBy(bytes, n)
  OBVIOUS
<1>2. ASSUME NEW a \in Streams, NEW i \in 1 .. n
      PROVE  step[<<a, i>>] = StreamByte(a, bytes[i]) /\ step[<<a, i>>] \in Streams
  <2>1. StreamByte(a, bytes[i]) \in Streams
    <3>1. bytes[i] \in Nat
      OBVIOUS
    <3> QED BY <3>1, StreamByteIs
  <2>2. <<a, i>> \in Streams \X (1 .. n) /\ <<a, i>>[1] = a /\ <<a, i>>[2] = i
    OBVIOUS
  <2>3. step[<<a, i>>] = StreamByte(a, bytes[i])
    BY <2>2, <1>1 DEF StreamedBy
  <2> QED BY <2>1, <2>3
<1>3. step \in [Streams \X (1 .. n) -> Streams]
  <2>1. \A x \in Streams \X (1 .. n) : step[x] \in Streams
    <3> SUFFICES ASSUME NEW x \in Streams \X (1 .. n) PROVE step[x] \in Streams
      OBVIOUS
    <3>1. PICK a \in Streams, i \in 1 .. n : x = <<a, i>>
      OBVIOUS
    <3> QED BY <3>1, <1>2
  <2>2. step = [x \in Streams \X (1 .. n) |-> step[x]]
    BY <1>1 DEF StreamedBy
  <2> QED BY <2>1, <2>2
<1>4. PICK f \in [SUBSET (1 .. n) -> Streams] : Follows(f, n, stream, step)
  BY <1>0, <1>3, FoldExists
<1> DEFINE Of(k) == [s \in SUBSET (1 .. n) |->
                       IF s = {} THEN stream ELSE StreamByte(k[s \ {Max(s)}], bytes[Max(s)])]
<1>5. f = Of(f)
  <2>1. ASSUME NEW s \in SUBSET (1 .. n)
        PROVE  f[s] = IF s = {} THEN stream ELSE StreamByte(f[s \ {Max(s)}], bytes[Max(s)])
    <3>1. CASE s = {}
      BY <3>1, <1>4 DEF Follows
    <3>2. CASE s # {}
      <4>1. PICK i \in 1 .. n : i = Max(s)
        BY <3>2, MaxMember
      <4>2. s \ {i} \in SUBSET (1 .. n)
        OBVIOUS
      <4>3. PICK a \in Streams : a = f[s \ {i}]
        BY <4>2
      <4>4. f[s] = step[<<a, i>>]
        BY <3>2, <4>1, <4>3, <1>4 DEF Follows
      <4> QED BY <3>2, <4>1, <4>3, <4>4, <1>2
    <3> QED BY <3>1, <3>2
  <2>2. f = [s \in SUBSET (1 .. n) |-> f[s]]
    OBVIOUS
  <2> QED BY <2>1, <2>2
<1>6. PICK g : g = CHOOSE k : k = Of(k)
  OBVIOUS
<1>7. g = Of(g)
  <2> HIDE DEF Of
  <2> QED BY <1>5, <1>6
<1>8. last = g[1 .. n]
  <2>1. PICK seq : seq = bytes
    OBVIOUS
  <2>2. DOMAIN seq = 1 .. n
    BY <2>1
  <2>3. \A s \in SUBSET (1 .. n) : s # {} => seq[Max(s)] = bytes[Max(s)]
    <3> SUFFICES ASSUME NEW s \in SUBSET (1 .. n), s # {} PROVE seq[Max(s)] = bytes[Max(s)]
      OBVIOUS
    <3>1. PICK i \in 1 .. n : i = Max(s)
      BY MaxMember
    <3> QED BY <3>1, <2>1
  <2> DEFINE Old(k) == [s \in SUBSET DOMAIN seq |->
                          IF s = {} THEN stream ELSE StreamByte(k[s \ {Max(s)}], seq[Max(s)])]
  <2>4. last = (CHOOSE k : k = Old(k))[DOMAIN seq]
    BY <2>1 DEF FoldLeft, MapThenFoldSet, StreamUpdate
  <2>5. \A k : Old(k) = Of(k)
    BY <2>2, <2>3
  <2> HIDE DEF Old, Of
  <2>6. (CHOOSE k : k = Old(k)) = CHOOSE k : k = Of(k)
    BY <2>5
  <2> QED BY <2>2, <2>4, <2>6, <1>6
<1>9. Unrolled(g, n, Streams, stream, step)
  <2>1. g[{}] = stream
    <3>1. {} \in SUBSET (1 .. n)
      OBVIOUS
    <3>2. Of(g)[{}] = stream
      BY <3>1
    <3> HIDE DEF Of
    <3> QED BY <3>2, <1>7
  <2>2. ASSUME NEW s \in SUBSET (1 .. n), s # {}, g[s \ {Max(s)}] \in Streams
        PROVE  g[s] = step[<<g[s \ {Max(s)}], Max(s)>>]
    <3>1. PICK i \in 1 .. n : i = Max(s)
      BY <2>2, MaxMember
    <3>2. PICK a \in Streams : a = g[s \ {i}]
      BY <2>2, <3>1
    <3>3. Of(g)[s] = StreamByte(a, bytes[i])
      BY <2>2, <3>1, <3>2
    <3> HIDE DEF Of
    <3> QED BY <3>1, <3>2, <3>3, <1>2, <1>7
  <2> QED BY <2>1, <2>2 DEF Unrolled
<1>10. \E m : Values(m, n, Streams, stream, step, g[1 .. n])
  BY <1>0, <1>3, <1>9, FoldSteps
<1> QED BY <1>1, <1>8, <1>10

-----------------------------------------------------------------------------
(* A string in two pieces has the hash it has at once.                     *)

(* After i bytes a stream has mixed in the q blocks these fill, as the hash *)
(* of all of them does, and holds the rest.                                *)
StreamsTo(stream, i, q, w, mixed) ==
  /\ q \in 0 .. Blocks(w) /\ i \in 0 .. Len(w)
  /\ q * BlockSize <= i /\ i < q * BlockSize + BlockSize
  /\ stream = [h |-> mixed[q], block |-> SubSeq(w, q * BlockSize + 1, i)]

AsAtOnce(stream, i, w, mixed) == \E q : StreamsTo(stream, i, q, w, mixed)

IsMixed(mixed, w) ==
  Values(mixed, Blocks(w), Nat, Len(w), MixedBy(w, Blocks(w)), Mixed(w))

LEMMA PartIsBytes ==
  ASSUME NEW w, w \in Seq(Nat), NEW u, u \in Nat, NEW i, i \in Nat, u <= i, i <= Len(w)
  PROVE  /\ SubSeq(w, u + 1, i) \in Seq(Nat) /\ Len(SubSeq(w, u + 1, i)) = i - u
         /\ \A j \in 1 .. i - u : SubSeq(w, u + 1, i)[j] = w[u + j]
<1>1. Len(w) \in Nat
  BY LenProperties
<1>2. \A j \in u + 1 .. i : w[j] \in Nat
  <2> TAKE j \in u + 1 .. i
  <2>1. j \in 1 .. Len(w)
    BY <1>1
  <2> QED BY <2>1
<1>3. PICK v : v = SubSeq(w, u + 1, i)
  OBVIOUS
<1>4. /\ v \in Seq(Nat) /\ Len(v) = IF u + 1 <= i THEN i - (u + 1) + 1 ELSE 0
      /\ \A j \in 1 .. i - (u + 1) + 1 : v[j] = w[u + 1 + j - 1]
  <2>1. u + 1 \in Int /\ i \in Int
    OBVIOUS
  <2> QED BY <2>1, <1>2, <1>3, SubSeqProperties
<1>5. Len(v) = i - u
  BY <1>4
<1>6. \A j \in 1 .. i - u : v[j] = w[u + j]
  <2> TAKE j \in 1 .. i - u
  <2>1. j \in 1 .. i - (u + 1) + 1 /\ u + 1 + j - 1 = u + j
    OBVIOUS
  <2> QED BY <2>1, <1>4
<1> QED BY <1>3, <1>4, <1>5, <1>6

LEMMA PartGrows ==
  ASSUME NEW w, w \in Seq(Nat), NEW u, u \in Nat, NEW i, i \in Nat, u <= i, i + 1 <= Len(w)
  PROVE  Append(SubSeq(w, u + 1, i), w[i + 1]) = SubSeq(w, u + 1, i + 1)
<1>1. Len(w) \in Nat
  BY LenProperties
<1>2. PICK s, t : s = SubSeq(w, u + 1, i) /\ t = SubSeq(w, u + 1, i + 1)
  OBVIOUS
<1>3. s \in Seq(Nat) /\ Len(s) = i - u /\ \A j \in 1 .. i - u : s[j] = w[u + j]
  <2>1. i <= Len(w)
    BY <1>1
  <2>2. /\ SubSeq(w, u + 1, i) \in Seq(Nat) /\ Len(SubSeq(w, u + 1, i)) = i - u
        /\ \A j \in 1 .. i - u : SubSeq(w, u + 1, i)[j] = w[u + j]
    BY ONLY w \in Seq(Nat), u \in Nat, i \in Nat, u <= i, <2>1, PartIsBytes, SMTT(40)
  <2> QED BY ONLY <1>2, <2>2
<1>4. PICK k \in Nat : k = i + 1
  OBVIOUS
<1>5. t \in Seq(Nat) /\ Len(t) = k - u /\ \A j \in 1 .. k - u : t[j] = w[u + j]
  <2>1. u <= k /\ k <= Len(w)
    BY <1>4
  <2>2. t = SubSeq(w, u + 1, k)
    BY <1>2, <1>4
  <2>3. /\ SubSeq(w, u + 1, k) \in Seq(Nat) /\ Len(SubSeq(w, u + 1, k)) = k - u
        /\ \A j \in 1 .. k - u : SubSeq(w, u + 1, k)[j] = w[u + j]
    BY ONLY w \in Seq(Nat), u \in Nat, k \in Nat, <2>1, PartIsBytes, SMTT(40)
  <2> QED BY ONLY <2>2, <2>3
<1>6. PICK b \in Nat : b = w[i + 1]
  <2>1. i + 1 \in 1 .. Len(w)
    BY <1>1
  <2> QED BY <2>1
<1>7. PICK r : r = Append(s, b)
  OBVIOUS
<1>8. /\ r \in Seq(Nat) /\ Len(r) = Len(s) + 1 /\ r[Len(s) + 1] = b
      /\ \A j \in 1 .. Len(s) : r[j] = s[j]
  BY <1>3, <1>7, AppendProperties, SMTT(40)
<1>9. Len(r) = Len(t)
  BY <1>3, <1>4, <1>5, <1>8
<1>10. ASSUME NEW j \in 1 .. Len(r) PROVE r[j] = t[j]
  <2>1. CASE j = Len(s) + 1
    <3>1. j \in 1 .. k - u /\ u + j = i + 1
      BY <2>1, <1>3, <1>4
    <3> QED BY <2>1, <3>1, <1>5, <1>6, <1>8
  <2>2. CASE j # Len(s) + 1
    <3>1. j \in 1 .. Len(s) /\ j \in 1 .. i - u /\ j \in 1 .. k - u
      BY <2>2, <1>3, <1>4, <1>8
    <3> QED BY <3>1, <1>3, <1>5, <1>8
  <2> QED BY <2>1, <2>2, <1>3, <1>8
<1>11. r = t
  BY <1>5, <1>8, <1>9, <1>10, SeqEqual
<1> QED BY <1>2, <1>6, <1>7, <1>11

LEMMA ByteKeeps ==
  ASSUME PoolsAssumption, NEW w, w \in Seq(Nat), NEW mixed, IsMixed(mixed, w),
         NEW stream, NEW i, AsAtOnce(stream, i, w, mixed), i < Len(w)
  PROVE  AsAtOnce(StreamByte(stream, w[i + 1]), i + 1, w, mixed)
<1>1. PICK q : StreamsTo(stream, i, q, w, mixed)
  BY DEF AsAtOnce
<1>2. PICK n \in Nat, b \in Nat \ {0} : n = Blocks(w) /\ b = BlockSize
  BY BlocksAre DEF PoolsAssumption
<1>3. PICK l \in Nat : l = Len(w)
  BY LenProperties
<1>4. PICK u \in Nat : u = q * b /\ q \in 0 .. n /\ q \in Nat
  <2>1. q \in 0 .. n
    BY <1>1, <1>2 DEF StreamsTo
  <2>2. q \in Nat
    BY <2>1
  <2>3. q * b \in Nat
    BY <2>2
  <2> QED BY <2>1, <2>2, <2>3
<1>5. /\ u <= i /\ i < u + b /\ i \in Nat /\ i < l
      /\ stream = [h |-> mixed[q], block |-> SubSeq(w, u + 1, i)]
  BY <1>1, <1>2, <1>3, <1>4 DEF StreamsTo
<1>6. PICK k \in Nat : k = i + 1 /\ k <= l
  BY <1>5
<1>7. PICK block : block = SubSeq(w, u + 1, k)
  OBVIOUS
<1>8. Append(stream.block, w[i + 1]) = block
  <2>1. stream.block = SubSeq(w, u + 1, i)
    BY <1>5
  <2>2. Append(SubSeq(w, u + 1, i), w[i + 1]) = SubSeq(w, u + 1, i + 1)
    BY <1>3, <1>5, <1>6, PartGrows
  <2> QED BY <2>1, <2>2, <1>6, <1>7
<1>9. Len(block) = k - u
  <2>1. u <= k /\ k <= Len(w)
    BY <1>3, <1>5, <1>6
  <2> QED BY <2>1, <1>7, PartIsBytes
<1>10. PICK next : next = StreamByte(stream, w[i + 1])
  OBVIOUS
<1>11. CASE k - u # b
  <2>1. next = [stream EXCEPT !.block = block]
    BY <1>2, <1>8, <1>9, <1>10, <1>11 DEF StreamByte
  <2>2. next = [h |-> mixed[q], block |-> SubSeq(w, u + 1, k)]
    BY <2>1, <1>5, <1>7
  <2>3. u <= k /\ k < u + b /\ k \in 0 .. l
    BY <1>5, <1>6, <1>11
  <2>4. StreamsTo(next, k, q, w, mixed)
    BY <2>2, <2>3, <1>2, <1>3, <1>4 DEF StreamsTo
  <2> QED BY <2>4, <1>6, <1>10 DEF AsAtOnce
<1>12. CASE k - u = b
  <2>1. next = [h |-> Mix(mixed[q], block), block |-> << >>]
    <3>1. stream.h = mixed[q]
      BY <1>5
    <3> QED BY <3>1, <1>2, <1>8, <1>9, <1>10, <1>12 DEF StreamByte
  <2>2. PICK p \in Nat : p = q + 1
    BY <1>4
  <2>3. p * b = k
    <3>1. (q + 1) * b = q * b + b
      BY <1>4
    <3> QED BY <3>1, <2>2, <1>4, <1>12
  <2>4. p <= n
    <3>1. l < n * b + b
      BY <1>2, <1>3, BlocksAre
    <3> SUFFICES ASSUME ~ (p <= n) PROVE FALSE
      OBVIOUS
    <3>2. PICK d \in Nat : p = n + 1 + d
      <4>1. p - (n + 1) \in Nat /\ p = n + 1 + (p - (n + 1))
        OBVIOUS
      <4> QED BY <4>1
    <3>3. (n + 1 + d) * b = n * b + b + d * b
      OBVIOUS
    <3>4. d * b \in Nat /\ n * b \in Nat
      OBVIOUS
    <3> QED BY <3>1, <3>2, <3>3, <3>4, <2>3, <1>6
  <2>5. mixed[p] = Mix(mixed[q], block)
    <3>1. q \in 0 .. n - 1 /\ p \in 1 .. n
      BY <2>2, <2>4, <1>4
    <3>2. mixed[q] \in Nat /\ mixed[p] = MixedBy(w, n)[<<mixed[q], p>>]
      BY <3>1, <2>2, <1>2, <1>4 DEF IsMixed, Values
    <3>3. <<mixed[q], p>> \in Nat \X (1 .. n)
      BY <3>1, <3>2
    <3>4. mixed[p] = Mix(mixed[q], BlockAt(w, p))
      BY <3>2, <3>3 DEF MixedBy
    <3>5. BlockAt(w, p) = block
      <4>1. p - 1 = q
        BY <2>2, <1>4
      <4> QED BY <4>1, <2>3, <1>2, <1>4, <1>7 DEF BlockAt
    <3> QED BY <3>4, <3>5
  <2>6. SubSeq(w, k + 1, k) = << >>
    BY SubSeqEmpty
  <2>7. next = [h |-> mixed[p], block |-> SubSeq(w, k + 1, k)]
    BY <2>1, <2>5, <2>6
  <2>8. StreamsTo(next, k, p, w, mixed)
    BY <2>3, <2>4, <2>7, <1>2, <1>3, <1>6 DEF StreamsTo
  <2> QED BY <2>8, <1>6, <1>10 DEF AsAtOnce
<1> QED BY <1>11, <1>12

LEMMA PieceKeeps ==
  ASSUME PoolsAssumption, NEW w, w \in Seq(Nat), NEW mixed, IsMixed(mixed, w),
         NEW stream, stream \in Streams, NEW from, from \in Nat,
         AsAtOnce(stream, from, w, mixed), NEW bytes, bytes \in Seq(Nat),
         from + Len(bytes) <= Len(w), \A i \in 1 .. Len(bytes) : w[from + i] = bytes[i]
  PROVE  /\ AsAtOnce(StreamUpdate(stream, bytes), from + Len(bytes), w, mixed)
         /\ StreamUpdate(stream, bytes) \in Streams
<1>1. PICK n \in Nat, l \in Nat : n = Len(bytes) /\ l = Len(w)
  BY LenProperties
<1>2. PICK m : Values(m, n, Streams, stream, StreamedBy(bytes, n), StreamUpdate(stream, bytes))
  BY <1>1, StreamFolds
<1> DEFINE Good == {i \in 0 .. n : AsAtOnce(m[i], from + i, w, mixed)}
<1>3. 0 \in Good
  <2>1. m[0] = stream /\ from + 0 = from /\ 0 \in 0 .. n
    BY <1>2 DEF Values
  <2> QED BY <2>1
<1>4. ASSUME NEW i, i \in Nat, i < n, i \in Good PROVE i + 1 \in Good
  <2>1. i \in 0 .. n - 1 /\ i + 1 \in 1 .. n /\ i + 1 \in 0 .. n
    BY <1>4
  <2>2. m[i] \in Streams /\ m[i + 1] = StreamedBy(bytes, n)[<<m[i], i + 1>>]
    BY <2>1, <1>2 DEF Values
  <2>3. PICK j \in 1 .. n : j = i + 1
    BY <2>1
  <2>4. <<m[i], j>> \in Streams \X (1 .. n)
    BY <2>2
  <2>5. m[j] = StreamByte(m[i], bytes[j])
    BY <2>2, <2>3, <2>4 DEF StreamedBy
  <2>6. PICK k \in Nat : k = from + i /\ k < Len(w) /\ k + 1 = from + j
    BY <1>1, <1>4, <2>3
  <2>7. w[k + 1] = bytes[j]
    BY <2>6, <1>1
  <2>8. AsAtOnce(m[i], k, w, mixed)
    BY <2>6, <1>4
  <2>9. AsAtOnce(StreamByte(m[i], w[k + 1]), k + 1, w, mixed)
    BY <2>6, <2>8, ByteKeeps
  <2>10. AsAtOnce(m[j], from + j, w, mixed)
    BY <2>5, <2>6, <2>7, <2>9
  <2> QED BY <2>1, <2>3, <2>10
<1>5. n \in Good
  <2>1. n \in 0 .. n
    OBVIOUS
  <2> HIDE DEF Good
  <2>2. \A i \in 0 .. n : i \in Good
    BY <1>3, <1>4, Induct
  <2> QED BY <2>1, <2>2
<1>6. m[n] = StreamUpdate(stream, bytes) /\ m[n] \in Streams
  BY <1>2 DEF Values
<1> QED BY <1>1, <1>5, <1>6

(* The hash of two pieces, one after the other (hashStreamUpdate), is the  *)
(* hash of the whole (MurmurHash64Bits), wherever the pieces meet: a join  *)
(* is looked up by the hash that a literal of that content has.            *)
THEOREM StreamHashIs ==
  ASSUME PoolsAssumption, NEW a, a \in Seq(Nat), NEW b, b \in Seq(Nat)
  PROVE  StreamHash(a, b) = OneShotHash(a \o b)
<1>1. PICK w : w = a \o b
  OBVIOUS
<1>2. PICK k \in Nat, j \in Nat : k = Len(a) /\ j = Len(b)
  BY LenProperties
<1>3. /\ w \in Seq(Nat) /\ Len(w) = k + j
      /\ \A i \in 1 .. k + j : w[i] = IF i <= k THEN a[i] ELSE b[i - k]
  BY <1>1, <1>2, ConcatProperties
<1>4. PICK n \in Nat : n = Blocks(w)
  BY <1>3, BlocksAre
<1>5. PICK mixed : Values(mixed, n, Nat, Len(w), MixedBy(w, n), Mixed(w))
  BY <1>3, <1>4, OneShotFolds
<1>6. IsMixed(mixed, w)
  BY <1>4, <1>5 DEF IsMixed
<1>7. PICK bs \in Nat \ {0} : bs = BlockSize
  BY DEF PoolsAssumption
<1>8. PICK st0 : st0 = StreamBegin(Len(w))
  OBVIOUS
<1>9. st0 \in Streams
  <2>1. << >> \in Seq(Nat) /\ Len(w) \in Nat
    BY EmptySeq, <1>3
  <2> QED BY <2>1, <1>8 DEF StreamBegin, Streams
<1>10. AsAtOnce(st0, 0, w, mixed)
  <2>1. 0 * bs = 0
    OBVIOUS
  <2>2. SubSeq(w, 0 + 1, 0) = << >>
    BY SubSeqEmpty
  <2>3. mixed[0] = Len(w)
    BY <1>5 DEF Values
  <2>4. st0 = [h |-> mixed[0], block |-> SubSeq(w, 0 + 1, 0)]
    BY <2>2, <2>3, <1>8 DEF StreamBegin
  <2>5. 0 \in 0 .. n /\ 0 \in 0 .. Len(w) /\ 0 <= 0 /\ 0 < 0 + bs
    BY <1>3
  <2>6. StreamsTo(st0, 0, 0, w, mixed)
    BY <2>1, <2>4, <2>5, <1>4, <1>7 DEF StreamsTo
  <2> QED BY <2>6 DEF AsAtOnce
<1>11. PICK st1 : st1 = StreamUpdate(st0, a)
  OBVIOUS
<1>12. AsAtOnce(st1, k, w, mixed) /\ st1 \in Streams
  <2>1. 0 + Len(a) <= Len(w) /\ 0 + Len(a) = k /\ 0 \in Nat
    BY <1>2, <1>3
  <2>2. \A i \in 1 .. Len(a) : w[0 + i] = a[i]
    BY <1>2, <1>3
  <2>3. /\ AsAtOnce(StreamUpdate(st0, a), 0 + Len(a), w, mixed)
        /\ StreamUpdate(st0, a) \in Streams
    BY ONLY PoolsAssumption, a \in Seq(Nat), <1>3, <1>6, <1>9, <1>10, <2>1, <2>2, PieceKeeps
  <2> QED BY <2>1, <2>3, <1>11
<1>13. PICK st2 : st2 = StreamUpdate(st1, b)
  OBVIOUS
<1>14. AsAtOnce(st2, Len(w), w, mixed)
  <2>1. k + Len(b) <= Len(w) /\ k + Len(b) = Len(w) /\ k \in Nat
    BY <1>2, <1>3
  <2>2. \A i \in 1 .. Len(b) : w[k + i] = b[i]
    <3> TAKE i \in 1 .. Len(b)
    <3>1. k + i \in 1 .. k + j /\ ~ (k + i <= k) /\ (k + i) - k = i
      BY <1>2
    <3> QED BY <3>1, <1>3
  <2>3. /\ AsAtOnce(StreamUpdate(st1, b), k + Len(b), w, mixed)
        /\ StreamUpdate(st1, b) \in Streams
    BY ONLY PoolsAssumption, b \in Seq(Nat), <1>3, <1>6, <1>12, <2>1, <2>2, PieceKeeps
  <2> QED BY <2>1, <2>3, <1>13
<1>15. PICK q : StreamsTo(st2, Len(w), q, w, mixed)
  BY <1>14 DEF AsAtOnce
<1>16. q = n
  <2>1. PICK l \in Nat : l = Len(w)
    BY <1>3
  <2>2. q \in 0 .. n /\ l < q * bs + bs
    BY <2>1, <1>4, <1>7, <1>15 DEF StreamsTo
  <2>3. n * bs <= l
    BY <2>1, <1>3, <1>4, <1>7, BlocksAre
  <2> SUFFICES ASSUME q < n PROVE FALSE
    BY <2>2
  <2>4. PICK p \in Nat : p = q
    BY <2>2
  <2>5. PICK d \in Nat : n = p + 1 + d
    <3>1. n - (p + 1) \in Nat /\ n = p + 1 + (n - (p + 1))
      BY <2>2, <2>4
    <3> QED BY <3>1
  <2>6. (p + 1 + d) * bs = p * bs + bs + d * bs
    OBVIOUS
  <2>7. d * bs \in Nat /\ p * bs \in Nat
    OBVIOUS
  <2> QED BY <2>2, <2>3, <2>4, <2>5, <2>6, <2>7
<1>17. st2.h = Mixed(w) /\ st2.block = TailOf(w)
  <2>1. st2 = [h |-> mixed[q], block |-> SubSeq(w, q * BlockSize + 1, Len(w))]
    BY <1>15 DEF StreamsTo
  <2>2. mixed[n] = Mixed(w)
    BY <1>5 DEF Values
  <2> QED BY <2>1, <2>2, <1>4, <1>16 DEF TailOf
<1>18. StreamHash(a, b) = MixTail(st2.h, st2.block)
  <2>1. Len(a) + Len(b) = Len(w)
    BY <1>2, <1>3
  <2> QED BY <2>1, <1>8, <1>11, <1>13 DEF StreamHash
<1> QED BY <1>1, <1>17, <1>18, OneShotIs

-----------------------------------------------------------------------------
(* The invariant.                                                          *)
(*                                                                         *)
(* No two strings are the same because the hash of a string is that of its *)
(* content, however it was made, and because every string is in its pool,  *)
(* in a slot that a search from that hash comes to.  The indices in the    *)
(* two pools and vm.constants say the same.                                *)

String == [content : Seq(Nat), hash : Nat]
HashesOf(objs) == [o \in DOMAIN objs |-> objs[o].hash]

Interned(objs) ==
  /\ objs \in Seq(String)
  /\ \A o \in 1 .. Len(objs) : objs[o].hash = OneShotHash(objs[o].content)
  /\ \A a, b \in 1 .. Len(objs) : objs[a].content = objs[b].content => a = b

Filed(objs, pool) ==
  /\ SoundPool(pool, HashesOf(objs))
  /\ \A o \in 1 .. Len(objs) : \E x \in Members(pool) : x.key = o

NumberValue == [n \in Nat |-> <<"number", <<n>>>>]
StringValue == [o \in Nat |-> <<"string", o>>]
FunctionValue == <<"function", <<>>>>
Constants ==
  {FunctionValue} \cup {NumberValue[n] : n \in Nat} \cup {StringValue[o] : o \in Nat}

PoolsInv(nums, strs, objs, consts) ==
  /\ Interned(objs) /\ Filed(objs, strs) /\ SoundPool(nums, NumberHash)
  /\ consts \in Seq(Constants)
  /\ Tied(Members(nums), NumberValue, consts) /\ Tied(Members(strs), StringValue, consts)

PoolsAgree == PoolsInv(numbers, strings, objects, constants)

LEMMA ValuesAre ==
  /\ \A n \in Nat : NumberValue[n] = <<"number", <<n>>>> /\ NumberValue[n] \in Constants
  /\ \A o \in Nat : StringValue[o] = <<"string", o>> /\ StringValue[o] \in Constants
  /\ FunctionValue \in Constants /\ DOMAIN NumberValue = Nat /\ DOMAIN StringValue = Nat
  BY DEF NumberValue, StringValue, Constants

LEMMA ConstantsDiffer ==
  /\ ValuesDiffer(NumberValue) /\ ValuesDiffer(StringValue)
  /\ \A j \in DOMAIN NumberValue, k \in DOMAIN StringValue : NumberValue[j] # StringValue[k]
  /\ \A j \in DOMAIN NumberValue : NumberValue[j] # FunctionValue
  /\ \A k \in DOMAIN StringValue : StringValue[k] # FunctionValue
<1>1. ASSUME NEW j \in Nat, NEW k \in Nat, <<"number", <<j>>>> = <<"number", <<k>>>>
      PROVE  j = k
  <2>1. <<j>> = <<k>>
    BY <1>1
  <2> QED BY <2>1
<1>2. ValuesDiffer(NumberValue)
  BY <1>1, ValuesAre DEF ValuesDiffer
<1>3. ValuesDiffer(StringValue)
  BY ValuesAre DEF ValuesDiffer
<1>4. \A j \in Nat, k \in Nat : <<"number", <<j>>>> # <<"string", k>>
  OBVIOUS
<1>5. \A j \in Nat : <<"number", <<j>>>> # FunctionValue /\ <<"string", j>> # FunctionValue
  BY DEF FunctionValue
<1>6. \A j \in DOMAIN NumberValue, k \in DOMAIN StringValue : NumberValue[j] # StringValue[k]
  BY <1>4, ValuesAre
<1>7. \A j \in DOMAIN NumberValue : NumberValue[j] # FunctionValue
  BY <1>5, ValuesAre
<1>8. \A k \in DOMAIN StringValue : StringValue[k] # FunctionValue
  BY <1>5, ValuesAre
<1> QED BY ONLY <1>2, <1>3, <1>6, <1>7, <1>8

LEMMA HashesAre ==
  ASSUME PoolsAssumption
  PROVE  /\ \A n \in Number : n \in Nat /\ n # Vacant /\ n \in DOMAIN NumberHash
         /\ \A n \in DOMAIN NumberHash : NumberHash[n] \in Nat
         /\ \A objs : objs \in Seq(String) =>
              \A o \in DOMAIN HashesOf(objs) : HashesOf(objs)[o] \in Nat
<1>1. \A n \in Number : n \in Nat /\ n # Vacant /\ n \in DOMAIN NumberHash
  BY DEF PoolsAssumption, Vacant
<1>2. \A n \in DOMAIN NumberHash : NumberHash[n] \in Nat
  BY DEF PoolsAssumption
<1>3. ASSUME NEW objs, objs \in Seq(String), NEW o \in DOMAIN HashesOf(objs)
      PROVE  HashesOf(objs)[o] \in Nat
  <2>1. o \in DOMAIN objs /\ HashesOf(objs)[o] = objs[o].hash
    BY DEF HashesOf
  <2>2. objs[o] \in String
    BY <1>3, <2>1, LenProperties
  <2> QED BY <2>1, <2>2 DEF String
<1> QED BY <1>1, <1>2, <1>3

LEMMA PoolsBegin == Init => PoolsAgree
<1> SUFFICES ASSUME Init PROVE PoolsAgree
  OBVIOUS
<1>1. numbers = EmptyPool /\ strings = EmptyPool /\ objects = << >> /\ constants = << >>
  BY DEF Init
<1>2. objects \in Seq(String) /\ Len(objects) = 0 /\ constants \in Seq(Constants)
      /\ Len(constants) = 0
  BY <1>1, EmptySeq
<1>3. Interned(objects)
  BY <1>2 DEF Interned
<1>4. Filed(objects, strings)
  BY <1>1, <1>2, EmptyPoolIsSound DEF Filed
<1>5. SoundPool(numbers, NumberHash) /\ Members(numbers) = {} /\ Members(strings) = {}
  BY <1>1, EmptyPoolIsSound
<1>6. Tied({}, NumberValue, constants) /\ Tied({}, StringValue, constants)
  BY <1>2 DEF Tied
<1> QED BY <1>2, <1>3, <1>4, <1>5, <1>6 DEF PoolsAgree, PoolsInv

(* What makeConstant does leaves the constants of the other pool. *)
LEMMA GivenKeeps ==
  ASSUME NEW V, NEW consts, consts \in Seq(V), NEW members, NEW val, Tied(members, val, consts),
         NEW after, NEW index, NEW v, v \in V, Given(consts, after, index, v),
         \A k \in DOMAIN val : val[k] # v
  PROVE  Tied(members, val, after)
<1>1. CASE after = consts
  BY <1>1
<1>2. CASE after = Append(consts, v)
  <2>1. Tied(members, val, Append(consts, v))
    BY TiedExtends
  <2> QED BY <1>2, <2>1
<1> QED BY <1>1, <1>2 DEF Given

(* makeConstant with a member of a pool. *)
LEMMA MemberIndexed ==
  ASSUME NEW p, NEW hashOf, SoundPool(p, hashOf), NEW x, x \in Members(p), NEW k, k = x.key,
         NEW h, h \in Nat, h = hashOf[k],
         NEW V, NEW consts, consts \in Seq(V), NEW val, k \in DOMAIN val, val[k] \in V,
         ValuesDiffer(val), Tied(Members(p), val, consts),
         NEW i, i = PlaceOf(p, h, k), NEW index, index = IndexOf(x, consts),
         NEW after, after = With(x, consts, val[k]), NEW q, q = WithIndex(p, i, index)
  PROVE  /\ SoundPool(q, hashOf) /\ Tied(Members(q), val, after)
         /\ Given(consts, after, index, val[k]) /\ after \in Seq(V) /\ index \in Nat
         /\ \A y \in Members(p) : \E z \in Members(q) : z.key = y.key
<1>1. KeysDiffer(Members(p))
  BY MembersAre DEF KeysDiffer
<1>2. PICK new : new = [key |-> k, index |-> index]
  OBVIOUS
<1>3. x.key \in DOMAIN val /\ val[x.key] \in V
  OBVIOUS
<1>4. /\ Tied(Reindexed(Members(p), x, consts), val, With(x, consts, val[x.key]))
      /\ Given(consts, With(x, consts, val[x.key]), IndexOf(x, consts), val[x.key])
      /\ With(x, consts, val[x.key]) \in Seq(V) /\ IndexOf(x, consts) \in Nat
  <2>1. ValuesDiffer(val) /\ consts \in Seq(V) /\ Tied(Members(p), val, consts) /\ x \in Members(p)
    OBVIOUS
  <2> QED BY ONLY <2>1, <1>1, <1>3, MemberIsGiven
<1>5. SoundPool(WithIndex(p, i, index), hashOf)
      /\ Members(WithIndex(p, i, index)) = (Members(p) \ {x}) \cup {[key |-> x.key, index |-> index]}
  <2>1. h = hashOf[x.key] /\ i = PlaceOf(p, h, x.key) /\ index \in Int
    BY <1>4
  <2> QED BY <2>1, WithIndexIs
<1>6. Members(q) = (Members(p) \ {x}) \cup {new} /\ Members(q) = Reindexed(Members(p), x, consts)
  BY <1>2, <1>5 DEF Reindexed
<1>7. ASSUME NEW y \in Members(p) PROVE \E z \in Members(q) : z.key = y.key
  <2>1. CASE y = x
    <3>1. new \in Members(q) /\ new.key = y.key
      BY <2>1, <1>2, <1>6
    <3> QED BY <3>1
  <2>2. CASE y # x
    BY <2>2, <1>6
  <2> QED BY <2>1, <2>2
<1> QED BY <1>4, <1>5, <1>6, <1>7

-----------------------------------------------------------------------------
(* Strings.                                                                *)

OfContent(objs, bytes) == {o \in 1 .. Len(objs) : objs[o].content = bytes}
FoundIn(objs, pool, bytes, hash) ==
  IF pool.count = 0 THEN {}
  ELSE LET matching == {o \in DOMAIN objs : objs[o] = [content |-> bytes, hash |-> hash]}
           i == Find(pool.entries, pool.capacity, hash, matching)
       IN {pool.entries[i].key} \ {Vacant}

LEMMA StringIs ==
  ASSUME NEW s, s \in String
  PROVE  s = [content |-> s.content, hash |-> s.hash] /\ s.content \in Seq(Nat) /\ s.hash \in Nat
  BY DEF String

(* A string of that content is found if there is one. *)
LEMMA FoundIs ==
  ASSUME PoolsAssumption, NEW objs, Interned(objs), NEW pool, Filed(objs, pool),
         NEW bytes, bytes \in Seq(Nat), NEW hash, hash = OneShotHash(bytes)
  PROVE  FoundIn(objs, pool, bytes, hash) = OfContent(objs, bytes)
<1>1. PICK matching : matching = {o \in DOMAIN objs : objs[o] = [content |-> bytes, hash |-> hash]}
  OBVIOUS
<1>2. PICK i : i = Find(pool.entries, pool.capacity, hash, matching)
  OBVIOUS
<1>3. FoundIn(objs, pool, bytes, hash)
        = IF pool.count = 0 THEN {} ELSE {pool.entries[i].key} \ {Vacant}
  BY <1>1, <1>2 DEF FoundIn
<1>4. objs \in Seq(String) /\ DOMAIN objs = 1 .. Len(objs) /\ Len(objs) \in Nat
      /\ \A o \in 1 .. Len(objs) : objs[o] \in String
  BY LenProperties DEF Interned
<1>5. matching = OfContent(objs, bytes)
  <2>1. ASSUME NEW o \in 1 .. Len(objs)
        PROVE  objs[o] = [content |-> bytes, hash |-> hash] <=> objs[o].content = bytes
    <3>1. PICK s \in String : s = objs[o]
      BY <1>4
    <3>2. s = [content |-> s.content, hash |-> s.hash]
      BY StringIs
    <3>3. s.hash = OneShotHash(s.content)
      BY <3>1 DEF Interned
    <3>4. s.content = bytes => s = [content |-> bytes, hash |-> hash]
      BY <3>2, <3>3
    <3>5. s = [content |-> bytes, hash |-> hash] => s.content = bytes
      OBVIOUS
    <3> QED BY <3>1, <3>4, <3>5
  <2> QED BY <2>1, <1>1, <1>4 DEF OfContent
<1>6. hash \in Nat
  BY HashIsNat
<1>7. SoundPool(pool, HashesOf(objs))
  BY DEF Filed
<1>8. CASE OfContent(objs, bytes) = {}
  <2>1. ASSUME pool.count # 0 PROVE pool.entries[i].key = Vacant
    <3>1. i = Find(pool.entries, pool.capacity, hash, {})
      BY <1>2, <1>5, <1>8
    <3> QED BY <3>1, <2>1, <1>6, <1>7, NothingIsFound
  <2> QED BY <2>1, <1>3, <1>8
<1>9. CASE OfContent(objs, bytes) # {}
  <2>1. PICK o \in 1 .. Len(objs) : objs[o].content = bytes
    BY <1>9 DEF OfContent
  <2>2. OfContent(objs, bytes) = {o}
    BY <2>1 DEF OfContent, Interned
  <2>3. PICK x : x \in Members(pool) /\ o = x.key
    BY DEF Filed
  <2>4. HashesOf(objs)[o] = hash
    BY <2>1, <1>4 DEF HashesOf, Interned
  <2>5. /\ PlaceOf(pool, hash, o) \in Used(pool.entries, pool.capacity)
        /\ pool.entries[PlaceOf(pool, hash, o)] = x
        /\ Find(pool.entries, pool.capacity, hash, {o}) = PlaceOf(pool, hash, o)
    <3>1. PICK hashOf : hashOf = HashesOf(objs)
      OBVIOUS
    <3>2. PICK k : k = o
      OBVIOUS
    <3>3. hash = hashOf[k]
      BY <3>1, <3>2, <2>4
    <3>4. k = x.key
      BY <3>2, <2>3
    <3>6. SoundPool(pool, hashOf)
      BY <3>1, <1>7
    <3>7. x \in Members(pool)
      BY <2>3
    <3>5. /\ PlaceOf(pool, hash, k) \in Used(pool.entries, pool.capacity)
          /\ pool.entries[PlaceOf(pool, hash, k)] = x
          /\ Find(pool.entries, pool.capacity, hash, {k}) = PlaceOf(pool, hash, k)
      BY ONLY <3>3, <3>4, <3>6, <3>7, <1>6, PlaceIs, SMTT(40)
    <3> QED BY <3>2, <3>5
  <2>6. pool.entries[i].key = o
    BY <2>2, <2>3, <2>5, <1>2, <1>5
  <2>7. pool.count # 0 /\ o # Vacant
    BY <1>7, <2>3, MembersAre
  <2> QED BY <2>2, <2>6, <2>7, <1>3
<1> QED BY <1>8, <1>9

(* A string that is new. *)
WithString(objs, bytes, hash) == Append(objs, [content |-> bytes, hash |-> hash])
FiledAt(pool, objs, hash, o) == WithKey(GrownPool(pool, HashesOf(objs)), hash, o)
NewCell(o) == [key |-> o, index |-> NoIndex]

LEMMA ObjectIsFiled ==
  ASSUME PoolsAssumption, NEW objs, Interned(objs), NEW pool, Filed(objs, pool),
         NEW bytes, bytes \in Seq(Nat), NEW hash, hash = OneShotHash(bytes),
         OfContent(objs, bytes) = {},
         NEW after, after = WithString(objs, bytes, hash),
         NEW o, o = Len(objs) + 1,
         NEW q, q = FiledAt(pool, objs, hash, o)
  PROVE  /\ Interned(after) /\ Filed(after, q)
         /\ Members(q) = Members(pool) \cup {NewCell(o)}
         /\ o \in Nat /\ o # Vacant /\ hash \in Nat /\ HashesOf(after)[o] = hash
         /\ \A x \in Members(pool) : x.key # o
<1>1. PICK s : s = [content |-> bytes, hash |-> hash]
  OBVIOUS
<1>2. hash \in Nat
  BY HashIsNat
<1>3. s \in String /\ s.content = bytes /\ s.hash = hash
  BY <1>1, <1>2 DEF String
<1>4. objs \in Seq(String) /\ DOMAIN objs = 1 .. Len(objs) /\ Len(objs) \in Nat
  BY LenProperties DEF Interned
<1>5. /\ after \in Seq(String) /\ Len(after) = o /\ after[o] = s
      /\ \A p \in 1 .. Len(objs) : after[p] = objs[p]
  BY <1>1, <1>3, <1>4, AppendProperties DEF WithString
<1>6. o \in Nat /\ o # Vacant /\ \A p \in 1 .. o : p = o \/ p \in 1 .. Len(objs)
  BY <1>4 DEF Vacant
<1>7. Interned(after)
  <2>1. ASSUME NEW p \in 1 .. o PROVE after[p].hash = OneShotHash(after[p].content)
    BY <1>3, <1>5, <1>6 DEF Interned
  <2>2. ASSUME NEW p \in 1 .. Len(objs) PROVE after[p].content # bytes
    BY <1>5 DEF OfContent
  <2>3. ASSUME NEW a \in 1 .. o, NEW b \in 1 .. o, after[a].content = after[b].content PROVE a = b
    <3>1. CASE a = o
      BY <3>1, <2>2, <2>3, <1>3, <1>5, <1>6
    <3>2. CASE b = o
      BY <3>2, <2>2, <2>3, <1>3, <1>5, <1>6
    <3>3. CASE a \in 1 .. Len(objs) /\ b \in 1 .. Len(objs)
      BY <3>3, <2>3, <1>5 DEF Interned
    <3> QED BY <3>1, <3>2, <3>3, <1>6
  <2> QED BY <2>1, <2>3, <1>5 DEF Interned
<1>8. PICK old : old = HashesOf(objs)
  OBVIOUS
<1>9. PICK new : new = HashesOf(after)
  OBVIOUS
<1>10. SoundPool(pool, old)
  BY <1>8 DEF Filed
<1>11. \A k \in DOMAIN old : old[k] \in Nat
  BY <1>4, <1>8, HashesAre
<1>12. PICK g : g = GrownPool(pool, old)
  OBVIOUS
<1>13. Roomy(g, old) /\ Members(g) = Members(pool)
  BY <1>10, <1>11, <1>12, GrownIs
<1>14. /\ DOMAIN old = 1 .. Len(objs) /\ DOMAIN new = 1 .. o
       /\ \A k \in DOMAIN old : new[k] = old[k]
       /\ new[o] = hash
  <2>1. DOMAIN after = 1 .. o
    BY <1>5, LenProperties
  <2>2. DOMAIN old = 1 .. Len(objs) /\ DOMAIN new = 1 .. o
    BY <2>1, <1>4, <1>8, <1>9 DEF HashesOf
  <2>3. \A k \in 1 .. Len(objs) : k \in 1 .. o
    BY <1>4
  <2>4. \A k \in 1 .. Len(objs) : new[k] = old[k]
    BY <2>1, <2>3, <1>4, <1>5, <1>8, <1>9 DEF HashesOf
  <2>5. new[o] = hash
    BY <2>1, <1>3, <1>5, <1>6, <1>9 DEF HashesOf
  <2> QED BY <2>2, <2>4, <2>5
<1>15. Roomy(g, new)
  <2>1. SoundPool(g, old) /\ g.capacity # 0 /\ g.count + 1 < g.capacity
    BY <1>13 DEF Roomy
  <2>2. DOMAIN old \subseteq DOMAIN new
    BY <1>4, <1>14
  <2>3. SoundPool(g, new)
    BY ONLY <2>1, <2>2, <1>14, HashExtends
  <2> QED BY <2>1, <2>3 DEF Roomy
<1>16. \A x \in Members(g) : x.key # o
  <2>1. \A x \in Members(pool) : x.key \in 1 .. Len(objs)
    BY <1>10, <1>14, MembersAre
  <2> QED BY <2>1, <1>4, <1>13
<1>17. /\ SoundPool(WithKey(g, hash, o), new)
       /\ Members(WithKey(g, hash, o)) = Members(g) \cup {[key |-> o, index |-> NoIndex]}
  <2>1. o \in DOMAIN new /\ hash = new[o]
    BY <1>6, <1>14
  <2> QED BY ONLY <2>1, <1>2, <1>6, <1>15, <1>16, WithKeyAdds
<1>18. q = WithKey(g, hash, o)
  BY <1>8, <1>12 DEF FiledAt
<1>19. PICK cell : cell = [key |-> o, index |-> NoIndex]
  OBVIOUS
<1>20. Members(q) = Members(pool) \cup {cell} /\ cell.key = o
  BY <1>13, <1>17, <1>18, <1>19
<1>21. ASSUME NEW p \in 1 .. o PROVE \E x \in Members(q) : x.key = p
  <2>1. CASE p = o
    BY <2>1, <1>20
  <2>2. CASE p # o
    <3>1. \E x \in Members(pool) : x.key = p
      BY <2>2, <1>6 DEF Filed
    <3> QED BY <3>1, <1>20
  <2> QED BY <2>1, <2>2
<1>22. Filed(after, q)
  BY <1>5, <1>9, <1>17, <1>18, <1>21 DEF Filed
<1> QED BY <1>2, <1>6, <1>7, <1>9, <1>13, <1>14, <1>16, <1>19, <1>20, <1>22 DEF NewCell

-----------------------------------------------------------------------------
(* The steps.                                                              *)

LEMMA NumberMade ==
  ASSUME PoolsAssumption, NEW nums, NEW strs, NEW objs, NEW consts,
         PoolsInv(nums, strs, objs, consts), NEW n, n \in Number, NEW h, h = NumberHash[n],
         NEW pool, pool = WithKey(GrownPool(nums, NumberHash), h, n),
         NEW i, i = PlaceOf(pool, h, n), NEW x, x = pool.entries[i],
         NEW index, index = IndexOf(x, consts),
         NEW after, after = With(x, consts, NumberValue[n]),
         NEW q, q = WithIndex(pool, i, index)
  PROVE  /\ PoolsInv(q, strs, objs, after)
         /\ Given(consts, after, index, NumberValue[n]) /\ index \in Nat
<1>1. n \in Nat /\ n # Vacant /\ n \in DOMAIN NumberHash /\ h \in Nat
      /\ \A j \in DOMAIN NumberHash : NumberHash[j] \in Nat
  BY HashesAre
<1>2. PICK hashOf : hashOf = NumberHash
  OBVIOUS
<1>3. SoundPool(nums, hashOf)
  BY <1>2 DEF PoolsInv
<1>4. SoundPool(pool, hashOf) /\ \E z : Requested(nums, pool, n, z)
  <2>1. pool = WithKey(GrownPool(nums, hashOf), hashOf[n], n)
    BY <1>2
  <2>2. n \in DOMAIN hashOf
    BY <1>1, <1>2
  <2>3. \A j \in DOMAIN hashOf : hashOf[j] \in Nat
    BY <1>1, <1>2
  <2>4. n \in Nat
    BY <1>1
  <2>5. n # Vacant
    BY <1>1
  <2> QED BY ONLY PoolsAssumption, <2>1, <2>2, <2>3, <2>4, <2>5, <1>3, RequestIs
<1>5. PICK z : Requested(nums, pool, n, z)
  BY <1>4
<1>6. z \in Members(pool) /\ n = z.key
  BY <1>5 DEF Requested
<1>7. z = x
  <2>1. z \in Members(pool)
    BY <1>6
  <2>2. n = z.key
    BY <1>6
  <2>3. h = hashOf[n]
    BY <1>2
  <2>4. SoundPool(pool, hashOf)
    BY <1>4
  <2>5. h \in Nat
    BY <1>1
  <2>6. /\ PlaceOf(pool, h, n) \in Used(pool.entries, pool.capacity)
        /\ pool.entries[PlaceOf(pool, h, n)] = z
        /\ Find(pool.entries, pool.capacity, h, {n}) = PlaceOf(pool, h, n)
    BY ONLY <2>1, <2>2, <2>3, <2>4, <2>5, PlaceIs
  <2> QED BY <2>6
<1>8. Tied(Members(pool), NumberValue, consts)
  <2>1. Tied(Members(nums), NumberValue, consts)
    BY DEF PoolsInv
  <2>2. CASE z \in Members(nums)
    <3>1. Members(pool) = Members(nums)
      BY <2>2, <1>5 DEF Requested
    <3> QED BY <3>1, <2>1
  <2>3. CASE z \notin Members(nums)
    <3>1. z.index = NoIndex /\ Members(pool) = Members(nums) \cup {z}
      BY <2>3, <1>5 DEF Requested
    <3>2. Tied(Members(nums) \cup {z}, NumberValue, consts)
      BY <3>1, <2>1, TiedToMore
    <3> QED BY <3>1, <3>2
  <2> QED BY <2>2, <2>3
<1>9. PICK val : val = NumberValue
  OBVIOUS
<1>10. n \in DOMAIN val /\ val[n] \in Constants
  BY <1>1, <1>9, ValuesAre
<1>11. consts \in Seq(Constants)
  BY DEF PoolsInv
<1>12. /\ SoundPool(q, hashOf) /\ Tied(Members(q), val, after)
       /\ Given(consts, after, index, val[n]) /\ after \in Seq(Constants) /\ index \in Nat
       /\ \A y \in Members(pool) : \E w \in Members(q) : w.key = y.key
  <2>1. x \in Members(pool)
    BY <1>6, <1>7, ZenonT(40)
  <2>2. n = x.key
    BY <1>6, <1>7
  <2>3. h = hashOf[n]
    BY <1>2
  <2>4. SoundPool(pool, hashOf)
    BY <1>4
  <2>5. h \in Nat
    BY <1>1
  <2>6. ValuesDiffer(val)
    BY <1>9, ConstantsDiffer
  <2>7. Tied(Members(pool), val, consts)
    BY <1>8, <1>9
  <2>8. n \in DOMAIN val
    BY <1>10
  <2>9. val[n] \in Constants
    BY <1>10
  <2>10. after = With(x, consts, val[n])
    BY <1>9
  <2>11. i = PlaceOf(pool, h, n)
    OBVIOUS
  <2>12. index = IndexOf(x, consts)
    OBVIOUS
  <2>13. q = WithIndex(pool, i, index)
    OBVIOUS
  <2> QED BY ONLY <2>1, <2>2, <2>3, <2>4, <2>5, <2>6, <2>7, <2>8, <2>9, <2>10, <2>11, <2>12,
                  <2>13, <1>11, MemberIndexed, SMTT(60)
<1>13. Tied(Members(strs), StringValue, after)
  <2>1. PICK v : v = val[n]
    OBVIOUS
  <2>2. \A k \in DOMAIN StringValue : StringValue[k] # v
    BY <2>1, <1>9, <1>10, ConstantsDiffer
  <2>3. Tied(Members(strs), StringValue, consts)
    BY DEF PoolsInv
  <2>4. Given(consts, after, index, v)
    BY <2>1, <1>12
  <2>5. v \in Constants
    BY <2>1, <1>10
  <2> QED BY ONLY <2>2, <2>3, <2>4, <2>5, <1>11, GivenKeeps
<1> QED BY <1>2, <1>9, <1>12, <1>13 DEF PoolsInv

LEMMA StringMade ==
  ASSUME NEW nums, NEW pool, NEW objs, NEW consts, PoolsInv(nums, pool, objs, consts),
         NEW x, x \in Members(pool), NEW o, o = x.key, NEW h, h = HashesOf(objs)[o], h \in Nat,
         o \in Nat, NEW i, i = PlaceOf(pool, h, o),
         NEW index, index = IndexOf(x, consts),
         NEW after, after = With(x, consts, StringValue[o]),
         NEW q, q = WithIndex(pool, i, index)
  PROVE  /\ PoolsInv(nums, q, objs, after)
         /\ Given(consts, after, index, StringValue[o]) /\ index \in Nat
<1>1. PICK val : val = StringValue
  OBVIOUS
<1>2. PICK hashOf : hashOf = HashesOf(objs)
  OBVIOUS
<1>3. o \in DOMAIN val /\ val[o] \in Constants
  BY <1>1, ValuesAre
<1>4. consts \in Seq(Constants)
  BY DEF PoolsInv
<1>5. /\ SoundPool(q, hashOf) /\ Tied(Members(q), val, after)
      /\ Given(consts, after, index, val[o]) /\ after \in Seq(Constants) /\ index \in Nat
      /\ \A y \in Members(pool) : \E w \in Members(q) : w.key = y.key
  <2>1. h = hashOf[o]
    BY <1>2
  <2>2. SoundPool(pool, hashOf)
    BY <1>2 DEF PoolsInv, Filed
  <2>3. ValuesDiffer(val)
    BY <1>1, ConstantsDiffer
  <2>4. Tied(Members(pool), val, consts)
    BY <1>1 DEF PoolsInv
  <2>5. o \in DOMAIN val
    BY <1>3
  <2>6. val[o] \in Constants
    BY <1>3
  <2>7. after = With(x, consts, val[o])
    BY <1>1
  <2>8. i = PlaceOf(pool, h, o)
    OBVIOUS
  <2>9. index = IndexOf(x, consts)
    OBVIOUS
  <2>10. q = WithIndex(pool, i, index)
    OBVIOUS
  <2>11. x \in Members(pool)
    OBVIOUS
  <2>12. o = x.key
    OBVIOUS
  <2>13. h \in Nat
    OBVIOUS
  <2> QED BY ONLY <2>1, <2>2, <2>3, <2>4, <2>5, <2>6, <2>7, <2>8, <2>9, <2>10, <2>11, <2>12,
                  <2>13, <1>4, MemberIndexed, SMTT(60)
<1>6. Tied(Members(nums), NumberValue, after)
  <2>1. PICK v : v = val[o]
    OBVIOUS
  <2>2. \A k \in DOMAIN NumberValue : NumberValue[k] # v
    BY <2>1, <1>1, <1>3, ConstantsDiffer
  <2>3. Tied(Members(nums), NumberValue, consts)
    BY DEF PoolsInv
  <2>4. Given(consts, after, index, v)
    BY <2>1, <1>5
  <2>5. v \in Constants
    BY <2>1, <1>3
  <2> QED BY ONLY <2>2, <2>3, <2>4, <2>5, <1>4, GivenKeeps
<1>7. Filed(objs, q)
  <2>1. ASSUME NEW p \in 1 .. Len(objs) PROVE \E w \in Members(q) : w.key = p
    <3>1. PICK y \in Members(pool) : y.key = p
      BY DEF PoolsInv, Filed
    <3> QED BY <3>1, <1>5
  <2> QED BY <2>1, <1>2, <1>5 DEF Filed
<1> QED BY <1>1, <1>5, <1>6, <1>7 DEF PoolsInv

(* connectString, and copyString of a new string. *)
LEMMA ObjectMade ==
  ASSUME PoolsAssumption, NEW nums, NEW strs, NEW objs, NEW consts,
         PoolsInv(nums, strs, objs, consts),
         NEW bytes, bytes \in Seq(Nat), NEW hash, hash = OneShotHash(bytes),
         OfContent(objs, bytes) = {},
         NEW after, after = WithString(objs, bytes, hash),
         NEW o, o = Len(objs) + 1,
         NEW q, q = FiledAt(strs, objs, hash, o)
  PROVE  /\ PoolsInv(nums, q, after, consts)
         /\ o \in Nat /\ hash \in Nat /\ HashesOf(after)[o] = hash
         /\ \E x \in Members(q) : x.key = o /\ x.index = NoIndex
<1>1. Interned(objs) /\ Filed(objs, strs)
  BY DEF PoolsInv
<1>2. /\ Interned(after) /\ Filed(after, q)
      /\ Members(q) = Members(strs) \cup {NewCell(o)}
      /\ o \in Nat /\ o # Vacant /\ hash \in Nat /\ HashesOf(after)[o] = hash
      /\ \A x \in Members(strs) : x.key # o
  <2>1. Interned(objs)
    BY <1>1
  <2>2. Filed(objs, strs)
    BY <1>1
  <2>3. bytes \in Seq(Nat)
    OBVIOUS
  <2>4. hash = OneShotHash(bytes)
    OBVIOUS
  <2>5. OfContent(objs, bytes) = {}
    OBVIOUS
  <2>6. after = WithString(objs, bytes, hash)
    OBVIOUS
  <2>7. o = Len(objs) + 1
    OBVIOUS
  <2>8. q = FiledAt(strs, objs, hash, o)
    OBVIOUS
  <2> QED BY ONLY PoolsAssumption, <2>1, <2>2, <2>3, <2>4, <2>5, <2>6, <2>7, <2>8, ObjectIsFiled
<1>3. PICK x : x = [key |-> o, index |-> NoIndex]
  OBVIOUS
<1>4. x.key = o /\ x.index = NoIndex /\ x \in Members(q) /\ Members(q) = Members(strs) \cup {x}
  BY <1>2, <1>3 DEF NewCell
<1>5. Tied(Members(strs) \cup {x}, StringValue, consts)
  <2>1. Tied(Members(strs), StringValue, consts)
    BY DEF PoolsInv
  <2> QED BY <2>1, <1>4, TiedToMore
<1>6. PoolsInv(nums, q, after, consts)
  BY <1>2, <1>4, <1>5 DEF PoolsInv
<1> QED BY <1>2, <1>4, <1>6

LEMMA FunctionMade ==
  ASSUME NEW nums, NEW strs, NEW objs, NEW consts, PoolsInv(nums, strs, objs, consts)
  PROVE  PoolsInv(nums, strs, objs, Append(consts, FunctionValue))
<1>1. consts \in Seq(Constants) /\ FunctionValue \in Constants
  BY ValuesAre DEF PoolsInv
<1>2. Tied(Members(nums), NumberValue, Append(consts, FunctionValue))
  BY <1>1, ConstantsDiffer, TiedExtends DEF PoolsInv
<1>3. Tied(Members(strs), StringValue, Append(consts, FunctionValue))
  BY <1>1, ConstantsDiffer, TiedExtends DEF PoolsInv
<1>4. Append(consts, FunctionValue) \in Seq(Constants)
  BY <1>1, AppendProperties
<1> QED BY <1>2, <1>3, <1>4 DEF PoolsInv

(* The constant that was asked for has its index, and how the strings      *)
(* change with it.                                                         *)
Made(consts, after, ans, asked, v) ==
  \E index \in Nat : Given(consts, after, index, v) /\ ans = <<asked, Indexed(index)>>
Grows(objs, after) == after = objs \/ \E s \in String : after = Append(objs, s)

LEMMA NumberKeeps ==
  ASSUME PoolsAssumption, PoolsAgree, NEW n \in Number, NumberConstant(n)
  PROVE  /\ PoolsAgree' /\ objects' = objects
         /\ Made(constants, constants', answer', NumberOf(n), NumberValue[n])
<1>1. PICK h, pool : h = NumberHash[n] /\ pool = WithKey(GrownPool(numbers, NumberHash), h, n)
  OBVIOUS
<1>2. PICK i, x : i = PlaceOf(pool, h, n) /\ x = pool.entries[i]
  OBVIOUS
<1>3. PICK index, after : index = IndexOf(x, constants) /\ after = With(x, constants, NumberValue[n])
  OBVIOUS
<1>4. PICK q : q = WithIndex(pool, i, index)
  OBVIOUS
<1>5. NumberValue[n] = <<"number", <<n>>>>
  BY HashesAre, ValuesAre
<1>6. IndexAt(pool, i) = index /\ ConstantsWith(pool, i, NumberOf(n)) = after
  BY <1>2, <1>3, <1>5 DEF IndexAt, ConstantsWith, IndexOf, With, NumberOf
<1>7. numbers' = q /\ constants' = after /\ answer' = <<NumberOf(n), Indexed(index)>>
      /\ strings' = strings /\ objects' = objects
  BY <1>1, <1>2, <1>4, <1>6 DEF NumberConstant, WithIndex
<1>8. /\ PoolsInv(q, strings, objects, after)
      /\ Given(constants, after, index, NumberValue[n]) /\ index \in Nat
  <2>1. PoolsInv(numbers, strings, objects, constants)
    BY DEF PoolsAgree
  <2>2. n \in Number
    OBVIOUS
  <2>3. h = NumberHash[n]
    BY <1>1
  <2>4. pool = WithKey(GrownPool(numbers, NumberHash), h, n)
    BY <1>1
  <2>5. i = PlaceOf(pool, h, n)
    BY <1>2
  <2>6. x = pool.entries[i]
    BY <1>2
  <2>7. index = IndexOf(x, constants)
    BY <1>3
  <2>8. after = With(x, constants, NumberValue[n])
    BY <1>3
  <2> QED BY ONLY PoolsAssumption, <2>1, <2>2, <2>3, <2>4, <2>5, <2>6, <2>7, <2>8, <1>4, NumberMade
<1> QED BY <1>7, <1>8 DEF PoolsAgree, Made

LEMMA FoundHere ==
  ASSUME PoolsAssumption, PoolsAgree, NEW bytes, bytes \in Seq(Nat), NEW hash, hash = OneShotHash(bytes)
  PROVE  Found(bytes, hash) = OfContent(objects, bytes)
<1>1. Found(bytes, hash) = FoundIn(objects, strings, bytes, hash)
  BY DEF Found, FoundIn
<1>2. Interned(objects) /\ Filed(objects, strings)
  BY DEF PoolsAgree, PoolsInv
<1> QED BY <1>1, <1>2, FoundIs

LEMMA StringKeeps ==
  ASSUME PoolsAssumption, PoolsAgree, NEW bytes \in Literal, StringConstant(bytes)
  PROVE  /\ PoolsAgree' /\ objects' = objects
         /\ \E o \in 1 .. Len(objects) :
              /\ objects[o].content = bytes
              /\ Made(constants, constants', answer', StringOf(bytes), StringValue[o])
<1>1. bytes \in Seq(Nat)
  BY DEF PoolsAssumption
<1>2. PICK hash : hash = OneShotHash(bytes)
  OBVIOUS
<1>3. Found(bytes, hash) = OfContent(objects, bytes)
  BY <1>1, <1>2, FoundHere
<1>4. PICK o \in Found(bytes, hash) :
        LET i == PlaceOf(strings, HashOfObject(o), o)
        IN /\ strings' = [strings EXCEPT !.entries[i].index = IndexAt(strings, i)]
           /\ constants' = ConstantsWith(strings, i, <<"string", o>>)
           /\ answer' = <<StringOf(bytes), Indexed(IndexAt(strings, i))>>
           /\ UNCHANGED <<numbers, objects>>
  BY <1>2 DEF StringConstant
<1>5. PICK h, i : h = HashOfObject(o) /\ i = PlaceOf(strings, h, o)
  OBVIOUS
<1>6. o \in 1 .. Len(objects) /\ objects[o].content = bytes /\ o \in Nat
  BY <1>3 DEF OfContent
<1>7. h = HashesOf(objects)[o] /\ h \in Nat /\ SoundPool(strings, HashesOf(objects))
  <2>1. Interned(objects) /\ SoundPool(strings, HashesOf(objects))
    BY DEF PoolsAgree, PoolsInv, Filed
  <2>2. objects \in Seq(String) /\ DOMAIN objects = 1 .. Len(objects)
    BY <2>1, LenProperties DEF Interned
  <2>3. h = HashesOf(objects)[o] /\ o \in DOMAIN HashesOf(objects)
    BY <2>2, <1>5, <1>6 DEF HashesOf, HashOfObject
  <2> QED BY <2>1, <2>2, <2>3, HashesAre
<1>8. PICK x : x \in Members(strings) /\ x.key = o
  BY <1>6 DEF PoolsAgree, PoolsInv, Filed
<1>9. strings.entries[i] = x
  <2>1. PICK hashOf : hashOf = HashesOf(objects)
    OBVIOUS
  <2>2. PICK k : k = o
    OBVIOUS
  <2>3. SoundPool(strings, hashOf)
    BY <2>1, <1>7
  <2>4. x \in Members(strings)
    BY <1>8
  <2>5. k = x.key
    BY <2>2, <1>8
  <2>6. h \in Nat
    BY <1>7
  <2>7. h = hashOf[k]
    BY <2>1, <2>2, <1>7
  <2>8. /\ PlaceOf(strings, h, k) \in Used(strings.entries, strings.capacity)
        /\ strings.entries[PlaceOf(strings, h, k)] = x
        /\ Find(strings.entries, strings.capacity, h, {k}) = PlaceOf(strings, h, k)
    BY ONLY <2>3, <2>4, <2>5, <2>6, <2>7, PlaceIs
  <2> QED BY <2>2, <2>8, <1>5
<1>10. PICK index, after : index = IndexOf(x, constants) /\ after = With(x, constants, StringValue[o])
  OBVIOUS
<1>11. PICK q : q = WithIndex(strings, i, index)
  OBVIOUS
<1>12. IndexAt(strings, i) = index /\ ConstantsWith(strings, i, <<"string", o>>) = after
  <2>1. StringValue[o] = <<"string", o>>
    BY <1>6, ValuesAre
  <2> QED BY <2>1, <1>9, <1>10 DEF IndexAt, ConstantsWith, IndexOf, With
<1>13. strings' = q /\ constants' = after /\ answer' = <<StringOf(bytes), Indexed(index)>>
       /\ numbers' = numbers /\ objects' = objects
  BY <1>4, <1>5, <1>11, <1>12 DEF WithIndex
<1>14. /\ PoolsInv(numbers, q, objects, after)
       /\ Given(constants, after, index, StringValue[o]) /\ index \in Nat
  <2>1. PoolsInv(numbers, strings, objects, constants)
    BY DEF PoolsAgree
  <2>2. x \in Members(strings)
    BY <1>8
  <2>3. o = x.key
    BY <1>8
  <2>4. h = HashesOf(objects)[o]
    BY <1>7
  <2>5. h \in Nat
    BY <1>7
  <2>6. o \in Nat
    BY <1>6
  <2>7. i = PlaceOf(strings, h, o)
    BY <1>5
  <2>8. index = IndexOf(x, constants)
    BY <1>10
  <2>9. after = With(x, constants, StringValue[o])
    BY <1>10
  <2> QED BY ONLY <2>1, <2>2, <2>3, <2>4, <2>5, <2>6, <2>7, <2>8, <2>9, <1>11, StringMade
<1> QED BY <1>6, <1>13, <1>14 DEF PoolsAgree, Made

LEMMA NewStringKeeps ==
  ASSUME PoolsAssumption, PoolsAgree, NEW bytes \in Literal, NewStringConstant(bytes)
  PROVE  /\ PoolsAgree' /\ Grows(objects, objects')
         /\ \E o \in 1 .. Len(objects') :
              /\ objects'[o].content = bytes
              /\ Made(constants, constants', answer', StringOf(bytes), StringValue[o])
<1>1. bytes \in Seq(Nat)
  BY DEF PoolsAssumption
<1>2. PICK hash, o : hash = OneShotHash(bytes) /\ o = Len(objects) + 1
  OBVIOUS
<1>3. PICK pool : pool = WithObject(hash)
  OBVIOUS
<1>4. PICK more : more = WithString(objects, bytes, hash)
  OBVIOUS
<1>5. /\ Found(bytes, hash) = {} /\ objects' = more
      /\ strings' = [pool EXCEPT !.entries[PlaceOf(pool, hash, o)].index = Len(constants)]
      /\ constants' = Append(constants, <<"string", o>>)
      /\ answer' = <<StringOf(bytes), Indexed(Len(constants))>> /\ numbers' = numbers
  BY <1>2, <1>3, <1>4 DEF NewStringConstant, NewObject, WithString
<1>6. pool = FiledAt(strings, objects, hash, o)
  BY <1>2, <1>3 DEF WithObject, FiledAt, HashesOf, HashOfObject
<1>7. /\ PoolsInv(numbers, pool, more, constants)
      /\ o \in Nat /\ hash \in Nat /\ HashesOf(more)[o] = hash
      /\ \E x \in Members(pool) : x.key = o /\ x.index = NoIndex
  <2>1. PoolsInv(numbers, strings, objects, constants)
    BY DEF PoolsAgree
  <2>2. hash = OneShotHash(bytes)
    BY <1>2
  <2>3. OfContent(objects, bytes) = {}
    BY <1>1, <1>2, <1>5, FoundHere
  <2>4. o = Len(objects) + 1
    BY <1>2
  <2> QED BY ONLY PoolsAssumption, <2>1, <2>2, <2>3, <2>4, <1>1, <1>4, <1>6, ObjectMade
<1>8. PICK x : x \in Members(pool) /\ x.key = o /\ x.index = NoIndex
  BY <1>7
<1>9. PICK i, index, after : i = PlaceOf(pool, hash, o) /\ index = IndexOf(x, constants)
                             /\ after = With(x, constants, StringValue[o])
  OBVIOUS
<1>10. PICK q : q = WithIndex(pool, i, index)
  OBVIOUS
<1>11. index = Len(constants) /\ after = Append(constants, <<"string", o>>)
  BY <1>7, <1>8, <1>9, ValuesAre DEF IndexOf, With
<1>12. strings' = q /\ constants' = after /\ answer' = <<StringOf(bytes), Indexed(index)>>
  BY <1>5, <1>9, <1>10, <1>11 DEF WithIndex
<1>13. /\ PoolsInv(numbers, q, more, after)
       /\ Given(constants, after, index, StringValue[o]) /\ index \in Nat
  <2>1. PoolsInv(numbers, pool, more, constants)
    BY <1>7
  <2>2. x \in Members(pool)
    BY <1>8
  <2>3. o = x.key
    BY <1>8
  <2>4. hash = HashesOf(more)[o]
    BY <1>7
  <2>5. hash \in Nat
    BY <1>7
  <2>6. o \in Nat
    BY <1>7
  <2>7. i = PlaceOf(pool, hash, o)
    BY <1>9
  <2>8. index = IndexOf(x, constants)
    BY <1>9
  <2>9. after = With(x, constants, StringValue[o])
    BY <1>9
  <2> QED BY ONLY <2>1, <2>2, <2>3, <2>4, <2>5, <2>6, <2>7, <2>8, <2>9, <1>10, StringMade
<1>14. Grows(objects, more) /\ o \in 1 .. Len(more) /\ more[o].content = bytes
  <2>1. PICK s : s = [content |-> bytes, hash |-> hash]
    OBVIOUS
  <2>2. s \in String /\ s.content = bytes
    BY <2>1, <1>1, <1>7 DEF String
  <2>3. objects \in Seq(String) /\ Len(objects) \in Nat
    BY LenProperties DEF PoolsAgree, PoolsInv, Interned
  <2>4. more = Append(objects, s)
    BY <2>1, <1>4 DEF WithString
  <2>5. Len(more) = o /\ more[o] = s
    BY <2>2, <2>3, <2>4, <1>2, AppendProperties
  <2> QED BY <2>2, <2>3, <2>4, <2>5, <1>2 DEF Grows
<1> QED BY <1>5, <1>12, <1>13, <1>14 DEF PoolsAgree, Made

LEMMA ConnectKeeps ==
  ASSUME PoolsAssumption, PoolsAgree, NEW a \in DOMAIN objects, NEW b \in DOMAIN objects, Connect(a, b)
  PROVE  PoolsAgree' /\ Grows(objects, objects') /\ UNCHANGED <<constants, answer>>
<1>1. objects \in Seq(String) /\ Len(objects) \in Nat /\ DOMAIN objects = 1 .. Len(objects)
  BY LenProperties DEF PoolsAgree, PoolsInv, Interned
<1>2. PICK first, second : first = objects[a].content /\ second = objects[b].content
  OBVIOUS
<1>3. first \in Seq(Nat) /\ second \in Seq(Nat)
  <2>1. objects[a] \in String /\ objects[b] \in String
    BY <1>1
  <2> QED BY <2>1, <1>2 DEF String
<1>4. PICK bytes, hash, o : bytes = first \o second /\ hash = StreamHash(first, second)
                            /\ o = Len(objects) + 1
  OBVIOUS
<1>5. bytes \in Seq(Nat) /\ hash = OneShotHash(bytes)
  BY <1>3, <1>4, ConcatProperties, StreamHashIs
<1>6. PICK more, pool : more = WithString(objects, bytes, hash) /\ pool = WithObject(hash)
  OBVIOUS
<1>7. Found(bytes, hash) = {} /\ objects' = more /\ strings' = pool
      /\ numbers' = numbers /\ constants' = constants /\ answer' = answer
  BY <1>2, <1>4, <1>6 DEF Connect, NewObject, WithString
<1>8. /\ PoolsInv(numbers, pool, more, constants)
      /\ o \in Nat /\ hash \in Nat /\ HashesOf(more)[o] = hash
      /\ \E x \in Members(pool) : x.key = o /\ x.index = NoIndex
  <2>1. PoolsInv(numbers, strings, objects, constants)
    BY DEF PoolsAgree
  <2>2. bytes \in Seq(Nat)
    BY <1>5
  <2>3. hash = OneShotHash(bytes)
    BY <1>5
  <2>4. OfContent(objects, bytes) = {}
    BY <1>5, <1>7, FoundHere
  <2>5. more = WithString(objects, bytes, hash)
    BY <1>6
  <2>6. o = Len(objects) + 1
    BY <1>4
  <2>7. pool = FiledAt(strings, objects, hash, o)
    BY <1>4, <1>6 DEF WithObject, FiledAt, HashesOf, HashOfObject
  <2> QED BY ONLY PoolsAssumption, <2>1, <2>2, <2>3, <2>4, <2>5, <2>6, <2>7, ObjectMade
<1>9. Grows(objects, more)
  <2>1. PICK s : s = [content |-> bytes, hash |-> hash]
    OBVIOUS
  <2>2. s \in String /\ more = Append(objects, s)
    BY <2>1, <1>5, <1>6, <1>8 DEF String, WithString
  <2> QED BY <2>2 DEF Grows
<1> QED BY <1>7, <1>8, <1>9 DEF PoolsAgree

LEMMA FunctionKeeps ==
  ASSUME PoolsAgree, FunctionConstant
  PROVE  /\ PoolsAgree' /\ objects' = objects
         /\ constants' = Append(constants, FunctionValue)
         /\ answer' = <<Function, Indexed(Len(constants))>>
<1>1. constants' = Append(constants, FunctionValue) /\ answer' = <<Function, Indexed(Len(constants))>>
      /\ numbers' = numbers /\ strings' = strings /\ objects' = objects
  BY DEF FunctionConstant, FunctionValue, Function
<1>2. PoolsInv(numbers, strings, objects, Append(constants, FunctionValue))
  BY FunctionMade DEF PoolsAgree
<1> QED BY <1>1, <1>2 DEF PoolsAgree

LEMMA PoolsStepKeeps ==
  ASSUME PoolsAssumption, PoolsAgree, [Next]_vars PROVE PoolsAgree'
<1>1. ASSUME NEW n \in Number, NumberConstant(n) PROVE PoolsAgree'
  BY <1>1, NumberKeeps
<1>2. ASSUME NEW bytes \in Literal, NewStringConstant(bytes) PROVE PoolsAgree'
  BY <1>2, NewStringKeeps
<1>3. ASSUME NEW bytes \in Literal, StringConstant(bytes) PROVE PoolsAgree'
  BY <1>3, StringKeeps
<1>4. ASSUME FunctionConstant PROVE PoolsAgree'
  BY <1>4, FunctionKeeps
<1>5. ASSUME NEW a \in DOMAIN objects, NEW b \in DOMAIN objects, Connect(a, b) PROVE PoolsAgree'
  BY <1>5, ConnectKeeps
<1>6. ASSUME UNCHANGED vars PROVE PoolsAgree'
  BY <1>6 DEF vars, PoolsAgree
<1> QED BY <1>1, <1>2, <1>3, <1>4, <1>5, <1>6 DEF Next

(* Every string is in its pool where a search from the hash of its content *)
(* comes to it, and the indices of the pools and vm.constants agree.       *)
THEOREM PoolsInvariant == ASSUME PoolsAssumption PROVE Spec => []PoolsAgree
<1>1. Init => PoolsAgree
  BY PoolsBegin
<1>2. PoolsAgree /\ [Next]_vars => PoolsAgree'
  BY PoolsStepKeeps
<1> QED BY <1>1, <1>2, PTL DEF Spec

(* A string whose content is that of another is the other: the search made *)
(* before a string is (copyString, connectString) finds it.                *)
THEOREM StringsStayInterned == ASSUME PoolsAssumption PROVE Spec => []StringsAreInterned
<1>1. PoolsAgree => StringsAreInterned
  <2> SUFFICES ASSUME PoolsAgree PROVE StringsAreInterned
    OBVIOUS
  <2>1. Interned(objects) /\ DOMAIN objects = 1 .. Len(objects)
    BY LenProperties DEF PoolsAgree, PoolsInv, Interned
  <2> QED BY <2>1 DEF StringsAreInterned, Interned
<1> QED BY <1>1, PoolsInvariant, PTL

-----------------------------------------------------------------------------
(* The table of constants that the compiler relies on.                     *)

Of(v, objs) == IF v[1] = "string" THEN <<"string", objs[v[2]].content>> ELSE v
SharedOf(consts, objs) == [i \in DOMAIN consts |-> Of(consts[i], objs)]

(* Every string that is a constant is on the heap. *)
Sees(v, objs) == \A o \in Nat : v = StringValue[o] => o \in 1 .. Len(objs)
SeesAll(consts, objs) == \A i \in 1 .. Len(consts) : Sees(consts[i], objs)

LEMMA OfIs ==
  ASSUME NEW objs
  PROVE  /\ \A n \in Nat : Of(NumberValue[n], objs) = NumberValue[n]
         /\ \A o \in Nat : Of(StringValue[o], objs) = <<"string", objs[o].content>>
         /\ Of(FunctionValue, objs) = FunctionValue
<1>1. ASSUME NEW n \in Nat PROVE Of(NumberValue[n], objs) = NumberValue[n]
  <2>1. NumberValue[n] = <<"number", <<n>>>>
    BY ValuesAre
  <2> QED BY <2>1 DEF Of
<1>2. ASSUME NEW o \in Nat PROVE Of(StringValue[o], objs) = <<"string", objs[o].content>>
  <2>1. StringValue[o] = <<"string", o>>
    BY ValuesAre
  <2> QED BY <2>1 DEF Of
<1>3. Of(FunctionValue, objs) = FunctionValue
  BY DEF Of, FunctionValue
<1> QED BY <1>1, <1>2, <1>3

Seen(V, objs) == {Of(v, objs) : v \in V}

LEMMA SharedIs ==
  ASSUME NEW V, NEW consts, consts \in Seq(V), NEW objs, NEW sh, sh = SharedOf(consts, objs)
  PROVE  /\ sh \in Seq(Seen(V, objs)) /\ Len(sh) = Len(consts)
         /\ \A i \in 1 .. Len(consts) : sh[i] = Of(consts[i], objs)
<1>1. PICK n \in Nat : n = Len(consts) /\ DOMAIN consts = 1 .. n
  BY LenProperties
<1>2. sh = [i \in 1 .. n |-> Of(consts[i], objs)]
  BY <1>1 DEF SharedOf
<1>0. PICK W : W = Seen(V, objs)
  OBVIOUS
<1>3. \A i \in 1 .. n : Of(consts[i], objs) \in W
  <2>1. \A i \in 1 .. n : consts[i] \in V
    BY <1>1
  <2> QED BY <2>1, <1>0 DEF Seen
<1>4. sh \in [1 .. n -> W]
  BY <1>2, <1>3
<1>5. sh \in Seq(W) /\ Len(sh) = n
  BY <1>1, <1>2, <1>4, SeqDef, LenProperties
<1> QED BY <1>0, <1>1, <1>2, <1>5

LEMMA SharedAppends ==
  ASSUME NEW V, NEW consts, consts \in Seq(V), NEW objs, NEW v, v \in V
  PROVE  SharedOf(Append(consts, v), objs) = Append(SharedOf(consts, objs), Of(v, objs))
<1>1. PICK W : W = Seen(V, objs)
  OBVIOUS
<1>2. PICK n \in Nat : n = Len(consts)
  BY LenProperties
<1>3. PICK sh : sh = SharedOf(consts, objs)
  OBVIOUS
<1>4. sh \in Seq(W) /\ Len(sh) = n /\ \A i \in 1 .. n : sh[i] = Of(consts[i], objs)
  BY <1>1, <1>2, <1>3, SharedIs
<1>5. PICK more : more = Append(consts, v)
  OBVIOUS
<1>6. more \in Seq(V) /\ Len(more) = n + 1 /\ more[n + 1] = v
      /\ \A i \in 1 .. n : more[i] = consts[i]
  BY <1>2, <1>5, AppendProperties
<1>7. PICK longer : longer = SharedOf(more, objs)
  OBVIOUS
<1>8. longer \in Seq(W) /\ Len(longer) = n + 1
      /\ \A i \in 1 .. n + 1 : longer[i] = Of(more[i], objs)
  BY <1>1, <1>6, <1>7, SharedIs
<1>9. PICK w \in W : w = Of(v, objs)
  BY <1>1 DEF Seen
<1>10. PICK last : last = Append(sh, w)
  OBVIOUS
<1>11. last \in Seq(W) /\ Len(last) = n + 1 /\ last[n + 1] = w /\ \A i \in 1 .. n : last[i] = sh[i]
  BY <1>4, <1>10, AppendProperties
<1>12. ASSUME NEW i \in 1 .. n + 1 PROVE longer[i] = last[i]
  <2>1. CASE i = n + 1
    BY <2>1, <1>6, <1>8, <1>9, <1>11
  <2>2. CASE i # n + 1
    <3>1. i \in 1 .. n
      BY <2>2
    <3> QED BY <3>1, <1>4, <1>6, <1>8, <1>11
  <2> QED BY <2>1, <2>2
<1>13. longer = last
  BY <1>8, <1>11, <1>12, SeqEqual
<1> QED BY <1>3, <1>5, <1>7, <1>9, <1>10, <1>13

(* A string that is made changes no constant. *)
LEMMA SharedStays ==
  ASSUME NEW consts, consts \in Seq(Constants), NEW objs, objs \in Seq(String),
         SeesAll(consts, objs), NEW after, Grows(objs, after)
  PROVE  SharedOf(consts, after) = SharedOf(consts, objs)
<1>1. CASE after = objs
  BY <1>1
<1>2. CASE after # objs
  <2>1. PICK s \in String : after = Append(objs, s)
    BY <1>2 DEF Grows
  <2>2. \A o \in 1 .. Len(objs) : after[o] = objs[o]
    BY <2>1, AppendProperties
  <2>3. DOMAIN consts = 1 .. Len(consts)
    BY LenProperties
  <2>4. ASSUME NEW i \in 1 .. Len(consts) PROVE Of(consts[i], after) = Of(consts[i], objs)
    <3>1. PICK v \in Constants : v = consts[i]
      OBVIOUS
    <3>2. CASE v = FunctionValue
      BY <3>1, <3>2, OfIs
    <3>3. CASE \E n \in Nat : v = NumberValue[n]
      BY <3>1, <3>3, OfIs
    <3>4. CASE \E o \in Nat : v = StringValue[o]
      <4>1. PICK o \in Nat : v = StringValue[o]
        BY <3>4
      <4>2. o \in 1 .. Len(objs)
        BY <4>1, <3>1 DEF SeesAll, Sees
      <4>3. Of(v, after) = <<"string", after[o].content>> /\ Of(v, objs) = <<"string", objs[o].content>>
        BY <4>1, OfIs
      <4> QED BY <4>2, <4>3, <2>2, <3>1
    <3> QED BY <3>2, <3>3, <3>4 DEF Constants
  <2> QED BY <2>3, <2>4 DEF SharedOf
<1> QED BY <1>1, <1>2

LEMMA PairsDiffer ==
  /\ \A s, t : <<"string", s>> = <<"string", t>> => s = t
  /\ \A s, t : <<"string", s>> # <<"number", t>> /\ <<"string", s>> # <<"function", t>>
<1>1. ASSUME NEW s, NEW t, <<"string", s>> = <<"string", t>> PROVE s = t
  BY <1>1
<1>2. ASSUME NEW s, NEW t
      PROVE  <<"string", s>> # <<"number", t>> /\ <<"string", s>> # <<"function", t>>
  OBVIOUS
<1> QED BY <1>1, <1>2

(* Constants that differ are different in the table, for no two strings are *)
(* of the same content.                                                     *)
LEMMA OfDiffers ==
  ASSUME NEW objs, Interned(objs), NEW u, u \in Constants, NEW v, v \in Constants,
         Sees(u, objs), Sees(v, objs), Of(u, objs) = Of(v, objs)
  PROVE  u = v
<1>1. CASE \E o \in Nat : u = StringValue[o]
  <2>1. PICK o \in Nat : u = StringValue[o]
    BY <1>1
  <2>2. o \in 1 .. Len(objs) /\ Of(u, objs) = <<"string", objs[o].content>>
    BY <2>1, OfIs DEF Sees
  <2>3. CASE \E p \in Nat : v = StringValue[p]
    <3>1. PICK p \in Nat : v = StringValue[p]
      BY <2>3
    <3>2. p \in 1 .. Len(objs) /\ Of(v, objs) = <<"string", objs[p].content>>
      BY <3>1, OfIs DEF Sees
    <3>3. objs[o].content = objs[p].content
      BY <2>2, <3>2, PairsDiffer, Of(u, objs) = Of(v, objs)
    <3>4. o = p
      BY <2>2, <3>2, <3>3 DEF Interned
    <3> QED BY <2>1, <3>1, <3>4
  <2>4. CASE \E n \in Nat : v = NumberValue[n]
    <3>1. PICK n \in Nat : v = NumberValue[n]
      BY <2>4
    <3>2. Of(v, objs) = <<"number", <<n>>>>
      BY <3>1, OfIs, ValuesAre
    <3> QED BY <2>2, <3>2, PairsDiffer
  <2>5. CASE v = FunctionValue
    <3>1. Of(v, objs) = <<"function", << >>>>
      BY <2>5, OfIs DEF FunctionValue
    <3> QED BY <2>2, <3>1, PairsDiffer
  <2> QED BY <2>3, <2>4, <2>5 DEF Constants
<1>2. CASE \E p \in Nat : v = StringValue[p]
  <2>1. PICK p \in Nat : v = StringValue[p]
    BY <1>2
  <2>2. Of(v, objs) = <<"string", objs[p].content>>
    BY <2>1, OfIs
  <2>3. CASE \E n \in Nat : u = NumberValue[n]
    <3>1. PICK n \in Nat : u = NumberValue[n]
      BY <2>3
    <3>2. Of(u, objs) = <<"number", <<n>>>>
      BY <3>1, OfIs, ValuesAre
    <3> QED BY <2>2, <3>2, PairsDiffer
  <2>4. CASE u = FunctionValue
    <3>1. Of(u, objs) = <<"function", << >>>>
      BY <2>4, OfIs DEF FunctionValue
    <3> QED BY <2>2, <3>1, PairsDiffer
  <2> QED BY <1>1, <2>3, <2>4 DEF Constants
<1>3. CASE (~ \E o \in Nat : u = StringValue[o]) /\ ~ \E p \in Nat : v = StringValue[p]
  <2>1. Of(u, objs) = u /\ Of(v, objs) = v
    BY <1>3, OfIs DEF Constants
  <2> QED BY <2>1
<1> QED BY <1>1, <1>2, <1>3

LEMMA GivenInTable ==
  ASSUME NEW consts, consts \in Seq(Constants), NEW objs, Interned(objs), SeesAll(consts, objs),
         NEW v, v \in Constants, Sees(v, objs), NEW after, NEW index, Given(consts, after, index, v)
  PROVE  Given(SharedOf(consts, objs), SharedOf(after, objs), index, Of(v, objs))
<1>1. PICK sh, w : sh = SharedOf(consts, objs) /\ w = Of(v, objs)
  OBVIOUS
<1>2. Len(sh) = Len(consts) /\ \A i \in 1 .. Len(consts) : sh[i] = Of(consts[i], objs)
  <2>2. /\ sh \in Seq(Seen(Constants, objs)) /\ Len(sh) = Len(consts)
        /\ \A i \in 1 .. Len(consts) : sh[i] = Of(consts[i], objs)
    BY <1>1, SharedIs
  <2> QED BY <2>2
<1>3. \A i \in 1 .. Len(consts) : consts[i] \in Constants /\ Sees(consts[i], objs)
  BY DEF SeesAll
<1>4. CASE /\ \A i \in 1 .. Len(consts) : consts[i] # v
           /\ after = Append(consts, v) /\ index = Len(consts)
  <2>1. ASSUME NEW i \in 1 .. Len(sh) PROVE sh[i] # w
    <3>1. i \in 1 .. Len(consts) /\ sh[i] = Of(consts[i], objs)
      BY <1>2
    <3>2. Of(consts[i], objs) = Of(v, objs) => consts[i] = v
      <4>1. PICK u : u = consts[i]
        OBVIOUS
      <4>2. u \in Constants /\ Sees(u, objs)
        BY <4>1, <3>1, <1>3
      <4> QED BY <4>1, <4>2, OfDiffers
    <3> QED BY <3>1, <3>2, <1>1, <1>4
  <2>2. SharedOf(after, objs) = Append(sh, w)
    BY <1>1, <1>4, SharedAppends
  <2>3. index = Len(sh)
    BY <1>2, <1>4
  <2> QED BY <2>1, <2>2, <2>3, <1>1 DEF Given
<1>5. CASE \E i \in 1 .. Len(consts) : consts[i] = v /\ after = consts /\ index = i - 1
  <2>1. PICK i \in 1 .. Len(consts) : consts[i] = v /\ after = consts /\ index = i - 1
    BY <1>5
  <2>2. sh[i] = w /\ SharedOf(after, objs) = sh /\ i \in 1 .. Len(sh)
    BY <2>1, <1>1, <1>2
  <2>3. \E j \in 1 .. Len(sh) : sh[j] = w /\ SharedOf(after, objs) = sh /\ index = j - 1
    BY <2>1, <2>2
  <2> QED BY <2>3, <1>1 DEF Given
<1> QED BY <1>4, <1>5 DEF Given

LEMMA InvSees ==
  ASSUME NEW nums, NEW strs, NEW objs, NEW consts, PoolsInv(nums, strs, objs, consts)
  PROVE  SeesAll(consts, objs) /\ consts \in Seq(Constants) /\ objs \in Seq(String) /\ Interned(objs)
<1>1. objs \in Seq(String) /\ DOMAIN objs = 1 .. Len(objs) /\ Interned(objs)
  BY LenProperties DEF PoolsInv, Interned
<1>2. PICK hashOf : hashOf = HashesOf(objs)
  OBVIOUS
<1>3. SoundPool(strs, hashOf) /\ DOMAIN hashOf = 1 .. Len(objs)
  BY <1>1, <1>2 DEF PoolsInv, Filed, HashesOf
<1>4. ASSUME NEW i \in 1 .. Len(consts), NEW o \in Nat, consts[i] = StringValue[o]
      PROVE  o \in 1 .. Len(objs)
  <2>1. o \in DOMAIN StringValue
    BY ValuesAre
  <2>2. PICK x \in Members(strs) : x.key = o
    BY <2>1, <1>4 DEF PoolsInv, Tied
  <2> QED BY <2>2, <1>3, MembersAre
<1> QED BY <1>1, <1>4 DEF SeesAll, Sees, PoolsInv

LEMMA SharedNow ==
  /\ Shared = SharedOf(constants, objects)
  /\ Shared' = SharedOf(constants', objects')
  BY DEF Shared, SharedOf, Of, StringOf

LEMMA TableIndexes == ASSUME NEW index PROVE T!Indexed(index) = Indexed(index)
  BY DEF T!Indexed, Indexed

(* A constant is made: that is what the table promises. *)
LEMMA TableMakes ==
  ASSUME NEW w, NEW index, index \in Nat, NEW A, A = Shared, Given(A, Shared', index, w),
         NEW V, A \in Seq(V), answer' = <<w, Indexed(index)>>
  PROVE  T!MakeConstant(w)
<1>1. DOMAIN A = 1 .. Len(A) /\ Len(A) \in Nat
  BY LenProperties
<1>2. answer' = <<w, T!Indexed(index)>>
  BY TableIndexes
<1>3. CASE \A i \in 1 .. Len(A) : A[i] # w
  <2>1. Shared' = Append(A, w) /\ index = Len(A)
    BY <1>3 DEF Given
  <2>2. T!Added(w)
    BY <2>1, <1>2 DEF T!Added
  <2>3. ~ \E i \in DOMAIN Shared : Shared[i] = w
    BY <1>1, <1>3
  <2> QED BY <2>2, <2>3 DEF T!MakeConstant
<1>4. CASE \E i \in 1 .. Len(A) : A[i] = w
  <2>1. PICK i \in 1 .. Len(A) : A[i] = w /\ Shared' = A /\ index = i - 1
    BY <1>4 DEF Given
  <2>2. T!Known(w)
    <3>1. i \in DOMAIN Shared /\ Shared[i] = w /\ answer' = <<w, T!Indexed(i - 1)>> /\ Shared' = Shared
      BY <2>1, <1>1, <1>2
    <3> QED BY <3>1 DEF T!Known
  <2>3. \E j \in DOMAIN Shared : Shared[j] = w
    BY <1>1, <2>1
  <2> QED BY <2>2, <2>3 DEF T!MakeConstant
<1> QED BY <1>3, <1>4

LEMMA StepMakes ==
  ASSUME PoolsAgree, PoolsAgree', Grows(objects, objects'), NEW v, v \in Constants, Sees(v, objects'),
         Made(constants, constants', answer', Of(v, objects'), v)
  PROVE  T!MakeConstant(Of(v, objects'))
<1>1. PICK consts, objs, after, more :
        consts = constants /\ objs = objects /\ after = constants' /\ more = objects'
  OBVIOUS
<1>2. PICK index \in Nat : Given(consts, after, index, v) /\ answer' = <<Of(v, more), Indexed(index)>>
  BY <1>1 DEF Made
<1>3. SeesAll(consts, objs) /\ consts \in Seq(Constants) /\ objs \in Seq(String)
  BY <1>1, InvSees DEF PoolsAgree
<1>4. Interned(more)
  BY <1>1 DEF PoolsAgree, PoolsInv
<1>5. SharedOf(consts, more) = SharedOf(consts, objs)
  BY <1>1, <1>3, SharedStays
<1>6. SeesAll(consts, more)
  <2>1. Len(objs) \in Nat /\ Len(more) \in Nat /\ Len(objs) <= Len(more)
    <3>1. CASE more = objs
      BY <3>1, <1>3, LenProperties
    <3>2. CASE more # objs
      <4>1. PICK s \in String : more = Append(objs, s)
        BY <3>2, <1>1 DEF Grows
      <4> QED BY <4>1, <1>3, AppendProperties, LenProperties
    <3> QED BY <3>1, <3>2
  <2> QED BY <2>1, <1>3 DEF SeesAll, Sees
<1>7. Given(SharedOf(consts, more), SharedOf(after, more), index, Of(v, more))
  <2>1. Sees(v, more)
    BY <1>1
  <2> QED BY <2>1, <1>2, <1>3, <1>4, <1>6, GivenInTable
<1>8. PICK A : A = SharedOf(consts, objs)
  OBVIOUS
<1>9. A = Shared
  BY <1>1, <1>8, SharedNow
<1>10. Shared' = SharedOf(after, more)
  BY <1>1, SharedNow
<1>11. A \in Seq(Seen(Constants, objs))
  BY <1>3, <1>8, SharedIs
<1>12. PICK w : w = Of(v, more)
  OBVIOUS
<1>13. Given(A, Shared', index, w)
  BY <1>5, <1>7, <1>8, <1>10, <1>12
<1>14. T!MakeConstant(w)
  BY <1>2, <1>9, <1>11, <1>12, <1>13, TableMakes
<1> QED BY <1>1, <1>12, <1>14

LEMMA TableInit == Init => T!Init
<1> SUFFICES ASSUME Init PROVE T!Init
  OBVIOUS
<1>1. constants = << >> /\ answer = <<Function, NoIndex>>
  BY DEF Init
<1>2. constants \in Seq(Constants) /\ Len(constants) = 0
  BY <1>1, EmptySeq
<1>3. PICK sh : sh = SharedOf(constants, objects)
  OBVIOUS
<1>4. sh \in Seq(Seen(Constants, objects)) /\ Len(sh) = 0
  BY <1>2, <1>3, SharedIs
<1>5. sh = << >>
  BY <1>4, EmptySeq
<1> QED BY <1>1, <1>3, <1>5, SharedNow DEF T!Init

LEMMA TableStep ==
  ASSUME PoolsAssumption, PoolsAgree, PoolsAgree', [Next]_vars PROVE [T!Next]_(T!vars)
<1>1. ASSUME NEW n \in Number, NumberConstant(n) PROVE T!Next
  <2>1. objects' = objects /\ Made(constants, constants', answer', NumberOf(n), NumberValue[n])
    BY <1>1, NumberKeeps
  <2>2. PICK v : v = NumberValue[n]
    OBVIOUS
  <2>3. n \in Nat
    BY HashesAre
  <2>4. v \in Constants /\ v = NumberOf(n) /\ Of(v, objects') = v
    BY <2>2, <2>3, ValuesAre, OfIs DEF NumberOf
  <2>5. Sees(v, objects')
    BY <2>2, <2>3, ConstantsDiffer, ValuesAre DEF Sees
  <2>6. Grows(objects, objects')
    BY <2>1 DEF Grows
  <2>7. T!MakeConstant(v)
    BY <2>1, <2>2, <2>4, <2>5, <2>6, StepMakes
  <2> QED BY <2>4, <2>7 DEF T!Next
<1>2. ASSUME NEW bytes \in Literal, Grows(objects, objects'), NEW o \in 1 .. Len(objects'),
             objects'[o].content = bytes,
             Made(constants, constants', answer', StringOf(bytes), StringValue[o])
      PROVE  T!Next
  <2>1. PICK v : v = StringValue[o]
    OBVIOUS
  <2>2. o \in Nat
    OBVIOUS
  <2>3. v \in Constants /\ v = <<"string", o>> /\ Of(v, objects') = StringOf(bytes)
    BY <2>1, <2>2, <1>2, ValuesAre, OfIs DEF StringOf
  <2>4. Sees(v, objects')
    BY <2>1, <2>2, ConstantsDiffer, ValuesAre DEF Sees, ValuesDiffer
  <2>5. T!MakeConstant(Of(v, objects'))
    BY <2>1, <2>3, <2>4, <1>2, StepMakes
  <2>6. T!MakeConstant(StringOf(bytes))
    BY <2>3, <2>5
  <2> QED BY <2>6 DEF T!Next
<1>3. ASSUME NEW bytes \in Literal, NewStringConstant(bytes) PROVE T!Next
  BY <1>2, <1>3, NewStringKeeps
<1>4. ASSUME NEW bytes \in Literal, StringConstant(bytes) PROVE T!Next
  <2>1. PICK o \in 1 .. Len(objects) :
          /\ objects[o].content = bytes
          /\ Made(constants, constants', answer', StringOf(bytes), StringValue[o])
    BY <1>4, StringKeeps
  <2>2. objects' = objects /\ Grows(objects, objects')
    BY <1>4, StringKeeps DEF Grows
  <2> QED BY <2>1, <2>2, <1>2
<1>5. ASSUME FunctionConstant PROVE T!Next
  <2>1. constants' = Append(constants, FunctionValue) /\ objects' = objects
        /\ answer' = <<Function, Indexed(Len(constants))>>
    BY <1>5, FunctionKeeps
  <2>2. constants \in Seq(Constants)
    BY DEF PoolsAgree, PoolsInv
  <2>3. Shared = SharedOf(constants, objects) /\ Shared' = SharedOf(constants', objects)
    BY <2>1, SharedNow
  <2>4. Shared' = Append(Shared, FunctionValue)
    <3>1. FunctionValue \in Constants /\ Of(FunctionValue, objects) = FunctionValue
      BY ValuesAre, OfIs
    <3> QED BY <3>1, <2>1, <2>2, <2>3, SharedAppends
  <2>5. Len(Shared) = Len(constants)
    BY <2>2, <2>3, SharedIs
  <2>6. T!Added(Function)
    BY <2>1, <2>4, <2>5, TableIndexes DEF T!Added, FunctionValue, Function
  <2> QED BY <2>6 DEF T!Next
<1>6. ASSUME NEW a \in DOMAIN objects, NEW b \in DOMAIN objects, Connect(a, b)
      PROVE  UNCHANGED T!vars
  <2>1. Grows(objects, objects') /\ constants' = constants /\ answer' = answer
    BY <1>6, ConnectKeeps
  <2>2. SeesAll(constants, objects) /\ constants \in Seq(Constants) /\ objects \in Seq(String)
    BY InvSees DEF PoolsAgree
  <2>3. SharedOf(constants, objects') = SharedOf(constants, objects)
    BY <2>1, <2>2, SharedStays
  <2>4. Shared' = Shared
    BY <2>1, <2>3, SharedNow
  <2> QED BY <2>1, <2>4 DEF T!vars
<1>7. ASSUME UNCHANGED vars PROVE UNCHANGED T!vars
  <2>1. Shared' = Shared /\ answer' = answer
    BY <1>7, SharedNow DEF vars
  <2> QED BY <2>1 DEF T!vars
<1> QED BY <1>1, <1>3, <1>4, <1>5, <1>6, <1>7 DEF Next

(* makeConstant returns the constant it was asked for: the index that an   *)
(* entry caches is where the value is in vm.constants.                     *)
THEOREM TableImplemented == ASSUME PoolsAssumption PROVE Spec => ImplementsConstantTable
<1>1. Init => T!Init
  BY TableInit
<1>2. PoolsAgree /\ PoolsAgree' /\ [Next]_vars => [T!Next]_(T!vars)
  BY TableStep
<1>3. Spec => []PoolsAgree
  BY PoolsInvariant
<1> QED BY <1>1, <1>2, <1>3, PTL DEF Spec, ImplementsConstantTable, T!Spec

(* The pools of the composition run as those of the module do. *)
LEMMA PoolsRun == PartSpec => Spec
<1>1. PartInit => Init
  BY DEF PartInit
<1>2. [PartNext]_<<part, fields, variables, vars, slab, bump, lines>> => [Next]_vars
  BY DEF PartNext
<1> QED BY <1>1, <1>2, PTL DEF PartSpec, Spec

(* Equal strings are one object in the composition.                        *)
THEOREM StringsAreOne == PartSpec => []StringsAreInterned
<1>1. PoolsAssumption
  BY InstancesAssumption
<1>2. Spec => []StringsAreInterned
  BY <1>1, StringsStayInterned
<1> QED BY <1>2, PoolsRun, PTL

(* In the composition too, the compiler is given the index of the constant *)
(* it asked for.                                                           *)
THEOREM PoolsAreATable == PartSpec => ImplementsConstantTable
<1>1. PoolsAssumption
  BY InstancesAssumption
<1>2. Spec => ImplementsConstantTable
  BY <1>1, TableImplemented
<1> QED BY <1>2, PoolsRun, PTL

-----------------------------------------------------------------------------
(* The line table.                                                         *)
(*                                                                         *)
(* The binary search may end at any range that reaches the byte and whose  *)
(* predecessor does not, and at any range that ends at the byte: these are *)
(* the ranges that Answers.  The invariant says whose line they have.      *)
(* What makes it inductive is Waiting: a range that ends at the byte that  *)
(* is written next has the line of a byte that was taken back, and will    *)
(* answer for the new one.                                                 *)

Ranges == [line : Nat, offset : Nat]

LineTypes ==
  /\ ranges \in Seq(Ranges) /\ source \in Seq(Nat) /\ line \in Nat
  /\ removed \in Seq(SUBSET Nat) /\ Len(source) <= Len(removed)

Sorted(array) ==
  \A i, j \in 1 .. Len(array) : i <= j => array[i].offset <= array[j].offset

(* The last range ends at the last byte or at the one that comes next. *)
Ends ==
  IF ranges = <<>> THEN L!Count = 0
  ELSE ranges[Len(ranges)].offset \in {L!Count - 1, L!Count}

(* A search for byte b may end at range k. *)
Answers(array, k, b) ==
  /\ b <= array[k].offset
  /\ array[k].offset = b \/ k = 1 \/ array[k - 1].offset < b

(* The lines byte b may have. *)
Lines(b) == {source[b + 1]} \cup removed[b + 1]

Attributed ==
  \A k \in 1 .. Len(ranges), b \in 0 .. L!Count - 1 :
    Answers(ranges, k, b) => ranges[k].line \in Lines(b)

Waiting ==
  \A k \in 1 .. Len(ranges) :
    ranges[k].offset = L!Count =>
      L!Count < Len(removed) /\ ranges[k].line \in removed[L!Count + 1]

LineInv == LineTypes /\ Sorted(ranges) /\ Ends /\ Attributed /\ Waiting

-----------------------------------------------------------------------------
(* The binary search.                                                      *)

(* One turn of the loop, when f is what the search yields for less. *)
Turn(array, offset, f, bounds) ==
  LET low == bounds[1]
      high == bounds[2]
      mid == low + (high - low) \div 2
  IN IF low >= high THEN array[low].line
     ELSE IF offset > array[mid].offset THEN f[<<mid + 1, high>>]
     ELSE IF offset < array[mid].offset THEN f[<<low, mid>>]
     ELSE array[mid].line

Turns(array, offset, f) ==
  [bounds \in (1 .. Len(array)) \X (1 .. Len(array)) |->
     Turn(array, offset, f, bounds)]

(* The turn looks at f in the middle, where less is left to search. *)
LEMMA Middle ==
  ASSUME NEW low \in Nat, NEW high \in Nat, low < high
  PROVE  LET mid == low + (high - low) \div 2
         IN mid \in Nat /\ low <= mid /\ mid < high
  OBVIOUS

(* Two results of the search that agree where less is left. *)
Agree(f, g, r, low, high) ==
  \A l, h \in 1 .. r : h - l < high - low => f[<<l, h>>] = g[<<l, h>>]

(* What f is where less than n is left determines the turn at n. *)
LEMMA TurnUsesLess ==
  ASSUME NEW array, NEW offset, NEW f, NEW g, NEW r, r \in Nat, Len(array) = r,
         NEW low, low \in 1 .. r, NEW high, high \in 1 .. r,
         Agree(f, g, r, low, high)
  PROVE  Turn(array, offset, f, <<low, high>>) = Turn(array, offset, g, <<low, high>>)
<1>1. CASE low >= high
  BY <1>1 DEF Turn
<1>2. CASE low < high
  <2> DEFINE mid == low + (high - low) \div 2
  <2>1. mid \in Nat /\ low <= mid /\ mid < high
    BY <1>2, Middle
  <2>2. mid \in 1 .. r /\ mid + 1 \in 1 .. r
        /\ high - (mid + 1) < high - low /\ mid - low < high - low
    BY <2>1
  <2>3. f[<<mid + 1, high>>] = g[<<mid + 1, high>>] /\ f[<<low, mid>>] = g[<<low, mid>>]
    BY <2>2 DEF Agree
  <2> QED BY <2>3 DEF Turn
<1> QED BY <1>1, <1>2

(* The search is defined: there is an f that is its own turns. *)
LEMMA SearchExists ==
  ASSUME NEW array, NEW offset, NEW r, r \in Nat, Len(array) = r
  PROVE  \E f : f = Turns(array, offset, f)
<1> DEFINE Right(f, n) ==
      \A l, h \in 1 .. r : h - l < n => f[<<l, h>>] = Turn(array, offset, f, <<l, h>>)
<1>1. \A n \in Nat : (\E f : Right(f, n)) => \E f : Right(f, n + 1)
  <2> SUFFICES ASSUME NEW n \in Nat, NEW f, Right(f, n)
               PROVE  \E g : Right(g, n + 1)
    <3> HIDE DEF Right
    <3> QED OBVIOUS
  <2> DEFINE g == Turns(array, offset, f)
  <2>1. \A l, h \in 1 .. r : g[<<l, h>>] = Turn(array, offset, f, <<l, h>>)
    BY DEF Turns
  <2> HIDE DEF g
  <2>2. \A l, h \in 1 .. r : h - l < n => g[<<l, h>>] = f[<<l, h>>]
    BY <2>1
  <2>3. ASSUME NEW l \in 1 .. r, NEW h \in 1 .. r, h - l < n + 1
        PROVE  Turn(array, offset, f, <<l, h>>) = Turn(array, offset, g, <<l, h>>)
    <3>1. \A i, j \in 1 .. r : j - i < h - l => f[<<i, j>>] = g[<<i, j>>]
      <4> SUFFICES ASSUME NEW i \in 1 .. r, NEW j \in 1 .. r, j - i < h - l
                   PROVE  f[<<i, j>>] = g[<<i, j>>]
        OBVIOUS
      <4>1. j - i < n
        BY <2>3
      <4> QED BY <4>1, <2>2
    <3>2. Agree(f, g, r, l, h)
      BY <3>1 DEF Agree
    <3> HIDE DEF Right
    <3> QED BY <3>2, TurnUsesLess
  <2>4. Right(g, n + 1)
    BY <2>1, <2>3
  <2> HIDE DEF Right
  <2> QED BY <2>4
<1> DEFINE Wrong == {n \in Nat : ~ \E f : Right(f, n)}
<1>3. \E f : Right(f, 0)
  <2> DEFINE g == Turns(array, offset, <<>>)
  <2>1. \A l, h \in 1 .. r : g[<<l, h>>] = Turn(array, offset, <<>>, <<l, h>>)
    BY DEF Turns
  <2> HIDE DEF g
  <2>2. ASSUME NEW l \in 1 .. r, NEW h \in 1 .. r, h - l < 0
        PROVE  g[<<l, h>>] = Turn(array, offset, g, <<l, h>>)
    <3>1. l >= h
      BY <2>2
    <3> QED BY <3>1, <2>1 DEF Turn
  <2>3. Right(g, 0)
    BY <2>2
  <2> QED BY <2>3
<1>4. Wrong = {}
  <2> HIDE DEF Right
  <2> SUFFICES ASSUME Wrong # {} PROVE FALSE
    OBVIOUS
  <2>1. PICK m \in Wrong : \A n \in Wrong : m <= n
    <3>1. Wrong \subseteq Nat
      OBVIOUS
    <3> HIDE DEF Wrong
    <3> QED BY <3>1, LeastMember
  <2>2. m \in Nat /\ m # 0
    BY <1>3
  <2>3. m - 1 \in Nat /\ m - 1 \notin Wrong
    BY <2>1, <2>2
  <2>4. \E f : Right(f, m - 1)
    BY <2>3
  <2>5. \E f : Right(f, (m - 1) + 1)
    BY <2>3, <2>4, <1>1
  <2>6. (m - 1) + 1 = m
    BY <2>2
  <2> QED BY <2>1, <2>5, <2>6
<1>5. PICK f : Right(f, r)
  <2> HIDE DEF Right
  <2> QED BY <1>4
<1>6. \A l, h \in 1 .. r : f[<<l, h>>] = Turn(array, offset, f, <<l, h>>)
  <2> SUFFICES ASSUME NEW l \in 1 .. r, NEW h \in 1 .. r
               PROVE  f[<<l, h>>] = Turn(array, offset, f, <<l, h>>)
    OBVIOUS
  <2>1. h - l < r
    OBVIOUS
  <2> QED BY <1>5, <2>1
<1> HIDE DEF Right
<1> DEFINE g == Turns(array, offset, f)
<1>7. \A l, h \in 1 .. r : g[<<l, h>>] = f[<<l, h>>]
  BY <1>6 DEF Turns
<1>8. \A l, h \in 1 .. r :
        Turn(array, offset, f, <<l, h>>) = Turn(array, offset, g, <<l, h>>)
  <2> HIDE DEF g
  <2> SUFFICES ASSUME NEW l \in 1 .. r, NEW h \in 1 .. r
               PROVE  Turn(array, offset, f, <<l, h>>) = Turn(array, offset, g, <<l, h>>)
    OBVIOUS
  <2>1. Agree(f, g, r, l, h)
    BY <1>7 DEF Agree
  <2>2. l \in 1 .. r /\ h \in 1 .. r
    OBVIOUS
  <2> QED BY ONLY r \in Nat, Len(array) = r, <2>1, <2>2, TurnUsesLess
<1>9. g = Turns(array, offset, g)
  BY <1>8, SMTT(30) DEF Turns
<1> QED BY <1>9

(* So the code's search is one. *)
LEMMA GetLineSearches ==
  ASSUME NEW array, NEW offset, NEW r, r \in Nat, Len(array) = r
  PROVE  \E f : f = Turns(array, offset, f) /\ L!GetLine(array, offset) = f[<<1, r>>]
<1> DEFINE f == CHOOSE f : f = Turns(array, offset, f)
<1>1. L!GetLine(array, offset) = f[<<1, r>>]
  BY DEF L!GetLine, Turns, Turn
<1>2. f = Turns(array, offset, f)
  BY SearchExists
<1> QED BY <1>1, <1>2


(* What the loop keeps: the byte is after the range before low and not     *)
(* after the one at high.                                                  *)
Bounded(array, offset, l, h) ==
  /\ l <= h
  /\ l = 1 \/ array[l - 1].offset < offset
  /\ offset <= array[h].offset

(* The search between these bounds ends at a range that answers. *)
Finds(array, offset, f, r, l, h) ==
  \E k \in 1 .. r : Answers(array, k, offset) /\ f[<<l, h>>] = array[k].line

LEMMA SearchAnswers ==
  ASSUME NEW array, array \in Seq(Ranges), NEW offset, offset \in Nat, NEW f,
         f = Turns(array, offset, f), NEW r, r \in Nat, Len(array) = r
  PROVE  \A low, high \in 1 .. r :
           Bounded(array, offset, low, high) => Finds(array, offset, f, r, low, high)
<1> DEFINE Good(l, h) == Finds(array, offset, f, r, l, h)
<1> DEFINE Ready(l, h) == Bounded(array, offset, l, h)
<1> DEFINE Wrong == {n \in Nat : \E l, h \in 1 .. r : Ready(l, h) /\ ~ Good(l, h) /\ n = h - l}
<1>1. \A k \in 1 .. r : array[k].offset \in Nat
  <2> TAKE k \in 1 .. r
  <2>1. array[k] \in Ranges
    BY ElementOfSeq
  <2> QED BY <2>1 DEF Ranges
<1>2. \A l, h \in 1 .. r : f[<<l, h>>] = Turn(array, offset, f, <<l, h>>)
  <2> TAKE l, h \in 1 .. r
  <2>1. <<l, h>> \in (1 .. Len(array)) \X (1 .. Len(array))
    OBVIOUS
  <2>2. Turns(array, offset, f)[<<l, h>>] = Turn(array, offset, f, <<l, h>>)
    BY <2>1 DEF Turns
  <2> QED BY <2>2
<1>3. ASSUME NEW l \in 1 .. r, NEW h \in 1 .. r, Ready(l, h),
             \A i, j \in 1 .. r : j - i < h - l /\ Ready(i, j) => Good(i, j)
      PROVE  Good(l, h)
  <2>1. CASE l >= h
    <3>0. l = h
      BY <2>1, <1>3 DEF Bounded
    <3>1. f[<<l, h>>] = array[l].line
      BY <2>1, <1>2 DEF Turn
    <3>2. Answers(array, l, offset)
      BY <3>0, <1>3 DEF Answers, Bounded
    <3> QED BY <3>1, <3>2 DEF Finds
  <2>2. CASE l < h
    <3> DEFINE mid == l + (h - l) \div 2
    <3>1. mid \in Nat /\ l <= mid /\ mid < h
      BY <2>2, Middle
    <3>2. mid \in 1 .. r /\ mid + 1 \in 1 .. r /\ mid + 1 <= h
          /\ h - (mid + 1) < h - l /\ mid - l < h - l /\ (mid + 1) - 1 = mid
      BY <3>1
    <3>3. array[mid].offset \in Nat
      BY <3>2, <1>1
    <3>4. f[<<l, h>>] = IF offset > array[mid].offset THEN f[<<mid + 1, h>>]
                        ELSE IF offset < array[mid].offset THEN f[<<l, mid>>]
                        ELSE array[mid].line
      BY <2>2, <1>2 DEF Turn
    <3> HIDE DEF mid
    <3>5. CASE offset > array[mid].offset
      <4>1. Ready(mid + 1, h)
        BY <3>2, <3>3, <3>5, <1>3 DEF Bounded
      <4>2. Good(mid + 1, h)
        <5> HIDE DEF Ready, Good
        <5> QED BY <4>1, <3>2, <1>3
      <4>3. f[<<l, h>>] = f[<<mid + 1, h>>]
        BY <3>4, <3>5
      <4> QED BY <4>2, <4>3 DEF Finds
    <3>6. CASE offset < array[mid].offset
      <4>1. Ready(l, mid)
        BY <3>1, <3>2, <3>3, <3>6, <1>3 DEF Bounded
      <4>2. Good(l, mid)
        <5> HIDE DEF Ready, Good
        <5> QED BY <4>1, <3>2, <1>3
      <4>3. f[<<l, h>>] = f[<<l, mid>>]
        BY <3>3, <3>4, <3>6
      <4> QED BY <4>2, <4>3 DEF Finds
    <3>7. CASE offset = array[mid].offset
      <4>1. Answers(array, mid, offset)
        BY <3>7, <3>3 DEF Answers
      <4>2. f[<<l, h>>] = array[mid].line
        BY <3>3, <3>4, <3>7
      <4> QED BY <4>1, <4>2, <3>2 DEF Finds
    <3>8. \/ offset > array[mid].offset \/ offset < array[mid].offset
          \/ offset = array[mid].offset
      BY <3>3
    <3> HIDE DEF Good
    <3> QED BY <3>5, <3>6, <3>7, <3>8
  <2> QED BY <2>1, <2>2
<1>4. Wrong = {}
  <2> HIDE DEF Ready, Good
  <2> SUFFICES ASSUME Wrong # {} PROVE FALSE
    OBVIOUS
  <2>1. PICK m \in Wrong : \A n \in Wrong : m <= n
    <3>1. Wrong \subseteq Nat
      OBVIOUS
    <3> HIDE DEF Wrong
    <3> QED BY <3>1, LeastMember
  <2>2. PICK l \in 1 .. r, h \in 1 .. r : Ready(l, h) /\ ~ Good(l, h) /\ m = h - l
    BY <2>1
  <2>3. ASSUME NEW i \in 1 .. r, NEW j \in 1 .. r, j - i < h - l, Ready(i, j)
        PROVE  Good(i, j)
    <3>1. j - i \in Nat
      BY <2>3 DEF Ready, Bounded
    <3>2. ~ (m <= j - i)
      BY <2>2, <2>3
    <3>3. j - i \notin Wrong
      <4> HIDE DEF Wrong
      <4> QED BY <2>1, <3>2
    <3> QED BY <3>1, <3>3, <2>3
  <2> QED BY <2>2, <2>3, <1>3
<1>5. ASSUME NEW low \in 1 .. r, NEW high \in 1 .. r, Ready(low, high) PROVE Good(low, high)
  <2>1. high - low \in Nat
    BY <1>5 DEF Bounded
  <2> HIDE DEF Ready, Good
  <2> QED BY <1>4, <1>5, <2>1
<1> QED BY <1>5

(* getLine yields the line of a range that answers. *)
LEMMA GetLineAnswers ==
  ASSUME NEW array, array \in Seq(Ranges), array # <<>>, NEW offset, offset \in Nat,
         offset <= array[Len(array)].offset
  PROVE  \E k \in 1 .. Len(array) :
           Answers(array, k, offset) /\ L!GetLine(array, offset) = array[k].line
<1> DEFINE r == Len(array)
<1>0. r \in Nat /\ r # 0
  BY EmptySeq
<1>1. r \in Nat /\ 1 \in 1 .. r /\ r \in 1 .. r
  <2> HIDE DEF r
  <2> QED BY <1>0
<1>2. PICK f : f = Turns(array, offset, f) /\ L!GetLine(array, offset) = f[<<1, r>>]
  BY <1>1, GetLineSearches
<1>3. \E k \in 1 .. r : Answers(array, k, offset) /\ f[<<1, r>>] = array[k].line
  <2>1. Bounded(array, offset, 1, r) /\ Len(array) = r
    BY <1>1 DEF Bounded
  <2>2. Finds(array, offset, f, r, 1, r)
    <3> HIDE DEF r
    <3> QED BY <1>1, <1>2, <2>1, SearchAnswers
  <2> QED BY <2>2 DEF Finds
<1> QED BY <1>2, <1>3


-----------------------------------------------------------------------------
(* The invariant. *)

LEMMA RangesAreTyped ==
  ASSUME NEW array, array \in Seq(Ranges)
  PROVE  /\ Len(array) \in Nat /\ (array # <<>> => Len(array) \in 1 .. Len(array))
         /\ L!Last(array) = array[Len(array)]
         /\ \A k \in 1 .. Len(array) :
              array[k] \in Ranges /\ array[k].offset \in Nat /\ array[k].line \in Nat
<1>1. Len(array) \in Nat /\ (array # <<>> => Len(array) \in 1 .. Len(array))
  BY EmptySeq
<1>2. \A k \in 1 .. Len(array) : array[k] \in Ranges
  BY ElementOfSeq
<1>3. \A k \in 1 .. Len(array) : array[k].offset \in Nat /\ array[k].line \in Nat
  BY <1>2 DEF Ranges
<1> QED BY <1>1, <1>2, <1>3 DEF L!Last

LEMMA InitIsRight == ASSUME L!LineAssumption, L!Init PROVE LineInv
<1>1. Len(ranges) = 0 /\ Len(source) = 0 /\ Len(removed) = 0 /\ 1 .. 0 = {}
  BY EmptySeq DEF L!Init
<1>2. LineTypes
  BY <1>1, EmptySeq DEF L!Init, LineTypes
<1>3. Sorted(ranges) /\ Attributed /\ Waiting
  BY <1>1 DEF Sorted, Attributed, Waiting
<1>4. Ends
  BY <1>1 DEF L!Init, Ends, L!Count
<1> QED BY <1>2, <1>3, <1>4 DEF LineInv

(* What a write does to the ranges: the last one is made longer, or there  *)
(* is one more.                                                            *)
Extended(array, new, l, c) ==
  LET n == Len(new)
  IN /\ new \in Seq(Ranges) /\ n \in Nat \ {0}
     /\ new[n] = [line |-> l, offset |-> c]
     /\ n = Len(array) \/ n = Len(array) + 1
     /\ \A k \in 1 .. n : k # n => k \in 1 .. Len(array) /\ new[k] = array[k]
     /\ n = Len(array) => array[n].line = l

LEMMA WriteIs ==
  ASSUME NEW array, array \in Seq(Ranges), NEW l, l \in Nat, NEW c, c \in Nat
  PROVE  Extended(array, L!LineArrayWrite(array, l, c), l, c)
<1> DEFINE r == Len(array)
<1> DEFINE new == L!LineArrayWrite(array, l, c)
<1>1. r \in Nat /\ (array # <<>> => r \in 1 .. r) /\ L!Last(array) = array[r]
      /\ \A k \in 1 .. r : array[k] \in Ranges
  BY RangesAreTyped
<1>2. CASE array # <<>> /\ L!Last(array).line = l
  <2>1. new = [array EXCEPT ![r].offset = c]
    BY <1>2 DEF L!LineArrayWrite
  <2>2. PICK x : x = array[r]
    OBVIOUS
  <2>3. x \in Ranges /\ x.line = l
    BY <1>1, <1>2, <2>2
  <2>4. new = [array EXCEPT ![r] = [line |-> l, offset |-> c]]
    <3>1. [x EXCEPT !.offset = c] = [line |-> l, offset |-> c]
      BY <2>3 DEF Ranges
    <3> HIDE DEF r
    <3> QED BY <2>1, <2>2, <3>1
  <2>5. [line |-> l, offset |-> c] \in Ranges
    BY DEF Ranges
  <2>6. /\ new \in Seq(Ranges) /\ Len(new) = r
        /\ \A k \in 1 .. r : new[k] = IF k = r THEN [line |-> l, offset |-> c] ELSE array[k]
    <3> HIDE DEF new
    <3> QED BY <1>1, <1>2, <2>4, <2>5, ExceptSeq
  <2> HIDE DEF new
  <2>7. array[r].line = l /\ r \in 1 .. r /\ r \in Nat \ {0}
    BY <1>1, <1>2
  <2> QED BY <2>6, <2>7 DEF new, Extended
<1>3. CASE ~ (array # <<>> /\ L!Last(array).line = l)
  <2>1. new = Append(array, [line |-> l, offset |-> c])
    BY <1>3 DEF L!LineArrayWrite
  <2>2. [line |-> l, offset |-> c] \in Ranges
    BY DEF Ranges
  <2>3. /\ new \in Seq(Ranges) /\ Len(new) = r + 1
        /\ \A k \in 1 .. r : new[k] = array[k]
        /\ new[r + 1] = [line |-> l, offset |-> c]
    BY <2>1, <2>2, AppendProperties
  <2> HIDE DEF new
  <2>4. \A k \in 1 .. r + 1 : k # r + 1 => k \in 1 .. r
    BY <1>1
  <2> QED BY <1>1, <2>3, <2>4 DEF new, Extended
<1> QED BY <1>2, <1>3

(* The invariant, of rigid values: what the two steps are proved about. *)
HasTypes(a, s, m) ==
  a \in Seq(Ranges) /\ s \in Seq(Nat) /\ m \in Seq(SUBSET Nat) /\ Len(s) <= Len(m)
EndsAt(a, c) ==
  IF a = <<>> THEN c = 0 ELSE a[Len(a)].offset \in {c - 1, c}
HasLines(a, s, m) ==
  \A k \in 1 .. Len(a), b \in 0 .. Len(s) - 1 :
    Answers(a, k, b) => a[k].line \in {s[b + 1]} \cup m[b + 1]
Waits(a, c, m) ==
  \A k \in 1 .. Len(a) :
    a[k].offset = c => c < Len(m) /\ a[k].line \in m[c + 1]

LinesInv(a, s, m) ==
  /\ HasTypes(a, s, m) /\ Sorted(a) /\ EndsAt(a, Len(s))
  /\ HasLines(a, s, m) /\ Waits(a, Len(s), m)

(* A byte is written. *)
LEMMA WriteKeeps ==
  ASSUME NEW a, NEW s, NEW m, LinesInv(a, s, m), NEW l, l \in Nat,
         NEW new, new = L!LineArrayWrite(a, l, Len(s)),
         NEW t, t = Append(s, l),
         NEW z, z = IF Len(s) < Len(m) THEN m ELSE Append(m, {})
  PROVE  LinesInv(new, t, z)
<1> USE DEF LinesInv
<1>0. PICK c \in Nat : c = Len(s)
  BY LenProperties DEF HasTypes
<1>1. PICK r \in Nat : r = Len(a)
  BY LenProperties DEF HasTypes
<1>2. PICK n \in Nat \ {0} : n = Len(new)
  BY WriteIs, <1>0 DEF HasTypes, Extended
<1>3. /\ new \in Seq(Ranges) /\ new[n].line = l /\ new[n].offset = c
      /\ n = r \/ n = r + 1
      /\ \A k \in 1 .. n : k # n => k \in 1 .. r /\ new[k] = a[k]
      /\ n = r => a[n].line = l
  <2>1. /\ new \in Seq(Ranges) /\ new[n] = [line |-> l, offset |-> c]
        /\ n = Len(a) \/ n = Len(a) + 1
        /\ \A k \in 1 .. n : k # n => k \in 1 .. Len(a) /\ new[k] = a[k]
        /\ n = Len(a) => a[n].line = l
    <3>1. new = L!LineArrayWrite(a, l, c) /\ a \in Seq(Ranges)
      BY <1>0 DEF HasTypes
    <3>2. Extended(a, new, l, c)
      BY <3>1, <1>0, WriteIs
    <3> QED BY <3>2, <1>2 DEF Extended
  <2>2. new[n].line = l /\ new[n].offset = c
    BY <2>1
  <2> QED BY <2>1, <2>2, <1>1
<1>4. \A k \in 1 .. r : a[k].offset \in Nat
  BY RangesAreTyped, <1>1 DEF HasTypes
<1>5. t \in Seq(Nat) /\ Len(t) = c + 1 /\ t[c + 1] = l
      /\ \A i \in 1 .. c : t[i] = s[i]
  BY AppendProperties, <1>0 DEF HasTypes
<1>6. /\ z \in Seq(SUBSET Nat) /\ Len(z) \in Nat /\ c + 1 <= Len(z)
      /\ \A i \in 1 .. c : z[i] = m[i]
      /\ c < Len(m) => z = m
  <2>1. Len(m) \in Nat /\ c <= Len(m) /\ m \in Seq(SUBSET Nat)
    BY LenProperties, <1>0 DEF HasTypes
  <2>2. CASE c < Len(m)
    BY <1>0, <2>1, <2>2
  <2>3. CASE ~ (c < Len(m))
    <3>1. {} \in SUBSET Nat /\ z = Append(m, {}) /\ Len(m) = c
      BY <1>0, <2>1, <2>3
    <3> QED BY <2>1, <2>3, <3>1, AppendProperties
  <2> QED BY <2>2, <2>3
(* No range ended after the byte that is written. *)
<1>7. \A k \in 1 .. r : a[k].offset <= c
  <2> SUFFICES ASSUME NEW k \in 1 .. r PROVE a[k].offset <= c
    OBVIOUS
  <2>1. a # <<>> /\ r \in 1 .. r /\ k <= r
    BY <1>1, EmptySeq
  <2>2. a[k].offset <= a[r].offset
    BY <2>1, <1>1 DEF Sorted
  <2>3. a[r].offset \in {c - 1, c}
    BY <2>1, <1>0, <1>1 DEF EndsAt
  <2> QED BY <2>1, <2>2, <2>3, <1>4
<1>8. HasTypes(new, t, z)
  BY <1>3, <1>5, <1>6 DEF HasTypes
<1>9. Sorted(new)
  <2> SUFFICES ASSUME NEW i \in 1 .. n, NEW j \in 1 .. n, i <= j
               PROVE  new[i].offset <= new[j].offset
    BY <1>2 DEF Sorted
  <2>1. CASE j = n
    BY <2>1, <1>3, <1>7
  <2>2. CASE j # n
    <3>1. i # n
      BY <2>2
    <3>2. i \in 1 .. r /\ j \in 1 .. r /\ new[i] = a[i] /\ new[j] = a[j]
      BY <2>2, <3>1, <1>3
    <3> QED BY <3>2, <1>1, SMTT(30) DEF Sorted
  <2> QED BY <2>1, <2>2
<1>10. EndsAt(new, Len(t))
  <2>1. new # <<>>
    BY <1>2, EmptySeq
  <2> QED BY <2>1, <1>2, <1>3, <1>5 DEF EndsAt
<1>11. HasLines(new, t, z)
  <2> SUFFICES ASSUME NEW k \in 1 .. n, NEW b \in 0 .. c, Answers(new, k, b)
               PROVE  new[k].line \in {t[b + 1]} \cup z[b + 1]
    <3>1. Len(t) - 1 = c /\ Len(new) = n
      BY <1>2, <1>5
    <3> QED BY <3>1 DEF HasLines
  <2>1. CASE b = c
    <3>1. CASE k = n
      BY <2>1, <3>1, <1>3, <1>5
    <3>2. CASE k # n
      <4>1. k \in 1 .. r /\ new[k] = a[k]
        BY <3>2, <1>3
      <4>2. a[k].offset = c
        BY <4>1, <2>1, <1>4, <1>7 DEF Answers
      <4>3. c < Len(m) /\ a[k].line \in m[c + 1]
        BY <4>1, <4>2, <1>0, <1>1 DEF Waits
      <4> QED BY <4>1, <4>3, <2>1, <1>6
    <3> QED BY <3>1, <3>2
  <2>2. CASE b # c
    <3>1. b \in 0 .. c - 1 /\ b + 1 \in 1 .. c /\ b < c
      BY <2>2
    <3>2. t[b + 1] = s[b + 1] /\ z[b + 1] = m[b + 1]
      BY <3>1, <1>5, <1>6
    <3>3. k \in 1 .. r /\ a[k].line = new[k].line /\ Answers(a, k, b)
      <4>1. CASE k # n
        <5>1. k \in 1 .. r /\ new[k] = a[k]
          BY <4>1, <1>3
        <5>2. k # 1 => new[k - 1] = a[k - 1]
          <6> SUFFICES ASSUME k # 1 PROVE new[k - 1] = a[k - 1]
            OBVIOUS
          <6>1. k - 1 \in 1 .. n /\ k - 1 # n
            OBVIOUS
          <6> QED BY <6>1, <1>3
        <5> QED BY <5>1, <5>2 DEF Answers
      <4>2. CASE k = n
        <5>1. new[k].offset = c /\ new[k].line = l
          BY <4>2, <1>3
        <5>2. k = 1 \/ new[k - 1].offset < b
          BY <5>1, <3>1 DEF Answers
        <5>3. ASSUME k # 1
              PROVE  k - 1 \in 1 .. r /\ new[k - 1] = a[k - 1]
          <6>1. k - 1 \in 1 .. n /\ k - 1 # n
            BY <5>3
          <6> QED BY <6>1, <1>3
        <5>4. n = r
          <6> SUFFICES ASSUME n = r + 1 PROVE FALSE
            BY <1>3
          <6>1. CASE k = 1
            <7>1. r = 0 /\ a = <<>>
              BY <6>1, <4>2, <1>1, EmptySeq DEF HasTypes
            <7>2. c = 0
              BY <7>1, <1>0 DEF EndsAt
            <7> QED BY <7>2, <3>1
          <6>2. CASE k # 1
            <7>1. k - 1 = r /\ r \in 1 .. r /\ a[r].offset < b
              BY <6>2, <4>2, <5>2, <5>3
            <7>2. a # <<>>
              BY <7>1, <1>1, EmptySeq
            <7>3. a[r].offset \in {c - 1, c}
              BY <7>2, <1>0, <1>1 DEF EndsAt
            <7> QED BY <7>1, <7>3, <3>1
          <6> QED BY <6>1, <6>2
        <5>5. k \in 1 .. r /\ a[k].line = new[k].line
          BY <5>4, <4>2, <1>3
        <5>6. b <= a[k].offset
          <6>1. a # <<>>
            BY <5>5, <1>1, EmptySeq
          <6>2. a[k].offset \in {c - 1, c}
            BY <6>1, <4>2, <5>4, <1>0, <1>1 DEF EndsAt
          <6> QED BY <6>2, <3>1
        <5>7. k = 1 \/ a[k - 1].offset < b
          BY <5>2, <5>3
        <5> QED BY <5>5, <5>6, <5>7 DEF Answers
      <4> QED BY <4>1, <4>2
    <3>4. a[k].line \in {s[b + 1]} \cup m[b + 1]
      BY <3>1, <3>3, <1>0, <1>1 DEF HasLines
    <3> QED BY <3>2, <3>3, <3>4
  <2> QED BY <2>1, <2>2
<1>12. Waits(new, Len(t), z)
  <2> SUFFICES ASSUME NEW k \in 1 .. n, new[k].offset = c + 1 PROVE FALSE
    BY <1>2, <1>5 DEF Waits
  <2>1. CASE k = n
    BY <2>1, <1>3
  <2>2. CASE k # n
    BY <2>2, <1>3, <1>4, <1>7
  <2> QED BY <2>1, <2>2
<1> QED BY <1>8, <1>9, <1>10, <1>11, <1>12


(* What taking bytes back does to the ranges: those up to the first that   *)
(* ends after the target stay, and this one ends there.                    *)
Shortened(array, new, t) ==
  LET n == Len(new)
  IN /\ new \in Seq(Ranges) /\ n \in 1 .. Len(array)
     /\ \A k \in 1 .. n - 1 : new[k] = array[k] /\ array[k].offset <= t
     /\ new[n] = [line |-> array[n].line, offset |-> t]
     /\ t < array[n].offset

(* The instance of the line table counts as everybody does. *)
LEMMA CountIs == ASSUME NEW Q PROVE L!Cardinality(Q) = Cardinality(Q)
BY Zenon DEF L!Cardinality, Cardinality

LEMMA FallbackIs ==
  ASSUME NEW array, array \in Seq(Ranges), array # <<>>, Sorted(array),
         NEW t, t \in Nat, t < array[Len(array)].offset
  PROVE  Shortened(array, L!LineArrayFallback(array, t), t)
<1>1. PICK r \in Nat \ {0} : r = Len(array)
  BY EmptySeq
<1>2. r \in 1 .. r /\ L!Last(array) = array[r]
      /\ \A k \in 1 .. r : array[k] \in Ranges /\ array[k].offset \in Nat
  BY RangesAreTyped, <1>1
<1> DEFINE After == {k \in 1 .. r : t < array[k].offset}
<1>3. PICK n \in After : \A k \in After : n <= k
  <2>1. After \subseteq Nat /\ r \in After
    BY <1>1, <1>2
  <2> HIDE DEF After
  <2> QED BY <2>1, LeastMember
<1>4. n \in 1 .. r /\ t < array[n].offset /\ n - 1 \in Nat
  BY <1>3
<1>5. \A k \in 1 .. r : k < n => array[k].offset <= t
  <2> SUFFICES ASSUME NEW k \in 1 .. r, k < n PROVE array[k].offset <= t
    OBVIOUS
  <2>1. k \notin After
    BY <1>3
  <2> QED BY <2>1, <1>2
<1>6. \A k \in 1 .. r : n <= k => t < array[k].offset
  BY <1>1, <1>2, <1>4 DEF Sorted
<1>7. {i \in 1 .. r - 1 : array[i].offset <= t} = 1 .. n - 1
  <2>1. ASSUME NEW i \in 1 .. r - 1, array[i].offset <= t PROVE i \in 1 .. n - 1
    <3>1. i \in 1 .. r /\ ~ (t < array[i].offset)
      BY <2>1, <1>2
    <3>2. i < n
      BY <3>1, <1>4, <1>6
    <3> QED BY <3>2, <1>4
  <2>2. ASSUME NEW i \in 1 .. n - 1 PROVE i \in 1 .. r - 1 /\ array[i].offset <= t
    BY <1>4, <1>5
  <2> QED BY <2>1, <2>2
<1>8. Cardinality({i \in 1 .. r - 1 : array[i].offset <= t}) = n - 1
  <2>1. Cardinality(1 .. n - 1) = IF 1 > n - 1 THEN 0 ELSE (n - 1) - 1 + 1
    BY <1>4, FS_Interval
  <2>2. Cardinality(1 .. n - 1) = n - 1
    BY <2>1, <1>4
  <2> QED BY <2>2, <1>7
<1>9. 1 + Cardinality({i \in 1 .. Len(array) - 1 : array[i].offset <= t}) = n
  BY <1>1, <1>4, <1>8
<1> DEFINE kept == SubSeq(array, 1, n)
<1>10. kept \in Seq(Ranges) /\ Len(kept) = n /\ \A k \in 1 .. n : kept[k] = array[k]
  <2>1. \A k \in 1 .. n : array[k] \in Ranges /\ 1 + k - 1 = k
    BY <1>2, <1>4
  <2>2. 1 \in Int /\ n \in Int /\ 1 <= n /\ n - 1 + 1 = n
    BY <1>4
  <2> QED BY <2>1, <2>2, SubSeqProperties
<1>11. L!LineArrayFallback(array, t) = [kept EXCEPT ![n].offset = t]
  BY <1>1, <1>2, <1>9, CountIs DEF L!LineArrayFallback
<1> HIDE DEF kept
<1>12. PICK x : x = kept[n]
  OBVIOUS
<1>13. x = array[n] /\ x \in Ranges
  BY <1>2, <1>4, <1>10, <1>12
<1>14. [x EXCEPT !.offset = t] = [line |-> array[n].line, offset |-> t]
  BY <1>13 DEF Ranges
<1>15. PICK e : e = [line |-> array[n].line, offset |-> t]
  OBVIOUS
<1>16. e \in Ranges
  BY <1>13, <1>15 DEF Ranges
<1>17. L!LineArrayFallback(array, t) = [kept EXCEPT ![n] = e]
  BY <1>11, <1>12, <1>14, <1>15
<1>18. PICK new : new = [kept EXCEPT ![n] = e]
  OBVIOUS
<1>19. new \in Seq(Ranges) /\ Len(new) = n
       /\ \A k \in 1 .. n : new[k] = IF k = n THEN e ELSE kept[k]
  BY <1>4, <1>10, <1>16, <1>18, ExceptSeq
<1>20. \A k \in 1 .. n - 1 : new[k] = array[k] /\ array[k].offset <= t
  <2> SUFFICES ASSUME NEW k \in 1 .. n - 1
               PROVE  new[k] = array[k] /\ array[k].offset <= t
    OBVIOUS
  <2>1. k \in 1 .. n /\ k # n /\ k \in 1 .. r /\ k < n
    BY <1>4
  <2> QED BY <2>1, <1>5, <1>10, <1>19
<1>21. new[n] = e
  BY <1>4, <1>19
<1>22. Shortened(array, new, t)
  BY <1>1, <1>4, <1>15, <1>19, <1>20, <1>21 DEF Shortened
<1> QED BY <1>17, <1>18, <1>22

(* removed, when the bytes from t on are taken back. *)
TakenBack(s, m, t) ==
  Append(SubSeq(m, 1, t),
         (UNION {m[i] : i \in t + 1 .. Len(m)})
           \cup {s[i] : i \in t + 1 .. Len(s)})

(* Bytes from t on are taken back. *)
LEMMA FallbackKeeps ==
  ASSUME NEW a, NEW s, NEW m, LinesInv(a, s, m), NEW t, t \in Nat, t < Len(s),
         NEW new, new = L!LineArrayFallback(a, t),
         NEW w, w = SubSeq(s, 1, t),
         NEW z, z = TakenBack(s, m, t)
  PROVE  LinesInv(new, w, z)
<1> USE DEF LinesInv
<1>0. PICK c \in Nat : c = Len(s)
  BY LenProperties DEF HasTypes
<1>1. PICK d \in Nat : d = Len(m)
  BY LenProperties DEF HasTypes
<1>2. t < c /\ c <= d /\ 0 <= t
  BY <1>0, <1>1 DEF HasTypes
<1>3. PICK r \in Nat \ {0} : r = Len(a)
  <2>1. a # <<>>
    BY <1>0, <1>2 DEF EndsAt
  <2> QED BY <2>1, EmptySeq DEF HasTypes
<1>4. a # <<>> /\ a \in Seq(Ranges) /\ r \in 1 .. r
      /\ \A k \in 1 .. r : a[k].offset \in Nat
  BY <1>3, EmptySeq, RangesAreTyped DEF HasTypes
<1>5. /\ w \in Seq(Nat) /\ Len(w) = t /\ \A i \in 1 .. t : w[i] = s[i]
  <2>1. \A i \in 1 .. t : s[i] \in Nat /\ 1 + i - 1 = i
    BY <1>0, <1>2, ElementOfSeq DEF HasTypes
  <2> QED BY <2>1, <1>2, SubSeqProperties
<1>6. PICK taken : taken = {s[i] : i \in t + 1 .. c}
  OBVIOUS
<1>16. PICK gone : gone = UNION {m[i] : i \in t + 1 .. d}
  OBVIOUS
<1>7. PICK late : late = gone \cup taken
  OBVIOUS
<1>8. late \in SUBSET Nat
  <2>1. \A i \in t + 1 .. d : m[i] \in SUBSET Nat
    <3> SUFFICES ASSUME NEW i \in t + 1 .. d PROVE m[i] \in SUBSET Nat
      OBVIOUS
    <3>1. i \in 1 .. Len(m)
      BY <1>1
    <3> QED BY <3>1, ElementOfSeq DEF HasTypes
  <2>2. \A i \in t + 1 .. c : s[i] \in Nat
    BY <1>0, ElementOfSeq DEF HasTypes
  <2>3. gone \subseteq Nat
    BY <2>1, <1>16
  <2>4. taken \subseteq Nat
    BY <2>2, <1>6
  <2> QED BY <2>3, <2>4, <1>7
<1>15. /\ z \in Seq(SUBSET Nat) /\ Len(z) = t + 1 /\ z[t + 1] = late
       /\ \A i \in 1 .. t : z[i] = m[i]
  <2>1. z = Append(SubSeq(m, 1, t), late)
    BY <1>0, <1>1, <1>6, <1>7, <1>16 DEF TakenBack
  <2>2. \A i \in 1 .. t : m[i] \in SUBSET Nat /\ 1 + i - 1 = i
    BY <1>1, <1>2, ElementOfSeq DEF HasTypes
  <2>3. PICK v : v = SubSeq(m, 1, t)
    OBVIOUS
  <2>4. v \in Seq(SUBSET Nat) /\ Len(v) = t /\ \A i \in 1 .. t : v[i] = m[i]
    BY <2>2, <2>3, SubSeqProperties
  <2>5. z = Append(v, late)
    BY <2>1, <2>3
  <2>6. /\ Append(v, late) \in Seq(SUBSET Nat) /\ Len(Append(v, late)) = Len(v) + 1
        /\ \A i \in 1 .. Len(v) : Append(v, late)[i] = v[i]
        /\ Append(v, late)[Len(v) + 1] = late
    BY ONLY <2>4, <1>8, AppendProperties
  <2> QED BY <2>4, <2>5, <2>6
<1>9. \A i \in t + 1 .. d : m[i] \subseteq late
  BY <1>7, <1>16
<1>10. \A i \in t + 1 .. c : s[i] \in late
  <2> TAKE i \in t + 1 .. c
  <2>1. s[i] \in taken
    BY <1>6
  <2> QED BY <2>1, <1>7
<1>11. a[r].offset \in {c - 1, c}
  BY <1>0, <1>3, <1>4 DEF EndsAt
(* A range that answers for a byte that is taken back has the line of one. *)
<1>12. ASSUME NEW k \in 1 .. r, NEW b \in t .. c - 1, Answers(a, k, b)
       PROVE  a[k].line \in late
  <2>1. b \in 0 .. c - 1 /\ b + 1 \in t + 1 .. c /\ b + 1 \in t + 1 .. d
    BY <1>2
  <2>2. a[k].line \in {s[b + 1]} \cup m[b + 1]
    BY <2>1, <1>0, <1>3, <1>12 DEF HasLines
  <2> QED BY <2>1, <2>2, <1>9, <1>10
<1>13. CASE ~ (t < a[r].offset)
  <2>1. new = a
    BY <1>3, <1>4, <1>13 DEF L!LineArrayFallback, L!Last
  <2>2. a[r].offset = t /\ t = c - 1
    <3>1. PICK o \in Nat : o = a[r].offset
      BY <1>4
    <3>2. ~ (t < o) /\ (o = c - 1 \/ o = c)
      BY <3>1, <1>11, <1>13
    <3>3. o = c - 1 /\ t = c - 1
      <4>1. t \in Nat /\ c \in Nat /\ o \in Nat
        OBVIOUS
      <4> QED BY ONLY <3>2, <1>2, <4>1
    <3> QED BY <3>1, <3>3
  <2>3. HasTypes(new, w, z)
    <3>1. Len(w) <= Len(z)
      BY <1>5, <1>15
    <3> QED BY <3>1, <2>1, <1>4, <1>5, <1>15 DEF HasTypes
  <2>4. EndsAt(new, Len(w))
    BY <2>1, <2>2, <1>3, <1>4, <1>5 DEF EndsAt
  <2>5. HasLines(new, w, z)
    <3> SUFFICES ASSUME NEW k \in 1 .. r, NEW b \in 0 .. t - 1, Answers(a, k, b)
                 PROVE  a[k].line \in {w[b + 1]} \cup z[b + 1]
      BY <2>1, <1>3, <1>5 DEF HasLines
    <3>1. b \in 0 .. c - 1 /\ b + 1 \in 1 .. t
      BY <1>2
    <3>2. a[k].line \in {s[b + 1]} \cup m[b + 1]
      BY <3>1, <1>0, <1>3 DEF HasLines
    <3> QED BY <3>1, <3>2, <1>5, <1>15
  <2>6. Waits(new, Len(w), z)
    <3> SUFFICES ASSUME NEW k \in 1 .. r, a[k].offset = t
                 PROVE  t < Len(z) /\ a[k].line \in z[t + 1]
      BY <2>1, <1>3, <1>5 DEF Waits
    <3>1. t \in t .. c - 1 /\ Answers(a, k, t)
      BY <1>2 DEF Answers
    <3>2. t < Len(z)
      BY <1>15
    <3> QED BY <3>1, <3>2, <1>15, <1>12
  <2> QED BY <2>1, <2>3, <2>4, <2>5, <2>6
<1>14. CASE t < a[r].offset
  <2>1. Shortened(a, new, t)
    BY <1>3, <1>4, <1>14, FallbackIs
  <2>2. PICK q \in 1 .. r : q = Len(new)
    BY <2>1, <1>3 DEF Shortened
  <2>3. /\ new \in Seq(Ranges)
        /\ \A k \in 1 .. q - 1 : new[k] = a[k] /\ a[k].offset <= t
        /\ new[q].line = a[q].line /\ new[q].offset = t /\ t < a[q].offset
    BY <2>1, <2>2 DEF Shortened
  <2>4. HasTypes(new, w, z)
    <3>1. Len(w) <= Len(z)
      BY <1>5, <1>15
    <3> QED BY <3>1, <2>3, <1>5, <1>15 DEF HasTypes
  <2>5. Sorted(new)
    <3> SUFFICES ASSUME NEW i \in 1 .. q, NEW j \in 1 .. q, i <= j
                 PROVE  new[i].offset <= new[j].offset
      BY <2>2 DEF Sorted
    <3>1. CASE i = q
      <4>1. j = q
        BY <3>1
      <4> QED BY <4>1, <3>1, <2>3
    <3>2. CASE i # q /\ j = q
      <4>1. i \in 1 .. q - 1
        BY <3>2
      <4> QED BY <4>1, <3>2, <2>3
    <3>3. CASE i # q /\ j # q
      <4>1. i \in 1 .. q - 1 /\ j \in 1 .. q - 1 /\ i \in 1 .. r /\ j \in 1 .. r
        BY <3>3
      <4> QED BY <4>1, <2>3, <1>3 DEF Sorted
    <3> QED BY <3>1, <3>2, <3>3
  <2>6. EndsAt(new, Len(w))
    <3>1. new # <<>>
      BY <2>2, EmptySeq
    <3> QED BY <3>1, <2>2, <2>3, <1>5 DEF EndsAt
  <2>7. HasLines(new, w, z)
    <3> SUFFICES ASSUME NEW k \in 1 .. q, NEW b \in 0 .. t - 1, Answers(new, k, b)
                 PROVE  new[k].line \in {w[b + 1]} \cup z[b + 1]
      <4>1. Len(w) - 1 = t - 1 /\ Len(new) = q
        BY <2>2, <1>5
      <4> QED BY <4>1 DEF HasLines
    <3>1. b \in 0 .. c - 1 /\ b + 1 \in 1 .. t /\ b < t /\ k \in 1 .. r
      BY <1>2
    <3>2. k # 1 => new[k - 1] = a[k - 1]
      <4> SUFFICES ASSUME k # 1 PROVE new[k - 1] = a[k - 1]
        OBVIOUS
      <4>1. k - 1 \in 1 .. q - 1
        OBVIOUS
      <4> QED BY <4>1, <2>3
    <3>3. Answers(a, k, b) /\ new[k].line = a[k].line
      <4>1. CASE k = q
        <5>1. b <= a[k].offset
          BY <4>1, <2>3, <3>1, <1>4
        <5>2. k = 1 \/ new[k - 1].offset < b
          BY <4>1, <2>3, <3>1 DEF Answers
        <5> QED BY <4>1, <5>1, <5>2, <3>2, <2>3 DEF Answers
      <4>2. CASE k # q
        <5>1. k \in 1 .. q - 1
          BY <4>2
        <5> QED BY <5>1, <2>3, <3>2 DEF Answers
      <4> QED BY <4>1, <4>2
    <3>4. a[k].line \in {s[b + 1]} \cup m[b + 1]
      BY <3>1, <3>3, <1>0, <1>3 DEF HasLines
    <3> QED BY <3>1, <3>3, <3>4, <1>5, <1>15
  <2>8. Waits(new, Len(w), z)
    <3> SUFFICES ASSUME NEW k \in 1 .. q, new[k].offset = t
                 PROVE  t < Len(z) /\ new[k].line \in z[t + 1]
      BY <2>2, <1>5 DEF Waits
    <3>1. t < Len(z)
      BY <1>15
    <3>2. new[k].line \in late
      <4>1. CASE k # q
        <5>1. k \in 1 .. q - 1 /\ k \in 1 .. r
          BY <4>1
        <5>2. new[k] = a[k]
          BY <5>1, <2>3
        <5>3. t \in t .. c - 1 /\ Answers(a, k, t)
          BY <5>2, <1>2 DEF Answers
        <5> QED BY <5>1, <5>2, <5>3, <1>12
      <4>2. CASE k = q
        <5>1. new[k].line = a[q].line /\ t < a[q].offset /\ a[q].offset \in Nat
          BY <4>2, <2>3, <1>4
        <5>2. a[q].offset <= c
          <6>1. a[q].offset <= a[r].offset
            BY <1>3, <1>4 DEF Sorted
          <6> QED BY <6>1, <5>1, <1>11
        <5>3. CASE a[q].offset = c
          <6>1. c < d /\ a[q].line \in m[c + 1]
            BY <5>3, <1>0, <1>1, <1>3 DEF Waits
          <6>2. c + 1 \in t + 1 .. d
            BY <6>1, <1>2
          <6> QED BY <6>1, <6>2, <5>1, <1>9
        <5>4. CASE a[q].offset # c
          <6>1. a[q].offset \in t .. c - 1
            BY <5>1, <5>2, <5>4
          <6>2. Answers(a, q, a[q].offset)
            BY <5>1 DEF Answers
          <6> QED BY <6>1, <6>2, <5>1, <1>12
        <5> QED BY <5>3, <5>4
      <4> QED BY <4>1, <4>2
    <3> QED BY <3>1, <3>2, <1>15
  <2> QED BY <2>4, <2>5, <2>6, <2>7, <2>8
<1> QED BY <1>13, <1>14

(* The invariant is that of rigid values, of the variables. *)
LEMMA InvariantIs == LineInv <=> LinesInv(ranges, source, removed) /\ line \in Nat
  BY DEF LineInv, LineTypes, Ends, Attributed, Waiting, Lines, L!Count,
         LinesInv, HasTypes, EndsAt, HasLines, Waits

LEMMA StepKeeps == ASSUME L!LineAssumption, LineInv, [L!Next]_L!vars PROVE LineInv'
<1>0. LinesInv(ranges, source, removed) /\ line \in Nat
  BY InvariantIs
<1>1. Len(source) \in Nat /\ Len(removed) \in Nat
  BY <1>0, LenProperties DEF LinesInv, HasTypes
<1>2. SUFFICES LinesInv(ranges', source', removed') /\ line' \in Nat
  BY DEF LineInv, LineTypes, Ends, Attributed, Waiting, Lines, L!Count,
         LinesInv, HasTypes, EndsAt, HasLines, Waits
<1>3. CASE L!ChunkWrite
  <2>1. PICK l \in line .. MaxLine :
          /\ line' = l
          /\ ranges' = L!LineArrayWrite(ranges, l, Len(source))
          /\ source' = Append(source, l)
          /\ removed' = IF Len(source) < Len(removed) THEN removed
                        ELSE Append(removed, {})
    BY <1>3 DEF L!ChunkWrite, L!Count
  <2>2. l \in Nat
    BY <1>0 DEF L!LineAssumption
  <2>3. LinesInv(ranges', source', removed')
    BY <2>1, <2>2, <1>0, WriteKeeps
  <2> QED BY <2>1, <2>2, <2>3
<1>4. CASE L!ChunkFallback
  <2>1. PICK n \in 1 .. MaxFallback :
          /\ Len(source) - n >= 0
          /\ ranges' = L!LineArrayFallback(ranges, Len(source) - n)
          /\ source' = SubSeq(source, 1, Len(source) - n)
          /\ removed' = TakenBack(source, removed, Len(source) - n)
    BY <1>4 DEF L!ChunkFallback, L!Count, TakenBack
  <2>2. n \in Nat \ {0} /\ line' = line
    BY <1>4 DEF L!ChunkFallback, L!LineAssumption
  <2>3. PICK t \in Nat : t = Len(source) - n
    <3>1. Len(source) - n >= 0 /\ n \in Nat
      BY <2>1, <2>2
    <3> QED BY <3>1, <1>1
  <2>4. t < Len(source)
    BY <2>2, <2>3, <1>1
  <2>5. /\ ranges' = L!LineArrayFallback(ranges, t)
        /\ source' = SubSeq(source, 1, t)
        /\ removed' = TakenBack(source, removed, t)
    BY <2>1, <2>3
  <2>6. LinesInv(ranges', source', removed')
    BY <2>4, <2>5, <1>0, FallbackKeeps
  <2> QED BY <2>2, <2>6, <1>0
<1>5. CASE UNCHANGED L!vars
  BY <1>0, <1>5 DEF L!vars
<1> QED BY <1>3, <1>4, <1>5 DEF L!Next

(* Each byte's range is found: getLine yields the line of an answering one. *)
LEMMA InvariantGivesLines == LineInv => L!LinesAreRight
<1> SUFFICES ASSUME LineInv, NEW i \in 1 .. L!Count
             PROVE  L!GetLine(ranges, i - 1) \in {source[i]} \cup removed[i]
  BY DEF L!LinesAreRight
<1>1. L!Count \in Nat /\ ranges \in Seq(Ranges)
  BY LenProperties DEF LineInv, LineTypes, L!Count
<1>2. ranges # <<>> /\ ranges[Len(ranges)].offset \in {L!Count - 1, L!Count}
  BY <1>1 DEF LineInv, Ends
<1>3. PICK b \in 0 .. L!Count - 1 : b = i - 1 /\ b + 1 = i /\ b \in Nat
  BY <1>1
<1>4. b <= ranges[Len(ranges)].offset
  BY <1>1, <1>2, <1>3
<1>5. PICK k \in 1 .. Len(ranges) :
        Answers(ranges, k, b) /\ L!GetLine(ranges, b) = ranges[k].line
  BY <1>1, <1>2, <1>3, <1>4, GetLineAnswers
<1>6. ranges[k].line \in {source[b + 1]} \cup removed[b + 1]
  BY <1>5 DEF LineInv, Attributed, Lines
<1> QED BY <1>3, <1>5, <1>6

(* The ranges stay sorted and their lines those of bytes they end at. *)
THEOREM LineInvariant == ASSUME L!LineAssumption PROVE L!Spec => []LineInv
<1>1. L!Init => LineInv
  BY InitIsRight
<1>2. LineInv /\ [L!Next]_L!vars => LineInv'
  BY StepKeeps
<1> QED BY <1>1, <1>2, PTL DEF L!Spec

(* getLine finds the line that a byte was written for, or that of a byte   *)
(* that was taken back at its place.                                       *)
THEOREM BytesHaveTheirLines == ASSUME L!LineAssumption PROVE L!Spec => []L!LinesAreRight
<1>1. LineInv => L!LinesAreRight
  BY InvariantGivesLines
<1> QED BY <1>1, LineInvariant, PTL

(* The line table of the composition runs as that of the module does. *)
LEMMA LineRun == PartSpec => L!Spec
<1>1. PartInit => L!Init
  BY DEF PartInit
<1>2. [PartNext]_<<part, fields, variables, vars, slab, bump, lines>> => [L!Next]_(L!vars)
  BY DEF PartNext, L!vars, lines
<1> QED BY <1>1, <1>2, PTL DEF PartSpec, L!Spec

(* getLine finds the line a byte was written for, or one that was taken     *)
(* back at its place.                                                       *)
THEOREM LinesAreFound == PartSpec => []LinesAreRight
<1>1. L!LineAssumption
  BY InstancesAssumption
<1>2. L!Spec => []L!LinesAreRight
  BY <1>1, BytesHaveTheirLines
<1>3. L!LinesAreRight => LinesAreRight
  BY DEF LinesAreRight
<1> QED BY <1>2, <1>3, LineRun, PTL

(* The tables of the composition run as those of the module do. *)
LEMMA FieldsRun == PartSpec => F!Spec
<1>1. PartInit => F!Init
  BY DEF PartInit
<1>2. [PartNext]_<<part, fields, variables, vars, slab, bump, lines>> => [F!Next]_(F!vars)
  BY DEF PartNext, F!vars, fields
<1> QED BY <1>1, <1>2, PTL DEF PartSpec, F!Spec

(* A quarter of every array is free, so every search ends, at the one slot  *)
(* that has the key.                                                        *)
THEOREM TablesAreTables == PartSpec => []TablesOK
<1>1. F!FieldsAssumption
  BY InstancesAssumption
<1>2. F!Spec => []F!TablesOK
  BY <1>1, F!TablesStayOK
<1>3. F!TablesOK => TablesOK
  BY DEF TablesOK
<1> QED BY <1>2, <1>3, FieldsRun, PTL

(* A table never uses more slots than there are keys.                       *)
THEOREM TombstonesAreFew == PartSpec => []TombstonesAreReused
<1>1. F!FieldsAssumption
  BY InstancesAssumption
<1>2. F!Spec => []F!TombstonesAreReused
  BY <1>1, F!TombstonesStayFew
<1>3. F!TombstonesAreReused => TombstonesAreReused
  BY DEF TombstonesAreReused
<1> QED BY <1>2, <1>3, FieldsRun, PTL

(* Instances and classes are dictionaries.                                  *)
THEOREM PropertiesAreDictionaries == PartSpec => ImplementsDictionary
<1>1. F!FieldsAssumption
  BY InstancesAssumption
<1>2. F!Spec => F!ImplementsDictionary
  BY <1>1, F!FieldsAreDictionaries
<1> QED BY <1>2, FieldsRun, PTL DEF ImplementsDictionary

(* The globals of the composition run as those of the module do. *)
LEMMA GlobalsRun == PartSpec => G!GlobalsSpec
<1>1. PartInit => G!InitGlobals
  BY DEF PartInit
<1>2. [PartNext]_<<part, fields, variables, vars, slab, bump, lines>>
        => [G!NextGlobal]_(G!globalVars)
  BY DEF PartNext, G!globalVars, variables
<1> QED BY <1>1, <1>2, PTL DEF PartSpec, G!GlobalsSpec

(* The globals are a well formed table, and what a name caches lies in it.  *)
THEOREM GlobalsAreATable == PartSpec => []GlobalsOK
<1>1. G!GlobalsAssumption
  BY InstancesAssumption
<1>2. G!GlobalsSpec => []G!GlobalsOK
  BY <1>1, G!GlobalsStayOK
<1>3. G!GlobalsOK => GlobalsOK
  BY DEF GlobalsOK
<1> QED BY <1>2, <1>3, GlobalsRun, PTL

(* Whatever slot its name caches, an instruction reads or writes the       *)
(* variable it names, and an assignment creates none.                      *)
THEOREM CachesHideNothing == PartSpec => ImplementsVariables
<1>1. G!GlobalsAssumption
  BY InstancesAssumption
<1>2. G!GlobalsSpec => G!ImplementsVariables
  BY <1>1, G!GlobalsAreVariables
<1> QED BY <1>2, GlobalsRun, PTL DEF ImplementsVariables
=============================================================================
