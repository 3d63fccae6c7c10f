---------------------------- MODULE ScopesProofs ----------------------------
(***************************************************************************)
(* Proofs about Scopes, for every family of functions: any statements, any *)
(* nesting, any number of locals and instructions, any way the conditions  *)
(* turn out.                                                               *)
(*                                                                         *)
(* What the compiler knows of the stack is a number of locals and which of *)
(* them are captured, at the end of the code only.  The invariant is that  *)
(* every instruction has such a knowledge: h[i] is the height of the stack *)
(* and o[i] the slots that may be open when instruction i is executed, and *)
(* every instruction that may come after i is known to be higher, lower or *)
(* more open by what i does.  A jump that is not patched yet is known to   *)
(* the statement that will patch it.                                       *)
(***************************************************************************)
EXTENDS Scopes, SequenceTheorems, FiniteSetTheorems, WellFoundedInduction, TLAPS

-----------------------------------------------------------------------------
(* Numbers and sets of numbers.                                            *)

(* A set of numbers has a least member. *)
LEMMA LeastMember ==
  ASSUME NEW S, S \subseteq Nat, S # {}
  PROVE  \E m \in S : \A n \in S : m <= n
<1>1. IsWellFoundedOn(OpToRel(<, Nat), Nat)
  BY NatLessThanWellFounded
<1>2. PICK x \in S : \A y \in S : ~ (<<y, x>> \in OpToRel(<, Nat))
  BY <1>1, WFMin
<1>3. \A y \in S : <<y, x>> \in Nat \X Nat
  OBVIOUS
<1>4. \A y \in S : ~ (y < x)
  BY <1>2, <1>3 DEF OpToRel
<1> QED BY <1>4

(* Induction, for a set of numbers instead of a predicate. *)
LEMMA Induct ==
  ASSUME NEW S, NEW n, n \in Nat, 0 \in S,
         \A i \in Nat : i < n /\ i \in S => i + 1 \in S
  PROVE  \A i \in 0 .. n : i \in S
<1> DEFINE Out == {i \in 0 .. n : i \notin S}
<1>1. SUFFICES ASSUME Out # {} PROVE FALSE
  OBVIOUS
<1>2. PICK m \in Out : \A i \in Out : m <= i
  <2>1. Out \subseteq Nat
    OBVIOUS
  <2> HIDE DEF Out
  <2> QED BY <1>1, <2>1, LeastMember
<1>3. m \in Nat /\ m # 0 /\ m <= n /\ m \notin S
  OBVIOUS
<1>4. m - 1 \in Nat /\ m - 1 < n /\ m - 1 \in 0 .. n /\ ~ (m <= m - 1) /\ (m - 1) + 1 = m
  BY <1>3
<1>5. m - 1 \in S
  BY <1>2, <1>4
<1> QED BY <1>3, <1>4, <1>5

LEMMA MaxIs ==
  ASSUME NEW S, S \subseteq Nat, NEW m \in S, \A n \in S : n <= m
  PROVE  Max(S) = m
<1>1. PICK x : x = Max(S)
  OBVIOUS
<1>2. x \in S /\ \A y \in S : x >= y
  BY <1>1 DEF Max
<1>3. x <= m /\ m <= x /\ x \in Nat /\ m \in Nat
  BY <1>2
<1> QED BY <1>1, <1>3

(* A set of numbers up to n that is not empty has its greatest member. *)
LEMMA MaxMember ==
  ASSUME NEW n, n \in Nat, NEW S, S \subseteq 1 .. n, S # {}
  PROVE  Max(S) \in S /\ \A k \in S : k <= Max(S)
<1> DEFINE T == {n - k : k \in S}
<1>0. \A k \in S : k \in Nat /\ n - k \in Nat
  OBVIOUS
<1>1. T \subseteq Nat /\ T # {}
  BY <1>0
<1>2. PICK m \in T : \A k \in T : m <= k
  <2> HIDE DEF T
  <2> QED BY <1>1, LeastMember
<1>3. PICK s \in S : m = n - s
  OBVIOUS
<1>4. \A k \in S : n - s <= n - k
  BY <1>2, <1>3
<1>5. \A k \in S : k <= s
  BY <1>0, <1>4
<1>6. S \subseteq Nat
  BY <1>0
<1>7. Max(S) = s
  BY <1>5, <1>6, MaxIs
<1> QED BY <1>5, <1>7
-----------------------------------------------------------------------------
(* Folds: a function of the sets of steps that were taken, as the folds of *)
(* the community modules define it, and the proof that there is one.       *)

Follows(f, n, base, step) ==
  \A s \in SUBSET (1 .. n) :
    f[s] = IF s = {} THEN base ELSE step[<<f[s \ {Max(s)}], Max(s)>>]

LEMMA FoldGrows ==
  ASSUME NEW S, NEW n, n \in Nat, NEW step, step \in [S \X (1 .. n) -> S],
         NEW base, base \in S, NEW k, k \in Nat, k < n,
         NEW f, f \in [SUBSET (1 .. k) -> S], Follows(f, k, base, step)
  PROVE  \E g \in [SUBSET (1 .. k + 1) -> S] : Follows(g, k + 1, base, step)
<1>1. PICK m \in 1 .. n : m = k + 1
  OBVIOUS
<1>2. PICK g : g = [s \in SUBSET (1 .. m) |->
                      IF m \in s THEN step[<<f[s \ {m}], m>>] ELSE f[s]]
  OBVIOUS
<1>3. \A s \in SUBSET (1 .. m) : s \ {m} \in SUBSET (1 .. k)
  BY <1>1
<1>4. ASSUME NEW s \in SUBSET (1 .. m), m \in s
      PROVE  /\ g[s] = step[<<f[s \ {m}], m>>] /\ g[s] \in S
             /\ Max(s) = m /\ g[s \ {m}] = f[s \ {m}]
  <2>1. g[s] = step[<<f[s \ {m}], m>>]
    BY <1>2, <1>4
  <2>2. f[s \ {m}] \in S
    BY <1>3
  <2>3. <<f[s \ {m}], m>> \in S \X (1 .. n)
    BY <2>2
  <2>4. step[<<f[s \ {m}], m>>] \in S
    BY <2>3
  <2>5. Max(s) = m
    <3>1. s \subseteq Nat /\ \A x \in s : x <= m
      BY <1>1
    <3> QED BY <3>1, <1>4, MaxIs
  <2>6. g[s \ {m}] = f[s \ {m}]
    BY <1>2
  <2> QED BY <2>1, <2>4, <2>5, <2>6
<1>5. ASSUME NEW s \in SUBSET (1 .. m), m \notin s
      PROVE  s \in SUBSET (1 .. k) /\ g[s] = f[s] /\ g[s] \in S
  <2>1. s \in SUBSET (1 .. k)
    BY <1>3, <1>5
  <2> QED BY <2>1, <1>2, <1>5
<1>6. g \in [SUBSET (1 .. m) -> S]
  <2>1. \A s \in SUBSET (1 .. m) : g[s] \in S
    BY <1>4, <1>5
  <2> QED BY <2>1, <1>2
<1>7. ASSUME NEW s \in SUBSET (1 .. m)
      PROVE  g[s] = IF s = {} THEN base ELSE step[<<g[s \ {Max(s)}], Max(s)>>]
  <2>1. CASE m \in s
    BY <2>1, <1>4
  <2>2. CASE m \notin s
    <3>1. s \in SUBSET (1 .. k) /\ g[s] = f[s]
      BY <2>2, <1>5
    <3>2. f[s] = IF s = {} THEN base ELSE step[<<f[s \ {Max(s)}], Max(s)>>]
      BY <3>1 DEF Follows
    <3>3. PICK r : r = s \ {Max(s)}
      OBVIOUS
    <3>4. r \in SUBSET (1 .. m) /\ m \notin r
      BY <2>2, <3>3
    <3>5. g[r] = f[r]
      BY <3>4, <1>5
    <3> QED BY <3>1, <3>2, <3>3, <3>5
  <2> QED BY <2>1, <2>2
<1>8. Follows(g, m, base, step)
  BY <1>7 DEF Follows
<1> QED BY <1>1, <1>6, <1>8

LEMMA FoldExists ==
  ASSUME NEW S, NEW n, n \in Nat, NEW step, step \in [S \X (1 .. n) -> S],
         NEW base, base \in S
  PROVE  \E f \in [SUBSET (1 .. n) -> S] : Follows(f, n, base, step)
<1> DEFINE Good == {k \in 0 .. n : \E f \in [SUBSET (1 .. k) -> S] : Follows(f, k, base, step)}
<1>1. 0 \in Good
  <2>1. PICK f : f = [s \in SUBSET (1 .. 0) |-> base]
    OBVIOUS
  <2>2. \A s \in SUBSET (1 .. 0) : s = {}
    OBVIOUS
  <2>3. f \in [SUBSET (1 .. 0) -> S] /\ Follows(f, 0, base, step)
    BY <2>1, <2>2 DEF Follows
  <2>4. \E g \in [SUBSET (1 .. 0) -> S] : Follows(g, 0, base, step)
    BY ONLY <2>3
  <2>5. 0 \in 0 .. n
    OBVIOUS
  <2> QED BY <2>4, <2>5
<1>2. ASSUME NEW k, k \in Nat, k < n, k \in Good PROVE k + 1 \in Good
  <2>1. PICK f \in [SUBSET (1 .. k) -> S] : Follows(f, k, base, step)
    BY <1>2
  <2>2. \E g \in [SUBSET (1 .. k + 1) -> S] : Follows(g, k + 1, base, step)
    BY <2>1, <1>2, FoldGrows
  <2>3. k + 1 \in 0 .. n
    BY <1>2
  <2> QED BY <2>2, <2>3
<1>3. n \in 0 .. n
  OBVIOUS
<1>4. n \in Good
  <2> HIDE DEF Good
  <2>1. \A i \in 0 .. n : i \in Good
    BY <1>1, <1>2, Induct
  <2> QED BY <2>1, <1>3
<1> QED BY <1>4
-----------------------------------------------------------------------------
(* What an instruction does to the stack.                                  *)

Ops ==
  {"VALUE", "CLOSURE", "RETURN", "POP_N", "CLOSE_UPVALUE", "EXPRESSION", "JUMP", "LOOP",
   "JUMP_IF_FALSE_POP"}
Instruction == [op : Ops, arg : Int, locals : Int]
JumpOps == {"JUMP", "LOOP", "JUMP_IF_FALSE_POP"}
PlainOps == {"VALUE", "CLOSURE", "POP_N", "CLOSE_UPVALUE", "EXPRESSION", "JUMP_IF_FALSE_POP"}
IsJump(instr) == instr.op \in JumpOps
GoesOn(instr) == instr.op \in PlainOps

HeightAfter(instr, n) ==
  CASE instr.op \in {"VALUE", "CLOSURE"} -> n + 1
    [] instr.op = "POP_N"                -> n - instr.arg
    [] instr.op = "CLOSE_UPVALUE"        -> n - 1
    [] OTHER                             -> n
OpenAfter(instr, n, s) ==
  CASE instr.op = "CLOSURE"       -> s \cup {instr.arg}
    [] instr.op = "CLOSE_UPVALUE" -> {slot \in s : slot < n}
    [] OTHER                      -> s

Leads(instr, h, o, i, j) ==
  /\ h[j] = HeightAfter(instr, h[i])
  /\ OpenAfter(instr, h[i], o[i]) \subseteq o[j]

FlowAt(c, h, o, i) ==
  /\ GoesOn(c[i]) => Leads(c[i], h, o, i, i + 1)
  /\ IsJump(c[i]) /\ c[i].arg # NoInstr =>
       c[i].arg \in 1 .. Len(c) + 1 /\ Leads(c[i], h, o, i, c[i].arg)
  /\ c[i].locals \in {Unknown, h[i]}

(* No jump leaves the code from r[1] on, where the stack holds r[2] slots  *)
(* at least: the body of a loop and the locals before it.                  *)
Stays(c, h, r) ==
  /\ r[1] \in 1 .. Len(c) + 1 /\ r[2] \in Nat
  /\ \A i \in r[1] .. Len(c) + 1 : h[i] >= r[2]
  /\ \A i \in r[1] .. Len(c) : IsJump(c[i]) /\ c[i].arg # NoInstr => c[i].arg >= r[1]

(* Code with jumps that are not patched, and loops that are not complete.  *)
Draft(c, h, o, jumps, loops) ==
  /\ c \in Seq(Instruction)
  /\ h \in [Nat -> Nat] /\ h[1] = 1
  /\ o \in [Nat -> SUBSET Nat]
  /\ \A i \in 1 .. Len(c) + 1 : o[i] \subseteq 1 .. h[i]
  /\ \A i \in 1 .. Len(c) : FlowAt(c, h, o, i)
  /\ \A i \in 1 .. Len(c) : IsJump(c[i]) /\ c[i].arg = NoInstr => i \in jumps
  /\ jumps \subseteq 1 .. Len(c)
  /\ \A i \in jumps : IsJump(c[i])
  /\ \A r \in loops : Stays(c, h, r)

-----------------------------------------------------------------------------
(* What the compiler does to a draft.                                      *)

(* The code of a draft grows: what was known of it stays known.            *)
Grows(c, h, o, c2, h2, o2) ==
  /\ Len(c2) \in Nat /\ Len(c) <= Len(c2)
  /\ \A i \in 1 .. Len(c) + 1 : h2[i] = h[i] /\ o2[i] = o[i]

AtEnd(c, h, o, n, s) == h[Len(c) + 1] = n /\ o[Len(c) + 1] = s

LEMMA GrowsOn ==
  ASSUME NEW c1, Len(c1) \in Nat, NEW h1, NEW o1, NEW c2, NEW h2, NEW o2, NEW c3, NEW h3, NEW o3,
         Grows(c1, h1, o1, c2, h2, o2), Grows(c2, h2, o2, c3, h3, o3)
  PROVE  Grows(c1, h1, o1, c3, h3, o3)
<1>1. \A i \in 1 .. Len(c1) + 1 : i \in 1 .. Len(c2) + 1
  BY DEF Grows
<1> QED BY <1>1 DEF Grows

(* An instruction is emitted; after it the stack holds n slots and those   *)
(* in s may be open.  After a jump that may be anything, since what comes   *)
(* next is reached by other jumps only.                                    *)
LEMMA Emitted ==
  ASSUME NEW c, NEW h, NEW o, NEW jumps, NEW loops, Draft(c, h, o, jumps, loops),
         NEW k, NEW t, AtEnd(c, h, o, k, t),
         NEW instr \in Instruction, NEW n \in Nat, NEW s \in SUBSET (1 .. n),
         instr.locals \in {Unknown, k},
         GoesOn(instr) => n = HeightAfter(instr, k) /\ OpenAfter(instr, k, t) \subseteq s,
         IsJump(instr) /\ instr.arg # NoInstr =>
           /\ instr.arg \in 1 .. Len(c) + 1 /\ h[instr.arg] = k /\ t \subseteq o[instr.arg]
           /\ \A r \in loops : r[1] <= instr.arg,
         \A r \in loops : r[2] <= n,
         NEW jumps2,
         jumps2 = IF IsJump(instr) /\ instr.arg = NoInstr THEN jumps \cup {Len(c) + 1} ELSE jumps
  PROVE  \E h2, o2 : /\ Draft(Append(c, instr), h2, o2, jumps2, loops)
                     /\ Len(Append(c, instr)) = Len(c) + 1
                     /\ Grows(c, h, o, Append(c, instr), h2, o2)
                     /\ AtEnd(Append(c, instr), h2, o2, n, s)
<1>20. PICK m \in Nat : m = Len(c) + 1
  BY DEF Draft
<1>21. PICK h2 : h2 = [h EXCEPT ![m + 1] = n]
  OBVIOUS
<1>22. PICK o2 : o2 = [o EXCEPT ![m + 1] = s]
  OBVIOUS
<1>23. h[m] = k /\ o[m] = t
  BY <1>20 DEF AtEnd
<1>24. /\ instr.locals \in {Unknown, h[m]}
       /\ GoesOn(instr) => n = HeightAfter(instr, h[m]) /\ OpenAfter(instr, h[m], o[m]) \subseteq s
       /\ IsJump(instr) /\ instr.arg # NoInstr =>
            /\ instr.arg \in 1 .. m /\ h[instr.arg] = h[m] /\ o[m] \subseteq o[instr.arg]
            /\ \A r \in loops : r[1] <= instr.arg
       /\ jumps2 = IF IsJump(instr) /\ instr.arg = NoInstr THEN jumps \cup {m} ELSE jumps
  <2>1. instr.locals \in {Unknown, h[m]}
    BY <1>23
  <2>2. GoesOn(instr) => n = HeightAfter(instr, h[m]) /\ OpenAfter(instr, h[m], o[m]) \subseteq s
    BY <1>23
  <2>3. IsJump(instr) /\ instr.arg # NoInstr =>
          /\ instr.arg \in 1 .. m /\ h[instr.arg] = h[m] /\ o[m] \subseteq o[instr.arg]
          /\ \A r \in loops : r[1] <= instr.arg
    BY <1>20, <1>23
  <2>4. jumps2 = IF IsJump(instr) /\ instr.arg = NoInstr THEN jumps \cup {m} ELSE jumps
    BY <1>20
  <2> QED BY <2>1, <2>2, <2>3, <2>4
<1> USE <1>20, <1>21, <1>22, <1>24
<1>1. PICK c2 : c2 = Append(c, instr)
  OBVIOUS
<1>2. c \in Seq(Instruction) /\ h \in [Nat -> Nat] /\ o \in [Nat -> SUBSET Nat] /\ h[1] = 1
  BY DEF Draft
<1>3. c2 \in Seq(Instruction) /\ Len(c2) = m /\ c2[m] = instr
  BY <1>1, <1>2
<1>4. \A i \in 1 .. Len(c) : c2[i] = c[i]
  BY <1>1, <1>2
<1>5. h2 \in [Nat -> Nat] /\ o2 \in [Nat -> SUBSET Nat] /\ h2[m + 1] = n /\ o2[m + 1] = s
  <2>1. m + 1 \in Nat /\ s \in SUBSET Nat
    OBVIOUS
  <2>2. h2 \in [Nat -> Nat] /\ h2[m + 1] = n
    BY <2>1, <1>2
  <2>3. o2 \in [Nat -> SUBSET Nat] /\ o2[m + 1] = s
    BY <2>1, <1>2
  <2> QED BY <2>2, <2>3
<1>6. \A i \in Nat : i # m + 1 => h2[i] = h[i] /\ o2[i] = o[i]
  BY <1>2
<1>7. \A i \in 1 .. m : i \in Nat /\ i # m + 1 /\ h2[i] = h[i] /\ o2[i] = o[i]
  BY <1>6
<1>8. \A i \in 1 .. m + 1 : o2[i] \subseteq 1 .. h2[i]
  <2> SUFFICES ASSUME NEW i \in 1 .. m + 1 PROVE o2[i] \subseteq 1 .. h2[i]
    OBVIOUS
  <2>1. CASE i = m + 1
    BY <2>1, <1>5
  <2>2. CASE i # m + 1
    <3>1. i \in 1 .. m /\ i \in 1 .. Len(c) + 1
      BY <2>2
    <3> QED BY <3>1, <1>7 DEF Draft
  <2> QED BY <2>1, <2>2
<1>9. \A i \in 1 .. m : FlowAt(c2, h2, o2, i)
  <2> SUFFICES ASSUME NEW i \in 1 .. m PROVE FlowAt(c2, h2, o2, i)
    OBVIOUS
  <2>1. CASE i = m
    <3>1. h2[m] = h[m] /\ o2[m] = o[m]
      BY <1>7
    <3>2. GoesOn(instr) => Leads(instr, h2, o2, m, m + 1)
      BY <3>1, <1>5 DEF Leads
    <3>3. ASSUME IsJump(instr), instr.arg # NoInstr
          PROVE  instr.arg \in 1 .. Len(c2) + 1 /\ Leads(instr, h2, o2, m, instr.arg)
      <4>1. HeightAfter(instr, h[m]) = h[m] /\ OpenAfter(instr, h[m], o[m]) = o[m]
        BY <3>3 DEF IsJump, JumpOps, HeightAfter, OpenAfter
      <4>2. h2[instr.arg] = h[instr.arg] /\ o2[instr.arg] = o[instr.arg]
        BY <3>3, <1>7
      <4> QED BY <3>1, <3>3, <4>1, <4>2, <1>3 DEF Leads
    <3> QED BY <2>1, <1>3, <3>1, <3>2, <3>3 DEF FlowAt
  <2>2. CASE i # m
    <3>1. i \in 1 .. Len(c) /\ i + 1 \in 1 .. m
      BY <2>2
    <3>2. FlowAt(c, h, o, i) /\ c2[i] = c[i]
      BY <3>1, <1>4 DEF Draft
    <3>3. h2[i] = h[i] /\ o2[i] = o[i] /\ h2[i + 1] = h[i + 1] /\ o2[i + 1] = o[i + 1]
      BY <3>1, <1>7
    <3>4. ASSUME IsJump(c[i]), c[i].arg # NoInstr
          PROVE  c[i].arg \in 1 .. Len(c2) + 1 /\ Leads(c[i], h2, o2, i, c[i].arg)
      <4>1. c[i].arg \in 1 .. m /\ Leads(c[i], h, o, i, c[i].arg)
        BY <3>4, <3>2 DEF FlowAt
      <4>2. h2[c[i].arg] = h[c[i].arg] /\ o2[c[i].arg] = o[c[i].arg]
        BY <4>1, <1>7
      <4> QED BY <4>1, <4>2, <3>3, <1>3 DEF Leads
    <3> QED BY <3>2, <3>3, <3>4 DEF FlowAt, Leads
  <2> QED BY <2>1, <2>2
<1>10. \A i \in 1 .. m : IsJump(c2[i]) /\ c2[i].arg = NoInstr => i \in jumps2
  <2> SUFFICES ASSUME NEW i \in 1 .. m, IsJump(c2[i]), c2[i].arg = NoInstr PROVE i \in jumps2
    OBVIOUS
  <2>1. CASE i = m
    BY <2>1, <1>3
  <2>2. CASE i # m
    <3>1. i \in 1 .. Len(c)
      BY <2>2
    <3> QED BY <3>1, <1>4 DEF Draft
  <2> QED BY <2>1, <2>2
<1>11. jumps2 \subseteq 1 .. m /\ \A i \in jumps2 : IsJump(c2[i])
  <2>1. \A i \in jumps : i \in 1 .. Len(c) /\ IsJump(c2[i])
    BY <1>4 DEF Draft
  <2> QED BY <2>1, <1>3
<1>12. \A r \in loops : Stays(c2, h2, r)
  <2> SUFFICES ASSUME NEW r \in loops PROVE Stays(c2, h2, r)
    OBVIOUS
  <2>1. Stays(c, h, r)
    BY DEF Draft
  <2>2. r[1] \in 1 .. m /\ r[2] \in Nat
    BY <2>1 DEF Stays
  <2>3. \A i \in r[1] .. m + 1 : h2[i] >= r[2]
    <3> SUFFICES ASSUME NEW i \in r[1] .. m + 1 PROVE h2[i] >= r[2]
      OBVIOUS
    <3>1. CASE i = m + 1
      BY <3>1, <1>5, <2>2
    <3>2. CASE i # m + 1
      <4>1. i \in r[1] .. Len(c) + 1 /\ i \in 1 .. m
        BY <3>2, <2>2
      <4> QED BY <4>1, <1>7, <2>1 DEF Stays
    <3> QED BY <3>1, <3>2
  <2>4. \A i \in r[1] .. m : IsJump(c2[i]) /\ c2[i].arg # NoInstr => c2[i].arg >= r[1]
    <3> SUFFICES ASSUME NEW i \in r[1] .. m, IsJump(c2[i]), c2[i].arg # NoInstr
                 PROVE  c2[i].arg >= r[1]
      OBVIOUS
    <3>1. CASE i = m
      BY <3>1, <1>3, <2>2
    <3>2. CASE i # m
      <4>1. i \in r[1] .. Len(c) /\ i \in 1 .. Len(c)
        BY <3>2, <2>2
      <4> QED BY <4>1, <1>4, <2>1 DEF Stays
    <3> QED BY <3>1, <3>2
  <2> QED BY <2>2, <2>3, <2>4, <1>3 DEF Stays
<1>13. h2[1] = 1
  BY <1>2, <1>7
<1>14. Draft(c2, h2, o2, jumps2, loops)
  BY <1>3, <1>5, <1>8, <1>9, <1>10, <1>11, <1>12, <1>13 DEF Draft
<1>15. Grows(c, h, o, c2, h2, o2)
  BY <1>3, <1>7, <1>20 DEF Grows
<1>16. AtEnd(c2, h2, o2, n, s)
  BY <1>3, <1>5 DEF AtEnd
<1> QED BY <1>1, <1>3, <1>14, <1>15, <1>16, <1>20

(* Jumps are patched to the end of the code. *)
LEMMA PatchKeeps ==
  ASSUME NEW c, NEW h, NEW o, NEW jumps, NEW loops, Draft(c, h, o, jumps, loops),
         NEW m \in Nat, m = Len(c) + 1,
         NEW patched, \A j \in patched : j = NoInstr \/ j \in jumps,
         \A j \in patched : j # NoInstr => h[j] = h[m] /\ o[j] \subseteq o[m],
         NEW jumps2, jumps2 \subseteq jumps, jumps \subseteq jumps2 \cup patched
  PROVE  Draft(Patched(c, patched), h, o, jumps2, loops) /\ Len(Patched(c, patched)) = Len(c)
<1>1. PICK c2 : c2 = Patched(c, patched)
  OBVIOUS
<1>2. c \in Seq(Instruction) /\ Len(c) \in Nat /\ DOMAIN c = 1 .. Len(c)
  BY DEF Draft
<1>3. ASSUME NEW i \in 1 .. Len(c)
      PROVE  c[i] \in Instruction /\ c2[i] = IF i \in patched THEN [c[i] EXCEPT !.arg = m] ELSE c[i]
  BY <1>1, <1>2 DEF Patched, PatchedTo
<1>4. ASSUME NEW i \in 1 .. Len(c), i \in patched
      PROVE  /\ c2[i] \in Instruction /\ c2[i].op = c[i].op /\ c2[i].arg = m
             /\ c2[i].locals = c[i].locals
  <2>1. PICK d \in Instruction : d = c[i]
    BY <1>3
  <2>2. c2[i] = [d EXCEPT !.arg = m]
    BY <2>1, <1>3, <1>4
  <2> QED BY <2>1, <2>2 DEF Instruction
<1>5. c2 \in Seq(Instruction) /\ Len(c2) = Len(c)
  <2>1. c2 = [i \in 1 .. Len(c) |-> c2[i]]
    BY <1>1, <1>2 DEF Patched, PatchedTo
  <2>2. \A i \in 1 .. Len(c) : c2[i] \in Instruction
    BY <1>3, <1>4
  <2>3. c2 \in [1 .. Len(c) -> Instruction]
    BY <2>1, <2>2
  <2> QED BY <2>3, <1>2
<1>6. m # NoInstr
  BY DEF NoInstr
<1>7. \A i \in 1 .. Len(c) : FlowAt(c2, h, o, i)
  <2> SUFFICES ASSUME NEW i \in 1 .. Len(c) PROVE FlowAt(c2, h, o, i)
    OBVIOUS
  <2>1. FlowAt(c, h, o, i)
    BY DEF Draft
  <2>2. CASE i \in patched
    <3>1. i # NoInstr /\ i \in jumps
      BY <2>2 DEF NoInstr
    <3>2. IsJump(c[i]) /\ h[i] = h[m] /\ o[i] \subseteq o[m]
      BY <3>1, <2>2 DEF Draft
    <3>3. c2[i].op = c[i].op /\ c2[i].arg = m /\ c2[i].locals = c[i].locals
      BY <2>2, <1>4
    <3>4. /\ HeightAfter(c2[i], h[i]) = h[i] /\ OpenAfter(c2[i], h[i], o[i]) = o[i]
          /\ HeightAfter(c[i], h[i]) = h[i] /\ OpenAfter(c[i], h[i], o[i]) = o[i]
      BY <3>2, <3>3 DEF IsJump, JumpOps, HeightAfter, OpenAfter
    <3>5. Leads(c2[i], h, o, i, m)
      BY <3>2, <3>4 DEF Leads
    <3>6. GoesOn(c2[i]) => Leads(c2[i], h, o, i, i + 1)
      BY <2>1, <3>3, <3>4 DEF FlowAt, Leads, GoesOn
    <3> QED BY <2>1, <3>3, <3>5, <3>6, <1>5 DEF FlowAt
  <2>3. CASE i \notin patched
    <3>1. c2[i] = c[i]
      BY <2>3, <1>3
    <3> QED BY <3>1, <2>1, <1>5 DEF FlowAt
  <2> QED BY <2>2, <2>3
<1>8. \A i \in 1 .. Len(c) : IsJump(c2[i]) = IsJump(c[i])
  BY <1>3, <1>4 DEF IsJump
<1>9. \A i \in 1 .. Len(c) : IsJump(c2[i]) /\ c2[i].arg = NoInstr => i \in jumps2
  <2> SUFFICES ASSUME NEW i \in 1 .. Len(c), IsJump(c2[i]), c2[i].arg = NoInstr
               PROVE  i \in jumps2
    OBVIOUS
  <2>1. i \notin patched /\ c2[i] = c[i]
    BY <1>3, <1>4, <1>6
  <2>2. i \in jumps
    BY <2>1 DEF Draft
  <2> QED BY <2>1, <2>2
<1>10. jumps2 \subseteq 1 .. Len(c) /\ \A i \in jumps2 : IsJump(c2[i])
  BY <1>8 DEF Draft
<1>11. \A r \in loops : Stays(c2, h, r)
  <2> SUFFICES ASSUME NEW r \in loops PROVE Stays(c2, h, r)
    OBVIOUS
  <2>1. Stays(c, h, r)
    BY DEF Draft
  <2>2. \A i \in r[1] .. Len(c) : IsJump(c2[i]) /\ c2[i].arg # NoInstr => c2[i].arg >= r[1]
    <3> SUFFICES ASSUME NEW i \in r[1] .. Len(c), IsJump(c2[i]), c2[i].arg # NoInstr
                 PROVE  c2[i].arg >= r[1]
      OBVIOUS
    <3>1. i \in 1 .. Len(c) /\ r[1] \in 1 .. m
      BY <2>1 DEF Stays
    <3>2. CASE i \in patched
      BY <3>1, <3>2, <1>4
    <3>3. CASE i \notin patched
      BY <3>1, <3>3, <1>3, <2>1 DEF Stays
    <3> QED BY <3>2, <3>3
  <2> QED BY <2>1, <2>2, <1>5 DEF Stays
<1>12. Draft(c2, h, o, jumps2, loops)
  BY <1>5, <1>7, <1>9, <1>10, <1>11 DEF Draft
<1> QED BY <1>1, <1>5, <1>12

-----------------------------------------------------------------------------
(* endScope and closeLoopLocals.                                           *)

Local == [depth : Int, isCaptured : BOOLEAN]
Captured(locs) == {s \in 1 .. Len(locs) : locs[s].isCaptured}

Acc == [emitted : Seq(Instruction), popCount : Nat]
Nothing == [emitted |-> <<>>, popCount |-> 0]

LEMMA PopNIs ==
  ASSUME NEW n \in Nat
  PROVE  /\ n = 0 => PopN(n) = <<>>
         /\ n # 0 => PopN(n) = <<Instr("POP_N", n, Unknown)>> /\ Instr("POP_N", n, Unknown) \in Instruction
         /\ PopN(n) \in Seq(Instruction) /\ CloseUpvalueInstr \in Instruction
<1>1. Instr("POP_N", n, Unknown) \in Instruction /\ CloseUpvalueInstr \in Instruction
  BY DEF Instr, Instruction, Ops, CloseUpvalueInstr, Unknown
<1>2. CASE n = 0
  BY <1>1, <1>2 DEF PopN
<1>3. CASE n # 0
  BY <1>1, <1>3 DEF PopN
<1> QED BY <1>1, <1>2, <1>3

LEMMA WithLocalIs ==
  ASSUME NEW acc \in Acc, NEW local \in Local
  PROVE  WithLocal(acc, local) \in Acc
<1>1. CASE local.isCaptured
  <2>1. PopN(acc.popCount) \in Seq(Instruction) /\ <<CloseUpvalueInstr>> \in Seq(Instruction)
    BY PopNIs DEF Acc
  <2>2. acc.emitted \in Seq(Instruction)
    BY DEF Acc
  <2>3. acc.emitted \o PopN(acc.popCount) \o <<CloseUpvalueInstr>> \in Seq(Instruction)
    BY <2>1, <2>2
  <2> QED BY <1>1, <2>3 DEF WithLocal, Acc
<1>2. CASE ~ local.isCaptured
  BY <1>2 DEF WithLocal, Acc
<1> QED BY <1>1, <1>2

(* The accumulators of the fold, if n locals are removed. *)
AccsOf(from, n, f) ==
  [s \in SUBSET (1 .. n) |->
     IF s = {} THEN Nothing
     ELSE WithLocal(f[s \ {Max(s)}], from[Len(from) - Max(s) + 1])]

LEMMA RemovalIsAFold ==
  ASSUME NEW from, from \in Seq(Local), NEW target, target \in 0 .. Len(from),
         NEW n, n = Len(from) - target
  PROVE  LET removed == (CHOOSE f : f = AccsOf(from, n, f))[1 .. n]
         IN Removal(from, target) = removed.emitted \o PopN(removed.popCount)
<1>1. PICK seq : seq = Reverse(SubSeq(from, target + 1, Len(from)))
  OBVIOUS
<1>2. n \in Nat /\ Len(from) \in Nat
  OBVIOUS
<1>3. Len(SubSeq(from, target + 1, Len(from))) = n
  OBVIOUS
<1>4. DOMAIN seq = 1 .. n
  BY <1>1, <1>3 DEF Reverse
<1>5. \A i \in 1 .. n : seq[i] = from[Len(from) - i + 1]
  <2> SUFFICES ASSUME NEW i \in 1 .. n PROVE seq[i] = from[Len(from) - i + 1]
    OBVIOUS
  <2>1. seq[i] = SubSeq(from, target + 1, Len(from))[n - i + 1]
    BY <1>1, <1>3 DEF Reverse
  <2>2. n - i + 1 \in 1 .. n /\ target + 1 + (n - i + 1) - 1 = Len(from) - i + 1
    BY <1>2
  <2> QED BY <2>1, <2>2
<1>6. \A s \in SUBSET (1 .. n) : s # {} => Max(s) \in 1 .. n /\ seq[Max(s)] = from[Len(from) - Max(s) + 1]
  <2> SUFFICES ASSUME NEW s \in SUBSET (1 .. n), s # {} PROVE Max(s) \in 1 .. n
    BY <1>5
  <2> QED BY <1>2, MaxMember
<1> DEFINE Old(f) == [s \in SUBSET DOMAIN seq |->
                        IF s = {} THEN Nothing ELSE WithLocal(f[s \ {Max(s)}], seq[Max(s)])]
<1>7. PICK removed : removed = FoldLeft(WithLocal, [emitted |-> <<>>, popCount |-> 0], seq)
  OBVIOUS
<1>8. removed = (CHOOSE f : f = Old(f))[DOMAIN seq]
  BY <1>7 DEF FoldLeft, MapThenFoldSet, Nothing
<1>9. Removal(from, target) = removed.emitted \o PopN(removed.popCount)
  BY <1>1, <1>7 DEF Removal
<1>10. \A f : Old(f) = AccsOf(from, n, f)
  BY <1>4, <1>6 DEF AccsOf
<1> HIDE DEF Old
<1>11. (CHOOSE f : f = Old(f)) = CHOOSE f : f = AccsOf(from, n, f)
  BY <1>10
<1> QED BY <1>4, <1>8, <1>9, <1>11

(* The accumulators between the first and the last. *)
Accs(a, from, n) ==
  /\ a[0] = Nothing
  /\ \A i \in 0 .. n : a[i] \in Acc
  /\ \A i \in 0 .. n - 1 : a[i + 1] = WithLocal(a[i], from[Len(from) - i])

LEMMA RemovalIs ==
  ASSUME NEW from, from \in Seq(Local), NEW target, target \in 0 .. Len(from),
         NEW n, n = Len(from) - target
  PROVE  \E a : Accs(a, from, n) /\ Removal(from, target) = a[n].emitted \o PopN(a[n].popCount)
<1>0. n \in Nat /\ Len(from) \in Nat /\ Nothing \in Acc
  BY DEF Nothing, Acc
<1>1. PICK step : step = [x \in Acc \X (1 .. n) |-> WithLocal(x[1], from[Len(from) - x[2] + 1])]
  OBVIOUS
<1>2. ASSUME NEW acc \in Acc, NEW i \in 1 .. n
      PROVE  step[<<acc, i>>] = WithLocal(acc, from[Len(from) - i + 1]) /\ step[<<acc, i>>] \in Acc
  <2>1. from[Len(from) - i + 1] \in Local
    <3>1. Len(from) - i + 1 \in 1 .. Len(from)
      BY <1>0
    <3> QED BY <3>1
  <2>2. WithLocal(acc, from[Len(from) - i + 1]) \in Acc
    BY <2>1, WithLocalIs
  <2>3. <<acc, i>> \in Acc \X (1 .. n) /\ <<acc, i>>[1] = acc /\ <<acc, i>>[2] = i
    OBVIOUS
  <2>4. step[<<acc, i>>] = WithLocal(acc, from[Len(from) - i + 1])
    BY <2>3, <1>1
  <2> QED BY <2>2, <2>4
<1>3. step \in [Acc \X (1 .. n) -> Acc]
  <2>1. \A x \in Acc \X (1 .. n) : step[x] \in Acc
    <3> SUFFICES ASSUME NEW x \in Acc \X (1 .. n) PROVE step[x] \in Acc
      OBVIOUS
    <3>1. PICK acc \in Acc, i \in 1 .. n : x = <<acc, i>>
      OBVIOUS
    <3> QED BY <3>1, <1>2
  <2>2. step = [x \in Acc \X (1 .. n) |-> step[x]]
    BY <1>1
  <2> QED BY <2>1, <2>2
<1>4. PICK f \in [SUBSET (1 .. n) -> Acc] : Follows(f, n, Nothing, step)
  BY <1>0, <1>3, FoldExists
<1>5. f = AccsOf(from, n, f)
  <2>1. ASSUME NEW s \in SUBSET (1 .. n)
        PROVE  f[s] = IF s = {} THEN Nothing
                      ELSE WithLocal(f[s \ {Max(s)}], from[Len(from) - Max(s) + 1])
    <3>1. CASE s = {}
      BY <3>1, <1>4 DEF Follows
    <3>2. CASE s # {}
      <4>1. PICK i \in 1 .. n : i = Max(s)
        BY <3>2, <1>0, MaxMember
      <4>2. s \ {i} \in SUBSET (1 .. n)
        OBVIOUS
      <4>3. PICK acc \in Acc : acc = f[s \ {i}]
        BY <4>2
      <4>4. f[s] = step[<<acc, i>>]
        BY <3>2, <4>1, <4>3, <1>4 DEF Follows
      <4> QED BY <3>2, <4>1, <4>3, <4>4, <1>2
    <3> QED BY <3>1, <3>2
  <2>2. f = [s \in SUBSET (1 .. n) |-> f[s]]
    OBVIOUS
  <2> QED BY <2>1, <2>2 DEF AccsOf
<1>6. PICK g : g = CHOOSE k : k = AccsOf(from, n, k)
  OBVIOUS
<1>7. g = AccsOf(from, n, g)
  BY <1>5, <1>6
<1>8. Removal(from, target) = g[1 .. n].emitted \o PopN(g[1 .. n].popCount)
  BY <1>6, RemovalIsAFold
<1>9. g[{}] = Nothing
  <2>1. {} \in SUBSET (1 .. n)
    OBVIOUS
  <2>2. AccsOf(from, n, g)[{}] = Nothing
    BY <2>1 DEF AccsOf
  <2> QED BY <2>2, <1>7
<1>10. ASSUME NEW i \in 0 .. n - 1 PROVE g[1 .. i + 1] = WithLocal(g[1 .. i], from[Len(from) - i])
  <2>1. PICK s : s = 1 .. i + 1
    OBVIOUS
  <2>2. PICK j : j = i + 1
    OBVIOUS
  <2>3. s \in SUBSET (1 .. n) /\ s # {} /\ j \in s /\ s \subseteq Nat /\ \A x \in s : x <= j
    <3>1. j \in 1 .. n /\ s = 1 .. j
      BY <2>1, <2>2, <1>0
    <3>2. \A x \in s : x \in Nat /\ x \in 1 .. n /\ x <= j
      BY <3>1
    <3>3. j \in s
      BY <3>1
    <3> QED BY <3>2, <3>3
  <2>4. Max(s) = j
    BY <2>3, MaxIs
  <2>5. s \ {j} = 1 .. i /\ Len(from) - j + 1 = Len(from) - i
    BY <2>1, <2>2, <1>0
  <2>6. AccsOf(from, n, g)[s] = WithLocal(g[s \ {j}], from[Len(from) - j + 1])
    BY <2>3, <2>4 DEF AccsOf
  <2> QED BY <2>1, <2>5, <2>6, <1>7
<1>11. PICK a : a = [i \in 0 .. n |-> g[1 .. i]]
  OBVIOUS
<1>12. a[0] = Nothing /\ a[n] = g[1 .. n]
  <2>1. 1 .. 0 = {} /\ 0 \in 0 .. n /\ n \in 0 .. n
    BY <1>0
  <2> QED BY <2>1, <1>9, <1>11
<1>13. \A i \in 0 .. n - 1 : a[i + 1] = WithLocal(a[i], from[Len(from) - i])
  <2> SUFFICES ASSUME NEW i \in 0 .. n - 1 PROVE a[i + 1] = WithLocal(a[i], from[Len(from) - i])
    OBVIOUS
  <2>1. i \in 0 .. n /\ i + 1 \in 0 .. n
    BY <1>0
  <2>2. a[i] = g[1 .. i] /\ a[i + 1] = g[1 .. i + 1]
    BY <2>1, <1>11
  <2> QED BY <2>2, <1>10
<1>14. \A i \in 0 .. n : a[i] \in Acc
  <2> DEFINE Good == {i \in 0 .. n : a[i] \in Acc}
  <2>1. 0 \in Good
    BY <1>0, <1>12
  <2>2. ASSUME NEW i \in Nat, i < n, i \in Good PROVE i + 1 \in Good
    <3>1. i \in 0 .. n - 1 /\ i + 1 \in 0 .. n /\ Len(from) - i \in 1 .. Len(from)
      BY <2>2, <1>0
    <3>2. from[Len(from) - i] \in Local
      BY <3>1
    <3>3. a[i + 1] \in Acc
      BY <2>2, <3>1, <3>2, <1>13, WithLocalIs
    <3> QED BY <3>1, <3>3
  <2>3. \A i \in 0 .. n : i \in Good
    <3> HIDE DEF Good
    <3> QED BY <2>1, <2>2, <1>0, Induct
  <2> QED BY <2>3
<1> QED BY <1>8, <1>12, <1>13, <1>14 DEF Accs

(* k locals that are not captured are popped. *)
LEMMA PopKeeps ==
  ASSUME NEW c, NEW h, NEW o, NEW jumps, NEW loops, Draft(c, h, o, jumps, loops),
         NEW k \in Nat, NEW n \in Nat, NEW s, AtEnd(c, h, o, n + k, s \cap (1 .. n + k)),
         \A slot \in s : slot \notin n + 1 .. n + k,
         \A r \in loops : r[2] <= n
  PROVE  \E h2, o2 : /\ Draft(c \o PopN(k), h2, o2, jumps, loops)
                     /\ Grows(c, h, o, c \o PopN(k), h2, o2)
                     /\ AtEnd(c \o PopN(k), h2, o2, n, s \cap (1 .. n))
<1>0. c \in Seq(Instruction) /\ Len(c) \in Nat
  BY DEF Draft
<1>1. s \cap (1 .. n + k) = s \cap (1 .. n)
  OBVIOUS
<1>2. CASE k = 0
  <2>1. c \o PopN(k) = c
    BY SMTT(30), <1>2, <1>0, PopNIs
  <2>2. Grows(c, h, o, c, h, o) /\ n + k = n
    BY <1>0, <1>2 DEF Grows
  <2>3. AtEnd(c, h, o, n, s \cap (1 .. n))
    BY <1>1, <2>2
  <2> QED BY <2>1, <2>2, <2>3
<1>3. CASE k # 0
  <2>1. PICK instr \in Instruction : instr = Instr("POP_N", k, Unknown)
    BY <1>3, PopNIs
  <2>2. c \o PopN(k) = Append(c, instr)
    <3>1. PopN(k) = <<instr>>
      BY <1>3, <2>1, PopNIs
    <3> QED BY <1>0, <3>1, AppendIsConcat
  <2>3. /\ instr.op = "POP_N" /\ instr.arg = k /\ instr.locals = Unknown /\ ~ IsJump(instr)
    BY <2>1 DEF Instr, IsJump, JumpOps
  <2>4. HeightAfter(instr, n + k) = n /\ OpenAfter(instr, n + k, s \cap (1 .. n + k)) = s \cap (1 .. n)
    BY <2>3, <1>1 DEF HeightAfter, OpenAfter
  <2>5. n + k \in Nat /\ s \cap (1 .. n) \in SUBSET (1 .. n)
    OBVIOUS
  <2>6. PICK t : t = s \cap (1 .. n + k)
    OBVIOUS
  <2>7. \E h2, o2 : /\ Draft(Append(c, instr), h2, o2, jumps, loops)
                     /\ Grows(c, h, o, Append(c, instr), h2, o2)
                     /\ AtEnd(Append(c, instr), h2, o2, n, s \cap (1 .. n))
    BY <2>3, <2>4, <2>5, <2>6, Emitted
  <2> QED BY <2>2, <2>7
<1> QED BY <1>2, <1>3

(* A captured local is closed. *)
LEMMA CloseKeeps ==
  ASSUME NEW c, NEW h, NEW o, NEW jumps, NEW loops, Draft(c, h, o, jumps, loops),
         NEW n \in Nat, NEW s, AtEnd(c, h, o, n + 1, s \cap (1 .. n + 1)),
         \A r \in loops : r[2] <= n
  PROVE  \E h2, o2 : /\ Draft(Append(c, CloseUpvalueInstr), h2, o2, jumps, loops)
                     /\ Grows(c, h, o, Append(c, CloseUpvalueInstr), h2, o2)
                     /\ AtEnd(Append(c, CloseUpvalueInstr), h2, o2, n, s \cap (1 .. n))
<1>1. PICK instr \in Instruction : instr = CloseUpvalueInstr
  BY PopNIs
<1>2. instr.op = "CLOSE_UPVALUE" /\ instr.locals = Unknown /\ ~ IsJump(instr)
  BY <1>1 DEF CloseUpvalueInstr, Instr, IsJump, JumpOps
<1>3. HeightAfter(instr, n + 1) = n
  BY <1>2 DEF HeightAfter
<1>4. OpenAfter(instr, n + 1, s \cap (1 .. n + 1)) \subseteq s \cap (1 .. n)
  BY <1>2 DEF OpenAfter
<1> QED BY <1>1, <1>2, <1>3, <1>4, Emitted

(* What the accumulator of the fold says after i locals.                   *)
Removed(c, h, o, jumps, loops, locs, acc, i, h2, o2) ==
  LET n == Len(locs) - i + acc.popCount
  IN /\ Draft(c \o acc.emitted, h2, o2, jumps, loops)
     /\ Grows(c, h, o, c \o acc.emitted, h2, o2)
     /\ AtEnd(c \o acc.emitted, h2, o2, n, Captured(locs) \cap (1 .. n))
     /\ \A slot \in Captured(locs) : slot \notin Len(locs) - i + 1 .. n

LEMMA RemovedOn ==
  ASSUME NEW c, c \in Seq(Instruction), NEW h, NEW o, NEW jumps, NEW loops,
         NEW locs, locs \in Seq(Local), NEW acc \in Acc, NEW i \in Nat, i < Len(locs),
         \A r \in loops : r[2] <= Len(locs) - i - 1,
         NEW h1, NEW o1, Removed(c, h, o, jumps, loops, locs, acc, i, h1, o1),
         \A r \in loops : r[2] \in Nat
  PROVE  \E h2, o2 :
           Removed(c, h, o, jumps, loops, locs, WithLocal(acc, locs[Len(locs) - i]), i + 1, h2, o2)
<1>0. Len(locs) \in Nat /\ Len(locs) - i - 1 \in Nat
  <2>1. Len(locs) \in Nat
    OBVIOUS
  <2> QED BY <2>1
<1>1. PICK x \in Nat : x = Len(locs) - i - 1
  BY <1>0
<1>2. /\ Len(locs) - i = x + 1 /\ Len(locs) - (i + 1) = x /\ x + 1 \in 1 .. Len(locs)
      /\ locs[x + 1] \in Local /\ Len(locs) \in Nat
  BY <1>1
<1>3. acc.popCount \in Nat /\ acc.emitted \in Seq(Instruction) /\ Len(c) \in Nat
  BY DEF Acc
<1>4. PICK local \in Local : local = locs[x + 1]
  BY <1>2
<1>5. PICK acc2 \in Acc : acc2 = WithLocal(acc, local)
  BY WithLocalIs
<1>6. PICK s : s = Captured(locs)
  OBVIOUS
<1>7. PICK c1 \in Seq(Instruction) : c1 = c \o acc.emitted
  BY <1>3, ConcatProperties
<1>8. PICK p \in Nat : p = acc.popCount
  BY <1>3
<1>9. /\ Draft(c1, h1, o1, jumps, loops) /\ Grows(c, h, o, c1, h1, o1)
      /\ AtEnd(c1, h1, o1, x + 1 + p, s \cap (1 .. x + 1 + p))
      /\ \A slot \in s : slot \notin x + 1 + 1 .. x + 1 + p
  BY <1>2, <1>6, <1>7, <1>8 DEF Removed
<1>10. CASE local.isCaptured
  <2>1. acc2.popCount = 0 /\ acc2.emitted = (acc.emitted \o PopN(p)) \o <<CloseUpvalueInstr>>
    BY <1>10, <1>5, <1>8 DEF WithLocal
  <2>2. \A r \in loops : r[2] <= x + 1
    BY <1>1
  <2>3. PICK h3, o3 : /\ Draft(c1 \o PopN(p), h3, o3, jumps, loops)
                      /\ Grows(c1, h1, o1, c1 \o PopN(p), h3, o3)
                      /\ AtEnd(c1 \o PopN(p), h3, o3, x + 1, s \cap (1 .. x + 1))
    <3>1. x + 1 \in Nat /\ (x + 1) + p = x + 1 + p
      OBVIOUS
    <3> QED BY <3>1, <1>9, <2>2, PopKeeps
  <2>4. PICK c3 \in Seq(Instruction) : c3 = c1 \o PopN(p)
    BY PopNIs, ConcatProperties
  <2>5. PICK c4 : c4 = Append(c3, CloseUpvalueInstr)
    OBVIOUS
  <2>6. PICK h4, o4 : /\ Draft(c4, h4, o4, jumps, loops)
                      /\ Grows(c3, h3, o3, c4, h4, o4)
                      /\ AtEnd(c4, h4, o4, x, s \cap (1 .. x))
    BY <2>3, <2>4, <2>5, <1>1, CloseKeeps
  <2>7. c4 = c \o acc2.emitted
    <3>1. PopN(p) \in Seq(Instruction) /\ CloseUpvalueInstr \in Instruction
      BY PopNIs
    <3>2. c3 = c \o (acc.emitted \o PopN(p))
      <4>1. PICK e \in Seq(Instruction), q \in Seq(Instruction) : e = acc.emitted /\ q = PopN(p)
        BY <3>1, <1>3
      <4>2. (c \o e) \o q = c \o (e \o q)
        BY SMTT(30), ConcatAssociative
      <4> QED BY <4>1, <4>2, <2>4, <1>7
    <3>3. Append(c \o (acc.emitted \o PopN(p)), CloseUpvalueInstr)
            = c \o ((acc.emitted \o PopN(p)) \o <<CloseUpvalueInstr>>)
      <4>1. PICK e \in Seq(Instruction) : e = acc.emitted \o PopN(p)
        BY <3>1, <1>3, ConcatProperties
      <4>2. Append(c \o e, CloseUpvalueInstr) = c \o (e \o <<CloseUpvalueInstr>>)
        <5>1. c \o e \in Seq(Instruction) /\ <<CloseUpvalueInstr>> \in Seq(Instruction)
          BY <3>1, ConcatProperties
        <5>2. Append(c \o e, CloseUpvalueInstr) = (c \o e) \o <<CloseUpvalueInstr>>
          BY <3>1, <5>1, AppendIsConcat
        <5> QED BY <5>1, <5>2, ConcatAssociative, SMTT(30)
      <4> QED BY <4>1, <4>2
    <3> QED BY <2>1, <2>5, <3>2, <3>3
  <2>8. Grows(c, h, o, c4, h4, o4)
    <3>1. Grows(c1, h1, o1, c4, h4, o4)
      <4>1. Len(c1) \in Nat
        BY <1>7
      <4> QED BY <4>1, <2>3, <2>4, <2>6, GrowsOn
    <3> QED BY <3>1, <1>9, <1>3, GrowsOn
  <2>9. \A slot \in s : slot \notin x + 1 .. x + acc2.popCount
    BY <2>1
  <2>10. Removed(c, h, o, jumps, loops, locs, acc2, i + 1, h4, o4)
    <3>1. Len(locs) - (i + 1) + acc2.popCount = x
      BY <2>1, <1>2
    <3> QED BY <3>1, <1>2, <1>6, <2>1, <2>6, <2>7, <2>8, <2>9 DEF Removed
  <2> QED BY <2>10, <1>2, <1>4, <1>5
<1>11. CASE ~ local.isCaptured
  <2>1. acc2.popCount = p + 1 /\ acc2.emitted = acc.emitted
    BY <1>11, <1>5, <1>8 DEF WithLocal, Acc
  <2>2. x + 1 \notin s
    BY <1>4, <1>6, <1>11 DEF Captured
  <2>3. \A slot \in s : slot \in Nat
    BY <1>6, <1>2 DEF Captured
  <2>4. \A slot \in s : slot \notin x + 1 .. x + acc2.popCount
    BY <2>1, <2>2, <2>3, <1>9
  <2>5. x + acc2.popCount = x + 1 + p
    BY <2>1
  <2>6. Removed(c, h, o, jumps, loops, locs, acc2, i + 1, h1, o1)
    BY <1>2, <1>6, <1>7, <1>9, <2>1, <2>4, <2>5 DEF Removed
  <2> QED BY <2>6, <1>2, <1>4, <1>5
<1> QED BY <1>10, <1>11

(* All locals above the first target are removed, and no captured one is   *)
(* popped.                                                                 *)
LEMMA RemovalKeeps ==
  ASSUME NEW c, NEW h, NEW o, NEW jumps, NEW loops, Draft(c, h, o, jumps, loops),
         NEW locs, locs \in Seq(Local), NEW target, target \in 0 .. Len(locs),
         AtEnd(c, h, o, Len(locs), Captured(locs)),
         \A r \in loops : r[2] <= target
  PROVE  \E h2, o2 : /\ Draft(c \o Removal(locs, target), h2, o2, jumps, loops)
                     /\ Grows(c, h, o, c \o Removal(locs, target), h2, o2)
                     /\ AtEnd(c \o Removal(locs, target), h2, o2,
                              target, Captured(locs) \cap (1 .. target))
<1>0. /\ c \in Seq(Instruction) /\ Len(c) \in Nat /\ Len(locs) \in Nat /\ target \in Nat
      /\ \A r \in loops : r[2] \in Nat
  BY SMTT(30) DEF Draft, Stays
<1>1. PICK n \in Nat : n = Len(locs) - target
  OBVIOUS
<1>2. PICK a : Accs(a, locs, n) /\ Removal(locs, target) = a[n].emitted \o PopN(a[n].popCount)
  BY <1>1, RemovalIs
<1> DEFINE Good == {i \in 0 .. n : \E h2, o2 : Removed(c, h, o, jumps, loops, locs, a[i], i, h2, o2)}
<1>3. 0 \in Good
  <2>1. a[0].emitted = <<>> /\ a[0].popCount = 0
    BY <1>2 DEF Accs, Nothing
  <2>2. c \o a[0].emitted = c /\ Len(locs) - 0 + a[0].popCount = Len(locs)
    BY <2>1, <1>0
  <2>3. Grows(c, h, o, c, h, o)
    BY <1>0 DEF Grows
  <2>4. Captured(locs) \cap (1 .. Len(locs)) = Captured(locs)
    BY DEF Captured
  <2>5. Removed(c, h, o, jumps, loops, locs, a[0], 0, h, o)
    <3>1. AtEnd(c \o a[0].emitted, h, o, Len(locs), Captured(locs) \cap (1 .. Len(locs)))
      BY <2>2, <2>4
    <3>2. \A slot \in Captured(locs) : slot \notin Len(locs) - 0 + 1 .. Len(locs)
      BY <1>0
    <3> QED BY <2>2, <2>3, <3>1, <3>2, <1>0 DEF Removed
  <2> QED BY <2>5, <1>1
<1>4. ASSUME NEW i \in Nat, i < n, i \in Good PROVE i + 1 \in Good
  <2>1. PICK h1, o1 : Removed(c, h, o, jumps, loops, locs, a[i], i, h1, o1)
    BY <1>4
  <2>2. i < Len(locs) /\ target <= Len(locs) - i - 1 /\ i \in 0 .. n /\ i \in 0 .. n - 1
    BY <1>0, <1>1, <1>4
  <2>3. a[i] \in Acc /\ a[i + 1] = WithLocal(a[i], locs[Len(locs) - i])
    BY <2>2, <1>2 DEF Accs
  <2>4. \A r \in loops : r[2] <= Len(locs) - i - 1
    BY <2>2, <1>0
  <2>5. \E h2, o2 : Removed(c, h, o, jumps, loops, locs, a[i + 1], i + 1, h2, o2)
    BY <2>1, <2>2, <2>3, <2>4, <1>0, RemovedOn
  <2> QED BY <2>5, <1>4
<1>5. PICK h1, o1 : Removed(c, h, o, jumps, loops, locs, a[n], n, h1, o1)
  <2>1. \A i \in 0 .. n : i \in Good
    <3> HIDE DEF Good
    <3> QED BY <1>3, <1>4, Induct
  <2> QED BY <2>1
<1>6. PICK acc \in Acc : acc = a[n]
  BY <1>2 DEF Accs
<1>7. PICK c1 \in Seq(Instruction) : c1 = c \o acc.emitted
  BY <1>0, ConcatProperties DEF Acc
<1>8. PICK p \in Nat : p = acc.popCount
  BY DEF Acc
<1>9. Len(locs) - n + p = target + p /\ Len(locs) - n + 1 = target + 1
  BY <1>0, <1>1
<1>10. /\ Draft(c1, h1, o1, jumps, loops) /\ Grows(c, h, o, c1, h1, o1)
       /\ AtEnd(c1, h1, o1, target + p, Captured(locs) \cap (1 .. target + p))
       /\ \A slot \in Captured(locs) : slot \notin target + 1 .. target + p
  BY <1>5, <1>6, <1>7, <1>8, <1>9 DEF Removed
<1>11. PICK h2, o2 : /\ Draft(c1 \o PopN(p), h2, o2, jumps, loops)
                     /\ Grows(c1, h1, o1, c1 \o PopN(p), h2, o2)
                     /\ AtEnd(c1 \o PopN(p), h2, o2, target, Captured(locs) \cap (1 .. target))
  BY <1>0, <1>10, PopKeeps
<1>12. c1 \o PopN(p) = c \o Removal(locs, target)
  <2>1. PopN(p) \in Seq(Instruction) /\ acc.emitted \in Seq(Instruction)
    BY PopNIs DEF Acc
  <2>2. PICK e \in Seq(Instruction), q \in Seq(Instruction) : e = acc.emitted /\ q = PopN(p)
    BY <2>1
  <2>3. (c \o e) \o q = c \o (e \o q)
    BY <1>0, ConcatAssociative, SMTT(30)
  <2> QED BY <2>2, <2>3, <1>2, <1>6, <1>7, <1>8
<1>13. Grows(c, h, o, c1 \o PopN(p), h2, o2)
  BY <1>10, <1>11, <1>0, GrowsOn
<1> QED BY <1>11, <1>12, <1>13

-----------------------------------------------------------------------------
(* Loops and captures.                                                     *)

LEMMA LoopsShrink ==
  ASSUME NEW c, NEW h, NEW o, NEW jumps, NEW loops, Draft(c, h, o, jumps, loops),
         NEW loops2, loops2 \subseteq loops
  PROVE  Draft(c, h, o, jumps, loops2)
BY DEF Draft

LEMMA LoopBegins ==
  ASSUME NEW c, NEW h, NEW o, NEW jumps, NEW loops, Draft(c, h, o, jumps, loops),
         NEW n \in Nat, NEW s, AtEnd(c, h, o, n, s)
  PROVE  Draft(c, h, o, jumps, loops \cup {<<Len(c) + 1, n>>})
<1>1. c \in Seq(Instruction) /\ Len(c) \in Nat /\ h[Len(c) + 1] = n
  BY DEF Draft, AtEnd
<1>2. PICK r : r = <<Len(c) + 1, n>>
  OBVIOUS
<1>3. r[1] = Len(c) + 1 /\ r[2] = n
  BY <1>2
<1>4. Stays(c, h, r)
  BY <1>1, <1>3 DEF Stays
<1> QED BY <1>2, <1>4 DEF Draft

(* A function captures slot k: from the beginning of a loop around which it *)
(* lives, k may be open.                                                   *)
LEMMA CaptureKeeps ==
  ASSUME NEW c, NEW h, NEW o, NEW jumps, NEW loops, Draft(c, h, o, jumps, loops),
         NEW r \in loops, NEW k \in Nat, 1 <= k, k <= r[2],
         NEW o2, o2 = [i \in Nat |-> IF i >= r[1] THEN o[i] \cup {k} ELSE o[i]]
  PROVE  Draft(c, h, o2, jumps, loops)
<1>1. /\ c \in Seq(Instruction) /\ Len(c) \in Nat
      /\ h \in [Nat -> Nat] /\ o \in [Nat -> SUBSET Nat]
  BY ONLY Draft(c, h, o, jumps, loops) DEF Draft
<1>2. Stays(c, h, r)
  BY ONLY Draft(c, h, o, jumps, loops), r \in loops DEF Draft
<1>3. o2 \in [Nat -> SUBSET Nat]
  BY <1>1
<1>7. r[1] \in Nat /\ r[2] \in Nat
  <2>1. r[1] \in 1 .. Len(c) + 1 /\ r[2] \in Nat
    BY <1>2 DEF Stays
  <2>2. \A x \in 1 .. Len(c) + 1 : x \in Nat
    BY <1>1
  <2> QED BY <2>1, <2>2
<1>8. \A i \in Nat : /\ i >= r[1] => o2[i] = o[i] \cup {k}
                     /\ ~ (i >= r[1]) => o2[i] = o[i]
  OBVIOUS
<1>4. \A i \in 1 .. Len(c) + 1 : o2[i] \subseteq 1 .. h[i]
  <2> SUFFICES ASSUME NEW i \in 1 .. Len(c) + 1 PROVE o2[i] \subseteq 1 .. h[i]
    OBVIOUS
  <2>1. o[i] \subseteq 1 .. h[i] /\ h[i] \in Nat /\ i \in Nat
    BY <1>1 DEF Draft
  <2>2. CASE i >= r[1]
    <3>1. h[i] >= r[2] /\ r[2] \in Nat
      BY <2>2, <1>2 DEF Stays
    <3>2. k \in 1 .. h[i]
      BY <2>1, <3>1
    <3>3. o2[i] = o[i] \cup {k}
      BY <2>1, <2>2, <1>8
    <3> QED BY <2>1, <3>2, <3>3
  <2>3. CASE ~ (i >= r[1])
    <3>1. o2[i] = o[i]
      BY <2>1, <2>3, <1>8
    <3> QED BY <2>1, <3>1
  <2> QED BY <2>2, <2>3
<1>5. ASSUME NEW i \in 1 .. Len(c), NEW j \in 1 .. Len(c) + 1, Leads(c[i], h, o, i, j),
             i >= r[1] => j >= r[1]
      PROVE  Leads(c[i], h, o2, i, j)
  <2>1. i \in Nat /\ j \in Nat
    OBVIOUS
  <2>2. o[j] \subseteq o2[j] /\ (i >= r[1] => k \in o2[j])
    <3>1. CASE j >= r[1]
      BY <2>1, <3>1, <1>8
    <3>2. CASE ~ (j >= r[1])
      <4>1. o2[j] = o[j]
        BY <2>1, <3>2, <1>8
      <4> QED BY <4>1, <3>2, <1>5
    <3> QED BY <3>1, <3>2
  <2>3. o2[i] = o[i] \/ (i >= r[1] /\ o2[i] = o[i] \cup {k})
    <3>1. CASE i >= r[1]
      BY <2>1, <3>1, <1>8
    <3>2. CASE ~ (i >= r[1])
      BY <2>1, <3>2, <1>8
    <3> QED BY <3>1, <3>2
  <2>4. CASE o2[i] = o[i]
    BY <2>2, <2>4, <1>5 DEF Leads
  <2>5. CASE i >= r[1] /\ o2[i] = o[i] \cup {k}
    <3>1. OpenAfter(c[i], h[i], o2[i]) \subseteq OpenAfter(c[i], h[i], o[i]) \cup {k}
      BY <2>5 DEF OpenAfter
    <3> QED BY <3>1, <2>2, <2>5, <1>5 DEF Leads
  <2> QED BY <2>3, <2>4, <2>5
<1>6. \A i \in 1 .. Len(c) : FlowAt(c, h, o2, i)
  <2> SUFFICES ASSUME NEW i \in 1 .. Len(c) PROVE FlowAt(c, h, o2, i)
    OBVIOUS
  <2>1. FlowAt(c, h, o, i)
    BY DEF Draft
  <2>2. i + 1 \in 1 .. Len(c) + 1 /\ r[1] \in Nat
    BY <1>1, <1>7
  <2>3. GoesOn(c[i]) => Leads(c[i], h, o2, i, i + 1)
    <3>1. i >= r[1] => i + 1 >= r[1]
      BY <2>2
    <3> QED BY <2>1, <2>2, <3>1, <1>5 DEF FlowAt
  <2>4. ASSUME IsJump(c[i]), c[i].arg # NoInstr
        PROVE  c[i].arg \in 1 .. Len(c) + 1 /\ Leads(c[i], h, o2, i, c[i].arg)
    <3>1. i >= r[1] => c[i].arg >= r[1]
      BY <2>4, <2>2, <1>2 DEF Stays
    <3>2. c[i].arg \in 1 .. Len(c) + 1 /\ Leads(c[i], h, o, i, c[i].arg)
      BY <2>1, <2>4 DEF FlowAt
    <3> QED BY <3>1, <3>2, <1>5
  <2> QED BY <2>1, <2>3, <2>4 DEF FlowAt
<1> QED BY <1>3, <1>4, <1>6 DEF Draft

-----------------------------------------------------------------------------
(* Jumps. *)

LEMMA InstrIs ==
  ASSUME NEW op \in Ops, NEW arg \in Int, NEW count \in Int
  PROVE  /\ Instr(op, arg, count) \in Instruction
         /\ Instr(op, arg, count).op = op /\ Instr(op, arg, count).arg = arg
         /\ Instr(op, arg, count).locals = count
BY DEF Instr, Instruction

(* A jump that is yet to be patched. *)
LEMMA JumpEmitted ==
  ASSUME NEW c, NEW h, NEW o, NEW jumps, NEW loops, Draft(c, h, o, jumps, loops),
         NEW k \in Nat, NEW t, AtEnd(c, h, o, k, t), NEW count \in {Unknown, k},
         NEW n \in Nat, NEW s \in SUBSET (1 .. n), \A r \in loops : r[2] <= n,
         NEW instr, instr = Instr("JUMP", NoInstr, count)
  PROVE  \E h2, o2 : /\ Draft(Append(c, instr), h2, o2, jumps \cup {Len(c) + 1}, loops)
                     /\ Len(Append(c, instr)) = Len(c) + 1
                     /\ Grows(c, h, o, Append(c, instr), h2, o2)
                     /\ AtEnd(Append(c, instr), h2, o2, n, s)
<1>1. "JUMP" \in Ops /\ NoInstr \in Int /\ count \in Int
  BY DEF Ops, NoInstr, Unknown
<1>2. /\ instr \in Instruction /\ instr.op = "JUMP" /\ instr.arg = NoInstr
      /\ instr.locals \in {Unknown, k}
  BY <1>1, InstrIs
<1>3. IsJump(instr) /\ ~ GoesOn(instr)
  BY <1>2 DEF IsJump, GoesOn, JumpOps, PlainOps
<1>4. PICK jumps2 : jumps2 = jumps \cup {Len(c) + 1}
  OBVIOUS
<1> QED BY <1>2, <1>3, <1>4, Emitted

(* A jump back to where the stack was as high. *)
LEMMA LoopEmitted ==
  ASSUME NEW c, NEW h, NEW o, NEW jumps, NEW loops, Draft(c, h, o, jumps, loops),
         NEW k \in Nat, NEW t, AtEnd(c, h, o, k, t), NEW count \in {Unknown, k},
         NEW start \in 1 .. Len(c) + 1, h[start] = k, t \subseteq o[start],
         \A r \in loops : r[1] <= start,
         NEW n \in Nat, NEW s \in SUBSET (1 .. n), \A r \in loops : r[2] <= n,
         NEW instr, instr = Instr("LOOP", start, count)
  PROVE  \E h2, o2 : /\ Draft(Append(c, instr), h2, o2, jumps, loops)
                     /\ Len(Append(c, instr)) = Len(c) + 1
                     /\ Grows(c, h, o, Append(c, instr), h2, o2)
                     /\ AtEnd(Append(c, instr), h2, o2, n, s)
<1>1. "LOOP" \in Ops /\ start \in Int /\ count \in Int /\ start # NoInstr
  BY DEF Ops, NoInstr, Unknown
<1>2. /\ instr \in Instruction /\ instr.op = "LOOP" /\ instr.arg = start
      /\ instr.locals \in {Unknown, k}
  BY <1>1, InstrIs
<1>3. IsJump(instr) /\ ~ GoesOn(instr)
  BY <1>2 DEF IsJump, GoesOn, JumpOps, PlainOps
<1>4. instr.arg \in 1 .. Len(c) + 1 /\ h[instr.arg] = k /\ t \subseteq o[instr.arg]
  BY <1>2
<1>5. \A r \in loops : r[1] <= instr.arg
  BY ONLY <1>2, \A r \in loops : r[1] <= start
<1>6. instr.arg # NoInstr
  BY <1>1, <1>2
<1>7. /\ jumps = IF IsJump(instr) /\ instr.arg = NoInstr THEN jumps \cup {Len(c) + 1} ELSE jumps
      /\ GoesOn(instr) => n = HeightAfter(instr, k) /\ OpenAfter(instr, k, t) \subseteq s
      /\ IsJump(instr) /\ instr.arg # NoInstr =>
           /\ instr.arg \in 1 .. Len(c) + 1 /\ h[instr.arg] = k /\ t \subseteq o[instr.arg]
           /\ \A r \in loops : r[1] <= instr.arg
  BY ONLY <1>3, <1>4, <1>5, <1>6
<1> QED BY ONLY <1>2, <1>7, Draft(c, h, o, jumps, loops), AtEnd(c, h, o, k, t), n \in Nat,
           s \in SUBSET (1 .. n), \A r \in loops : r[2] <= n, Emitted

Conditions == {"tested", "true", "false"}

(* The jump of a condition, unless the condition is known to be true. *)
Branched(c, h, o, k, t, e, jumps, loops, c2, h2, o2) ==
  /\ Draft(c2, h2, o2, jumps, loops) /\ Grows(c, h, o, c2, h2, o2) /\ AtEnd(c2, h2, o2, k, t)
  /\ e # NoInstr => e = Len(c) + 1 /\ h2[Len(c) + 1] = k /\ o2[Len(c) + 1] = t

LEMMA BranchKeeps ==
  ASSUME NEW c, NEW h, NEW o, NEW jumps, NEW loops, Draft(c, h, o, jumps, loops),
         NEW k \in Nat, NEW t \in SUBSET (1 .. k), AtEnd(c, h, o, k, t),
         \A r \in loops : r[2] <= k, NEW cond \in Conditions,
         NEW branch, branch = Branch(cond, k), NEW e, e = BranchAt(c, branch),
         NEW c2, c2 = c \o branch, NEW all, all = jumps \cup ({e} \ {NoInstr})
  PROVE  \E h2, o2 : Branched(c, h, o, k, t, e, all, loops, c2, h2, o2)
<1>0. c \in Seq(Instruction) /\ Len(c) \in Nat
  BY DEF Draft
<1>1. CASE cond = "true"
  <2>1. branch = <<>> /\ c \o branch = c
    BY <1>0, <1>1 DEF Branch
  <2>2. BranchAt(c, branch) = NoInstr
    BY <2>1 DEF BranchAt
  <2>3. Grows(c, h, o, c, h, o)
    BY <1>0 DEF Grows
  <2>4. jumps \cup ({BranchAt(c, branch)} \ {NoInstr}) = jumps
    BY <2>2
  <2>5. branch \in Seq(Instruction)
    BY <2>1
  <2>6. c2 = c /\ all = jumps /\ e = NoInstr
    BY <2>1, <2>2, <2>4
  <2>7. Branched(c, h, o, k, t, e, all, loops, c2, h, o)
    BY <2>3, <2>6 DEF Branched
  <2> QED BY <2>7
<1>2. CASE cond # "true"
  <2>1. PICK instr : branch = <<instr>> /\ instr = IF cond = "tested"
                       THEN Instr("JUMP_IF_FALSE_POP", NoInstr, k) ELSE Instr("JUMP", NoInstr, k)
    BY <1>2 DEF Branch, Conditions
  <2>2. /\ instr \in Instruction /\ instr.op \in {"JUMP", "JUMP_IF_FALSE_POP"}
        /\ instr.arg = NoInstr /\ instr.locals = k
    <3>1. "JUMP_IF_FALSE_POP" \in Ops /\ "JUMP" \in Ops /\ NoInstr \in Int /\ k \in Int
      BY DEF Ops, NoInstr
    <3> QED BY <2>1, <3>1, InstrIs
  <2>3. branch \in Seq(Instruction) /\ branch # <<>> /\ c \o branch = Append(c, instr)
    <3>1. branch \in Seq(Instruction) /\ branch # <<>>
      BY <2>1, <2>2
    <3> QED BY <3>1, <2>1, <2>2, <1>0, AppendIsConcat
  <2>4. BranchAt(c, branch) = Len(c) + 1 /\ Len(c) + 1 # NoInstr
    BY <2>3, <1>0 DEF BranchAt, NoInstr
  <2>5. IsJump(instr) /\ HeightAfter(instr, k) = k /\ OpenAfter(instr, k, t) = t
    BY <2>2 DEF IsJump, JumpOps, HeightAfter, OpenAfter
  <2>6. PICK jumps2 : jumps2 = jumps \cup {Len(c) + 1}
    OBVIOUS
  <2>7. PICK h2, o2 : /\ Draft(Append(c, instr), h2, o2, jumps2, loops)
                      /\ Grows(c, h, o, Append(c, instr), h2, o2)
                      /\ AtEnd(Append(c, instr), h2, o2, k, t)
    BY <2>2, <2>5, <2>6, Emitted
  <2>8. h2[Len(c) + 1] = k /\ o2[Len(c) + 1] = t
    BY <2>7, <1>0 DEF Grows, AtEnd
  <2>9. jumps2 = jumps \cup ({BranchAt(c, branch)} \ {NoInstr})
    BY <2>4, <2>6
  <2>10. c2 = Append(c, instr) /\ all = jumps2
    BY <2>3, <2>9
  <2>11. Branched(c, h, o, k, t, e, all, loops, c2, h2, o2)
    BY <2>4, <2>7, <2>8, <2>10 DEF Branched
  <2> QED BY <2>11
<1> QED BY <1>1, <1>2


-----------------------------------------------------------------------------
(* Statements that are not complete.                                       *)

Kinds == {"BLOCK", "IF", "ELSE", "WHILE", "DO", "FOR"}
LoopKinds == {"WHILE", "DO", "FOR"}
Construction ==
  [kind : Kinds, exit : Int, start : Int, enterParamCount : Int,
   breakJumps : SUBSET Int, continueJumps : SUBSET Int]
IsLoop(con) == con.kind \in LoopKinds

(* The jumps that the end of a statement patches. *)
Pending(con) == (con.breakJumps \cup con.continueJumps \cup {con.exit}) \ {NoInstr}
Pendings(ns) == UNION {Pending(ns[x]) : x \in 1 .. Len(ns)}

Shape(con) ==
  /\ con.kind # "DO" => con.continueJumps = {}
  /\ con.kind \in {"BLOCK", "DO"} => con.exit = NoInstr
  /\ ~ IsLoop(con) => con.breakJumps = {}

(* Where a statement began: the depth of its body, the locals before it    *)
(* and before its body, and the first instruction that is repeated.        *)
Frame == [depth : Nat, before : Nat, base : Nat, first : Nat]
LoopsOf(ns, g) == {<<g[x].first, g[x].base>> : x \in {y \in 1 .. Len(ns) : IsLoop(ns[y])}}

Layer(locs, con, f) ==
  /\ f.before <= f.base /\ f.base <= Len(locs)
  /\ con.kind # "FOR" => f.before = f.base
  /\ IsLoop(con) => con.enterParamCount = f.base
  /\ \A s \in 1 .. Len(locs) : locs[s].depth < f.depth <=> s <= f.base
  /\ con.kind = "FOR" => \A s \in 1 .. Len(locs) : locs[s].depth < f.depth - 1 <=> s <= f.before

Known(c, h, o, locs, con, f) ==
  /\ f.first \in 1 .. Len(c) + 1
  /\ \A i \in Pending(con) : /\ i \in 1 .. Len(c)
                             /\ h[i] = f.base
                             /\ o[i] \subseteq Captured(locs) \cap (1 .. f.base)
  /\ IsLoop(con) => /\ con.start \in f.first .. Len(c) + 1
                    /\ h[con.start] = f.base
                    /\ Captured(locs) \cap (1 .. f.base) \subseteq o[con.start]

Below(f, f2) == f.base <= f2.before /\ f.first <= f2.first /\ f.depth <= f2.depth

Levels(con) == IF con.kind = "FOR" THEN 2 ELSE 1
Chain(locs, dep, ns, g) ==
  /\ locs \in Seq(Local) /\ ns \in Seq(Construction) /\ g \in [Nat -> Frame]
  /\ dep = g[Len(ns)].depth
  /\ \A s \in 1 .. Len(locs) : locs[s].depth <= dep
  /\ \A x \in 1 .. Len(ns) : Shape(ns[x]) /\ g[x].depth = g[x - 1].depth + Levels(ns[x])
  /\ \A x, y \in 1 .. Len(ns) : x < y => Below(g[x], g[y])

Nest(c, locs, dep, ns, h, o, g) ==
  /\ Chain(locs, dep, ns, g)
  /\ \A x \in 1 .. Len(ns) : Layer(locs, ns[x], g[x]) /\ Known(c, h, o, locs, ns[x], g[x])

Well(c, locs, dep, ns, h, o, g) ==
  /\ Draft(c, h, o, Pendings(ns), LoopsOf(ns, g))
  /\ AtEnd(c, h, o, Len(locs), Captured(locs))
  /\ Nest(c, locs, dep, ns, h, o, g)

LEMMA NestIs ==
  ASSUME NEW c, NEW locs, NEW dep, NEW ns, NEW h, NEW o, NEW g, Nest(c, locs, dep, ns, h, o, g)
  PROVE  /\ locs \in Seq(Local) /\ Len(locs) \in Nat /\ ns \in Seq(Construction) /\ Len(ns) \in Nat
         /\ g \in [Nat -> Frame] /\ dep \in Nat /\ dep = g[Len(ns)].depth
         /\ \A s \in 1 .. Len(locs) : locs[s].depth <= dep
         /\ \A x \in 1 .. Len(ns) : /\ x \in Nat /\ ns[x] \in Construction /\ g[x] \in Frame
                                    /\ g[x].depth \in Nat /\ g[x].before \in Nat
                                    /\ g[x].base \in Nat /\ g[x].first \in Nat
                                    /\ g[x].depth <= dep /\ g[x].base <= Len(locs)
                                    /\ g[x].before <= g[x].base
<1>1. locs \in Seq(Local) /\ ns \in Seq(Construction) /\ g \in [Nat -> Frame] /\ dep = g[Len(ns)].depth
  BY DEF Nest, Chain
<1>2. Len(locs) \in Nat /\ Len(ns) \in Nat
  BY <1>1
<1>3. \A x \in Nat : /\ g[x] \in Frame /\ g[x].depth \in Nat /\ g[x].before \in Nat
                     /\ g[x].base \in Nat /\ g[x].first \in Nat
  BY <1>1 DEF Frame
<1>4. \A x \in 1 .. Len(ns) : x \in Nat /\ ns[x] \in Construction
  BY <1>1
<1>5. \A x \in 1 .. Len(ns) : g[x].base <= Len(locs) /\ g[x].before <= g[x].base
  BY DEF Nest, Layer
<1>6. ASSUME NEW x \in 1 .. Len(ns) PROVE g[x].depth <= dep
  <2>1. CASE x = Len(ns)
    BY <2>1, <1>1, <1>2, <1>3
  <2>2. CASE x # Len(ns)
    <3>1. x < Len(ns) /\ Len(ns) \in 1 .. Len(ns)
      BY <2>2, <1>2
    <3>2. Below(g[x], g[Len(ns)])
      BY <3>1 DEF Nest, Chain
    <3> QED BY <3>2, <1>1 DEF Below
  <2> QED BY <2>1, <2>2
<1>7. \A s \in 1 .. Len(locs) : locs[s].depth <= dep
  BY DEF Nest, Chain
<1> QED BY <1>1, <1>2, <1>3, <1>4, <1>5, <1>6, <1>7

LEMMA FrontIs ==
  ASSUME NEW ns \in Seq(Construction), ns # <<>>, NEW g
  PROVE  /\ Front(ns) \in Seq(Construction) /\ Len(Front(ns)) = Len(ns) - 1
         /\ \A x \in 1 .. Len(ns) - 1 : Front(ns)[x] = ns[x]
         /\ Pendings(ns) = Pendings(Front(ns)) \cup Pending(Last(ns))
         /\ LoopsOf(Front(ns), g) \subseteq LoopsOf(ns, g)
         /\ Len(ns) \in 1 .. Len(ns) /\ Last(ns) = ns[Len(ns)] /\ Last(ns) \in Construction
<1>1. PICK m \in Nat : m = Len(ns)
  OBVIOUS
<1>2. m # 0
  BY <1>1
<1>3. PICK f \in Seq(Construction) : f = Front(ns)
  <2>1. \A i \in 1 .. m - 1 : ns[i] \in Construction
    BY <1>1
  <2>2. SubSeq(ns, 1, m - 1) \in Seq(Construction)
    BY <2>1, SubSeqProperties
  <2> QED BY <2>2, <1>1 DEF Front
<1>4. Len(f) = m - 1 /\ \A x \in 1 .. m - 1 : f[x] = ns[x]
  BY <1>1, <1>2, <1>3 DEF Front
<1>5. Last(ns) = ns[m] /\ m \in 1 .. m
  BY <1>1, <1>2 DEF Last
<1>6. Pendings(ns) = Pendings(f) \cup Pending(ns[m])
  <2>1. \A x \in 1 .. m : x = m \/ x \in 1 .. m - 1
    OBVIOUS
  <2>2. \A x \in 1 .. m - 1 : x \in 1 .. m
    OBVIOUS
  <2> QED BY <2>1, <2>2, <1>1, <1>4, <1>5 DEF Pendings
<1>7. LoopsOf(f, g) \subseteq LoopsOf(ns, g)
  <2>1. \A x \in 1 .. m - 1 : x \in 1 .. m
    OBVIOUS
  <2> QED BY <2>1, <1>1, <1>4 DEF LoopsOf
<1> QED BY <1>1, <1>3, <1>4, <1>5, <1>6, <1>7

(* The frame of one more statement. *)
Puts(g, n, f, g2) ==
  g2 \in [Nat -> Frame] /\ g2[n + 1] = f /\ \A x \in 0 .. n : g2[x] = g[x]

LEMMA Appended ==
  ASSUME NEW ns \in Seq(Construction), NEW con \in Construction, NEW g,
         NEW f, NEW g2, Puts(g, Len(ns), f, g2)
  PROVE  /\ Append(ns, con) \in Seq(Construction) /\ Len(Append(ns, con)) = Len(ns) + 1
         /\ Append(ns, con)[Len(ns) + 1] = con /\ \A x \in 1 .. Len(ns) : Append(ns, con)[x] = ns[x]
         /\ Pendings(Append(ns, con)) = Pendings(ns) \cup Pending(con)
         /\ IsLoop(con) => LoopsOf(Append(ns, con), g2) = LoopsOf(ns, g) \cup {<<f.first, f.base>>}
         /\ ~ IsLoop(con) => LoopsOf(Append(ns, con), g2) = LoopsOf(ns, g)
<1>1. PICK m \in Nat : m = Len(ns) + 1
  OBVIOUS
<1>2. PICK n2 \in Seq(Construction) : n2 = Append(ns, con)
  BY AppendProperties
<1>3. Len(n2) = m /\ n2[m] = con /\ \A x \in 1 .. Len(ns) : n2[x] = ns[x]
  BY <1>1, <1>2
<1>4. g2 \in [Nat -> Frame] /\ g2[m] = f /\ \A x \in 0 .. Len(ns) : g2[x] = g[x]
  BY <1>1 DEF Puts
<1>5. \A x \in 1 .. m : x = m \/ x \in 1 .. Len(ns)
  BY <1>1
<1>6. \A x \in 1 .. Len(ns) : x \in 1 .. m /\ x \in 0 .. Len(ns)
  BY <1>1
<1>7. m \in 1 .. m
  BY <1>1
<1>8. Pendings(n2) = Pendings(ns) \cup Pending(con)
  BY <1>3, <1>5, <1>6, <1>7 DEF Pendings
<1>9. LoopsOf(n2, g2) = LoopsOf(ns, g) \cup (IF IsLoop(con) THEN {<<f.first, f.base>>} ELSE {})
  <2>1. ASSUME NEW r \in LoopsOf(n2, g2)
        PROVE  r \in LoopsOf(ns, g) \cup (IF IsLoop(con) THEN {<<f.first, f.base>>} ELSE {})
    <3>1. PICK x \in 1 .. m : IsLoop(n2[x]) /\ r = <<g2[x].first, g2[x].base>>
      BY <1>3 DEF LoopsOf
    <3>2. CASE x = m
      BY <3>1, <3>2, <1>3, <1>4
    <3>3. CASE x # m
      <4>1. x \in 1 .. Len(ns) /\ g2[x] = g[x] /\ n2[x] = ns[x]
        BY <3>3, <1>3, <1>4, <1>5, <1>6
      <4> QED BY <3>1, <4>1 DEF LoopsOf
    <3> QED BY <3>2, <3>3
  <2>2. ASSUME NEW r \in LoopsOf(ns, g) PROVE r \in LoopsOf(n2, g2)
    <3>1. PICK x \in 1 .. Len(ns) : IsLoop(ns[x]) /\ r = <<g[x].first, g[x].base>>
      BY DEF LoopsOf
    <3>2. x \in 1 .. m /\ IsLoop(n2[x]) /\ r = <<g2[x].first, g2[x].base>>
      BY <3>1, <1>3, <1>4, <1>6
    <3> QED BY <3>2, <1>3 DEF LoopsOf
  <2>3. IsLoop(con) => <<f.first, f.base>> \in LoopsOf(n2, g2)
    BY <1>3, <1>4, <1>7 DEF LoopsOf
  <2> QED BY <2>1, <2>2, <2>3
<1> QED BY <1>1, <1>2, <1>3, <1>4, <1>8, <1>9


-----------------------------------------------------------------------------
(* What the statements that are not complete know stays known: while the   *)
(* code grows, and when the locals of an inner one are gone.               *)

Extends(locs, locs2, dep) ==
  /\ locs2 \in Seq(Local) /\ Len(locs) <= Len(locs2)
  /\ \A s \in 1 .. Len(locs) : locs2[s] = locs[s]
  /\ \A s \in 1 .. Len(locs2) : s > Len(locs) => locs2[s].depth >= dep

LEMMA PartGrows ==
  ASSUME NEW c, Len(c) \in Nat, NEW h, NEW o, NEW c2, NEW h2, NEW o2, Grows(c, h, o, c2, h2, o2),
         NEW locs \in Seq(Local), NEW locs2, NEW dep \in Nat, Extends(locs, locs2, dep),
         NEW con \in Construction, NEW f \in Frame, f.depth <= dep,
         Layer(locs, con, f), Known(c, h, o, locs, con, f)
  PROVE  Layer(locs2, con, f) /\ Known(c2, h2, o2, locs2, con, f)
<1>1. PICK n \in Nat, n2 \in Nat : n = Len(locs) /\ n2 = Len(locs2) /\ n <= n2
  BY DEF Extends
<1>2. f.before \in Nat /\ f.base \in Nat /\ f.depth \in Nat /\ f.first \in Nat
  BY DEF Frame
<1>3. f.before <= f.base /\ f.base <= n
  BY <1>1 DEF Layer
<1>4. \A s \in 1 .. n2 : locs2[s].depth \in Int
  <2>1. \A s \in 1 .. n2 : locs2[s] \in Local
    BY <1>1 DEF Extends
  <2> QED BY <2>1 DEF Local
<1>5. \A s \in 1 .. n2 : \/ s \in 1 .. n /\ locs2[s] = locs[s]
                         \/ s > n /\ locs2[s].depth >= dep
  <2>1. \A s \in 1 .. n2 : s \in 1 .. n \/ s > n
    BY <1>1
  <2> SUFFICES ASSUME NEW s \in 1 .. n2
               PROVE  \/ s \in 1 .. n /\ locs2[s] = locs[s]
                      \/ s > n /\ locs2[s].depth >= dep
    OBVIOUS
  <2>2. CASE s \in 1 .. n
    BY <2>2, <1>1 DEF Extends
  <2>3. CASE s > n
    BY <2>3, <1>1 DEF Extends
  <2> QED BY <2>1, <2>2, <2>3
<1>6. ASSUME NEW s \in 1 .. n2 PROVE locs2[s].depth < f.depth <=> s <= f.base
  <2>1. CASE s \in 1 .. n /\ locs2[s] = locs[s]
    BY <2>1, <1>1 DEF Layer
  <2>2. CASE s > n /\ locs2[s].depth >= dep
    BY <2>2, <1>2, <1>3, <1>4
  <2> QED BY <2>1, <2>2, <1>5
<1>7. ASSUME NEW s \in 1 .. n2, con.kind = "FOR"
      PROVE  locs2[s].depth < f.depth - 1 <=> s <= f.before
  <2>1. CASE s \in 1 .. n /\ locs2[s] = locs[s]
    BY <2>1, <1>1, <1>7 DEF Layer
  <2>2. CASE s > n /\ locs2[s].depth >= dep
    BY SMTT(30), <2>2, <1>2, <1>3, <1>4
  <2> QED BY <2>1, <2>2, <1>5
<1>8. Layer(locs2, con, f)
  <2>1. /\ con.kind # "FOR" => f.before = f.base
        /\ IsLoop(con) => con.enterParamCount = f.base
    BY DEF Layer
  <2> QED BY <2>1, <1>1, <1>2, <1>3, <1>6, <1>7 DEF Layer
<1>9. Captured(locs2) \cap (1 .. f.base) = Captured(locs) \cap (1 .. f.base)
  <2>1. \A s \in 1 .. f.base : s \in 1 .. n /\ s \in 1 .. n2 /\ locs2[s] = locs[s]
    BY <1>1, <1>2, <1>3 DEF Extends
  <2> QED BY <2>1, <1>1 DEF Captured
<1>10. \A i \in 1 .. Len(c) + 1 : i \in 1 .. Len(c2) + 1 /\ h2[i] = h[i] /\ o2[i] = o[i]
  BY DEF Grows
<1>11. Known(c2, h2, o2, locs2, con, f)
  <2>1. f.first \in 1 .. Len(c2) + 1
    BY <1>10 DEF Known
  <2>2. ASSUME NEW i \in Pending(con)
        PROVE  /\ i \in 1 .. Len(c2) /\ h2[i] = f.base
               /\ o2[i] \subseteq Captured(locs2) \cap (1 .. f.base)
    <3>1. i \in 1 .. Len(c) /\ h[i] = f.base /\ o[i] \subseteq Captured(locs) \cap (1 .. f.base)
      BY DEF Known
    <3>2. i \in 1 .. Len(c) + 1 /\ i \in 1 .. Len(c2)
      BY <3>1 DEF Grows
    <3> QED BY <3>1, <3>2, <1>9, <1>10
  <2>3. ASSUME IsLoop(con)
        PROVE  /\ con.start \in f.first .. Len(c2) + 1 /\ h2[con.start] = f.base
               /\ Captured(locs2) \cap (1 .. f.base) \subseteq o2[con.start]
    <3>1. /\ con.start \in f.first .. Len(c) + 1 /\ h[con.start] = f.base
          /\ Captured(locs) \cap (1 .. f.base) \subseteq o[con.start]
          /\ f.first \in 1 .. Len(c) + 1
      BY <2>3 DEF Known
    <3>2. con.start \in 1 .. Len(c) + 1 /\ con.start \in f.first .. Len(c2) + 1
      BY <3>1 DEF Grows
    <3> QED BY <3>1, <3>2, <1>9, <1>10
  <2> QED BY <2>1, <2>2, <2>3 DEF Known
<1> QED BY <1>8, <1>11

LEMMA PartShrinks ==
  ASSUME NEW c, NEW h, NEW o, NEW locs \in Seq(Local), NEW n \in 0 .. Len(locs),
         NEW con, NEW f \in Frame, f.base <= n,
         Layer(locs, con, f), Known(c, h, o, locs, con, f)
  PROVE  Layer(SubSeq(locs, 1, n), con, f) /\ Known(c, h, o, SubSeq(locs, 1, n), con, f)
<1>1. PICK k : k = SubSeq(locs, 1, n)
  OBVIOUS
<1>2. Len(k) = n /\ \A s \in 1 .. n : s \in 1 .. Len(locs) /\ k[s] = locs[s]
  BY <1>1
<1>3. Layer(k, con, f)
  BY <1>2 DEF Layer
<1>4. f.base \in Nat /\ \A s \in 1 .. f.base : s \in 1 .. n
  BY DEF Frame
<1>5. Captured(k) \cap (1 .. f.base) = Captured(locs) \cap (1 .. f.base)
  BY <1>2, <1>4 DEF Captured
<1>6. Known(c, h, o, k, con, f)
  BY <1>5 DEF Known
<1> QED BY <1>1, <1>3, <1>6

LEMMA NestGrows ==
  ASSUME NEW c, Len(c) \in Nat, NEW h, NEW o, NEW c2, NEW h2, NEW o2, Grows(c, h, o, c2, h2, o2),
         NEW locs, NEW dep, NEW ns, NEW g, Nest(c, locs, dep, ns, h, o, g),
         NEW locs2, Extends(locs, locs2, dep), \A s \in 1 .. Len(locs2) : locs2[s].depth <= dep
  PROVE  Nest(c2, locs2, dep, ns, h2, o2, g)
<1>1. \A x \in 1 .. Len(ns) : Layer(locs2, ns[x], g[x]) /\ Known(c2, h2, o2, locs2, ns[x], g[x])
  <2> SUFFICES ASSUME NEW x \in 1 .. Len(ns)
               PROVE  Layer(locs2, ns[x], g[x]) /\ Known(c2, h2, o2, locs2, ns[x], g[x])
    OBVIOUS
  <2>1. /\ locs \in Seq(Local) /\ dep \in Nat /\ ns[x] \in Construction /\ g[x] \in Frame
        /\ g[x].depth <= dep
    BY NestIs
  <2>2. Layer(locs, ns[x], g[x]) /\ Known(c, h, o, locs, ns[x], g[x])
    BY DEF Nest
  <2> QED BY <2>1, <2>2, PartGrows
<1>2. Chain(locs2, dep, ns, g)
  BY DEF Nest, Chain, Extends
<1> QED BY <1>1, <1>2 DEF Nest

(* A statement begins. *)
LEMMA NestPushes ==
  ASSUME NEW c, Len(c) \in Nat, NEW h, NEW o, NEW c2, NEW h2, NEW o2, Grows(c, h, o, c2, h2, o2),
         NEW locs, NEW dep, NEW ns, NEW g, Nest(c, locs, dep, ns, h, o, g),
         NEW locs2, Extends(locs, locs2, dep),
         NEW con \in Construction, Shape(con), NEW f \in Frame,
         f.depth = dep + Levels(con), f.before = Len(locs), Len(c) + 1 <= f.first,
         \A s \in 1 .. Len(locs2) : locs2[s].depth <= f.depth,
         Layer(locs2, con, f), Known(c2, h2, o2, locs2, con, f),
         NEW g2, Puts(g, Len(ns), f, g2)
  PROVE  Nest(c2, locs2, f.depth, Append(ns, con), h2, o2, g2)
<1>1. /\ locs \in Seq(Local) /\ Len(locs) \in Nat /\ ns \in Seq(Construction) /\ Len(ns) \in Nat
      /\ g \in [Nat -> Frame] /\ dep \in Nat /\ dep = g[Len(ns)].depth
  BY NestIs
<1>2. PICK m \in Nat : m = Len(ns) + 1
  BY <1>1
<1>4. PICK n2 : n2 = Append(ns, con)
  OBVIOUS
<1>5. /\ g2 \in [Nat -> Frame] /\ g2[m] = f /\ \A x \in 0 .. Len(ns) : g2[x] = g[x]
      /\ n2 \in Seq(Construction) /\ Len(n2) = m /\ n2[m] = con
      /\ \A x \in 1 .. Len(ns) : n2[x] = ns[x]
  BY <1>1, <1>2, <1>4, Appended DEF Puts
<1>6. \A x \in 1 .. m :
        x # m => /\ x \in 1 .. Len(ns) /\ n2[x] = ns[x]
                 /\ g2[x] = g[x] /\ g2[x - 1] = g[x - 1]
  <2>1. \A x \in 1 .. m : x = m \/ x \in 1 .. Len(ns)
    BY <1>1, <1>2
  <2>2. \A x \in 1 .. Len(ns) : x \in 0 .. Len(ns) /\ x - 1 \in 0 .. Len(ns)
    BY <1>1
  <2>3. \A x \in 1 .. Len(ns) : n2[x] = ns[x] /\ g2[x] = g[x] /\ g2[x - 1] = g[x - 1]
    BY <2>2, <1>5
  <2> SUFFICES ASSUME NEW x \in 1 .. m, x # m
               PROVE  /\ x \in 1 .. Len(ns) /\ n2[x] = ns[x] /\ g2[x] = g[x]
                      /\ g2[x - 1] = g[x - 1]
    OBVIOUS
  <2>4. x \in 1 .. Len(ns)
    BY <2>1
  <2> QED BY <2>3, <2>4
<1>7. \A x \in 1 .. Len(ns) :
        /\ ns[x] \in Construction /\ g[x] \in Frame /\ g[x].depth \in Nat
        /\ g[x].base \in Nat /\ g[x].first \in Nat /\ g[x].base <= Len(locs) /\ g[x].depth <= dep
  BY NestIs
<1>8. \A x \in 1 .. m : Layer(locs2, n2[x], g2[x]) /\ Known(c2, h2, o2, locs2, n2[x], g2[x])
  <2> SUFFICES ASSUME NEW x \in 1 .. m
               PROVE  Layer(locs2, n2[x], g2[x]) /\ Known(c2, h2, o2, locs2, n2[x], g2[x])
    OBVIOUS
  <2>1. CASE x = m
    BY <2>1, <1>5
  <2>2. CASE x # m
    <3>1. x \in 1 .. Len(ns) /\ n2[x] = ns[x] /\ g2[x] = g[x]
      BY <2>2, <1>6
    <3>2. Layer(locs, ns[x], g[x]) /\ Known(c, h, o, locs, ns[x], g[x])
      BY <3>1 DEF Nest
    <3> QED BY <3>1, <3>2, <1>1, <1>7, PartGrows
  <2> QED BY <2>1, <2>2
<1>9. \A x \in 1 .. m : Shape(n2[x]) /\ g2[x].depth = g2[x - 1].depth + Levels(n2[x])
  <2> SUFFICES ASSUME NEW x \in 1 .. m
               PROVE  Shape(n2[x]) /\ g2[x].depth = g2[x - 1].depth + Levels(n2[x])
    OBVIOUS
  <2>1. CASE x = m
    <3>1. x - 1 = Len(ns) /\ Len(ns) \in 0 .. Len(ns)
      BY <2>1, <1>1, <1>2
    <3>2. g2[x - 1] = g[Len(ns)]
      BY <3>1, <1>5
    <3> QED BY <2>1, <3>2, <1>1, <1>5
  <2>2. CASE x # m
    <3>1. x \in 1 .. Len(ns) /\ n2[x] = ns[x] /\ g2[x] = g[x] /\ g2[x - 1] = g[x - 1]
      BY <2>2, <1>6
    <3> QED BY <3>1 DEF Nest, Chain
  <2> QED BY <2>1, <2>2
<1>10. \A x, y \in 1 .. m : x < y => Below(g2[x], g2[y])
  <2> SUFFICES ASSUME NEW x \in 1 .. m, NEW y \in 1 .. m, x < y PROVE Below(g2[x], g2[y])
    OBVIOUS
  <2>1. x # m /\ x \in 1 .. Len(ns) /\ g2[x] = g[x]
    BY <1>6, <1>2
  <2>2. CASE y = m
    <3>1. g[x].base <= f.before
      BY <2>1, <1>7
    <3>2. g[x].first <= f.first
      <4>1. g[x].first \in 1 .. Len(c) + 1
        BY <2>1 DEF Nest, Known
      <4>2. f.first \in Nat /\ Len(c) + 1 <= f.first
        BY DEF Frame
      <4> QED BY <4>1, <4>2
    <3>3. g[x].depth <= f.depth
      <4>1. dep <= f.depth
        BY <1>1 DEF Levels
      <4>2. g[x].depth <= dep /\ g[x].depth \in Nat
        BY <2>1, <1>7
      <4>3. f.depth \in Nat
        BY DEF Frame
      <4> QED BY <4>1, <4>2, <4>3, <1>1
    <3> QED BY <2>1, <2>2, <3>1, <3>2, <3>3, <1>5 DEF Below
  <2>3. CASE y # m
    <3>1. y \in 1 .. Len(ns) /\ g2[y] = g[y]
      BY <2>3, <1>6
    <3> QED BY <2>1, <3>1 DEF Nest, Chain
  <2> QED BY <2>2, <2>3
<1>11. Chain(locs2, f.depth, n2, g2)
  <2>1. locs2 \in Seq(Local)
    BY DEF Extends
  <2> QED BY <2>1, <1>5, <1>9, <1>10 DEF Chain
<1>12. Nest(c2, locs2, f.depth, n2, h2, o2, g2)
  BY <1>5, <1>8, <1>11 DEF Nest
<1> QED BY <1>4, <1>12

(* A statement ends. *)
LEMMA NestPops ==
  ASSUME NEW c, Len(c) \in Nat, NEW h, NEW o, NEW c2, NEW h2, NEW o2, Grows(c, h, o, c2, h2, o2),
         NEW locs, NEW dep, NEW ns, NEW g, Nest(c, locs, dep, ns, h, o, g), ns # <<>>,
         NEW n, n = g[Len(ns)].before
  PROVE  /\ n \in 0 .. Len(locs)
         /\ Captured(SubSeq(locs, 1, n)) = Captured(locs) \cap (1 .. n)
         /\ Nest(c2, SubSeq(locs, 1, n), dep - Levels(Last(ns)), Front(ns), h2, o2, g)
<1>1. /\ locs \in Seq(Local) /\ Len(locs) \in Nat /\ ns \in Seq(Construction) /\ Len(ns) \in Nat
      /\ g \in [Nat -> Frame] /\ dep \in Nat /\ dep = g[Len(ns)].depth
  BY NestIs
<1>2. PICK m \in Nat : m = Len(ns) /\ m \in 1 .. m /\ Last(ns) = ns[m]
  BY <1>1, FrontIs
<1>3. PICK front \in Seq(Construction) :
        front = Front(ns) /\ Len(front) = m - 1 /\ \A x \in 1 .. m - 1 : front[x] = ns[x]
  BY <1>1, <1>2, FrontIs
<1>4. \A x \in 1 .. m : /\ ns[x] \in Construction /\ g[x] \in Frame /\ g[x].depth \in Nat
                        /\ g[x].base \in Nat /\ g[x].before \in Nat
                        /\ g[x].base <= Len(locs) /\ g[x].before <= g[x].base /\ g[x].depth <= dep
  BY <1>2, NestIs
<1>5. n \in 0 .. Len(locs) /\ n \in Nat
  BY <1>1, <1>2, <1>4
<1>6. PICK k : k = SubSeq(locs, 1, n)
  OBVIOUS
<1>7. k \in Seq(Local) /\ Len(k) = n /\ \A s \in 1 .. n : s \in 1 .. Len(locs) /\ k[s] = locs[s]
  BY <1>1, <1>5, <1>6
<1>8. Captured(k) = Captured(locs) \cap (1 .. n)
  BY <1>7 DEF Captured
<1>9. \A x \in 1 .. m - 1 : x \in 1 .. m /\ Below(g[x], g[m]) /\ g[x].base <= n
  <2>1. \A x \in 1 .. m - 1 : x \in 1 .. m /\ x < m
    BY <1>2
  <2>2. \A x \in 1 .. m - 1 : Below(g[x], g[m])
    BY <2>1, <1>2 DEF Nest, Chain
  <2> QED BY <2>1, <2>2, <1>2 DEF Below
<1>10. ASSUME NEW x \in 1 .. m - 1
       PROVE  Layer(k, front[x], g[x]) /\ Known(c2, h2, o2, k, front[x], g[x])
  <2>1. front[x] = ns[x] /\ x \in 1 .. m /\ g[x].base <= n /\ ns[x] \in Construction /\ g[x] \in Frame
    BY <1>3, <1>4, <1>9
  <2>2. Layer(locs, ns[x], g[x]) /\ Known(c, h, o, locs, ns[x], g[x])
    BY <2>1, <1>2 DEF Nest
  <2>3. Layer(k, ns[x], g[x]) /\ Known(c, h, o, k, ns[x], g[x])
    BY <2>1, <2>2, <1>1, <1>5, <1>6, PartShrinks
  <2>4. Extends(k, k, dep)
    BY <1>7 DEF Extends
  <2>5. g[x].depth <= dep
    BY <2>1, <1>4
  <2>6. Layer(k, ns[x], g[x]) /\ Known(c2, h2, o2, k, ns[x], g[x])
    BY <2>1, <2>3, <2>4, <2>5, <1>1, <1>7, PartGrows
  <2> QED BY <2>1, <2>6
<1>11. PICK d : d = dep - Levels(ns[m])
  OBVIOUS
<1>12. d = g[m - 1].depth
  <2>1. g[m].depth = g[m - 1].depth + Levels(ns[m])
    BY <1>2 DEF Nest, Chain
  <2>2. m - 1 \in Nat
    BY <1>2
  <2>3. g[m - 1].depth \in Nat
    BY <2>2, <1>1 DEF Frame
  <2> QED BY <2>1, <2>3, <1>1, <1>2, <1>11 DEF Levels
<1>13. ASSUME NEW s \in 1 .. n PROVE k[s].depth <= d
  <2>1. Layer(locs, ns[m], g[m]) /\ s \in 1 .. Len(locs) /\ k[s] = locs[s]
    BY <1>2, <1>7 DEF Nest
  <2>2. locs[s].depth \in Int /\ g[m].depth \in Nat /\ g[m].depth = dep
    <3>1. locs[s] \in Local
      BY <2>1, <1>1
    <3> QED BY <3>1, <1>1, <1>2, <1>4 DEF Local
  <2>3. n <= g[m].base /\ n = g[m].before /\ g[m].base \in Nat
    BY <1>2, <1>4
  <2>6. s <= g[m].base
    BY <2>3, <1>5
  <2>4. CASE ns[m].kind = "FOR"
    <3>1. locs[s].depth < g[m].depth - 1
      BY <2>1, <2>3, <2>4 DEF Layer
    <3> QED BY <3>1, <2>1, <2>2, <2>4, <1>11 DEF Levels
  <2>5. CASE ns[m].kind # "FOR"
    <3>1. locs[s].depth < g[m].depth
      BY <2>1, <2>6 DEF Layer
    <3> QED BY <3>1, <2>1, <2>2, <2>5, <1>11 DEF Levels
  <2> QED BY <2>4, <2>5
<1>14. Chain(k, d, front, g)
  <2>1. \A x \in 1 .. m - 1 : Shape(front[x]) /\ g[x].depth = g[x - 1].depth + Levels(front[x])
    BY <1>2, <1>3, <1>9 DEF Nest, Chain
  <2>2. \A x, y \in 1 .. m - 1 : x < y => Below(g[x], g[y])
    BY <1>2, <1>9 DEF Nest, Chain
  <2> QED BY <2>1, <2>2, <1>1, <1>3, <1>7, <1>12, <1>13 DEF Chain
<1>15. Nest(c2, k, d, front, h2, o2, g)
  BY <1>3, <1>10, <1>14 DEF Nest
<1> QED BY <1>2, <1>3, <1>5, <1>6, <1>8, <1>11, <1>15


-----------------------------------------------------------------------------
(* What the statements are made of.                                        *)

LEMMA LoopsLow ==
  ASSUME NEW c, NEW locs, NEW dep, NEW ns, NEW h, NEW o, NEW g, Nest(c, locs, dep, ns, h, o, g)
  PROVE  /\ \A r \in LoopsOf(ns, g) : r[2] <= Len(locs)
         /\ ns # <<>> => /\ \A r \in LoopsOf(ns, g) : /\ r[2] <= g[Len(ns)].base
                                                      /\ r[1] <= g[Len(ns)].first
                         /\ \A r \in LoopsOf(Front(ns), g) : r[2] <= g[Len(ns)].before
<1>1. /\ locs \in Seq(Local) /\ Len(locs) \in Nat /\ ns \in Seq(Construction) /\ Len(ns) \in Nat
      /\ g \in [Nat -> Frame]
  BY NestIs
<1>2. \A r \in LoopsOf(ns, g) : \E x \in 1 .. Len(ns) : r[1] = g[x].first /\ r[2] = g[x].base
  BY DEF LoopsOf
<1>3. \A x \in 1 .. Len(ns) : /\ g[x].base \in Nat /\ g[x].before \in Nat /\ g[x].first \in Nat
                              /\ g[x].base <= Len(locs) /\ g[x].before <= g[x].base
  BY NestIs
<1>4. ASSUME ns # <<>>
      PROVE  /\ \A r \in LoopsOf(ns, g) : /\ r[2] <= g[Len(ns)].base /\ r[1] <= g[Len(ns)].first
             /\ \A r \in LoopsOf(Front(ns), g) : r[2] <= g[Len(ns)].before
  <2>1. PICK m \in Nat : m = Len(ns) /\ m \in 1 .. m
    BY <1>1, <1>4, FrontIs
  <2>2. \A x \in 1 .. m : x # m => g[x].base <= g[m].before /\ g[x].first <= g[m].first
    BY <2>1 DEF Nest, Chain, Below
  <2>3. \A x \in 1 .. m : g[x].base <= g[m].base /\ g[x].first <= g[m].first
    <3> SUFFICES ASSUME NEW x \in 1 .. m PROVE g[x].base <= g[m].base /\ g[x].first <= g[m].first
      OBVIOUS
    <3>1. CASE x = m
      BY <3>1, <2>1, <1>3
    <3>2. CASE x # m
      BY <3>2, <2>1, <2>2, <1>3
    <3> QED BY <3>1, <3>2
  <2>4. \A r \in LoopsOf(Front(ns), g) : r[2] <= g[m].before
    <3>1. Len(Front(ns)) = m - 1
      BY <1>1, <1>4, <2>1, FrontIs
    <3>2. \A r \in LoopsOf(Front(ns), g) : \E x \in 1 .. m - 1 : r[2] = g[x].base
      BY <3>1 DEF LoopsOf
    <3>3. \A x \in 1 .. m - 1 : x \in 1 .. m /\ x # m
      BY <2>1
    <3> QED BY <3>2, <3>3, <2>2
  <2> QED BY <2>1, <2>3, <2>4, <1>2
<1> QED BY <1>2, <1>3, <1>4

(* The locals below the first n are those of a lower depth. *)
LEMMA CountedBelow ==
  ASSUME NEW locs \in Seq(Local), NEW d, NEW n \in 0 .. Len(locs),
         \A s \in 1 .. Len(locs) : locs[s].depth < d <=> s <= n
  PROVE  Cardinality({i \in DOMAIN locs : locs[i].depth < d}) = n
<1>1. n \in Nat /\ Len(locs) \in Nat /\ n <= Len(locs)
  OBVIOUS
<1>2. DOMAIN locs = 1 .. Len(locs)
  OBVIOUS
<1>3. {i \in DOMAIN locs : locs[i].depth < d} = 1 .. n
  <2>1. \A i \in DOMAIN locs : locs[i].depth < d <=> i \in 1 .. n
    BY <1>1, <1>2
  <2>2. \A i \in 1 .. n : i \in DOMAIN locs
    BY <1>1, <1>2
  <2> QED BY <2>1, <2>2
<1>4. Cardinality(1 .. n) = n
  BY <1>1, FS_Interval
<1> QED BY <1>3, <1>4

(* The end of the innermost block. *)
LEMMA ScopeEnds ==
  ASSUME NEW c, NEW locs, NEW dep, NEW ns, NEW h, NEW o, NEW g,
         Well(c, locs, dep, ns, h, o, g), ns # <<>>,
         NEW b, b = g[Len(ns)].base
  PROVE  /\ b \in 0 .. Len(locs)
         /\ Cardinality({i \in DOMAIN locs : locs[i].depth < dep}) = b
         /\ \E h2, o2 : /\ Draft(c \o Removal(locs, b), h2, o2, Pendings(ns), LoopsOf(ns, g))
                        /\ Grows(c, h, o, c \o Removal(locs, b), h2, o2)
                        /\ AtEnd(c \o Removal(locs, b), h2, o2, b, Captured(locs) \cap (1 .. b))
<1>1. Nest(c, locs, dep, ns, h, o, g)
  BY DEF Well
<1>2. /\ locs \in Seq(Local) /\ Len(locs) \in Nat /\ ns \in Seq(Construction) /\ Len(ns) \in Nat
      /\ dep = g[Len(ns)].depth
  BY <1>1, NestIs
<1>3. PICK m \in Nat : m = Len(ns) /\ m \in 1 .. m
  BY <1>2, FrontIs
<1>4. b \in 0 .. Len(locs)
  <2>1. g[m].base \in Nat /\ g[m].base <= Len(locs)
    BY <1>1, <1>3, NestIs
  <2> QED BY <2>1, <1>2, <1>3
<1>5. \A s \in 1 .. Len(locs) : locs[s].depth < dep <=> s <= b
  <2>1. Layer(locs, ns[m], g[m])
    BY <1>1, <1>3 DEF Nest
  <2> QED BY <2>1, <1>2, <1>3 DEF Layer
<1>6. Cardinality({i \in DOMAIN locs : locs[i].depth < dep}) = b
  BY <1>2, <1>4, <1>5, CountedBelow
<1>7. \A r \in LoopsOf(ns, g) : r[2] <= b
  BY <1>1, LoopsLow
<1>8. Draft(c, h, o, Pendings(ns), LoopsOf(ns, g)) /\ AtEnd(c, h, o, Len(locs), Captured(locs))
  BY DEF Well
<1>9. \E h2, o2 : /\ Draft(c \o Removal(locs, b), h2, o2, Pendings(ns), LoopsOf(ns, g))
                  /\ Grows(c, h, o, c \o Removal(locs, b), h2, o2)
                  /\ AtEnd(c \o Removal(locs, b), h2, o2, b, Captured(locs) \cap (1 .. b))
  BY <1>2, <1>4, <1>7, <1>8, RemovalKeeps
<1> QED BY <1>4, <1>6, <1>9

LEMMA Ended ==
  ASSUME NEW c, Len(c) \in Nat, NEW locs, NEW dep, NEW ns, NEW h, NEW o, NEW g,
         Nest(c, locs, dep, ns, h, o, g), ns # <<>>,
         NEW n, n = g[Len(ns)].before,
         NEW c2, NEW h2, NEW o2, Grows(c, h, o, c2, h2, o2),
         NEW loops, LoopsOf(Front(ns), g) \subseteq loops,
         Draft(c2, h2, o2, Pendings(Front(ns)), loops),
         AtEnd(c2, h2, o2, n, Captured(locs) \cap (1 .. n))
  PROVE  Well(c2, SubSeq(locs, 1, n), dep - Levels(Last(ns)), Front(ns), h2, o2, g)
<1>1. /\ n \in 0 .. Len(locs)
      /\ Captured(SubSeq(locs, 1, n)) = Captured(locs) \cap (1 .. n)
      /\ Nest(c2, SubSeq(locs, 1, n), dep - Levels(Last(ns)), Front(ns), h2, o2, g)
  BY NestPops
<1>2. Len(SubSeq(locs, 1, n)) = n
  <2>1. locs \in Seq(Local)
    BY NestIs
  <2> QED BY <2>1, <1>1
<1>3. Draft(c2, h2, o2, Pendings(Front(ns)), LoopsOf(Front(ns), g))
  BY LoopsShrink
<1> QED BY <1>1, <1>2, <1>3 DEF Well

(* An instruction that does not jump, and what it leaves in the frame. *)
LEMMA Straight ==
  ASSUME NEW c, NEW locs, NEW dep, NEW ns, NEW h, NEW o, NEW g,
         Well(c, locs, dep, ns, h, o, g),
         NEW locs2, Extends(locs, locs2, dep), \A s \in 1 .. Len(locs2) : locs2[s].depth <= dep,
         NEW instr \in Instruction, ~ IsJump(instr), instr.locals \in {Unknown, Len(locs)},
         GoesOn(instr) =>
           /\ Len(locs2) = HeightAfter(instr, Len(locs))
           /\ OpenAfter(instr, Len(locs), Captured(locs)) \subseteq Captured(locs2)
  PROVE  \E h2, o2 : Well(Append(c, instr), locs2, dep, ns, h2, o2, g)
<1>1. /\ Draft(c, h, o, Pendings(ns), LoopsOf(ns, g)) /\ AtEnd(c, h, o, Len(locs), Captured(locs))
      /\ Nest(c, locs, dep, ns, h, o, g)
  BY DEF Well
<1>0. PICK n \in Nat : n = Len(locs2)
  BY DEF Extends
<1>2. PICK s \in SUBSET (1 .. n) : n = Len(locs2) /\ s = Captured(locs2)
  BY <1>0 DEF Captured
<1>3. \A r \in LoopsOf(ns, g) : r[2] <= n
  <2>1. \A r \in LoopsOf(ns, g) : r[2] <= Len(locs) /\ r[2] \in Nat
    BY <1>1, LoopsLow DEF Draft, Stays
  <2>2. Len(locs) \in Nat /\ Len(locs) <= n
    BY <1>1, <1>2, NestIs DEF Extends
  <2> QED BY <2>1, <2>2
<1>4. PICK jumps : jumps = Pendings(ns)
  OBVIOUS
<1>5. jumps = IF IsJump(instr) /\ instr.arg = NoInstr THEN jumps \cup {Len(c) + 1} ELSE jumps
  OBVIOUS
<1>6. PICK h2, o2 : /\ Draft(Append(c, instr), h2, o2, jumps, LoopsOf(ns, g))
                    /\ Grows(c, h, o, Append(c, instr), h2, o2)
                    /\ AtEnd(Append(c, instr), h2, o2, n, s)
  BY <1>1, <1>2, <1>3, <1>4, <1>5, Emitted
<1>7. Len(c) \in Nat
  BY <1>1 DEF Draft
<1>8. Nest(Append(c, instr), locs2, dep, ns, h2, o2, g)
  BY <1>1, <1>6, <1>7, NestGrows
<1> QED BY <1>2, <1>4, <1>6, <1>8 DEF Well

(* A function captures a local that was there. *)
LEMMA Capture ==
  ASSUME NEW c, NEW locs, NEW dep, NEW ns, NEW h, NEW o, NEW g,
         Well(c, locs, dep, ns, h, o, g), NEW k \in 1 .. Len(locs),
         NEW locs2 \in Seq(Local), Len(locs2) = Len(locs),
         \A s \in 1 .. Len(locs) : locs2[s].depth = locs[s].depth,
         Captured(locs2) = Captured(locs) \cup {k}
  PROVE  \E o2 : Well(c, locs2, dep, ns, h, o2, g)
<1>1. /\ Draft(c, h, o, Pendings(ns), LoopsOf(ns, g)) /\ AtEnd(c, h, o, Len(locs), Captured(locs))
      /\ Nest(c, locs, dep, ns, h, o, g)
  BY DEF Well
<1>2. /\ locs \in Seq(Local) /\ Len(locs) \in Nat /\ ns \in Seq(Construction) /\ Len(ns) \in Nat
      /\ g \in [Nat -> Frame] /\ dep \in Nat /\ dep = g[Len(ns)].depth
  BY <1>1, NestIs
<1>3. PICK n \in Nat : n = Len(c)
  <2>1. c \in Seq(Instruction)
    BY <1>1 DEF Draft
  <2> QED BY <2>1
<1>4. /\ locs2 \in Seq(Local) /\ Len(locs2) = Len(locs)
      /\ \A s \in 1 .. Len(locs) : locs2[s].depth = locs[s].depth
      /\ Captured(locs2) = Captured(locs) \cup {k}
  OBVIOUS
<1>5. PICK loops : loops = LoopsOf(ns, g) \cup {<<n + 1, Len(locs)>>}
  OBVIOUS
<1>6. Draft(c, h, o, Pendings(ns), loops)
  BY <1>1, <1>2, <1>3, <1>5, LoopBegins
<1>7. \A q \in loops : q[1] \in 1 .. n + 1 /\ q[1] \in Nat /\ q[2] \in Nat
                       /\ \A i \in q[1] .. n + 1 : h[i] >= q[2]
  <2>1. \A q \in loops : Stays(c, h, q)
    BY <1>6 DEF Draft
  <2> QED BY <2>1, <1>3 DEF Stays
<1>8. PICK r \in loops : k <= r[2] /\ \A q \in loops : k <= q[2] => r[1] <= q[1]
  <2>1. PICK fits : fits = {q[1] : q \in {p \in loops : k <= p[2]}}
    OBVIOUS
  <2>2. fits \subseteq Nat
    BY <2>1, <1>7
  <2>3. fits # {}
    <3>1. PICK p : p = <<n + 1, Len(locs)>>
      OBVIOUS
    <3>2. p \in loops /\ k <= p[2]
      BY <3>1, <1>5
    <3> QED BY <3>2, <2>1
  <2>4. PICK a \in fits : \A x \in fits : a <= x
    BY <2>2, <2>3, LeastMember
  <2>5. PICK r \in loops : k <= r[2] /\ a = r[1]
    BY <2>1, <2>4
  <2>6. \A q \in loops : k <= q[2] => q[1] \in fits
    BY <2>1
  <2> QED BY <2>4, <2>5, <2>6
<1>9. PICK o2 : o2 = [i \in Nat |-> IF i >= r[1] THEN o[i] \cup {k} ELSE o[i]]
  OBVIOUS
<1>10. Draft(c, h, o2, Pendings(ns), LoopsOf(ns, g))
  <2>1. k \in Nat /\ 1 <= k
    BY <1>2
  <2>2. Draft(c, h, o2, Pendings(ns), loops)
    BY <2>1, <1>6, <1>8, <1>9, CaptureKeeps
  <2> QED BY <2>2, <1>5, LoopsShrink
<1>11. \A i \in Nat : i >= r[1] => o2[i] = o[i] \cup {k}
  BY <1>9
<1>12. \A i \in Nat : o2[i] = o[i] \/ (i >= r[1] /\ o2[i] = o[i] \cup {k})
  BY <1>9
<1>13. AtEnd(c, h, o2, Len(locs2), Captured(locs2))
  <2>1. n + 1 \in Nat /\ n + 1 >= r[1]
    BY <1>7
  <2>2. o2[n + 1] = o[n + 1] \cup {k}
    BY <2>1, <1>11
  <2> QED BY <2>2, <1>1, <1>3, <1>4 DEF AtEnd
<1>14. Chain(locs2, dep, ns, g)
  BY <1>1, <1>4 DEF Nest, Chain
<1>15. ASSUME NEW x \in 1 .. Len(ns) PROVE Layer(locs2, ns[x], g[x])
  <2>1. Layer(locs, ns[x], g[x])
    BY <1>1 DEF Nest
  <2> QED BY <2>1, <1>4 DEF Layer
<1>16. ASSUME NEW x \in 1 .. Len(ns) PROVE Known(c, h, o2, locs2, ns[x], g[x])
  <2>1. Known(c, h, o, locs, ns[x], g[x])
    BY <1>1 DEF Nest
  <2>2. PICK b \in Nat : b = g[x].base
    BY <1>1, NestIs
  <2>3. PICK f \in Nat : f = g[x].first
    BY <1>1, NestIs
  <2>4. ASSUME NEW i \in Pending(ns[x])
        PROVE  i \in 1 .. n /\ h[i] = b /\ o2[i] \subseteq Captured(locs2) \cap (1 .. b)
    <3>1. i \in 1 .. n /\ i \in Nat /\ h[i] = b /\ o[i] \subseteq Captured(locs) \cap (1 .. b)
      BY <2>1, <2>2, <1>3 DEF Known
    <3>2. CASE o2[i] = o[i]
      BY <3>1, <3>2, <1>4
    <3>3. CASE i >= r[1] /\ o2[i] = o[i] \cup {k}
      <4>1. i \in r[1] .. n + 1
        BY <3>1, <3>3, <1>7
      <4>2. b >= r[2] /\ r[2] \in Nat
        BY <4>1, <3>1, <1>7
      <4>3. k \in 1 .. b
        BY <4>2, <1>2, <1>8
      <4> QED BY <4>3, <3>1, <3>3, <1>4
    <3> QED BY <3>1, <3>2, <3>3, <1>12
  <2>5. ASSUME IsLoop(ns[x])
        PROVE  /\ ns[x].start \in f .. n + 1 /\ h[ns[x].start] = b
               /\ Captured(locs2) \cap (1 .. b) \subseteq o2[ns[x].start]
    <3>1. /\ ns[x].start \in f .. n + 1 /\ h[ns[x].start] = b
          /\ Captured(locs) \cap (1 .. b) \subseteq o[ns[x].start]
      BY <2>1, <2>2, <2>3, <2>5, <1>3 DEF Known
    <3>2. PICK i \in Nat : i = ns[x].start /\ f <= i
      BY <3>1
    <3>3. o[i] \subseteq o2[i]
      BY <3>2, <1>12
    <3>4. ASSUME k <= b PROVE k \in o2[i]
      <4>1. PICK q : q = <<g[x].first, g[x].base>>
        OBVIOUS
      <4>2. q \in loops /\ q[1] = f /\ q[2] = b
        BY <4>1, <2>2, <2>3, <2>5, <1>5 DEF LoopsOf
      <4>3. r[1] <= f /\ r[1] \in Nat
        BY <4>2, <3>4, <1>7, <1>8
      <4>4. i >= r[1]
        BY <4>3, <3>2
      <4> QED BY <4>4, <1>11
    <3>5. Captured(locs2) \cap (1 .. b) \subseteq o2[i]
      <4>1. \A s \in Captured(locs2) \cap (1 .. b) :
              s \in Captured(locs) \cap (1 .. b) \/ (s = k /\ k <= b)
        BY <1>4
      <4> QED BY <3>1, <3>2, <3>3, <3>4, <4>1
    <3> QED BY <3>1, <3>2, <3>5
  <2> QED BY <2>1, <2>2, <2>3, <2>4, <2>5, <1>3 DEF Known
<1>17. Well(c, locs2, dep, ns, h, o2, g)
  BY <1>10, <1>13, <1>14, <1>15, <1>16 DEF Well, Nest
<1> QED BY <1>17


-----------------------------------------------------------------------------
(* The statements of Next.  While a function is compiled, what is emitted  *)
(* so far is understood.                                                   *)

Understood == \E h, o, g : Well(code, locals, scopeDepth, nested, h, o, g)

LEMMA LocalIs ==
  ASSUME NEW d \in Int, NEW b \in BOOLEAN
  PROVE  /\ [depth |-> d, isCaptured |-> b] \in Local /\ [depth |-> d, isCaptured |-> b].depth = d
         /\ [depth |-> d, isCaptured |-> b].isCaptured <=> b
BY DEF Local

LEMMA Declared ==
  ASSUME NEW locs \in Seq(Local), NEW dep \in Nat, \A s \in 1 .. Len(locs) : locs[s].depth <= dep,
         NEW e \in Local, dep <= e.depth
  PROVE  /\ Extends(locs, Append(locs, e), dep) /\ Len(Append(locs, e)) = Len(locs) + 1
         /\ Append(locs, e) \in Seq(Local)
         /\ \A s \in 1 .. Len(Append(locs, e)) : Append(locs, e)[s].depth <= e.depth
         /\ \A s \in 1 .. Len(locs) : Append(locs, e)[s] = locs[s]
         /\ Append(locs, e)[Len(locs) + 1] = e
         /\ ~ e.isCaptured => Captured(Append(locs, e)) = Captured(locs)
<1>1. locs \in Seq(Local) /\ Len(locs) \in Nat /\ dep \in Nat
  OBVIOUS
<1>3. PICK locs2 : locs2 = Append(locs, e)
  OBVIOUS
<1>9. PICK d \in Int : d = e.depth /\ dep <= d
  BY DEF Local
<1>2. \A s \in 1 .. Len(locs) : locs[s].depth <= dep
  OBVIOUS
<1>4. /\ locs2 \in Seq(Local) /\ Len(locs2) = Len(locs) + 1 /\ locs2[Len(locs) + 1] = e
      /\ \A s \in 1 .. Len(locs) : locs2[s] = locs[s]
  BY <1>1, <1>3, AppendProperties
<1>5. \A s \in 1 .. Len(locs2) : s \in 1 .. Len(locs) \/ s = Len(locs) + 1
  BY <1>1, <1>4
<1>6. ASSUME NEW s \in 1 .. Len(locs2)
      PROVE  locs2[s].depth <= d /\ (s > Len(locs) => locs2[s].depth >= dep)
  <2>1. CASE s \in 1 .. Len(locs)
    <3>1. locs2[s] = locs[s] /\ locs[s] \in Local /\ locs[s].depth <= dep
      BY <2>1, <1>1, <1>2, <1>4
    <3>2. locs[s].depth \in Int
      BY <3>1 DEF Local
    <3> QED BY <2>1, <3>1, <3>2, <1>1, <1>9
  <2>2. CASE s = Len(locs) + 1
    BY <2>2, <1>1, <1>4, <1>9
  <2> QED BY <2>1, <2>2, <1>5
<1>7. Extends(locs, locs2, dep)
  BY <1>1, <1>4, <1>6 DEF Extends
<1>8. ASSUME ~ e.isCaptured PROVE Captured(locs2) = Captured(locs)
  <2>1. \A s \in 1 .. Len(locs) : s \in 1 .. Len(locs2)
    BY <1>1, <1>4
  <2>2. \A s \in Captured(locs2) : s \in Captured(locs)
    BY <1>4, <1>5, <1>8 DEF Captured
  <2>3. \A s \in Captured(locs) : s \in Captured(locs2)
    BY <2>1, <1>4 DEF Captured
  <2> QED BY <2>2, <2>3
<1> QED BY <1>3, <1>4, <1>6, <1>7, <1>8, <1>9

LEMMA VarKeeps ==
  ASSUME Understood, VarDeclaration
  PROVE  Understood'
<1>1. PICK h, o, g : Well(code, locals, scopeDepth, nested, h, o, g)
  BY DEF Understood
<1>2. Nest(code, locals, scopeDepth, nested, h, o, g)
  BY <1>1 DEF Well
<1>3. PICK instr : instr = Instr("VALUE", 0, Len(locals))
  OBVIOUS
<1>4. /\ code' = Append(code, instr) /\ scopeDepth' = scopeDepth /\ nested' = nested
      /\ locals' = Append(locals, [depth |-> scopeDepth, isCaptured |-> FALSE])
  BY <1>3 DEF VarDeclaration, Emit, Declare
<1>5. /\ locals \in Seq(Local) /\ Len(locals) \in Nat /\ scopeDepth \in Nat
      /\ \A s \in 1 .. Len(locals) : locals[s].depth <= scopeDepth
  BY <1>2, NestIs
<1>6. instr \in Instruction /\ instr.op = "VALUE" /\ instr.locals = Len(locals)
  <2>1. "VALUE" \in Ops
    BY DEF Ops
  <2> QED BY <2>1, <1>3, <1>5, InstrIs
<1>7. ~ IsJump(instr) /\ GoesOn(instr) /\ \A n, s : HeightAfter(instr, n) = n + 1 /\ OpenAfter(instr, n, s) = s
  BY <1>6 DEF IsJump, GoesOn, JumpOps, PlainOps, HeightAfter, OpenAfter
<1>11. PICK e \in Local : e = [depth |-> scopeDepth, isCaptured |-> FALSE] /\ e.depth = scopeDepth
                          /\ ~ e.isCaptured
  <2>1. scopeDepth \in Int
    BY <1>5
  <2> QED BY <2>1, LocalIs, Zenon
<1>8. PICK locs2 : locs2 = Append(locals, e)
  OBVIOUS
<1>9. /\ Extends(locals, locs2, scopeDepth) /\ \A s \in 1 .. Len(locs2) : locs2[s].depth <= scopeDepth
      /\ Len(locs2) = Len(locals) + 1 /\ Captured(locs2) = Captured(locals)
  <2>1. scopeDepth <= scopeDepth
    BY <1>5
  <2>2. /\ Extends(locals, locs2, scopeDepth)
        /\ Len(locs2) = Len(locals) + 1 /\ \A s \in 1 .. Len(locs2) : locs2[s].depth <= scopeDepth
        /\ ~ e.isCaptured => Captured(locs2) = Captured(locals)
    BY ONLY <2>1, <1>5, <1>8, <1>11, Declared
  <2> QED BY <2>2, <1>11
<1>10. \E h2, o2 : Well(Append(code, instr), locs2, scopeDepth, nested, h2, o2, g)
  BY <1>1, <1>6, <1>7, <1>9, Straight
<1> QED BY <1>4, <1>8, <1>10, <1>11 DEF Understood

(* A function captures a local that was there, or itself. *)
LEMMA FunKeeps ==
  ASSUME Understood, FunDeclaration
  PROVE  Understood'
<1>1. PICK h0, o0, g : Well(code, locals, scopeDepth, nested, h0, o0, g)
  BY DEF Understood
<1>2. Nest(code, locals, scopeDepth, nested, h0, o0, g)
  BY <1>1 DEF Well
<1>3. /\ locals \in Seq(Local) /\ Len(locals) \in Nat /\ scopeDepth \in Nat
      /\ \A s \in 1 .. Len(locals) : locals[s].depth <= scopeDepth
  BY <1>2, NestIs
<1>4. PICK k \in 2 .. Len(locals) + 1 :
        /\ code' = Append(code, Instr("CLOSURE", k, Len(locals)))
        /\ locals' = [Append(locals, [depth |-> scopeDepth, isCaptured |-> FALSE])
                        EXCEPT ![k].isCaptured = TRUE]
  BY DEF FunDeclaration, Emit
<1>5. scopeDepth' = scopeDepth /\ nested' = nested
  BY DEF FunDeclaration
<1>6. PICK instr : instr = Instr("CLOSURE", k, Len(locals))
  OBVIOUS
<1>7. instr \in Instruction /\ instr.op = "CLOSURE" /\ instr.arg = k /\ instr.locals = Len(locals)
  <2>1. "CLOSURE" \in Ops /\ k \in Int
    BY <1>3 DEF Ops
  <2> QED BY <2>1, <1>3, <1>6, InstrIs
<1>8. ~ IsJump(instr) /\ \A i, s : HeightAfter(instr, i) = i + 1 /\ OpenAfter(instr, i, s) = s \cup {k}
  BY <1>7 DEF IsJump, JumpOps, HeightAfter, OpenAfter
<1>9. PICK n \in Nat : n = Len(locals)
  BY <1>3
<1>10. PICK e \in Local : e = [depth |-> scopeDepth, isCaptured |-> FALSE] /\ e.depth = scopeDepth
  <2>1. scopeDepth \in Int
    BY <1>3
  <2> QED BY <2>1, LocalIs, Zenon
<1>11. PICK long : long = Append(locals, e)
  OBVIOUS
<1>12. /\ long \in Seq(Local) /\ Len(long) = n + 1 /\ \A s \in 1 .. n + 1 : long[s].depth <= scopeDepth
       /\ Extends(locals, long, scopeDepth)
  <2>1. scopeDepth <= scopeDepth
    BY <1>3
  <2>2. /\ Extends(locals, long, scopeDepth) /\ long \in Seq(Local)
        /\ Len(long) = Len(locals) + 1 /\ \A s \in 1 .. Len(long) : long[s].depth <= scopeDepth
    BY ONLY <2>1, <1>3, <1>10, <1>11, Declared
  <2> QED BY <2>2, <1>9
<1>13. PICK d \in Local : /\ d = [long[k] EXCEPT !.isCaptured = TRUE]
                          /\ d.depth = long[k].depth /\ d.isCaptured
  <2>1. k \in 1 .. Len(long)
    BY <1>9, <1>12
  <2>2. PICK x \in Local : x = long[k]
    BY <2>1, <1>12
  <2>3. PICK y : y = [x EXCEPT !.isCaptured = TRUE]
    OBVIOUS
  <2>4. y \in Local /\ y.depth = x.depth /\ y.isCaptured
    BY <2>3 DEF Local
  <2> QED BY <2>2, <2>3, <2>4
<1>14. locals' = [long EXCEPT ![k] = d]
  BY <1>4, <1>10, <1>11, <1>13
<1>15. PICK locs2 \in Seq(Local) :
         /\ locs2 = locals' /\ Len(locs2) = n + 1
         /\ \A s \in 1 .. n + 1 : locs2[s] = IF s = k THEN d ELSE long[s]
  <2>1. k \in 1 .. Len(long)
    BY <1>9, <1>12
  <2>2. PICK locs2 : locs2 = [long EXCEPT ![k] = d]
    OBVIOUS
  <2>3. /\ locs2 \in Seq(Local) /\ Len(locs2) = Len(long)
        /\ \A s \in 1 .. Len(long) : locs2[s] = IF s = k THEN d ELSE long[s]
    BY <2>1, <2>2, <1>12, ExceptSeq
  <2> QED BY <2>2, <2>3, <1>12, <1>14
<1>16. /\ k \in Captured(locs2) /\ Captured(locals) \subseteq Captured(locs2)
       /\ \A s \in 1 .. Len(locs2) : locs2[s].depth = long[s].depth /\ locs2[s].depth <= scopeDepth
  <2>1. \A s \in 1 .. n : s \in 1 .. n + 1 /\ long[s] = locals[s]
    BY <1>9, <1>12 DEF Extends
  <2>2. k \in 1 .. n + 1
    BY <1>9
  <2> QED BY <2>1, <2>2, <1>9, <1>12, <1>13, <1>15 DEF Captured
<1>17. ASSUME NEW locs, NEW o, Well(code, locs, scopeDepth, nested, h0, o, g), Len(locs) = n,
             Captured(locs) \subseteq Captured(locs2), \A s \in 1 .. n : locs2[s] = locs[s]
      PROVE  Understood'
  <2>1. \A s \in 1 .. Len(locs2) : s > n => locs2[s].depth >= scopeDepth
    <3>1. \A s \in 1 .. Len(locs2) : s > n => long[s].depth >= scopeDepth
      BY <1>9, <1>12, <1>15 DEF Extends
    <3> QED BY <3>1, <1>16
  <2>2. Extends(locs, locs2, scopeDepth)
    BY <2>1, <1>15, <1>17 DEF Extends
  <2>3. Captured(locs) \cup {k} \subseteq Captured(locs2)
    BY <1>16, <1>17
  <2>4. /\ instr.locals \in {Unknown, Len(locs)} /\ Len(locs2) = HeightAfter(instr, Len(locs))
        /\ OpenAfter(instr, Len(locs), Captured(locs)) \subseteq Captured(locs2)
    BY <2>3, <1>7, <1>8, <1>9, <1>15, <1>17
  <2>5. \E h2, o2 : Well(Append(code, instr), locs2, scopeDepth, nested, h2, o2, g)
    BY <2>2, <2>4, <1>7, <1>8, <1>16, <1>17, Straight
  <2>6. code' = Append(code, instr)
    BY <1>4, <1>6
  <2> QED BY <2>5, <2>6, <1>5, <1>15 DEF Understood
<1>18. CASE k = n + 1
  <2>1. \A s \in 1 .. n : locs2[s] = locals[s]
    BY <1>9, <1>12, <1>15, <1>18 DEF Extends
  <2> QED BY <2>1, <1>1, <1>9, <1>16, <1>17
<1>19. CASE k # n + 1
  <2>1. k \in 1 .. n
    BY <1>9, <1>19
  <2>2. PICK locs \in Seq(Local) : Len(locs) = n /\ \A s \in 1 .. n : locs[s] = locs2[s]
    <3>1. \A s \in 1 .. n : locs2[s] \in Local
      BY <1>15
    <3>2. SubSeq(locs2, 1, n) \in Seq(Local) /\ Len(SubSeq(locs2, 1, n)) = n
          /\ \A s \in 1 .. n : SubSeq(locs2, 1, n)[s] = locs2[s]
      BY <3>1, SubSeqProperties
    <3> QED BY <3>2
  <2>3. \A s \in 1 .. n : s \in 1 .. n + 1 /\ long[s] = locals[s]
    BY <1>9, <1>12 DEF Extends
  <2>4. \A s \in 1 .. n : locs[s].depth = locals[s].depth
    BY <2>2, <2>3, <1>13, <1>15, ZenonT(40)
  <2>5. Captured(locs) = Captured(locals) \cup {k}
    <3>1. \A s \in 1 .. n : locs[s] = IF s = k THEN d ELSE locals[s]
      BY <2>2, <2>3, <1>15
    <3> QED BY <2>1, <2>2, <3>1, <1>9, <1>13 DEF Captured
  <2>6. \E o : Well(code, locs, scopeDepth, nested, h0, o, g)
    BY <2>1, <2>2, <2>4, <2>5, <1>1, <1>9, Capture
  <2>7. Captured(locs) \subseteq Captured(locs2)
    BY <2>5, <1>16
  <2> QED BY <2>2, <2>6, <2>7, <1>17
<1> QED BY <1>18, <1>19

LEMMA ReturnKeeps ==
  ASSUME Understood, ReturnStatement
  PROVE  Understood'
<1>1. PICK h, o, g : Well(code, locals, scopeDepth, nested, h, o, g)
  BY DEF Understood
<1>2. Nest(code, locals, scopeDepth, nested, h, o, g)
  BY <1>1 DEF Well
<1>3. PICK instr : instr = Instr("RETURN", 0, Len(locals))
  OBVIOUS
<1>4. /\ code' = Append(code, instr) /\ scopeDepth' = scopeDepth /\ nested' = nested
      /\ locals' = locals
  BY <1>3 DEF ReturnStatement, Emit
<1>5. locals \in Seq(Local) /\ Len(locals) \in Nat /\ scopeDepth \in Nat
  BY <1>2, NestIs
<1>6. instr \in Instruction /\ instr.op = "RETURN" /\ instr.locals = Len(locals)
  <2>1. "RETURN" \in Ops
    BY DEF Ops
  <2> QED BY <2>1, <1>3, <1>5, InstrIs
<1>7. ~ IsJump(instr) /\ ~ GoesOn(instr)
  BY <1>6 DEF IsJump, GoesOn, JumpOps, PlainOps
<1>8. Extends(locals, locals, scopeDepth) /\ \A s \in 1 .. Len(locals) : locals[s].depth <= scopeDepth
  BY <1>2, <1>5 DEF Extends, Nest, Chain
<1>9. \E h2, o2 : Well(Append(code, instr), locals, scopeDepth, nested, h2, o2, g)
  BY <1>1, <1>6, <1>7, <1>8, Straight
<1> QED BY <1>4, <1>9 DEF Understood


(* A statement other than a for begins. *)
LEMMA Begun ==
  ASSUME NEW c, NEW h, NEW o, NEW locs, NEW dep, NEW ns, NEW g,
         Len(c) \in Nat, Nest(c, locs, dep, ns, h, o, g),
         NEW c2, NEW h2, NEW o2, Grows(c, h, o, c2, h2, o2),
         NEW con \in Construction, Shape(con), con.kind # "FOR",
         IsLoop(con) => con.enterParamCount = Len(locs), con.breakJumps = {}, con.continueJumps = {},
         con.exit # NoInstr => /\ con.exit \in 1 .. Len(c2) /\ h2[con.exit] = Len(locs)
                               /\ o2[con.exit] \subseteq Captured(locs),
         IsLoop(con) => con.start = Len(c) + 1 /\ AtEnd(c, h, o, Len(locs), Captured(locs)),
         NEW loops, loops = LoopsOf(ns, g) \cup (IF IsLoop(con) THEN {<<Len(c) + 1, Len(locs)>>} ELSE {}),
         Draft(c2, h2, o2, Pendings(ns) \cup Pending(con), loops),
         AtEnd(c2, h2, o2, Len(locs), Captured(locs))
  PROVE  \E g2 : Well(c2, locs, dep + 1, Append(ns, con), h2, o2, g2)
<1>1. /\ locs \in Seq(Local) /\ Len(locs) \in Nat /\ ns \in Seq(Construction)
      /\ g \in [Nat -> Frame] /\ dep \in Nat /\ \A s \in 1 .. Len(locs) : locs[s].depth <= dep
  BY NestIs
<1>2. PICK f \in Frame :
        f.depth = dep + 1 /\ f.before = Len(locs) /\ f.base = Len(locs) /\ f.first = Len(c) + 1
  <2>1. [depth |-> dep + 1, before |-> Len(locs), base |-> Len(locs), first |-> Len(c) + 1] \in Frame
    BY <1>1 DEF Frame
  <2> QED BY <2>1
<1>3. PICK g2 : Puts(g, Len(ns), f, g2)
  <2>1. PICK g3 : g3 = [g EXCEPT ![Len(ns) + 1] = f]
    OBVIOUS
  <2>2. Puts(g, Len(ns), f, g3)
    BY <2>1, <1>1 DEF Puts
  <2> QED BY <2>2
<1>14. ns \in Seq(Construction) /\ g \in [Nat -> Frame]
  BY <1>1
<1>4. /\ Pendings(Append(ns, con)) = Pendings(ns) \cup Pending(con)
      /\ LoopsOf(Append(ns, con), g2)
           = LoopsOf(ns, g) \cup (IF IsLoop(con) THEN {<<f.first, f.base>>} ELSE {})
  <2>1. /\ Pendings(Append(ns, con)) = Pendings(ns) \cup Pending(con)
        /\ IsLoop(con) => LoopsOf(Append(ns, con), g2) = LoopsOf(ns, g) \cup {<<f.first, f.base>>}
        /\ ~ IsLoop(con) => LoopsOf(Append(ns, con), g2) = LoopsOf(ns, g)
    BY ONLY <1>3, <1>14, Appended
  <2> QED BY <2>1
<1>5. Draft(c2, h2, o2, Pendings(Append(ns, con)), LoopsOf(Append(ns, con), g2))
  BY <1>2, <1>4
<1>6. Len(c2) \in Nat /\ Len(c) <= Len(c2)
  BY DEF Grows
<1>7. Captured(locs) \cap (1 .. f.base) = Captured(locs)
  BY <1>2 DEF Captured
<1>8. \A s \in 1 .. Len(locs) : locs[s].depth \in Int /\ locs[s].depth < f.depth /\ locs[s].depth <= f.depth
  <2>1. \A s \in 1 .. Len(locs) : locs[s].depth \in Int
    <3>1. \A s \in 1 .. Len(locs) : locs[s] \in Local
      BY <1>1
    <3> QED BY <3>1 DEF Local
  <2> QED BY <2>1, <1>1, <1>2
<1>9. Layer(locs, con, f)
  BY <1>1, <1>2, <1>8 DEF Layer
<1>10. Known(c2, h2, o2, locs, con, f)
  <2>1. f.first \in 1 .. Len(c2) + 1
    BY <1>2, <1>6
  <2>2. ASSUME NEW i \in Pending(con)
        PROVE  /\ i \in 1 .. Len(c2) /\ h2[i] = f.base
               /\ o2[i] \subseteq Captured(locs) \cap (1 .. f.base)
    <3>1. i = con.exit /\ i # NoInstr
      BY DEF Pending
    <3> QED BY <3>1, <1>2, <1>7
  <2>3. ASSUME IsLoop(con)
        PROVE  /\ con.start \in f.first .. Len(c2) + 1 /\ h2[con.start] = f.base
               /\ Captured(locs) \cap (1 .. f.base) \subseteq o2[con.start]
    <3>1. con.start = Len(c) + 1 /\ h[Len(c) + 1] = Len(locs) /\ o[Len(c) + 1] = Captured(locs)
      BY <2>3 DEF AtEnd
    <3>2. h2[Len(c) + 1] = h[Len(c) + 1] /\ o2[Len(c) + 1] = o[Len(c) + 1]
      BY DEF Grows
    <3> QED BY <3>1, <3>2, <1>2, <1>6
  <2> QED BY <2>1, <2>2, <2>3 DEF Known
<1>11. Extends(locs, locs, dep)
  BY <1>1 DEF Extends
<1>12. f.depth = dep + Levels(con) /\ f.before = Len(locs) /\ Len(c) + 1 <= f.first
  BY <1>2 DEF Levels
<1>13. Nest(c2, locs, f.depth, Append(ns, con), h2, o2, g2)
  <2>1. \A s \in 1 .. Len(locs) : locs[s].depth <= f.depth
    BY <1>8
  <2> QED BY <2>1, <1>3, <1>9, <1>10, <1>11, <1>12, NestPushes
<1> QED BY <1>2, <1>5, <1>13 DEF Well

(* Jumps are patched to the end of the code, where it is known of the      *)
(* stack what was known at the jumps.                                      *)
LEMMA PatchedAtEnd ==
  ASSUME NEW c, NEW h, NEW o, NEW jumps, NEW loops, Draft(c, h, o, jumps, loops),
         NEW b, NEW t, AtEnd(c, h, o, b, t),
         NEW patched, \A j \in patched : j # NoInstr => j \in jumps /\ h[j] = b /\ o[j] \subseteq t,
         NEW jumps2, jumps2 \subseteq jumps, jumps \subseteq jumps2 \cup patched
  PROVE  /\ Draft(Patched(c, patched), h, o, jumps2, loops)
         /\ Len(Patched(c, patched)) = Len(c)
         /\ AtEnd(Patched(c, patched), h, o, b, t)
         /\ \A c0, h0, o0 : Grows(c0, h0, o0, c, h, o) => Grows(c0, h0, o0, Patched(c, patched), h, o)
<1>1. PICK m \in Nat : m = Len(c) + 1
  <2>1. c \in Seq(Instruction)
    BY DEF Draft
  <2> QED BY <2>1
<1>2. h[m] = b /\ o[m] = t
  BY <1>1 DEF AtEnd
<1>3. \A j \in patched : j = NoInstr \/ j \in jumps
  OBVIOUS
<1>4. \A j \in patched : j # NoInstr => h[j] = h[m] /\ o[j] \subseteq o[m]
  BY <1>2
<1>5. Draft(Patched(c, patched), h, o, jumps2, loops) /\ Len(Patched(c, patched)) = Len(c)
  BY <1>1, <1>3, <1>4, PatchKeeps
<1> QED BY <1>5 DEF AtEnd, Grows

(* The statement that ends, and the code up to the end of its body.        *)
Leaving(g, con, b, t) ==
  /\ Outside = b /\ b \in Nat /\ b <= Len(locals) /\ t \in SUBSET (1 .. b)
  /\ con \in Construction /\ Shape(con)
  /\ con.kind # "FOR" => g[Len(nested)].before = b
  /\ Pendings(nested) = Pendings(Front(nested)) \cup Pending(con)
  /\ LoopsOf(Front(nested), g) \subseteq LoopsOf(nested, g)
  /\ \A r \in LoopsOf(nested, g) : r[2] <= b

Left(h, o, g, con, b, t, c1, h1, o1) ==
  /\ Draft(c1, h1, o1, Pendings(nested), LoopsOf(nested, g))
  /\ Grows(code, h, o, c1, h1, o1)
  /\ AtEnd(c1, h1, o1, b, t)
  /\ \A i \in Pending(con) : h1[i] = b /\ o1[i] \subseteq t
  /\ IsLoop(con) => /\ con.start \in 1 .. Len(c1) + 1
                    /\ h1[con.start] = b /\ t \subseteq o1[con.start]
                    /\ \A r \in LoopsOf(nested, g) : r[1] <= con.start

LEMMA Inside ==
  ASSUME NEW h, NEW o, NEW g, Well(code, locals, scopeDepth, nested, h, o, g), nested # <<>>,
         NEW con, con = Innermost, NEW b, b = g[Len(nested)].base,
         NEW t, t = Captured(locals) \cap (1 .. b), NEW c1, c1 = code \o EndScope
  PROVE  Leaving(g, con, b, t) /\ \E h1, o1 : Left(h, o, g, con, b, t, c1, h1, o1)
<1>1. Nest(code, locals, scopeDepth, nested, h, o, g)
  BY DEF Well
<1>2. nested \in Seq(Construction) /\ Len(nested) \in Nat /\ Len(locals) \in Nat
  BY <1>1, NestIs
<1>3. PICK m \in Nat : m = Len(nested) /\ m \in 1 .. m /\ con = nested[m]
  BY <1>2, FrontIs DEF Innermost
<1>4. /\ Pendings(nested) = Pendings(Front(nested)) \cup Pending(con)
      /\ LoopsOf(Front(nested), g) \subseteq LoopsOf(nested, g)
  BY <1>2, FrontIs DEF Innermost
<1>5. con \in Construction /\ b \in Nat /\ b <= Len(locals)
  BY <1>1, <1>3, NestIs
<1>6. Shape(con) /\ Layer(locals, con, g[m]) /\ Known(code, h, o, locals, con, g[m])
  BY <1>1, <1>3 DEF Nest, Chain
<1>7. \A r \in LoopsOf(nested, g) : r[2] <= b /\ r[1] <= g[m].first
  BY <1>1, <1>3, LoopsLow
<1>8. Outside = b
  BY ScopeEnds DEF Outside
<1>9. PICK h1, o1 : /\ Draft(code \o EndScope, h1, o1, Pendings(nested), LoopsOf(nested, g))
                    /\ Grows(code, h, o, code \o EndScope, h1, o1)
                    /\ AtEnd(code \o EndScope, h1, o1, b, t)
  BY <1>8, ScopeEnds DEF EndScope
<1>10. /\ Len(code) \in Nat
       /\ \A i \in 1 .. Len(code) + 1 : /\ h1[i] = h[i] /\ o1[i] = o[i]
                                        /\ i \in 1 .. Len(code \o EndScope) + 1
  <2>1. code \in Seq(Instruction)
    BY DEF Well, Draft
  <2> QED BY <2>1, <1>9 DEF Grows
<1>11. ASSUME NEW i \in Pending(con) PROVE h1[i] = b /\ o1[i] \subseteq t
  <2>1. i \in 1 .. Len(code) /\ h[i] = b /\ o[i] \subseteq t
    BY <1>3, <1>6 DEF Known
  <2> QED BY <2>1, <1>10
<1>12. ASSUME IsLoop(con)
       PROVE  /\ con.start \in 1 .. Len(code \o EndScope) + 1
              /\ h1[con.start] = b /\ t \subseteq o1[con.start]
              /\ \A r \in LoopsOf(nested, g) : r[1] <= con.start
  <2>1. /\ con.start \in g[m].first .. Len(code) + 1 /\ h[con.start] = b /\ t \subseteq o[con.start]
        /\ g[m].first \in 1 .. Len(code) + 1
    BY <1>3, <1>6, <1>12 DEF Known
  <2>2. con.start \in 1 .. Len(code) + 1 /\ con.start \in Nat /\ g[m].first <= con.start
        /\ g[m].first \in Nat
    BY <2>1, <1>10
  <2>3. ASSUME NEW r \in LoopsOf(nested, g) PROVE r[1] <= con.start
    <3>1. r[1] \in Nat
      <4>1. Stays(code, h, r)
        BY DEF Well, Draft
      <4> QED BY <4>1, <1>10 DEF Stays
    <3> QED BY <3>1, <2>2, <1>7
  <2> QED BY <2>1, <2>2, <2>3, <1>10
<1>13. con.kind # "FOR" => g[Len(nested)].before = b
  BY <1>3, <1>6 DEF Layer
<1>14. t \in SUBSET (1 .. b)
  OBVIOUS
<1>15. Left(h, o, g, con, b, t, c1, h1, o1)
  BY <1>9, <1>11, <1>12 DEF Left
<1>16. Leaving(g, con, b, t)
  BY <1>4, <1>5, <1>6, <1>7, <1>8, <1>13, <1>14 DEF Leaving
<1> QED BY <1>15, <1>16

(* The end of a statement other than a for. *)
LEMMA Closes ==
  ASSUME NEW h, NEW o, NEW g, Well(code, locals, scopeDepth, nested, h, o, g), nested # <<>>,
         Innermost.kind # "FOR", NEW b, b = g[Len(nested)].base,
         NEW c2, NEW h2, NEW o2, Grows(code, h, o, c2, h2, o2),
         Draft(c2, h2, o2, Pendings(Front(nested)), LoopsOf(nested, g)),
         AtEnd(c2, h2, o2, b, Captured(locals) \cap (1 .. b)), Close(c2)
  PROVE  Understood'
<1>1. Nest(code, locals, scopeDepth, nested, h, o, g) /\ Len(code) \in Nat
  <2>1. code \in Seq(Instruction)
    BY DEF Well, Draft
  <2> QED BY <2>1 DEF Well
<1>2. Outside = b /\ b = g[Len(nested)].before /\ LoopsOf(Front(nested), g) \subseteq LoopsOf(nested, g)
  <2>1. PICK con : con = Innermost /\ con.kind # "FOR"
    OBVIOUS
  <2>2. PICK t : t = Captured(locals) \cap (1 .. b)
    OBVIOUS
  <2>3. PICK c1 : c1 = code \o EndScope
    OBVIOUS
  <2>4. Leaving(g, con, b, t)
    BY <2>1, <2>2, <2>3, Inside
  <2> QED BY <2>1, <2>4 DEF Leaving
<1>3. Well(c2, SubSeq(locals, 1, b), scopeDepth - Levels(Last(nested)), Front(nested), h2, o2, g)
  BY <1>1, <1>2, Ended
<1>4. Levels(Last(nested)) = 1
  BY DEF Levels, Innermost
<1>5. /\ code' = c2 /\ locals' = SubSeq(locals, 1, b) /\ scopeDepth' = scopeDepth - 1
      /\ nested' = Front(nested)
  BY <1>2 DEF Close
<1> QED BY <1>3, <1>4, <1>5 DEF Understood


IsConstruct(con, kind, e, s, n) ==
  /\ con \in Construction /\ con.kind = kind /\ con.exit = e /\ con.start = s
  /\ con.enterParamCount = n /\ con.breakJumps = {} /\ con.continueJumps = {}

LEMMA ConstructIs ==
  ASSUME NEW kind \in Kinds, Len(locals) \in Nat
  PROVE  IsConstruct(Construct(kind), kind, NoInstr, NoInstr, Len(locals))
BY DEF IsConstruct, Construct, Construction, NoInstr

(* A block, an if, a while or a do begins, after the jump of its condition, *)
(* if it has one.                                                          *)
LEMMA Opens ==
  ASSUME NEW h, NEW o, NEW g, Well(code, locals, scopeDepth, nested, h, o, g),
         NEW cond \in Conditions, NEW branch, branch = Branch(cond, Len(locals)),
         NEW kind \in Kinds, kind # "FOR", NEW e, e = BranchAt(code, branch),
         kind \in {"BLOCK", "DO"} => e = NoInstr,
         NEW s, kind \in LoopKinds => s = Len(code) + 1,
         NEW con, IsConstruct(con, kind, e, s, Len(locals)), code' = code \o branch, Open(con)
  PROVE  Understood'
<1>1. /\ Draft(code, h, o, Pendings(nested), LoopsOf(nested, g))
      /\ AtEnd(code, h, o, Len(locals), Captured(locals))
      /\ Nest(code, locals, scopeDepth, nested, h, o, g)
  BY DEF Well
<1>2. PICK k \in Nat : k = Len(locals)
  BY <1>1, NestIs
<1>3. PICK t \in SUBSET (1 .. k) : t = Captured(locals)
  BY <1>2 DEF Captured
<1>4. Len(code) \in Nat
  <2>1. code \in Seq(Instruction)
    BY <1>1 DEF Draft
  <2> QED BY <2>1
<1>5. PICK loops : loops = LoopsOf(nested, g)
                             \cup (IF IsLoop(con) THEN {<<Len(code) + 1, Len(locals)>>} ELSE {})
  OBVIOUS
<1>6. Draft(code, h, o, Pendings(nested), loops)
  <2>1. Draft(code, h, o, Pendings(nested), LoopsOf(nested, g) \cup {<<Len(code) + 1, k>>})
    BY <1>1, <1>2, LoopBegins
  <2>2. CASE IsLoop(con)
    BY <2>1, <2>2, <1>2, <1>5
  <2>3. CASE ~ IsLoop(con)
    BY <2>3, <1>1, <1>5
  <2> QED BY <2>2, <2>3
<1>7. \A r \in loops : r[2] <= k
  <2>1. \A r \in LoopsOf(nested, g) : r[2] <= k
    BY <1>1, <1>2, LoopsLow
  <2>2. PICK q : q = <<Len(code) + 1, Len(locals)>>
    OBVIOUS
  <2>3. q[2] = k /\ k <= k
    BY <2>2, <1>2
  <2> QED BY <2>1, <2>2, <2>3, <1>5
<1>8. PICK h2, o2 :
        /\ Draft(code \o branch, h2, o2, Pendings(nested) \cup ({e} \ {NoInstr}), loops)
        /\ Grows(code, h, o, code \o branch, h2, o2)
        /\ AtEnd(code \o branch, h2, o2, k, t)
        /\ e # NoInstr => e = Len(code) + 1 /\ h2[Len(code) + 1] = k /\ o2[Len(code) + 1] = t
  <2>1. branch = Branch(cond, k) /\ AtEnd(code, h, o, k, t)
    BY <1>1, <1>2, <1>3
  <2>2. PICK all : all = Pendings(nested) \cup ({e} \ {NoInstr})
    OBVIOUS
  <2>3. PICK c2 : c2 = code \o branch
    OBVIOUS
  <2>4. PICK h2, o2 : Branched(code, h, o, k, t, e, all, loops, c2, h2, o2)
    BY <2>1, <2>2, <2>3, <1>6, <1>7, BranchKeeps
  <2> QED BY <2>2, <2>3, <2>4 DEF Branched
<1>9. /\ con \in Construction /\ Shape(con) /\ con.kind # "FOR" /\ con.enterParamCount = Len(locals)
      /\ con.breakJumps = {} /\ con.continueJumps = {} /\ con.exit = e /\ con.start = s
  BY DEF IsConstruct, Shape
<1>10. Pending(con) = {e} \ {NoInstr}
  BY <1>9 DEF Pending
<1>11. e # NoInstr => /\ e \in 1 .. Len(code \o branch) /\ h2[e] = Len(locals)
                      /\ o2[e] \subseteq Captured(locals)
  <2>1. \A i \in Pendings(nested) \cup ({e} \ {NoInstr}) : i \in 1 .. Len(code \o branch)
    BY <1>8 DEF Draft
  <2> QED BY <2>1, <1>2, <1>3, <1>8
<1>12. IsLoop(con) => con.start = Len(code) + 1
  BY <1>9 DEF IsLoop, IsConstruct
<1>13. PICK c2 : c2 = code \o branch
  OBVIOUS
<1>14. \E g2 : Well(c2, locals, scopeDepth + 1, Append(nested, con), h2, o2, g2)
  <2>1. AtEnd(c2, h2, o2, Len(locals), Captured(locals)) /\ Grows(code, h, o, c2, h2, o2)
    BY <1>2, <1>3, <1>8, <1>13
  <2>2. Draft(c2, h2, o2, Pendings(nested) \cup Pending(con), loops)
    BY <1>8, <1>10, <1>13
  <2>3. con.exit # NoInstr => /\ con.exit \in 1 .. Len(c2) /\ h2[con.exit] = Len(locals)
                              /\ o2[con.exit] \subseteq Captured(locals)
    BY <1>9, <1>11, <1>13
  <2> QED BY <2>1, <2>2, <2>3, <1>1, <1>4, <1>5, <1>9, <1>12, Begun
<1> QED BY <1>13, <1>14 DEF Open, Understood

(* A block and a do have no condition to begin with. *)
LEMMA OpensAtOnce ==
  ASSUME Understood, NEW kind \in {"BLOCK", "DO"}, NEW s, kind \in LoopKinds => s = Len(code) + 1,
         NEW con, IsConstruct(con, kind, NoInstr, s, Len(locals)), code' = code, Open(con)
  PROVE  Understood'
<1>1. PICK h, o, g : Well(code, locals, scopeDepth, nested, h, o, g)
  BY DEF Understood
<1>2. PICK cond \in Conditions : cond = "true"
  BY DEF Conditions
<1>3. PICK branch : branch = <<>> /\ branch = Branch(cond, Len(locals))
  BY <1>2 DEF Branch
<1>4. PICK e : e = NoInstr /\ e = BranchAt(code, branch)
  BY <1>3 DEF BranchAt
<1>5. code' = code \o branch
  <2>1. code \in Seq(Instruction)
    BY <1>1 DEF Well, Draft
  <2> QED BY <2>1, <1>3
<1>6. kind \in Kinds /\ kind # "FOR"
  BY DEF Kinds
<1>7. IsConstruct(con, kind, e, s, Len(locals))
  BY <1>4
<1> QED BY <1>1, <1>3, <1>4, <1>5, <1>6, <1>7, Opens

LEMMA BeginBlockKeeps ==
  ASSUME Understood, BeginBlock
  PROVE  Understood'
<1>1. Len(locals) \in Nat
  BY NestIs DEF Understood, Well
<1>2. PICK con : con = Construct("BLOCK")
  OBVIOUS
<1>3. IsConstruct(con, "BLOCK", NoInstr, NoInstr, Len(locals))
  BY <1>1, <1>2, ConstructIs DEF Kinds
<1>4. "BLOCK" \in {"BLOCK", "DO"} /\ "BLOCK" \notin LoopKinds
  BY DEF LoopKinds
<1>5. code' = code /\ Open(con)
  BY <1>2 DEF BeginBlock
<1> QED BY <1>3, <1>4, <1>5, OpensAtOnce

LEMMA BeginDoKeeps ==
  ASSUME Understood, BeginDo
  PROVE  Understood'
<1>1. Len(locals) \in Nat
  BY NestIs DEF Understood, Well
<1>2. PICK c0 : c0 = Construct("DO")
  OBVIOUS
<1>3. IsConstruct(c0, "DO", NoInstr, NoInstr, Len(locals))
  BY <1>1, <1>2, ConstructIs DEF Kinds
<1>4. PICK s \in Int : s = Len(code) + 1
  <2>1. code \in Seq(Instruction)
    BY DEF Understood, Well, Draft
  <2> QED BY <2>1
<1>5. PICK con : con = [c0 EXCEPT !.start = s]
  OBVIOUS
<1>6. IsConstruct(con, "DO", NoInstr, s, Len(locals))
  BY <1>3, <1>5 DEF IsConstruct, Construction
<1>7. "DO" \in {"BLOCK", "DO"}
  OBVIOUS
<1>8. code' = code /\ Open(con)
  BY <1>2, <1>4, <1>5 DEF BeginDo, NextByte
<1> QED BY <1>4, <1>6, <1>7, <1>8, OpensAtOnce

LEMMA BeginIfKeeps ==
  ASSUME Understood, BeginIf, family \in Families
  PROVE  Understood'
<1>0. PICK h, o, g : Well(code, locals, scopeDepth, nested, h, o, g)
  BY DEF Understood
<1>1. Len(locals) \in Nat
  BY <1>0, NestIs DEF Well
<1>2. PICK cond \in Conditions :
        LET branch == Branch(cond, Len(locals))
        IN /\ code' = code \o branch
           /\ Open([Construct("IF") EXCEPT !.exit = BranchAt(code, branch)])
  BY ScopesAssumption DEF BeginIf, Conditions
<1>3. PICK branch : branch = Branch(cond, Len(locals))
  OBVIOUS
<1>4. PICK e \in Int : e = BranchAt(code, branch)
  <2>1. code \in Seq(Instruction)
    BY <1>0 DEF Well, Draft
  <2> QED BY <2>1 DEF BranchAt, NoInstr
<1>5. PICK c0 : c0 = Construct("IF")
  OBVIOUS
<1>6. IsConstruct(c0, "IF", NoInstr, NoInstr, Len(locals))
  BY <1>1, <1>5, ConstructIs DEF Kinds
<1>7. PICK con : con = [c0 EXCEPT !.exit = e]
  OBVIOUS
<1>8. IsConstruct(con, "IF", e, NoInstr, Len(locals))
  BY <1>6, <1>7 DEF IsConstruct, Construction
<1>9. code' = code \o branch /\ Open(con)
  BY <1>2, <1>3, <1>4, <1>5, <1>7
<1>10. "IF" \in Kinds /\ "IF" \notin LoopKinds /\ "IF" # "FOR" /\ "IF" \notin {"BLOCK", "DO"}
  BY DEF Kinds, LoopKinds
<1> QED BY <1>0, <1>3, <1>4, <1>8, <1>9, <1>10, Opens

LEMMA BeginWhileKeeps ==
  ASSUME Understood, BeginWhile, family \in Families
  PROVE  Understood'
<1>0. PICK h, o, g : Well(code, locals, scopeDepth, nested, h, o, g)
  BY DEF Understood
<1>1. Len(locals) \in Nat /\ code \in Seq(Instruction)
  BY <1>0, NestIs DEF Well, Draft
<1>2. PICK cond \in Conditions :
        LET branch == Branch(cond, Len(locals))
        IN /\ code' = code \o branch
           /\ Open([Construct("WHILE") EXCEPT !.exit = BranchAt(code, branch), !.start = NextByte])
  BY ScopesAssumption DEF BeginWhile, Conditions
<1>3. PICK branch : branch = Branch(cond, Len(locals))
  OBVIOUS
<1>4. PICK e \in Int : e = BranchAt(code, branch)
  BY <1>1 DEF BranchAt, NoInstr
<1>5. PICK s \in Int : s = Len(code) + 1
  BY <1>1
<1>6. PICK c0 : c0 = Construct("WHILE")
  OBVIOUS
<1>7. IsConstruct(c0, "WHILE", NoInstr, NoInstr, Len(locals))
  BY <1>1, <1>6, ConstructIs DEF Kinds
<1>8. PICK con : con = [c0 EXCEPT !.exit = e, !.start = s]
  OBVIOUS
<1>9. IsConstruct(con, "WHILE", e, s, Len(locals))
  BY <1>7, <1>8 DEF IsConstruct, Construction
<1>10. code' = code \o branch /\ Open(con)
  BY <1>2, <1>3, <1>4, <1>5, <1>6, <1>8 DEF NextByte
<1>11. "WHILE" \in Kinds /\ "WHILE" # "FOR" /\ "WHILE" \notin {"BLOCK", "DO"}
  BY DEF Kinds
<1> QED BY <1>0, <1>3, <1>4, <1>5, <1>9, <1>10, <1>11, Opens


LEMMA EndBlockKeeps ==
  ASSUME Understood, EndBlock
  PROVE  Understood'
<1>1. PICK h, o, g : Well(code, locals, scopeDepth, nested, h, o, g)
  BY DEF Understood
<1>2. nested # <<>> /\ Innermost.kind = "BLOCK" /\ Close(code \o EndScope)
  BY DEF EndBlock, IsInside
<1>3. PICK con : con = Innermost
  OBVIOUS
<1>4. PICK b : b = g[Len(nested)].base
  OBVIOUS
<1>5. PICK t : t = Captured(locals) \cap (1 .. b)
  OBVIOUS
<1>10. PICK c1 : c1 = code \o EndScope
  OBVIOUS
<1>11. Leaving(g, con, b, t) /\ \E h1, o1 : Left(h, o, g, con, b, t, c1, h1, o1)
  BY <1>1, <1>2, <1>3, <1>4, <1>5, <1>10, Inside
<1>6. Shape(con) /\ Pendings(nested) = Pendings(Front(nested)) \cup Pending(con)
  BY <1>11 DEF Leaving
<1>7. Pending(con) = {}
  BY <1>2, <1>3, <1>6 DEF Shape, Pending, IsLoop, LoopKinds
<1>8. PICK h1, o1 : /\ Draft(c1, h1, o1, Pendings(nested), LoopsOf(nested, g))
                    /\ Grows(code, h, o, c1, h1, o1)
                    /\ AtEnd(c1, h1, o1, b, t)
  BY <1>11 DEF Left
<1>9. Pendings(nested) = Pendings(Front(nested))
  BY <1>6, <1>7
<1>12. Innermost.kind # "FOR" /\ Close(c1)
  BY <1>2, <1>10
<1> QED BY <1>1, <1>2, <1>4, <1>5, <1>8, <1>9, <1>12, Closes

(* The end of the body of a while or a for, and the jumps out of it. *)
LEMMA LoopEnds ==
  ASSUME NEW h, NEW o, NEW g, Well(code, locals, scopeDepth, nested, h, o, g), nested # <<>>,
         Innermost.kind \in {"WHILE", "FOR"}, NEW b, b = g[Len(nested)].base,
         NEW t, t = Captured(locals) \cap (1 .. b)
  PROVE  \E h2, o2 :
           /\ Draft(LoopEnd(Innermost), h2, o2, Pendings(Front(nested)), LoopsOf(nested, g))
           /\ Grows(code, h, o, LoopEnd(Innermost), h2, o2)
           /\ AtEnd(LoopEnd(Innermost), h2, o2, b, t)
<1>1. PICK con : con = Innermost
  OBVIOUS
<1>4. PICK c1 : c1 = code \o EndScope
  OBVIOUS
<1>17. Leaving(g, con, b, t) /\ \E h1, o1 : Left(h, o, g, con, b, t, c1, h1, o1)
  BY <1>1, <1>4, Inside
<1>2. /\ Outside = b /\ b \in Nat /\ t \in SUBSET (1 .. b) /\ Shape(con)
      /\ Pendings(nested) = Pendings(Front(nested)) \cup Pending(con)
      /\ \A r \in LoopsOf(nested, g) : r[2] <= b
  BY <1>17 DEF Leaving
<1>3. IsLoop(con) /\ con.continueJumps = {}
  BY <1>1, <1>2 DEF IsLoop, LoopKinds, Shape
<1>5. PICK h1, o1 :
        /\ Draft(c1, h1, o1, Pendings(nested), LoopsOf(nested, g))
        /\ Grows(code, h, o, c1, h1, o1)
        /\ AtEnd(c1, h1, o1, b, t)
        /\ \A i \in Pending(con) : h1[i] = b /\ o1[i] \subseteq t
        /\ IsLoop(con) => /\ con.start \in 1 .. Len(c1) + 1 /\ h1[con.start] = b
                          /\ t \subseteq o1[con.start]
                          /\ \A r \in LoopsOf(nested, g) : r[1] <= con.start
  BY <1>17 DEF Left
<1>6. PICK start \in 1 .. Len(c1) + 1 :
        /\ start = con.start /\ h1[start] = b /\ t \subseteq o1[start]
        /\ \A r \in LoopsOf(nested, g) : r[1] <= start
  BY <1>3, <1>5
<1>7. PICK instr : instr = Instr("LOOP", start, b)
  OBVIOUS
<1>9. PICK c2 : c2 = Append(c1, instr)
  OBVIOUS
<1>8. PICK h2, o2 : /\ Draft(c2, h2, o2, Pendings(nested), LoopsOf(nested, g))
                    /\ Grows(c1, h1, o1, c2, h2, o2)
                    /\ AtEnd(c2, h2, o2, b, t)
  <2>1. b \in {Unknown, b} /\ b \in Nat /\ t \in SUBSET (1 .. b)
    BY <1>2
  <2>2. \E h2, o2 : /\ Draft(Append(c1, instr), h2, o2, Pendings(nested), LoopsOf(nested, g))
                    /\ Len(Append(c1, instr)) = Len(c1) + 1
                    /\ Grows(c1, h1, o1, Append(c1, instr), h2, o2)
                    /\ AtEnd(Append(c1, instr), h2, o2, b, t)
    <3>1. Draft(c1, h1, o1, Pendings(nested), LoopsOf(nested, g)) /\ AtEnd(c1, h1, o1, b, t)
      BY <1>5
    <3>2. h1[start] = b /\ t \subseteq o1[start] /\ \A r \in LoopsOf(nested, g) : r[1] <= start
      BY <1>6
    <3>3. \A r \in LoopsOf(nested, g) : r[2] <= b
      BY <1>2
    <3>4. start \in 1 .. Len(c1) + 1
      OBVIOUS
    <3> QED BY ONLY <2>1, <3>1, <3>2, <3>3, <3>4, <1>7, LoopEmitted
  <2> QED BY <2>2, <1>9
<1>10. Grows(code, h, o, c2, h2, o2)
  <2>1. Len(code) \in Nat
    <3>1. code \in Seq(Instruction)
      BY DEF Well, Draft
    <3> QED BY <3>1
  <2> QED BY <2>1, <1>5, <1>8, <1>9, GrowsOn
<1>11. \A i \in Pending(con) : i \in Pendings(nested) /\ h2[i] = b /\ o2[i] \subseteq t
  <2>1. \A i \in Pending(con) : i \in Pendings(nested) /\ i \in 1 .. Len(c1)
    BY <1>2, <1>5 DEF Draft
  <2>2. c1 \in Seq(Instruction)
    BY <1>5 DEF Draft
  <2>3. \A i \in 1 .. Len(c1) : h2[i] = h1[i] /\ o2[i] = o1[i]
    BY <2>2, <1>8 DEF Grows
  <2> QED BY <2>1, <2>3, <1>5
<1>12. PICK patched : patched = con.breakJumps \cup {con.exit}
  OBVIOUS
<1>13. /\ \A j \in patched : j # NoInstr => j \in Pendings(nested) /\ h2[j] = b /\ o2[j] \subseteq t
       /\ Pendings(nested) \subseteq Pendings(Front(nested)) \cup patched
       /\ Pendings(Front(nested)) \subseteq Pendings(nested)
  <2>1. Pending(con) = patched \ {NoInstr}
    BY <1>3, <1>12 DEF Pending
  <2> QED BY <2>1, <1>2, <1>11
<1>14. LoopEnd(Innermost) = Patched(c2, patched)
  BY <1>1, <1>2, <1>4, <1>6, <1>7, <1>9, <1>12 DEF LoopEnd
<1>15. Draft(c2, h2, o2, Pendings(nested), LoopsOf(nested, g)) /\ AtEnd(c2, h2, o2, b, t)
  BY <1>8, <1>9
<1>16. /\ Draft(Patched(c2, patched), h2, o2, Pendings(Front(nested)), LoopsOf(nested, g))
       /\ AtEnd(Patched(c2, patched), h2, o2, b, t)
       /\ Grows(code, h, o, Patched(c2, patched), h2, o2)
  BY <1>10, <1>13, <1>15, PatchedAtEnd
<1> QED BY <1>14, <1>16

LEMMA EndWhileKeeps ==
  ASSUME Understood, EndWhile
  PROVE  Understood'
<1>1. PICK h, o, g : Well(code, locals, scopeDepth, nested, h, o, g)
  BY DEF Understood
<1>2. nested # <<>> /\ Innermost.kind = "WHILE" /\ Close(LoopEnd(Innermost))
  BY DEF EndWhile, IsInside
<1>3. PICK b : b = g[Len(nested)].base
  OBVIOUS
<1>4. PICK c2 : c2 = LoopEnd(Innermost)
  OBVIOUS
<1>5. \E h2, o2 :
        /\ Draft(c2, h2, o2, Pendings(Front(nested)), LoopsOf(nested, g))
        /\ Grows(code, h, o, c2, h2, o2)
        /\ AtEnd(c2, h2, o2, b, Captured(locals) \cap (1 .. b))
  BY <1>1, <1>2, <1>3, <1>4, LoopEnds
<1> QED BY <1>1, <1>2, <1>3, <1>4, <1>5, Closes

(* The then part of an if: its jumps, and the one over an else part. *)
Then(h, o, g, con, b, t, then, h2, o2) ==
  /\ Draft(then, h2, o2, Pendings(nested) \cup {Len(then)}, LoopsOf(nested, g))
  /\ Grows(code, h, o, then, h2, o2)
  /\ AtEnd(then, h2, o2, b, t)
  /\ \A i \in Pending(con) \cup {Len(then)} : h2[i] = b /\ o2[i] \subseteq t

LEMMA ThenEnds ==
  ASSUME NEW h, NEW o, NEW g, Well(code, locals, scopeDepth, nested, h, o, g), nested # <<>>,
         NEW b, b = g[Len(nested)].base, NEW t, t = Captured(locals) \cap (1 .. b),
         NEW con, con = Innermost,
         NEW then, then = Append(code \o EndScope, Instr("JUMP", NoInstr, Outside))
  PROVE  \E h2, o2 : Then(h, o, g, con, b, t, then, h2, o2)
<1>4. PICK c1 : c1 = code \o EndScope
  OBVIOUS
<1>15. Leaving(g, con, b, t) /\ \E h1, o1 : Left(h, o, g, con, b, t, c1, h1, o1)
  BY <1>4, Inside
<1>2. /\ Outside = b /\ b \in Nat /\ t \in SUBSET (1 .. b)
      /\ Pendings(nested) = Pendings(Front(nested)) \cup Pending(con)
      /\ \A r \in LoopsOf(nested, g) : r[2] <= b
  BY <1>15 DEF Leaving
<1>5. PICK h1, o1 :
        /\ Draft(c1, h1, o1, Pendings(nested), LoopsOf(nested, g))
        /\ Grows(code, h, o, c1, h1, o1)
        /\ AtEnd(c1, h1, o1, b, t)
        /\ \A i \in Pending(con) : h1[i] = b /\ o1[i] \subseteq t
  BY <1>15 DEF Left
<1>6. PICK instr : instr = Instr("JUMP", NoInstr, b) /\ then = Append(c1, instr)
  BY <1>2, <1>4
<1>7. b \in {Unknown, b} /\ b \in Nat /\ t \in SUBSET (1 .. b)
  BY <1>2
<1>8. PICK h2, o2 : /\ Draft(then, h2, o2, Pendings(nested) \cup {Len(c1) + 1}, LoopsOf(nested, g))
                    /\ Len(then) = Len(c1) + 1
                    /\ Grows(c1, h1, o1, then, h2, o2)
                    /\ AtEnd(then, h2, o2, b, t)
  <2>1. \E h2, o2 : /\ Draft(Append(c1, instr), h2, o2, Pendings(nested) \cup {Len(c1) + 1},
                             LoopsOf(nested, g))
                    /\ Len(Append(c1, instr)) = Len(c1) + 1
                    /\ Grows(c1, h1, o1, Append(c1, instr), h2, o2)
                    /\ AtEnd(Append(c1, instr), h2, o2, b, t)
    BY <1>2, <1>5, <1>6, <1>7, JumpEmitted, ZenonT(40)
  <2> QED BY <2>1, <1>6
<1>9. c1 \in Seq(Instruction) /\ Len(c1) \in Nat
  <2>1. c1 \in Seq(Instruction)
    BY <1>5 DEF Draft
  <2> QED BY <2>1
<1>10. Grows(code, h, o, then, h2, o2)
  <2>1. Len(code) \in Nat
    <3>1. code \in Seq(Instruction)
      BY DEF Well, Draft
    <3> QED BY <3>1
  <2> QED BY <2>1, <1>5, <1>6, <1>8, GrowsOn
<1>11. \A i \in 1 .. Len(c1) + 1 : h2[i] = h1[i] /\ o2[i] = o1[i]
  BY <1>8 DEF Grows
<1>12. \A i \in Pending(con) : i \in 1 .. Len(c1)
  BY <1>2, <1>5 DEF Draft
<1>13. Len(then) = Len(c1) + 1 /\ h1[Len(c1) + 1] = b /\ o1[Len(c1) + 1] = t
  BY <1>5, <1>8 DEF AtEnd
<1>14. \A i \in Pending(con) \cup {Len(then)} : h2[i] = b /\ o2[i] \subseteq t
  <2>1. \A i \in Pending(con) : h2[i] = b /\ o2[i] \subseteq t
    <3>1. \A i \in 1 .. Len(c1) : i \in 1 .. Len(c1) + 1
      BY <1>9
    <3> QED BY <3>1, <1>5, <1>11, <1>12
  <2>2. h2[Len(then)] = b /\ o2[Len(then)] = t
    <3>1. Len(c1) + 1 \in 1 .. Len(c1) + 1
      BY <1>9
    <3> QED BY <3>1, <1>11, <1>13
  <2> QED BY <2>1, <2>2
<1>16. Draft(then, h2, o2, Pendings(nested) \cup {Len(then)}, LoopsOf(nested, g)) /\ AtEnd(then, h2, o2, b, t)
  BY <1>8
<1>17. Then(h, o, g, con, b, t, then, h2, o2)
  BY <1>10, <1>14, <1>16 DEF Then
<1> QED BY <1>17

LEMMA EndIfKeeps ==
  ASSUME Understood, EndIf
  PROVE  Understood'
<1>1. PICK h, o, g : Well(code, locals, scopeDepth, nested, h, o, g)
  BY DEF Understood
<1>2. nested # <<>> /\ Innermost.kind \in {"IF", "ELSE"}
  BY DEF EndIf, IsInside
<1>3. PICK con : con = Innermost
  OBVIOUS
<1>4. PICK b : b = g[Len(nested)].base
  OBVIOUS
<1>5. PICK t : t = Captured(locals) \cap (1 .. b)
  OBVIOUS
<1>11. PICK c1 : c1 = code \o EndScope
  OBVIOUS
<1>12. Leaving(g, con, b, t) /\ \E h1, o1 : Left(h, o, g, con, b, t, c1, h1, o1)
  BY <1>1, <1>2, <1>3, <1>4, <1>5, <1>11, Inside
<1>6. Shape(con) /\ Pendings(nested) = Pendings(Front(nested)) \cup Pending(con)
  BY <1>12 DEF Leaving
<1>7. Pending(con) = {con.exit} \ {NoInstr}
  BY <1>2, <1>3, <1>6 DEF Shape, Pending, IsLoop, LoopKinds
<1>8. ASSUME NEW c2, NEW h1, NEW o1, NEW jumps, NEW patched,
             Draft(c2, h1, o1, jumps, LoopsOf(nested, g)), Grows(code, h, o, c2, h1, o1),
             AtEnd(c2, h1, o1, b, t),
             \A i \in patched : i # NoInstr => i \in jumps /\ h1[i] = b /\ o1[i] \subseteq t,
             jumps \subseteq Pendings(Front(nested)) \cup patched, Pendings(Front(nested)) \subseteq jumps,
             Close(Patched(c2, patched))
      PROVE  Understood'
  <2>1. PICK c3 : c3 = Patched(c2, patched)
    OBVIOUS
  <2>2. /\ Draft(c3, h1, o1, Pendings(Front(nested)), LoopsOf(nested, g))
        /\ AtEnd(c3, h1, o1, b, t) /\ Grows(code, h, o, c3, h1, o1)
    BY ONLY <1>8, <2>1, PatchedAtEnd
  <2>3. Innermost.kind # "FOR" /\ Close(c3)
    BY <2>1, <1>2, <1>8
  <2> QED BY <2>2, <2>3, <1>1, <1>2, <1>4, <1>5, Closes
<1>9. CASE Innermost.kind = "IF"
  <2>1. PICK then : then = Append(code \o EndScope, Instr("JUMP", NoInstr, Outside))
    OBVIOUS
  <2>2. Close(Patched(then, {con.exit, Len(then)}))
    BY <2>1, <1>3, <1>9 DEF EndIf, IsInside
  <2>3. PICK h2, o2 :
          /\ Draft(then, h2, o2, Pendings(nested) \cup {Len(then)}, LoopsOf(nested, g))
          /\ Grows(code, h, o, then, h2, o2)
          /\ AtEnd(then, h2, o2, b, t)
          /\ \A i \in Pending(con) \cup {Len(then)} : h2[i] = b /\ o2[i] \subseteq t
    <3>1. \E h2, o2 : Then(h, o, g, con, b, t, then, h2, o2)
      BY <2>1, <1>1, <1>2, <1>3, <1>4, <1>5, ThenEnds
    <3> QED BY <3>1 DEF Then
  <2>4. PICK jumps : jumps = Pendings(nested) \cup {Len(then)}
    OBVIOUS
  <2>5. PICK patched : patched = {con.exit, Len(then)}
    OBVIOUS
  <2>6. /\ \A i \in patched : i # NoInstr => i \in jumps /\ h2[i] = b /\ o2[i] \subseteq t
        /\ jumps \subseteq Pendings(Front(nested)) \cup patched /\ Pendings(Front(nested)) \subseteq jumps
    BY <2>3, <2>4, <2>5, <1>6, <1>7
  <2>7. Draft(then, h2, o2, jumps, LoopsOf(nested, g)) /\ Close(Patched(then, patched))
    BY <2>2, <2>3, <2>4, <2>5
  <2> QED BY <2>3, <2>6, <2>7, <1>8
<1>10. CASE Innermost.kind = "ELSE"
  <2>2. Close(Patched(c1, {con.exit}))
    BY <1>3, <1>10, <1>11 DEF EndIf, IsInside
  <2>3. PICK h1, o1 :
          /\ Draft(c1, h1, o1, Pendings(nested), LoopsOf(nested, g))
          /\ Grows(code, h, o, c1, h1, o1)
          /\ AtEnd(c1, h1, o1, b, t)
          /\ \A i \in Pending(con) : h1[i] = b /\ o1[i] \subseteq t
    BY <1>12 DEF Left
  <2>4. PICK patched : patched = {con.exit}
    OBVIOUS
  <2>5. /\ \A i \in patched : i # NoInstr => i \in Pendings(nested) /\ h1[i] = b /\ o1[i] \subseteq t
        /\ Pendings(nested) \subseteq Pendings(Front(nested)) \cup patched
        /\ Pendings(Front(nested)) \subseteq Pendings(nested)
    BY <2>3, <2>4, <1>6, <1>7
  <2> QED BY <2>2, <2>3, <2>4, <2>5, <1>8
<1> QED BY <1>2, <1>9, <1>10


LEMMA CodeIs ==
  ASSUME NEW h, NEW o, NEW g, Well(code, locals, scopeDepth, nested, h, o, g)
  PROVE  /\ code \in Seq(Instruction) /\ Len(code) \in Nat
         /\ locals \in Seq(Local) /\ Len(locals) \in Nat /\ scopeDepth \in Nat
         /\ nested \in Seq(Construction) /\ Nest(code, locals, scopeDepth, nested, h, o, g)
<1>1. code \in Seq(Instruction) /\ Nest(code, locals, scopeDepth, nested, h, o, g)
  BY DEF Well, Draft
<1>2. locals \in Seq(Local) /\ Len(locals) \in Nat /\ scopeDepth \in Nat /\ nested \in Seq(Construction)
  BY <1>1, NestIs
<1> QED BY <1>1, <1>2

LEMMA BeginElseKeeps ==
  ASSUME Understood, BeginElse
  PROVE  Understood'
<1>1. PICK h, o, g : Well(code, locals, scopeDepth, nested, h, o, g)
  BY DEF Understood
<1>2. nested # <<>> /\ Innermost.kind = "IF"
  BY DEF BeginElse, IsInside
<1>3. PICK con : con = Innermost
  OBVIOUS
<1>4. PICK b : b = g[Len(nested)].base
  OBVIOUS
<1>5. PICK t : t = Captured(locals) \cap (1 .. b)
  OBVIOUS
<1>6. PICK c1 : c1 = code \o EndScope
  OBVIOUS
<1>7. Leaving(g, con, b, t)
  BY <1>1, <1>2, <1>3, <1>4, <1>5, <1>6, Inside
<1>8. /\ Outside = b /\ b \in Nat /\ b <= Len(locals) /\ b = g[Len(nested)].before /\ Shape(con)
      /\ Pendings(nested) = Pendings(Front(nested)) \cup Pending(con)
      /\ LoopsOf(Front(nested), g) \subseteq LoopsOf(nested, g)
  BY <1>2, <1>3, <1>7 DEF Leaving
<1>9. Pending(con) = {con.exit} \ {NoInstr}
  BY <1>2, <1>3, <1>8 DEF Shape, Pending, IsLoop, LoopKinds
<1>10. PICK then : then = Append(code \o EndScope, Instr("JUMP", NoInstr, Outside))
  OBVIOUS
<1>11. PICK h2, o2 :
         /\ Draft(then, h2, o2, Pendings(nested) \cup {Len(then)}, LoopsOf(nested, g))
         /\ Grows(code, h, o, then, h2, o2)
         /\ AtEnd(then, h2, o2, b, t)
         /\ \A i \in Pending(con) \cup {Len(then)} : h2[i] = b /\ o2[i] \subseteq t
  <2>1. \E h2, o2 : Then(h, o, g, con, b, t, then, h2, o2)
    BY <1>1, <1>2, <1>3, <1>4, <1>5, <1>10, ThenEnds
  <2> QED BY <2>1 DEF Then
<1>12. PICK patched : patched = {con.exit}
  OBVIOUS
<1>13. PICK jumps : jumps = Pendings(nested) \cup {Len(then)}
  OBVIOUS
<1>14. PICK jumps2 : jumps2 = Pendings(Front(nested)) \cup {Len(then)}
  OBVIOUS
<1>15. PICK c2 : c2 = Patched(then, patched)
  OBVIOUS
<1>16. Draft(c2, h2, o2, jumps2, LoopsOf(nested, g)) /\ Len(c2) = Len(then)
       /\ AtEnd(c2, h2, o2, b, t) /\ Grows(code, h, o, c2, h2, o2)
  <2>1. \A j \in patched : j # NoInstr => j \in jumps /\ h2[j] = b /\ o2[j] \subseteq t
    BY <1>8, <1>9, <1>11, <1>12, <1>13
  <2>2. jumps2 \subseteq jumps /\ jumps \subseteq jumps2 \cup patched
    BY <1>8, <1>9, <1>12, <1>13, <1>14
  <2>3. Draft(then, h2, o2, jumps, LoopsOf(nested, g))
    BY <1>11, <1>13
  <2> QED BY ONLY <2>1, <2>2, <2>3, <1>11, <1>15, PatchedAtEnd
<1>17. c2 \in Seq(Instruction) /\ Len(c2) \in Nat
  <2>1. c2 \in Seq(Instruction)
    BY <1>16 DEF Draft
  <2> QED BY <2>1
<1>18. PICK k : k = SubSeq(locals, 1, b)
  OBVIOUS
<1>19. Captured(k) = t /\ Nest(c2, k, scopeDepth - Levels(Last(nested)), Front(nested), h2, o2, g)
  BY <1>1, <1>2, <1>5, <1>8, <1>16, <1>18, CodeIs, NestPops
<1>20. PICK dep \in Nat : dep = scopeDepth - Levels(Last(nested)) /\ dep + 1 = scopeDepth
  <2>1. Levels(Last(nested)) = 1
    BY <1>2 DEF Levels, Innermost
  <2>2. scopeDepth - Levels(Last(nested)) \in Nat
    BY <1>19, NestIs
  <2> QED BY <2>1, <2>2, <1>1, CodeIs
<1>21. Len(k) = b
  BY <1>1, <1>8, <1>18, CodeIs
<1>22. PICK c0 : c0 = Construct("ELSE")
  OBVIOUS
<1>23. IsConstruct(c0, "ELSE", NoInstr, NoInstr, Len(locals))
  BY <1>1, <1>22, CodeIs, ConstructIs DEF Kinds
<1>24. PICK e \in Int : e = Len(then) /\ e \in Nat /\ e # NoInstr
  BY <1>16, <1>17 DEF NoInstr
<1>25. PICK con2 : con2 = [c0 EXCEPT !.exit = e]
  OBVIOUS
<1>26. IsConstruct(con2, "ELSE", e, NoInstr, Len(locals))
  BY <1>23, <1>25 DEF IsConstruct, Construction
<1>27. /\ con2 \in Construction /\ con2.kind # "FOR" /\ con2.breakJumps = {} /\ con2.continueJumps = {}
       /\ Shape(con2) /\ ~ IsLoop(con2) /\ con2.exit = e /\ Pending(con2) = {e}
  BY <1>24, <1>26 DEF IsConstruct, Shape, IsLoop, LoopKinds, Pending
<1>28. PICK loops : loops = LoopsOf(Front(nested), g)
                              \cup (IF IsLoop(con2) THEN {<<Len(c2) + 1, Len(k)>>} ELSE {})
  OBVIOUS
<1>29. Draft(c2, h2, o2, Pendings(Front(nested)) \cup Pending(con2), loops)
  <2>1. loops \subseteq LoopsOf(nested, g) /\ jumps2 = Pendings(Front(nested)) \cup Pending(con2)
    BY <1>8, <1>14, <1>24, <1>27, <1>28
  <2> QED BY <2>1, <1>16, LoopsShrink
<1>30. e \in 1 .. Len(c2) /\ h2[e] = Len(k) /\ o2[e] \subseteq Captured(k)
  <2>1. e \in jumps2
    BY <1>14, <1>24
  <2>2. e \in 1 .. Len(c2)
    BY <2>1, <1>16 DEF Draft
  <2> QED BY <2>2, <1>11, <1>19, <1>21, <1>24
<1>31. Grows(c2, h2, o2, c2, h2, o2) /\ AtEnd(c2, h2, o2, Len(k), Captured(k))
  BY <1>16, <1>17, <1>19, <1>21 DEF Grows
<1>32. \E g2 : Well(c2, k, dep + 1, Append(Front(nested), con2), h2, o2, g2)
  <2>1. Nest(c2, k, dep, Front(nested), h2, o2, g)
    BY <1>19, <1>20
  <2>2. con2.exit # NoInstr => /\ con2.exit \in 1 .. Len(c2) /\ h2[con2.exit] = Len(k)
                               /\ o2[con2.exit] \subseteq Captured(k)
    BY <1>27, <1>30
  <2> QED BY ONLY <2>1, <2>2, <1>17, <1>27, <1>28, <1>29, <1>31, Begun
<1>33. /\ code' = c2 /\ locals' = k /\ scopeDepth' = dep + 1 /\ nested' = Append(Front(nested), con2)
  BY <1>3, <1>8, <1>10, <1>12, <1>15, <1>18, <1>20, <1>22, <1>24, <1>25 DEF BeginElse
<1> QED BY <1>32, <1>33 DEF Understood

LEMMA EndDoKeeps ==
  ASSUME Understood, EndDo, family \in Families
  PROVE  Understood'
<1>1. PICK h, o, g : Well(code, locals, scopeDepth, nested, h, o, g)
  BY DEF Understood
<1>2. nested # <<>> /\ Innermost.kind = "DO"
  BY DEF EndDo, IsInside
<1>3. PICK con : con = Innermost
  OBVIOUS
<1>4. PICK b : b = g[Len(nested)].base
  OBVIOUS
<1>5. PICK t : t = Captured(locals) \cap (1 .. b)
  OBVIOUS
<1>6. PICK c1 : c1 = code \o EndScope
  OBVIOUS
<1>7. Leaving(g, con, b, t) /\ \E h1, o1 : Left(h, o, g, con, b, t, c1, h1, o1)
  BY <1>1, <1>2, <1>3, <1>4, <1>5, <1>6, Inside
<1>8. /\ Outside = b /\ b \in Nat /\ t \in SUBSET (1 .. b) /\ Shape(con)
      /\ Pendings(nested) = Pendings(Front(nested)) \cup Pending(con)
      /\ \A r \in LoopsOf(nested, g) : r[2] <= b
  BY <1>7 DEF Leaving
<1>9. IsLoop(con) /\ Pending(con) = (con.breakJumps \cup con.continueJumps) \ {NoInstr}
  BY <1>2, <1>3, <1>8 DEF Shape, Pending, IsLoop, LoopKinds
<1>10. PICK h1, o1 :
        /\ Draft(c1, h1, o1, Pendings(nested), LoopsOf(nested, g))
        /\ Grows(code, h, o, c1, h1, o1)
        /\ AtEnd(c1, h1, o1, b, t)
        /\ \A i \in Pending(con) : h1[i] = b /\ o1[i] \subseteq t
        /\ con.start \in 1 .. Len(c1) + 1 /\ h1[con.start] = b /\ t \subseteq o1[con.start]
        /\ \A r \in LoopsOf(nested, g) : r[1] <= con.start
  BY <1>7, <1>9 DEF Left
<1>11. PICK cond \in Conditions :
         LET body == ContinueTo(c1, con)
             branch == Branch(cond, b)
             looped == Append(body \o branch, Instr("LOOP", con.start, b))
         IN Close(Patched(looped, con.breakJumps \cup {BranchAt(body, branch)}))
  BY <1>3, <1>6, <1>8, ScopesAssumption DEF EndDo, Conditions
(* Every continue goes on with the condition. *)
<1>12. PICK body : body = Patched(c1, con.continueJumps)
  OBVIOUS
<1>13. PICK jumps : jumps = Pendings(Front(nested)) \cup (con.breakJumps \ {NoInstr})
  OBVIOUS
<1>14. /\ Draft(body, h1, o1, jumps, LoopsOf(nested, g)) /\ Len(body) = Len(c1)
       /\ AtEnd(body, h1, o1, b, t) /\ Grows(code, h, o, body, h1, o1)
  <2>1. \A j \in con.continueJumps : j # NoInstr => j \in Pendings(nested) /\ h1[j] = b /\ o1[j] \subseteq t
    BY <1>8, <1>9, <1>10
  <2>2. jumps \subseteq Pendings(nested) /\ Pendings(nested) \subseteq jumps \cup con.continueJumps
    BY <1>8, <1>9, <1>13
  <2>3. /\ Draft(c1, h1, o1, Pendings(nested), LoopsOf(nested, g)) /\ AtEnd(c1, h1, o1, b, t)
        /\ Grows(code, h, o, c1, h1, o1)
    BY <1>10
  <2> QED BY ONLY <2>1, <2>2, <2>3, <1>12, PatchedAtEnd
<1>15. body \in Seq(Instruction) /\ Len(body) \in Nat
  <2>1. body \in Seq(Instruction)
    BY <1>14 DEF Draft
  <2> QED BY <2>1
<1>16. PICK branch : branch = Branch(cond, b)
  OBVIOUS
<1>17. PICK e : e = BranchAt(body, branch)
  OBVIOUS
<1>18. PICK tested : tested = body \o branch
  OBVIOUS
<1>19. PICK jumps2 : jumps2 = jumps \cup ({e} \ {NoInstr})
  OBVIOUS
<1>20. PICK h2, o2 :
         /\ Draft(tested, h2, o2, jumps2, LoopsOf(nested, g))
         /\ Grows(body, h1, o1, tested, h2, o2)
         /\ AtEnd(tested, h2, o2, b, t)
         /\ e # NoInstr => e = Len(body) + 1 /\ h2[Len(body) + 1] = b /\ o2[Len(body) + 1] = t
  <2>1. b \in Nat /\ t \in SUBSET (1 .. b) /\ cond \in Conditions
    BY <1>8, <1>11
  <2>2. Draft(body, h1, o1, jumps, LoopsOf(nested, g)) /\ AtEnd(body, h1, o1, b, t)
    BY <1>14
  <2>3. \A r \in LoopsOf(nested, g) : r[2] <= b
    BY <1>8
  <2>4. PICK h2, o2 : Branched(body, h1, o1, b, t, e, jumps2, LoopsOf(nested, g), tested, h2, o2)
    BY ONLY <2>1, <2>2, <2>3, <1>16, <1>17, <1>18, <1>19, BranchKeeps
  <2> QED BY <2>4 DEF Branched
<1>21. tested \in Seq(Instruction) /\ Len(tested) \in Nat /\ Len(body) <= Len(tested)
  <2>1. tested \in Seq(Instruction)
    BY <1>20 DEF Draft
  <2> QED BY <2>1, <1>20 DEF Grows
<1>22. \A i \in 1 .. Len(body) + 1 : h2[i] = h1[i] /\ o2[i] = o1[i]
  BY <1>20 DEF Grows
<1>23. PICK start \in 1 .. Len(tested) + 1 :
         /\ start = con.start /\ h2[start] = b /\ t \subseteq o2[start]
         /\ \A r \in LoopsOf(nested, g) : r[1] <= start
  <2>1. con.start \in 1 .. Len(body) + 1 /\ con.start \in 1 .. Len(tested) + 1
    BY <1>10, <1>14, <1>15, <1>21
  <2> QED BY <2>1, <1>10, <1>22
<1>24. PICK instr : instr = Instr("LOOP", start, b)
  OBVIOUS
<1>25. PICK looped : looped = Append(tested, instr)
  OBVIOUS
<1>26. PICK h3, o3 : /\ Draft(looped, h3, o3, jumps2, LoopsOf(nested, g))
                     /\ Grows(tested, h2, o2, looped, h3, o3)
                     /\ AtEnd(looped, h3, o3, b, t)
  <2>1. b \in {Unknown, b} /\ b \in Nat /\ t \in SUBSET (1 .. b) /\ \A r \in LoopsOf(nested, g) : r[2] <= b
    BY <1>8
  <2>2. h2[start] = b /\ t \subseteq o2[start] /\ \A r \in LoopsOf(nested, g) : r[1] <= start
    BY <1>23
  <2>3. Draft(tested, h2, o2, jumps2, LoopsOf(nested, g)) /\ AtEnd(tested, h2, o2, b, t)
    BY <1>20
  <2>4. start \in 1 .. Len(tested) + 1
    OBVIOUS
  <2>5. \E h3, o3 : /\ Draft(Append(tested, instr), h3, o3, jumps2, LoopsOf(nested, g))
                    /\ Len(Append(tested, instr)) = Len(tested) + 1
                    /\ Grows(tested, h2, o2, Append(tested, instr), h3, o3)
                    /\ AtEnd(Append(tested, instr), h3, o3, b, t)
    BY ONLY <2>1, <2>2, <2>3, <2>4, <1>24, LoopEmitted
  <2> QED BY <2>5, <1>25
<1>27. Grows(body, h1, o1, looped, h3, o3)
  BY <1>15, <1>20, <1>26, GrowsOn
<1>28. Grows(code, h, o, looped, h3, o3)
  BY <1>1, <1>14, <1>27, CodeIs, GrowsOn
<1>29. PICK patched : patched = con.breakJumps \cup {e}
  OBVIOUS
<1>30. \A j \in patched : j # NoInstr => j \in jumps2 /\ h3[j] = b /\ o3[j] \subseteq t
  <2> SUFFICES ASSUME NEW j \in patched, j # NoInstr
               PROVE  j \in jumps2 /\ h3[j] = b /\ o3[j] \subseteq t
    OBVIOUS
  <2>1. CASE j = e
    <3>1. j \in 1 .. Len(tested) /\ j \in jumps2
      BY <2>1, <1>19, <1>20 DEF Draft
    <3>2. h3[j] = h2[j] /\ o3[j] = o2[j]
      BY <3>1, <1>21, <1>26 DEF Grows
    <3> QED BY <2>1, <3>1, <3>2, <1>20
  <2>2. CASE j \in con.breakJumps
    <3>1. j \in Pending(con) /\ j \in jumps /\ j \in jumps2
      BY <2>2, <1>9, <1>13, <1>19
    <3>2. j \in 1 .. Len(body)
      BY <3>1, <1>14 DEF Draft
    <3>3. h3[j] = h1[j] /\ o3[j] = o1[j]
      BY <3>2, <1>15, <1>27 DEF Grows
    <3> QED BY <3>1, <3>3, <1>10
  <2> QED BY <2>1, <2>2, <1>29
<1>31. PICK c2 : c2 = Patched(looped, patched)
  OBVIOUS
<1>32. /\ Draft(c2, h3, o3, Pendings(Front(nested)), LoopsOf(nested, g))
       /\ AtEnd(c2, h3, o3, b, t) /\ Grows(code, h, o, c2, h3, o3)
  <2>1. Pendings(Front(nested)) \subseteq jumps2 /\ jumps2 \subseteq Pendings(Front(nested)) \cup patched
    BY <1>13, <1>19, <1>29
  <2> QED BY ONLY <2>1, <1>26, <1>28, <1>30, <1>31, PatchedAtEnd
<1>33. Innermost.kind # "FOR" /\ Close(c2)
  <2>1. ContinueTo(c1, con) = body
    BY <1>12 DEF ContinueTo, Patched
  <2> QED BY <2>1, <1>2, <1>11, <1>16, <1>17, <1>18, <1>23, <1>24, <1>25, <1>29, <1>31
<1> QED BY <1>1, <1>2, <1>4, <1>5, <1>32, <1>33, Closes

LEMMA EndForKeeps ==
  ASSUME Understood, EndFor
  PROVE  Understood'
<1>1. PICK h, o, g : Well(code, locals, scopeDepth, nested, h, o, g)
  BY DEF Understood
<1>2. nested # <<>> /\ Innermost.kind = "FOR"
  BY DEF EndFor, IsInside
<1>3. /\ code \in Seq(Instruction) /\ Len(code) \in Nat
      /\ locals \in Seq(Local) /\ Len(locals) \in Nat /\ scopeDepth \in Nat
      /\ nested \in Seq(Construction) /\ Nest(code, locals, scopeDepth, nested, h, o, g)
  BY <1>1, CodeIs
<1>4. PICK m \in Nat : m = Len(nested) /\ m \in 1 .. m /\ Innermost = nested[m]
  BY <1>2, <1>3, FrontIs DEF Innermost
<1>5. PICK b \in Nat : b = g[m].base
  BY <1>3, <1>4, NestIs
<1>6. PICK n \in Nat : n = g[m].before
  BY <1>3, <1>4, NestIs
<1>7. b <= Len(locals) /\ n <= b
  BY <1>3, <1>4, <1>5, <1>6, NestIs
<1>8. PICK t : t = Captured(locals) \cap (1 .. b)
  OBVIOUS
<1>9. Outside = b
  <2>1. PICK con : con = Innermost
    OBVIOUS
  <2>2. PICK c1 : c1 = code \o EndScope
    OBVIOUS
  <2>3. Leaving(g, con, b, t)
    BY <2>1, <2>2, <1>1, <1>2, <1>4, <1>5, <1>8, Inside
  <2> QED BY <2>3 DEF Leaving
<1>10. Cardinality({i \in DOMAIN locals : locals[i].depth < scopeDepth - 1}) = n
  <2>1. scopeDepth = g[m].depth
    BY <1>3, <1>4, NestIs
  <2>2. Layer(locals, nested[m], g[m])
    BY <1>3, <1>4 DEF Nest
  <2>3. \A s \in 1 .. Len(locals) : locals[s].depth < scopeDepth - 1 <=> s <= n
    BY <2>1, <2>2, <1>2, <1>4, <1>6 DEF Layer
  <2>4. n \in 0 .. Len(locals)
    BY <1>3, <1>7
  <2> QED BY <2>3, <2>4, <1>3, CountedBelow
<1>11. PICK c2 : c2 = LoopEnd(Innermost)
  OBVIOUS
<1>12. PICK h2, o2 : /\ Draft(c2, h2, o2, Pendings(Front(nested)), LoopsOf(nested, g))
                     /\ Grows(code, h, o, c2, h2, o2)
                     /\ AtEnd(c2, h2, o2, b, t)
  BY <1>1, <1>2, <1>4, <1>5, <1>8, <1>11, LoopEnds
<1>13. PICK k : k = SubSeq(locals, 1, b)
  OBVIOUS
<1>14. k \in Seq(Local) /\ Len(k) = b /\ \A s \in 1 .. b : s \in 1 .. Len(locals) /\ k[s] = locals[s]
  BY <1>3, <1>7, <1>13
<1>15. Captured(k) = t /\ Captured(k) \cap (1 .. n) = Captured(locals) \cap (1 .. n)
  <2>1. Captured(k) = t
    BY <1>8, <1>14 DEF Captured
  <2>2. \A s \in 1 .. n : s \in 1 .. b
    BY <1>7
  <2> QED BY <2>1, <2>2, <1>8
<1>16. PICK loops : loops = LoopsOf(Front(nested), g)
  OBVIOUS
<1>17. /\ Draft(c2, h2, o2, Pendings(Front(nested)), loops) /\ AtEnd(c2, h2, o2, Len(k), Captured(k))
       /\ \A r \in loops : r[2] <= n
  <2>1. loops \subseteq LoopsOf(nested, g)
    BY <1>2, <1>3, <1>16, FrontIs
  <2>2. Draft(c2, h2, o2, Pendings(Front(nested)), loops)
    BY <2>1, <1>12, LoopsShrink
  <2>3. \A r \in loops : r[2] <= n
    BY <1>2, <1>3, <1>4, <1>6, <1>16, LoopsLow
  <2> QED BY <2>2, <2>3, <1>12, <1>14, <1>15
<1>18. PICK c3 : c3 = c2 \o Removal(k, n)
  OBVIOUS
<1>19. PICK h3, o3 : /\ Draft(c3, h3, o3, Pendings(Front(nested)), loops)
                     /\ Grows(c2, h2, o2, c3, h3, o3)
                     /\ AtEnd(c3, h3, o3, n, Captured(locals) \cap (1 .. n))
  <2>1. n \in 0 .. Len(k)
    BY <1>7, <1>14
  <2>2. \E h3, o3 : /\ Draft(c2 \o Removal(k, n), h3, o3, Pendings(Front(nested)), loops)
                    /\ Grows(c2, h2, o2, c2 \o Removal(k, n), h3, o3)
                    /\ AtEnd(c2 \o Removal(k, n), h3, o3, n, Captured(k) \cap (1 .. n))
    BY <2>1, <1>14, <1>17, RemovalKeeps
  <2> QED BY <2>2, <1>15, <1>18
<1>20. Grows(code, h, o, c3, h3, o3)
  BY <1>3, <1>12, <1>19, GrowsOn
<1>21. Well(c3, SubSeq(locals, 1, n), scopeDepth - Levels(Last(nested)), Front(nested), h3, o3, g)
  <2>1. LoopsOf(Front(nested), g) \subseteq loops
    BY <1>16
  <2> QED BY <2>1, <1>2, <1>3, <1>4, <1>6, <1>19, <1>20, Ended
<1>22. Levels(Last(nested)) = 2
  BY <1>2 DEF Levels, Innermost
<1>23. /\ code' = c3 /\ locals' = SubSeq(locals, 1, n) /\ scopeDepth' = scopeDepth - 2
       /\ nested' = Front(nested)
  BY <1>9, <1>10, <1>11, <1>13, <1>18 DEF EndFor
<1> QED BY <1>21, <1>22, <1>23 DEF Understood


(* The clauses of a for: what precedes its body.                           *)
Clauses(c, h, o, n, t, jumps, loops, e, start, c2, h2, o2) ==
  /\ Draft(c2, h2, o2, jumps, loops) /\ Grows(c, h, o, c2, h2, o2) /\ AtEnd(c2, h2, o2, n, t)
  /\ e # NoInstr => e \in 1 .. Len(c2) /\ h2[e] = n /\ o2[e] \subseteq t
  /\ start \in Len(c) + 1 .. Len(c2) + 1 /\ h2[start] = n /\ t \subseteq o2[start]

LEMMA ConditionKeeps ==
  ASSUME NEW c, NEW h, NEW o, NEW jumps, NEW loops, Draft(c, h, o, jumps, loops),
         NEW n \in Nat, NEW t \in SUBSET (1 .. n), AtEnd(c, h, o, n, t),
         \A r \in loops : r[2] <= n, NEW cond \in Conditions,
         NEW branch, branch = Branch(cond, n), NEW e, e = BranchAt(c, branch),
         NEW tested, tested = c \o branch,
         NEW start, start = Len(c) + 1,
         NEW jumps2, jumps2 = jumps \cup ({e} \ {NoInstr})
  PROVE  \E h2, o2 : Clauses(c, h, o, n, t, jumps2, loops, e, start, tested, h2, o2)
<1>1. c \in Seq(Instruction) /\ Len(c) \in Nat
  <2>1. c \in Seq(Instruction)
    BY DEF Draft
  <2> QED BY <2>1
<1>2. n \in {Unknown, n} /\ \A r \in loops : r[2] <= n
  OBVIOUS
<1>3. PICK h1, o1 :
        /\ Draft(tested, h1, o1, jumps2, loops) /\ Grows(c, h, o, tested, h1, o1)
        /\ AtEnd(tested, h1, o1, n, t)
        /\ e # NoInstr => e = Len(c) + 1 /\ h1[Len(c) + 1] = n /\ o1[Len(c) + 1] = t
  <2>1. /\ Draft(c, h, o, jumps, loops) /\ AtEnd(c, h, o, n, t)
        /\ n \in Nat /\ t \in SUBSET (1 .. n) /\ cond \in Conditions
    OBVIOUS
  <2>2. branch = Branch(cond, n) /\ e = BranchAt(c, branch) /\ tested = c \o branch
    OBVIOUS
  <2>3. jumps2 = jumps \cup ({e} \ {NoInstr})
    OBVIOUS
  <2>4. PICK h1, o1 : Branched(c, h, o, n, t, e, jumps2, loops, tested, h1, o1)
    BY ONLY <2>1, <2>2, <2>3, <1>2, BranchKeeps
  <2> QED BY <2>4 DEF Branched
<1>4. tested \in Seq(Instruction) /\ Len(tested) \in Nat /\ Len(c) <= Len(tested)
  <2>1. tested \in Seq(Instruction)
    BY <1>3 DEF Draft
  <2> QED BY <2>1, <1>3 DEF Grows
<1>5. ASSUME e # NoInstr PROVE e \in 1 .. Len(tested) /\ h1[e] = n /\ o1[e] \subseteq t
  <2>1. e \in jumps2
    BY <1>5
  <2> QED BY <2>1, <1>3, <1>5 DEF Draft
<1>6. h1[Len(c) + 1] = n /\ o1[Len(c) + 1] = t /\ Len(c) + 1 \in 1 .. Len(tested) + 1
  <2>1. Len(c) + 1 \in 1 .. Len(c) + 1
    BY <1>1
  <2>2. h1[Len(c) + 1] = h[Len(c) + 1] /\ o1[Len(c) + 1] = o[Len(c) + 1]
    BY <2>1, <1>3 DEF Grows
  <2> QED BY <2>2, <1>1, <1>4 DEF AtEnd
<1>7. start \in Len(c) + 1 .. Len(tested) + 1
  BY <1>1, <1>4
<1>8. Clauses(c, h, o, n, t, jumps2, loops, e, start, tested, h1, o1)
  BY <1>3, <1>5, <1>6, <1>7 DEF Clauses
<1> QED BY <1>8

(* The increment is emitted before the body: the code jumps over it to the *)
(* body, and from it back to the condition.                                *)
LEMMA IncrementKeeps ==
  ASSUME NEW c, c \in Seq(Instruction), Len(c) \in Nat, NEW h, NEW o, NEW n \in Nat, NEW t \in SUBSET (1 .. n),
         NEW jumps2, NEW loops, \A r \in loops : r[2] <= n /\ r[1] <= Len(c) + 1,
         NEW e, NEW tested, NEW first, first = Len(c) + 1,
         NEW h1, NEW o1, Clauses(c, h, o, n, t, jumps2, loops, e, first, tested, h1, o1),
         NEW clauses,
         clauses = Patched(tested \o <<Instr("JUMP", NoInstr, n),
                                       Instr("EXPRESSION", 0, n),
                                       Instr("LOOP", first, n)>>, {Len(tested) + 1}),
         NEW start, start = Len(tested) + 2
  PROVE  \E h2, o2 : Clauses(c, h, o, n, t, jumps2, loops, e, start, clauses, h2, o2)
<1>2. n \in {Unknown, n} /\ \A r \in loops : r[2] <= n
  OBVIOUS
<1>3. /\ Draft(tested, h1, o1, jumps2, loops) /\ Grows(c, h, o, tested, h1, o1)
      /\ AtEnd(tested, h1, o1, n, t)
  BY DEF Clauses
<1>4. tested \in Seq(Instruction) /\ Len(tested) \in Nat /\ Len(c) <= Len(tested)
  <2>1. tested \in Seq(Instruction)
    BY <1>3 DEF Draft
  <2> QED BY <2>1, <1>3 DEF Grows
<1>5. ASSUME e # NoInstr PROVE e \in 1 .. Len(tested) /\ h1[e] = n /\ o1[e] \subseteq t
  BY <1>5 DEF Clauses
<1>6. h1[first] = n /\ t \subseteq o1[first] /\ first \in 1 .. Len(tested) + 1
  BY <1>4 DEF Clauses
<1>7. PICK bodyJump : bodyJump = Len(tested) + 1
  OBVIOUS
<1>11. PICK i1 : i1 = Instr("JUMP", NoInstr, n)
  OBVIOUS
<1>12. PICK i2 : i2 = Instr("EXPRESSION", 0, n)
  OBVIOUS
<1>13. first = Len(c) + 1 /\ first \in 1 .. Len(tested) + 1
  BY <1>6
<1>14. PICK i3 : i3 = Instr("LOOP", first, n)
  OBVIOUS
<1>15. PICK c3 : c3 = Append(tested, i1)
  OBVIOUS
<1>16. PICK c4 : c4 = Append(c3, i2)
  OBVIOUS
<1>17. PICK c5 : c5 = Append(c4, i3)
  OBVIOUS
<1>18. PICK jumps3 : jumps3 = jumps2 \cup {bodyJump}
  OBVIOUS
(* The jump over the increment. *)
<1>19. PICK h3, o3 :
        /\ Draft(c3, h3, o3, jumps3, loops) /\ Len(c3) = Len(tested) + 1
        /\ Grows(tested, h1, o1, c3, h3, o3) /\ AtEnd(c3, h3, o3, n, t)
  <2>1. Draft(tested, h1, o1, jumps2, loops) /\ AtEnd(tested, h1, o1, n, t)
    BY <1>3
  <2>2. \E h3, o3 : /\ Draft(Append(tested, i1), h3, o3, jumps2 \cup {Len(tested) + 1}, loops)
                    /\ Len(Append(tested, i1)) = Len(tested) + 1
                    /\ Grows(tested, h1, o1, Append(tested, i1), h3, o3)
                    /\ AtEnd(Append(tested, i1), h3, o3, n, t)
    BY ONLY <2>1, <1>2, <1>11, n \in Nat, t \in SUBSET (1 .. n), JumpEmitted
  <2> QED BY <2>2, <1>7, <1>15, <1>18
<1>20. /\ i2 \in Instruction /\ i2.locals \in {Unknown, n} /\ ~ IsJump(i2)
       /\ HeightAfter(i2, n) = n /\ OpenAfter(i2, n, t) = t
  <2>1. "EXPRESSION" \in Ops /\ n \in Int
    BY DEF Ops
  <2>2. i2 \in Instruction /\ i2.op = "EXPRESSION" /\ i2.locals = n
    BY <2>1, <1>12, InstrIs
  <2> QED BY <2>2 DEF IsJump, JumpOps, HeightAfter, OpenAfter
(* The increment. *)
<1>21. PICK h4, o4 :
         /\ Draft(c4, h4, o4, jumps3, loops) /\ Len(c4) = Len(c3) + 1
         /\ Grows(c3, h3, o3, c4, h4, o4) /\ AtEnd(c4, h4, o4, n, t)
  <2>1. Draft(c3, h3, o3, jumps3, loops) /\ AtEnd(c3, h3, o3, n, t)
    BY <1>19
  <2>2. \E h4, o4 : /\ Draft(Append(c3, i2), h4, o4, jumps3, loops)
                    /\ Len(Append(c3, i2)) = Len(c3) + 1
                    /\ Grows(c3, h3, o3, Append(c3, i2), h4, o4)
                    /\ AtEnd(Append(c3, i2), h4, o4, n, t)
    BY <2>1, <1>20, Emitted
  <2> QED BY <2>2, <1>16
<1>22. c3 \in Seq(Instruction) /\ c4 \in Seq(Instruction) /\ Len(c3) \in Nat /\ Len(c4) \in Nat
  <2>1. c3 \in Seq(Instruction) /\ c4 \in Seq(Instruction)
    BY <1>19, <1>21 DEF Draft
  <2> QED BY <2>1
<1>23. /\ Grows(tested, h1, o1, c4, h4, o4) /\ Grows(c, h, o, c4, h4, o4)
       /\ Grows(c, h, o, c3, h3, o3)
  BY <1>3, <1>4, <1>19, <1>21, <1>22, GrowsOn
<1>24. first \in 1 .. Len(c4) + 1 /\ h4[first] = n /\ t \subseteq o4[first]
  <2>1. h4[first] = h1[first] /\ o4[first] = o1[first]
    BY <1>13, <1>23 DEF Grows
  <2> QED BY <2>1, <1>13, <1>23, <1>4, <1>6, <1>22 DEF Grows
(* The jump back to the condition. *)
<1>25. PICK h5, o5 :
         /\ Draft(c5, h5, o5, jumps3, loops) /\ Len(c5) = Len(c4) + 1
         /\ Grows(c4, h4, o4, c5, h5, o5) /\ AtEnd(c5, h5, o5, n, t)
  <2>1. Draft(c4, h4, o4, jumps3, loops) /\ AtEnd(c4, h4, o4, n, t)
    BY <1>21
  <2>2. \A r \in loops : r[1] <= first
    OBVIOUS
  <2>3. first \in 1 .. Len(c4) + 1 /\ h4[first] = n /\ t \subseteq o4[first]
    BY <1>24
  <2>4. \E h5, o5 : /\ Draft(Append(c4, i3), h5, o5, jumps3, loops)
                    /\ Len(Append(c4, i3)) = Len(c4) + 1
                    /\ Grows(c4, h4, o4, Append(c4, i3), h5, o5)
                    /\ AtEnd(Append(c4, i3), h5, o5, n, t)
    BY ONLY <2>1, <2>2, <2>3, <1>2, <1>14, n \in Nat, t \in SUBSET (1 .. n), LoopEmitted
  <2> QED BY <2>4, <1>17
<1>26. c5 \in Seq(Instruction) /\ Len(c5) \in Nat /\ Grows(c3, h3, o3, c5, h5, o5)
  <2>1. c5 \in Seq(Instruction)
    BY <1>25 DEF Draft
  <2> QED BY <2>1, <1>21, <1>22, <1>25, GrowsOn
<1>27. Grows(tested, h1, o1, c5, h5, o5) /\ Grows(c, h, o, c5, h5, o5)
  BY <1>4, <1>23, <1>22, <1>25, GrowsOn
<1>28. PICK patched : patched = {bodyJump}
  OBVIOUS
<1>29. \A j \in patched : j # NoInstr => j \in jumps3 /\ h5[j] = n /\ o5[j] \subseteq t
  <2>1. bodyJump \in 1 .. Len(tested) + 1 /\ h1[bodyJump] = n /\ o1[bodyJump] = t
    BY <1>3, <1>4, <1>7 DEF AtEnd
  <2>2. h5[bodyJump] = h1[bodyJump] /\ o5[bodyJump] = o1[bodyJump]
    BY <2>1, <1>27 DEF Grows
  <2> QED BY <2>1, <2>2, <1>18, <1>28
<1>30. PICK c6 : c6 = Patched(c5, patched)
  OBVIOUS
<1>31. /\ Draft(c6, h5, o5, jumps2, loops) /\ Len(c6) = Len(c5)
       /\ AtEnd(c6, h5, o5, n, t) /\ Grows(c, h, o, c6, h5, o5)
  <2>1. jumps2 \subseteq jumps3 /\ jumps3 \subseteq jumps2 \cup patched
    BY <1>18, <1>28
  <2>2. Draft(c5, h5, o5, jumps3, loops) /\ AtEnd(c5, h5, o5, n, t)
    BY <1>25
  <2>3. /\ Draft(Patched(c5, patched), h5, o5, jumps2, loops)
        /\ Len(Patched(c5, patched)) = Len(c5)
        /\ AtEnd(Patched(c5, patched), h5, o5, n, t)
        /\ \A c0, h0, o0 : Grows(c0, h0, o0, c5, h5, o5) => Grows(c0, h0, o0, Patched(c5, patched), h5, o5)
    BY ONLY <2>1, <2>2, <1>29, PatchedAtEnd, SMTT(30)
  <2> QED BY <2>3, <1>27, <1>30
<1>32. c6 = clauses
  <2>1. tested \o <<i1, i2, i3>> = c5
    <3>1. /\ i1 \in Instruction /\ i2 \in Instruction /\ i3 \in Instruction
      <4>1. c3[Len(c3)] = i1 /\ c4[Len(c4)] = i2 /\ c5[Len(c5)] = i3
        BY <1>4, <1>15, <1>16, <1>17, <1>22
      <4>2. Len(c3) \in 1 .. Len(c3) /\ Len(c4) \in 1 .. Len(c4) /\ Len(c5) \in 1 .. Len(c5)
        BY <1>4, <1>19, <1>21, <1>22, <1>25
      <4> QED BY <4>1, <4>2, <1>22, <1>26
    <3>2. PICK s3 : s3 = <<i1, i2, i3>>
      OBVIOUS
    <3>3. PICK k \in Nat : k = Len(tested)
      BY <1>4
    <3>4. /\ Len(c5) = k + 3 /\ c5[k + 1] = i1 /\ c5[k + 2] = i2 /\ c5[k + 3] = i3
          /\ \A i \in 1 .. k : c5[i] = tested[i]
      BY <3>3, <1>4, <1>15, <1>16, <1>17, <1>22
    <3>5. s3 \in Seq(Instruction) /\ Len(s3) = 3 /\ s3[1] = i1 /\ s3[2] = i2 /\ s3[3] = i3
      BY <3>1, <3>2
    <3>6. PICK c7 : c7 = tested \o s3
      OBVIOUS
    <3>7. /\ c7 \in Seq(Instruction) /\ Len(c7) = k + 3
          /\ \A i \in 1 .. k + 3 : c7[i] = IF i <= k THEN tested[i] ELSE s3[i - k]
      <4>2. /\ tested \o s3 \in Seq(Instruction) /\ Len(tested \o s3) = Len(tested) + Len(s3)
            /\ \A i \in 1 .. Len(tested) + Len(s3) :
                 (tested \o s3)[i] = IF i <= Len(tested) THEN tested[i] ELSE s3[i - Len(tested)]
        <5>1. tested \in Seq(Instruction) /\ s3 \in Seq(Instruction)
          BY <1>4, <3>5
        <5> QED BY ONLY <5>1, ConcatProperties
      <4>3. Len(tested) + Len(s3) = k + 3 /\ Len(tested) = k
        BY <3>3, <3>5
      <4> QED BY ONLY <4>2, <4>3, <3>6
    <3>8. \A i \in 1 .. k + 3 : c7[i] = c5[i]
      <4>1. \A i \in 1 .. k + 3 : i \in 1 .. k \/ i = k + 1 \/ i = k + 2 \/ i = k + 3
        BY <3>3
      <4>2. c7[k + 1] = i1 /\ c7[k + 2] = i2 /\ c7[k + 3] = i3
        <5>1. k + 1 - k = 1 /\ k + 2 - k = 2 /\ k + 3 - k = 3
          BY <3>3
        <5>2. \A i \in 1 .. k + 3 : i > k => c7[i] = s3[i - k]
          BY <3>3, <3>7
        <5>3. k + 1 \in 1 .. k + 3 /\ k + 2 \in 1 .. k + 3 /\ k + 3 \in 1 .. k + 3
          BY <3>3
        <5>4. k + 1 > k /\ k + 2 > k /\ k + 3 > k
          BY <3>3
        <5> QED BY <5>1, <5>2, <5>3, <5>4, <3>5
      <4>3. \A i \in 1 .. k : c7[i] = tested[i]
        BY <3>3, <3>7
      <4> QED BY <4>1, <4>2, <4>3, <3>4
    <3>9. c7 = c5
      BY <3>4, <3>7, <3>8, <1>26, SeqEqual
    <3> QED BY <3>2, <3>6, <3>9
  <2> QED BY <2>1, <1>7, <1>11, <1>12, <1>13, <1>14, <1>28, <1>30
<1>33. start \in Len(c) + 1 .. Len(c6) + 1 /\ h5[start] = n /\ o5[start] = t
  <2>1. start = Len(c3) + 1 /\ start \in 1 .. Len(c3) + 1
    BY <1>4, <1>19, <1>22
  <2>2. h5[start] = h3[start] /\ o5[start] = o3[start]
    BY <2>1, <1>26 DEF Grows
  <2> QED BY <2>1, <2>2, <1>4, <1>19, <1>22, <1>26, <1>31, <1>21, <1>25 DEF AtEnd
<1>34. ASSUME e # NoInstr PROVE e \in 1 .. Len(c6) /\ h5[e] = n /\ o5[e] \subseteq t
  <2>1. e \in 1 .. Len(tested) /\ h1[e] = n /\ o1[e] \subseteq t
    BY <1>34, <1>5
  <2>2. h5[e] = h1[e] /\ o5[e] = o1[e]
    BY <2>1, <1>4, <1>27 DEF Grows
  <2>3. Len(tested) <= Len(c6)
    BY <1>27, <1>31 DEF Grows
  <2> QED BY <2>1, <2>2, <2>3, <1>4, <1>26, <1>31
<1>35. Clauses(c, h, o, n, t, jumps2, loops, e, start, c6, h5, o5)
  BY <1>31, <1>33, <1>34 DEF Clauses
<1> QED BY <1>32, <1>35


(* The initializer of a for declares a local, or there is none. *)
Entered(h, o, g, locs2, n, c, h2, o2) ==
  /\ n \in Nat /\ Len(locs2) = n /\ Len(locals) <= n
  /\ Draft(c, h2, o2, Pendings(nested), LoopsOf(nested, g))
  /\ Grows(code, h, o, c, h2, o2) /\ AtEnd(c, h2, o2, n, Captured(locs2))
  /\ Extends(locals, locs2, scopeDepth)
  /\ \A s \in 1 .. n : /\ locs2[s].depth < scopeDepth + 2 /\ locs2[s].depth <= scopeDepth + 2
                       /\ locs2[s].depth < scopeDepth + 1 <=> s <= Len(locals)

LEMMA ForEnters ==
  ASSUME NEW h, NEW o, NEW g, Well(code, locals, scopeDepth, nested, h, o, g),
         NEW initialized \in BOOLEAN,
         NEW n, n = IF initialized THEN Len(locals) + 1 ELSE Len(locals),
         NEW c, c = IF initialized THEN Emit(Instr("VALUE", 0, Len(locals))) ELSE code,
         NEW locs2,
         locs2 = IF initialized
                   THEN Append(locals, [depth |-> scopeDepth + 1, isCaptured |-> FALSE])
                   ELSE locals
  PROVE  \E h2, o2 : Entered(h, o, g, locs2, n, c, h2, o2)
<1>1. /\ code \in Seq(Instruction) /\ Len(code) \in Nat
      /\ locals \in Seq(Local) /\ Len(locals) \in Nat /\ scopeDepth \in Nat
      /\ nested \in Seq(Construction) /\ Nest(code, locals, scopeDepth, nested, h, o, g)
  BY CodeIs
<1>2. \A s \in 1 .. Len(locals) : locals[s].depth \in Int /\ locals[s].depth <= scopeDepth
  <2>1. \A s \in 1 .. Len(locals) : locals[s] \in Local /\ locals[s].depth <= scopeDepth
    BY <1>1, NestIs
  <2> QED BY <2>1 DEF Local
<1>3. /\ Draft(code, h, o, Pendings(nested), LoopsOf(nested, g))
      /\ AtEnd(code, h, o, Len(locals), Captured(locals))
  BY DEF Well
<1>4. CASE ~ initialized
  <2>1. n = Len(locals) /\ c = code /\ locs2 = locals
    BY <1>4
  <2>2. Extends(locals, locals, scopeDepth) /\ Grows(code, h, o, code, h, o)
    BY <1>1 DEF Extends, Grows
  <2>3. \A s \in 1 .. Len(locals) : /\ locals[s].depth < scopeDepth + 2
                                    /\ locals[s].depth <= scopeDepth + 2
                                    /\ locals[s].depth < scopeDepth + 1 <=> s <= Len(locals)
    BY <1>1, <1>2
  <2>4. Entered(h, o, g, locals, n, code, h, o)
    BY <2>1, <2>2, <2>3, <1>1, <1>3 DEF Entered
  <2> QED BY <2>1, <2>4
<1>5. CASE initialized
  <2>1. PICK instr : instr = Instr("VALUE", 0, Len(locals))
    OBVIOUS
  <2>2. instr \in Instruction /\ instr.op = "VALUE" /\ instr.locals = Len(locals)
    <3>1. "VALUE" \in Ops
      BY DEF Ops
    <3> QED BY <3>1, <2>1, <1>1, InstrIs
  <2>3. /\ ~ IsJump(instr) /\ instr.locals \in {Unknown, Len(locals)}
        /\ \A k, t : HeightAfter(instr, k) = k + 1 /\ OpenAfter(instr, k, t) = t
    BY <2>2 DEF IsJump, JumpOps, HeightAfter, OpenAfter
  <2>4. PICK e \in Local : /\ e = [depth |-> scopeDepth + 1, isCaptured |-> FALSE]
                           /\ e.depth = scopeDepth + 1 /\ ~ e.isCaptured
    <3>1. scopeDepth + 1 \in Int
      BY <1>1
    <3> QED BY <3>1, LocalIs, Zenon
  <2>5. n = Len(locals) + 1 /\ c = Append(code, instr) /\ locs2 = Append(locals, e)
    BY <1>5, <2>1, <2>4 DEF Emit
  <2>6. /\ Extends(locals, locs2, scopeDepth) /\ Len(locs2) = n
        /\ \A s \in 1 .. Len(locals) : locs2[s] = locals[s]
        /\ locs2[n] = e /\ Captured(locs2) = Captured(locals)
    <3>1. scopeDepth <= e.depth
      BY <1>1, <2>4
    <3>2. /\ Extends(locals, Append(locals, e), scopeDepth)
          /\ Len(Append(locals, e)) = Len(locals) + 1
          /\ \A s \in 1 .. Len(locals) : Append(locals, e)[s] = locals[s]
          /\ Append(locals, e)[Len(locals) + 1] = e
          /\ ~ e.isCaptured => Captured(Append(locals, e)) = Captured(locals)
      BY ONLY <3>1, <1>1, <1>2, e \in Local, Declared
    <3> QED BY <3>2, <2>4, <2>5
  <2>7. \A s \in 1 .. n : /\ locs2[s].depth < scopeDepth + 2 /\ locs2[s].depth <= scopeDepth + 2
                          /\ locs2[s].depth < scopeDepth + 1 <=> s <= Len(locals)
    <3> SUFFICES ASSUME NEW s \in 1 .. n
                 PROVE  /\ locs2[s].depth < scopeDepth + 2 /\ locs2[s].depth <= scopeDepth + 2
                        /\ locs2[s].depth < scopeDepth + 1 <=> s <= Len(locals)
      OBVIOUS
    <3>1. CASE s = n
      BY <3>1, <1>1, <2>4, <2>5, <2>6
    <3>2. CASE s # n
      <4>1. s \in 1 .. Len(locals)
        BY <3>2, <1>1, <2>5
      <4> QED BY <4>1, <1>1, <1>2, <2>6
    <3> QED BY <3>1, <3>2
  <2>8. PICK t \in SUBSET (1 .. n) : t = Captured(locals) /\ t = Captured(locs2)
    BY <2>6 DEF Captured
  <2>9. PICK h2, o2 :
          /\ Draft(c, h2, o2, Pendings(nested), LoopsOf(nested, g))
          /\ Grows(code, h, o, c, h2, o2) /\ AtEnd(c, h2, o2, n, t)
    <3>1. n \in Nat /\ n = HeightAfter(instr, Len(locals)) /\ OpenAfter(instr, Len(locals), t) \subseteq t
      BY <1>1, <2>3, <2>5
    <3>2. \A r \in LoopsOf(nested, g) : r[2] <= n
      <4>1. \A r \in LoopsOf(nested, g) : r[2] <= Len(locals) /\ r[2] \in Nat
        BY <1>1, <1>3, LoopsLow DEF Draft, Stays
      <4> QED BY <4>1, <1>1, <2>5
    <3>3. AtEnd(code, h, o, Len(locals), t)
      BY <1>3, <2>8
    <3>4. \E h2, o2 : /\ Draft(Append(code, instr), h2, o2, Pendings(nested), LoopsOf(nested, g))
                      /\ Len(Append(code, instr)) = Len(code) + 1
                      /\ Grows(code, h, o, Append(code, instr), h2, o2)
                      /\ AtEnd(Append(code, instr), h2, o2, n, t)
      BY <3>1, <3>2, <3>3, <1>3, <2>2, <2>3, <2>8, Emitted
    <3> QED BY <3>4, <2>5
  <2>10. n \in Nat /\ Len(locals) <= n
    BY <1>1, <2>5
  <2>11. Entered(h, o, g, locs2, n, c, h2, o2)
    BY <2>6, <2>7, <2>8, <2>9, <2>10 DEF Entered
  <2> QED BY <2>11
<1> QED BY <1>4, <1>5

LEMMA BeginForKeeps ==
  ASSUME Understood, BeginFor, family \in Families
  PROVE  Understood'
<1>1. PICK h, o, g : Well(code, locals, scopeDepth, nested, h, o, g)
  BY DEF Understood
<1>2. /\ code \in Seq(Instruction) /\ Len(code) \in Nat
      /\ locals \in Seq(Local) /\ Len(locals) \in Nat /\ scopeDepth \in Nat
      /\ nested \in Seq(Construction) /\ Len(nested) \in Nat
      /\ Nest(code, locals, scopeDepth, nested, h, o, g) /\ g \in [Nat -> Frame]
  BY <1>1, CodeIs, NestIs
<1>3. PICK initialized \in BOOLEAN, cond \in Conditions, increment \in BOOLEAN :
       LET count == IF initialized THEN Len(locals) + 1 ELSE Len(locals)
           entered == IF initialized THEN Emit(Instr("VALUE", 0, Len(locals))) ELSE code
           branch == Branch(cond, count)
           tested == entered \o branch
           bodyJump == Len(tested) + 1
           clauses ==
             IF increment
               THEN Patched(tested \o <<Instr("JUMP", NoInstr, count),
                                        Instr("EXPRESSION", 0, count),
                                        Instr("LOOP", Len(entered) + 1, count)>>, {bodyJump})
               ELSE tested
       IN /\ code' = clauses
          /\ locals' = IF initialized
                         THEN Append(locals, [depth |-> scopeDepth + 1, isCaptured |-> FALSE])
                         ELSE locals
          /\ nested' = Append(nested,
               [Construct("FOR") EXCEPT
                  !.exit = BranchAt(entered, branch),
                  !.start = IF increment THEN bodyJump + 1 ELSE Len(entered) + 1,
                  !.enterParamCount = count])
  <2>1. family.conditions \subseteq Conditions
    BY ScopesAssumption DEF Conditions
  <2>2. {Len(locals) < family.localMax, FALSE} \subseteq BOOLEAN
    OBVIOUS
  <2> QED BY <2>1, <2>2, ZenonT(60) DEF BeginFor
<1>4. PICK n : n = IF initialized THEN Len(locals) + 1 ELSE Len(locals)
  OBVIOUS
<1>5. PICK entered : entered = IF initialized THEN Emit(Instr("VALUE", 0, Len(locals))) ELSE code
  OBVIOUS
<1>6. PICK locs2 : locs2 = IF initialized
                             THEN Append(locals, [depth |-> scopeDepth + 1, isCaptured |-> FALSE])
                             ELSE locals
  OBVIOUS
<1>7. PICK h1, o1 : Entered(h, o, g, locs2, n, entered, h1, o1)
  BY <1>1, <1>4, <1>5, <1>6, ForEnters
<1>8. PICK t : t = Captured(locs2)
  OBVIOUS
<1>9. /\ n \in Nat /\ Len(locs2) = n /\ Len(locals) <= n
      /\ Draft(entered, h1, o1, Pendings(nested), LoopsOf(nested, g))
      /\ Grows(code, h, o, entered, h1, o1) /\ AtEnd(entered, h1, o1, n, t)
      /\ Extends(locals, locs2, scopeDepth) /\ locs2 \in Seq(Local)
  BY <1>7, <1>8 DEF Entered, Extends
<1>10. \A s \in 1 .. n : /\ locs2[s].depth < scopeDepth + 2 /\ locs2[s].depth <= scopeDepth + 2
                         /\ locs2[s].depth < scopeDepth + 1 <=> s <= Len(locals)
  BY <1>7 DEF Entered
<1>11. t \in SUBSET (1 .. n)
  BY <1>8, <1>9 DEF Captured
<1>12. entered \in Seq(Instruction) /\ Len(entered) \in Nat /\ Len(code) <= Len(entered)
  <2>1. entered \in Seq(Instruction)
    BY <1>9 DEF Draft
  <2> QED BY <2>1, <1>9 DEF Grows
<1>13. PICK first \in Nat : first = Len(entered) + 1
  BY <1>12
<1>14. PICK loops : loops = LoopsOf(nested, g) \cup {<<first, n>>}
  OBVIOUS
<1>15. Draft(entered, h1, o1, Pendings(nested), loops)
  <2>1. Draft(entered, h1, o1, Pendings(nested), LoopsOf(nested, g) \cup {<<Len(entered) + 1, n>>})
    BY <1>9, LoopBegins
  <2> QED BY <2>1, <1>13, <1>14
<1>16. \A r \in loops : r[2] <= n
  <2>1. \A r \in LoopsOf(nested, g) : r[2] <= Len(locals) /\ r[2] \in Nat
    BY <1>2, <1>9, LoopsLow DEF Draft, Stays
  <2>2. PICK q : q = <<first, n>>
    OBVIOUS
  <2>3. q[2] = n /\ n <= n
    BY <2>2, <1>9
  <2> QED BY <2>1, <2>2, <2>3, <1>2, <1>9, <1>14
<1>17. PICK branch : branch = Branch(cond, n)
  OBVIOUS
<1>18. PICK e \in Int : e = BranchAt(entered, branch)
  BY <1>12 DEF BranchAt, NoInstr
<1>19. PICK tested : tested = entered \o branch
  OBVIOUS
<1>20. PICK bodyJump : bodyJump = Len(tested) + 1
  OBVIOUS
<1>21. PICK clauses :
         clauses = IF increment
                     THEN Patched(tested \o <<Instr("JUMP", NoInstr, n),
                                              Instr("EXPRESSION", 0, n),
                                              Instr("LOOP", first, n)>>, {bodyJump})
                     ELSE tested
  OBVIOUS
<1>22. PICK start : start = IF increment THEN bodyJump + 1 ELSE first
  OBVIOUS
<1>23. PICK jumps2 : jumps2 = Pendings(nested) \cup ({e} \ {NoInstr})
  OBVIOUS
<1>24. PICK h2, o2 : Clauses(entered, h1, o1, n, t, jumps2, loops, e, start, clauses, h2, o2)
  <2>1. Draft(entered, h1, o1, Pendings(nested), loops) /\ AtEnd(entered, h1, o1, n, t)
    BY <1>9, <1>15
  <2>2. n \in Nat /\ cond \in Conditions
    BY <1>3, <1>9
  <2>3. PICK h2, o2 : Clauses(entered, h1, o1, n, t, jumps2, loops, e, first, tested, h2, o2)
    BY ONLY <2>1, <2>2, <1>11, <1>13, <1>16, <1>17, <1>18, <1>19, <1>23, ConditionKeeps
  <2>4. CASE ~ increment
    BY <2>3, <2>4, <1>21, <1>22
  <2>5. CASE increment
    <3>1. \A r \in loops : r[2] <= n /\ r[1] <= Len(entered) + 1
      BY <1>12, <1>15, <1>16 DEF Draft, Stays
    <3>2. Len(tested) \in Nat
      <4>1. tested \in Seq(Instruction)
        BY <2>3 DEF Clauses, Draft
      <4> QED BY <4>1
    <3>3. /\ clauses = Patched(tested \o <<Instr("JUMP", NoInstr, n), Instr("EXPRESSION", 0, n),
                                           Instr("LOOP", first, n)>>, {Len(tested) + 1})
          /\ start = Len(tested) + 2
      BY <2>5, <3>2, <1>20, <1>21, <1>22
    <3>4. \E h3, o3 : Clauses(entered, h1, o1, n, t, jumps2, loops, e, start, clauses, h3, o3)
      BY ONLY <3>1, <3>3, <2>2, <2>3, <1>11, <1>12, <1>13, IncrementKeeps
    <3> QED BY <3>4
  <2> QED BY <2>4, <2>5
<1>25. /\ Draft(clauses, h2, o2, jumps2, loops) /\ Grows(entered, h1, o1, clauses, h2, o2)
       /\ AtEnd(clauses, h2, o2, n, t)
  BY <1>24 DEF Clauses
<1>26. /\ e # NoInstr => e \in 1 .. Len(clauses) /\ h2[e] = n /\ o2[e] \subseteq t
       /\ start \in first .. Len(clauses) + 1 /\ h2[start] = n /\ t \subseteq o2[start]
  BY <1>13, <1>24 DEF Clauses
<1>27. clauses \in Seq(Instruction) /\ Len(clauses) \in Nat /\ Len(entered) <= Len(clauses)
  <2>1. clauses \in Seq(Instruction)
    BY <1>25 DEF Draft
  <2> QED BY <2>1, <1>25 DEF Grows
<1>28. start \in Int
  BY <1>13, <1>26, <1>27
<1>29. PICK c0 : c0 = Construct("FOR")
  OBVIOUS
<1>30. IsConstruct(c0, "FOR", NoInstr, NoInstr, Len(locals))
  BY <1>2, <1>29, ConstructIs DEF Kinds
<1>31. PICK con : con = [c0 EXCEPT !.exit = e, !.start = start, !.enterParamCount = n]
  OBVIOUS
<1>32. IsConstruct(con, "FOR", e, start, n)
  <2>1. n \in Int
    BY <1>9
  <2> QED BY <2>1, <1>28, <1>30, <1>31 DEF IsConstruct, Construction
<1>33. /\ con \in Construction /\ Shape(con) /\ IsLoop(con) /\ con.kind = "FOR"
       /\ Pending(con) = {e} \ {NoInstr} /\ con.enterParamCount = n /\ con.start = start
  BY <1>32 DEF IsConstruct, Shape, IsLoop, LoopKinds, Pending
<1>34. PICK f \in Frame : /\ f.depth = scopeDepth + 2 /\ f.before = Len(locals)
                          /\ f.base = n /\ f.first = first
  <2>1. [depth |-> scopeDepth + 2, before |-> Len(locals), base |-> n, first |-> first] \in Frame
    BY <1>2, <1>9 DEF Frame
  <2> QED BY <2>1
<1>35. PICK g2 : Puts(g, Len(nested), f, g2)
  <2>1. PICK g3 : g3 = [g EXCEPT ![Len(nested) + 1] = f]
    OBVIOUS
  <2>2. Puts(g, Len(nested), f, g3)
    BY <2>1, <1>2 DEF Puts
  <2> QED BY <2>2
<1>36. PICK ns2 : ns2 = Append(nested, con)
  OBVIOUS
<1>37. Pendings(ns2) = jumps2 /\ LoopsOf(ns2, g2) = loops
  <2>1. /\ Pendings(Append(nested, con)) = Pendings(nested) \cup Pending(con)
        /\ IsLoop(con) => LoopsOf(Append(nested, con), g2) = LoopsOf(nested, g) \cup {<<f.first, f.base>>}
    BY <1>2, <1>33, <1>35, Appended
  <2> QED BY <2>1, <1>14, <1>23, <1>33, <1>34, <1>36
<1>38. Captured(locs2) \cap (1 .. f.base) = t
  BY <1>8, <1>9, <1>34 DEF Captured
<1>39. Layer(locs2, con, f)
  <2>1. f.before <= f.base /\ f.base <= Len(locs2)
    BY <1>9, <1>34
  <2>2. \A s \in 1 .. Len(locs2) : locs2[s].depth < f.depth <=> s <= f.base
    BY <1>9, <1>10, <1>34
  <2>3. \A s \in 1 .. Len(locs2) : locs2[s].depth < f.depth - 1 <=> s <= f.before
    <3>1. f.depth - 1 = scopeDepth + 1
      BY <1>2, <1>34
    <3> QED BY <3>1, <1>9, <1>10, <1>34
  <2> QED BY <2>1, <2>2, <2>3, <1>33, <1>34 DEF Layer
<1>40. Known(clauses, h2, o2, locs2, con, f)
  <2>1. f.first \in 1 .. Len(clauses) + 1
    BY <1>12, <1>13, <1>27, <1>34
  <2>2. \A i \in Pending(con) : /\ i \in 1 .. Len(clauses) /\ h2[i] = f.base
                                /\ o2[i] \subseteq Captured(locs2) \cap (1 .. f.base)
    BY <1>26, <1>33, <1>34, <1>38
  <2>3. /\ con.start \in f.first .. Len(clauses) + 1 /\ h2[con.start] = f.base
        /\ Captured(locs2) \cap (1 .. f.base) \subseteq o2[con.start]
    BY <1>26, <1>33, <1>34, <1>38
  <2> QED BY <2>1, <2>2, <2>3 DEF Known
<1>41. Grows(code, h, o, clauses, h2, o2)
  BY <1>2, <1>9, <1>12, <1>25, GrowsOn
<1>42. Nest(clauses, locs2, scopeDepth + 2, ns2, h2, o2, g2)
  <2>1. f.depth = scopeDepth + Levels(con) /\ Len(code) + 1 <= f.first
    BY <1>2, <1>12, <1>13, <1>33, <1>34 DEF Levels
  <2>2. \A s \in 1 .. Len(locs2) : locs2[s].depth <= f.depth
    BY <1>9, <1>10, <1>34
  <2>3. Nest(clauses, locs2, f.depth, Append(nested, con), h2, o2, g2)
    BY <2>1, <2>2, <1>2, <1>9, <1>33, <1>34, <1>35, <1>39, <1>40, <1>41, NestPushes
  <2> QED BY <2>3, <1>34, <1>36
<1>43. Well(clauses, locs2, scopeDepth + 2, ns2, h2, o2, g2)
  <2>1. Draft(clauses, h2, o2, Pendings(ns2), LoopsOf(ns2, g2))
    BY <1>25, <1>37
  <2>2. AtEnd(clauses, h2, o2, Len(locs2), Captured(locs2))
    BY <1>8, <1>9, <1>25
  <2> QED BY <2>1, <2>2, <1>42 DEF Well
<1>44. /\ code' = clauses /\ locals' = locs2 /\ nested' = ns2 /\ scopeDepth' = scopeDepth + 2
  <2>1. scopeDepth' = scopeDepth + 2
    BY DEF BeginFor
  <2> QED BY <2>1, <1>3, <1>4, <1>5, <1>6, <1>13, <1>17, <1>18, <1>19, <1>20, <1>21, <1>22, <1>29, <1>31,
             <1>36
<1> QED BY <1>43, <1>44 DEF Understood


-----------------------------------------------------------------------------
(* break and continue.                                                     *)

LEMMA InLoop ==
  ASSUME NEW h, NEW o, NEW g, Well(code, locals, scopeDepth, nested, h, o, g), Loops # {},
         NEW x, x = CurrentLoop
  PROVE  /\ x \in 1 .. Len(nested) /\ nested[x] \in Construction /\ IsLoop(nested[x])
         /\ nested[x].enterParamCount = g[x].base /\ g[x].base \in 0 .. Len(locals)
         /\ \A r \in LoopsOf(nested, g) : r[2] <= g[x].base /\ r[1] <= g[x].first
<1>1. /\ locals \in Seq(Local) /\ Len(locals) \in Nat /\ nested \in Seq(Construction)
      /\ Nest(code, locals, scopeDepth, nested, h, o, g)
  BY CodeIs
<1>2. Len(nested) \in Nat /\ DOMAIN nested = 1 .. Len(nested)
  BY <1>1
<1>3. \A y \in 1 .. Len(nested) : y \in Loops <=> IsLoop(nested[y])
  BY <1>2 DEF Loops, IsLoop, LoopKinds
<1>4. Loops \in SUBSET (1 .. Len(nested))
  BY <1>2 DEF Loops
<1>5. x \in Loops /\ \A y \in Loops : y <= x
  BY <1>2, <1>4, MaxMember DEF CurrentLoop
<1>6. x \in 1 .. Len(nested) /\ nested[x] \in Construction /\ IsLoop(nested[x])
  BY <1>1, <1>3, <1>4, <1>5
<1>7. \A y \in 1 .. Len(nested) : /\ g[y].base \in Nat /\ g[y].before \in Nat /\ g[y].first \in Nat
                                  /\ g[y].base <= Len(locals) /\ g[y].before <= g[y].base
  BY <1>1, NestIs
<1>8. nested[x].enterParamCount = g[x].base
  <2>1. Layer(locals, nested[x], g[x])
    BY <1>1, <1>6 DEF Nest
  <2> QED BY <2>1, <1>6 DEF Layer
<1>9. ASSUME NEW r \in LoopsOf(nested, g) PROVE r[2] <= g[x].base /\ r[1] <= g[x].first
  <2>1. PICK y \in 1 .. Len(nested) : IsLoop(nested[y]) /\ r[1] = g[y].first /\ r[2] = g[y].base
    BY DEF LoopsOf
  <2>2. y <= x
    BY <2>1, <1>3, <1>5
  <2>3. CASE y = x
    BY <2>1, <2>3, <1>6, <1>7
  <2>4. CASE y # x
    <3>1. y < x
      BY <2>2, <2>4, <1>6
    <3>2. Below(g[y], g[x])
      BY <3>1, <1>1, <1>6 DEF Nest, Chain
    <3> QED BY <3>2, <2>1, <1>6, <1>7 DEF Below
  <2> QED BY <2>3, <2>4
<1> QED BY <1>1, <1>6, <1>7, <1>8, <1>9

(* The locals of the loop are removed; the compiler still counts them.     *)
Cleared(h, o, g, b, t, left, h1, o1) ==
  /\ Draft(left, h1, o1, Pendings(nested), LoopsOf(nested, g))
  /\ Grows(code, h, o, left, h1, o1) /\ AtEnd(left, h1, o1, b, t)
  /\ left \in Seq(Instruction) /\ Len(left) \in Nat

LEMMA LoopCleared ==
  ASSUME NEW h, NEW o, NEW g, Well(code, locals, scopeDepth, nested, h, o, g), Loops # {},
         NEW x, x = CurrentLoop, NEW b, b = g[x].base, NEW t, t = Captured(locals) \cap (1 .. b),
         NEW left, left = code \o CloseLoopLocals(nested[x].enterParamCount)
  PROVE  \E h1, o1 : Cleared(h, o, g, b, t, left, h1, o1)
<1>1. b \in 0 .. Len(locals) /\ nested[x].enterParamCount = b /\ \A r \in LoopsOf(nested, g) : r[2] <= b
  BY InLoop
<1>2. locals \in Seq(Local)
  BY CodeIs
<1>3. /\ Draft(code, h, o, Pendings(nested), LoopsOf(nested, g))
      /\ AtEnd(code, h, o, Len(locals), Captured(locals))
  BY DEF Well
<1>4. left = code \o Removal(locals, b)
  BY <1>1 DEF CloseLoopLocals
<1>5. \E h1, o1 : /\ Draft(code \o Removal(locals, b), h1, o1, Pendings(nested), LoopsOf(nested, g))
                  /\ Grows(code, h, o, code \o Removal(locals, b), h1, o1)
                  /\ AtEnd(code \o Removal(locals, b), h1, o1, b, Captured(locals) \cap (1 .. b))
  BY <1>1, <1>2, <1>3, RemovalKeeps
<1>6. PICK h1, o1 : /\ Draft(left, h1, o1, Pendings(nested), LoopsOf(nested, g))
                    /\ Grows(code, h, o, left, h1, o1) /\ AtEnd(left, h1, o1, b, t)
  BY <1>4, <1>5
<1>7. left \in Seq(Instruction) /\ Len(left) \in Nat
  <2>1. left \in Seq(Instruction)
    BY <1>6 DEF Draft
  <2> QED BY <2>1
<1> QED BY <1>6, <1>7 DEF Cleared

(* One more jump leaves a loop.                                            *)
Jumped(con, loop, i) ==
  /\ con \in Construction /\ Shape(con) /\ con.kind = loop.kind
  /\ con.enterParamCount = loop.enterParamCount /\ con.start = loop.start
  /\ Pending(con) = Pending(loop) \cup {i}
Updated(ns, x, con, ns2) == ns2 = [ns EXCEPT ![x] = con]

LEMMA JumpAdded ==
  ASSUME NEW c, NEW h, NEW o, NEW locs, NEW dep, NEW ns, NEW g, Nest(c, locs, dep, ns, h, o, g),
         NEW x \in 1 .. Len(ns), NEW i \in 1 .. Len(c), h[i] = g[x].base,
         o[i] \subseteq Captured(locs) \cap (1 .. g[x].base),
         NEW con, Jumped(con, ns[x], i), NEW ns2, Updated(ns, x, con, ns2)
  PROVE  /\ Nest(c, locs, dep, ns2, h, o, g)
         /\ Pendings(ns2) = Pendings(ns) \cup {i} /\ LoopsOf(ns2, g) = LoopsOf(ns, g)
<1>1. ns \in Seq(Construction) /\ Len(ns) \in Nat
  BY NestIs
<1>0. /\ con \in Construction /\ Shape(con) /\ con.kind = ns[x].kind
      /\ con.enterParamCount = ns[x].enterParamCount /\ con.start = ns[x].start
      /\ Pending(con) = Pending(ns[x]) \cup {i}
  BY DEF Jumped
<1>2. ns2 \in Seq(Construction) /\ Len(ns2) = Len(ns)
  BY <1>0, <1>1, ExceptSeq DEF Updated
<1>3. ns2[x] = con /\ \A y \in 1 .. Len(ns) : y # x => ns2[y] = ns[y]
  BY <1>1 DEF Updated
<1>4. \A y \in 1 .. Len(ns) : IsLoop(ns2[y]) = IsLoop(ns[y]) /\ Levels(ns2[y]) = Levels(ns[y])
  BY <1>0, <1>3 DEF IsLoop, Levels
<1>5. Layer(locs, con, g[x])
  <2>1. Layer(locs, ns[x], g[x])
    BY DEF Nest
  <2>2. IsLoop(con) = IsLoop(ns[x])
    BY <1>0 DEF IsLoop
  <2> QED BY <2>1, <2>2, <1>0 DEF Layer
<1>6. Known(c, h, o, locs, con, g[x])
  <2>1. Known(c, h, o, locs, ns[x], g[x])
    BY DEF Nest
  <2>2. IsLoop(con) = IsLoop(ns[x])
    BY <1>0 DEF IsLoop
  <2> QED BY <2>1, <2>2, <1>0 DEF Known
<1>7. \A y \in 1 .. Len(ns) : Layer(locs, ns2[y], g[y]) /\ Known(c, h, o, locs, ns2[y], g[y])
  <2> SUFFICES ASSUME NEW y \in 1 .. Len(ns)
               PROVE  Layer(locs, ns2[y], g[y]) /\ Known(c, h, o, locs, ns2[y], g[y])
    OBVIOUS
  <2>1. CASE y = x
    BY <2>1, <1>3, <1>5, <1>6
  <2>2. CASE y # x
    BY <2>2, <1>3 DEF Nest
  <2> QED BY <2>1, <2>2
<1>8. \A y \in 1 .. Len(ns) : Shape(ns2[y]) /\ g[y].depth = g[y - 1].depth + Levels(ns2[y])
  <2>1. \A y \in 1 .. Len(ns) : Shape(ns[y]) /\ g[y].depth = g[y - 1].depth + Levels(ns[y])
    BY DEF Nest, Chain
  <2> QED BY <2>1, <1>0, <1>3, <1>4
<1>9. Chain(locs, dep, ns2, g)
  BY <1>2, <1>8 DEF Nest, Chain
<1>10. Nest(c, locs, dep, ns2, h, o, g)
  BY <1>2, <1>7, <1>9 DEF Nest
<1>11. Pendings(ns2) = Pendings(ns) \cup {i}
  <2>1. \A y \in 1 .. Len(ns) : y # x => Pending(ns2[y]) = Pending(ns[y])
    BY <1>3
  <2>2. Pending(ns2[x]) = Pending(ns[x]) \cup {i}
    BY <1>0, <1>3
  <2> QED BY <2>1, <2>2, <1>2 DEF Pendings
<1>12. LoopsOf(ns2, g) = LoopsOf(ns, g)
  <2>1. {y \in 1 .. Len(ns2) : IsLoop(ns2[y])} = {y \in 1 .. Len(ns) : IsLoop(ns[y])}
    BY <1>2, <1>4
  <2> QED BY <2>1 DEF LoopsOf
<1> QED BY <1>10, <1>11, <1>12

(* The jump of a break, and of a continue in a do.                         *)
LEMMA LeavesLoop ==
  ASSUME NEW h, NEW o, NEW g, Well(code, locals, scopeDepth, nested, h, o, g), Loops # {},
         NEW x, x = CurrentLoop,
         NEW left, left = code \o CloseLoopLocals(nested[x].enterParamCount),
         NEW c2, c2 = Append(left, Instr("JUMP", NoInstr, Unknown)),
         NEW i \in Nat, i = Len(left) + 1, NEW con, Jumped(con, nested[x], i),
         NEW ns2, Updated(nested, x, con, ns2)
  PROVE  \E h2, o2 : Well(c2, locals, scopeDepth, ns2, h2, o2, g)
<1>1. /\ Len(code) \in Nat /\ Len(locals) \in Nat /\ locals \in Seq(Local) /\ scopeDepth \in Nat
      /\ Nest(code, locals, scopeDepth, nested, h, o, g)
  BY CodeIs
<1>2. PICK b : b = g[x].base
  OBVIOUS
<1>3. /\ x \in 1 .. Len(nested) /\ b \in 0 .. Len(locals)
  BY <1>2, InLoop
<1>4. PICK t : t = Captured(locals) \cap (1 .. b)
  OBVIOUS
<1>5. PICK h1, o1 : Cleared(h, o, g, b, t, left, h1, o1)
  BY <1>2, <1>4, LoopCleared
<1>6. i = Len(left) + 1 /\ Len(left) \in Nat
  BY <1>5 DEF Cleared
<1>7. PICK n \in Nat : n = Len(locals)
  BY <1>1
<1>8. PICK s \in SUBSET (1 .. n) : s = Captured(locals)
  BY <1>7 DEF Captured
<1>9. PICK instr : instr = Instr("JUMP", NoInstr, Unknown)
  OBVIOUS
<1>10. PICK h2, o2 : /\ Draft(c2, h2, o2, Pendings(nested) \cup {i}, LoopsOf(nested, g))
                     /\ Len(c2) = i /\ Grows(left, h1, o1, c2, h2, o2) /\ AtEnd(c2, h2, o2, n, s)
  <2>1. Draft(left, h1, o1, Pendings(nested), LoopsOf(nested, g)) /\ AtEnd(left, h1, o1, b, t)
    BY <1>5 DEF Cleared
  <2>2. b \in Nat /\ Unknown \in {Unknown, b}
    BY <1>1, <1>3
  <2>3. \A r \in LoopsOf(nested, g) : r[2] <= n
    BY <1>1, <1>7, LoopsLow
  <2>4. \E h2, o2 : /\ Draft(Append(left, instr), h2, o2, Pendings(nested) \cup {Len(left) + 1},
                             LoopsOf(nested, g))
                    /\ Len(Append(left, instr)) = Len(left) + 1
                    /\ Grows(left, h1, o1, Append(left, instr), h2, o2)
                    /\ AtEnd(Append(left, instr), h2, o2, n, s)
    BY <2>1, <2>2, <2>3, <1>9, JumpEmitted
  <2> QED BY <2>4, <1>6, <1>9
<1>11. i \in 1 .. Len(c2) /\ h2[i] = b /\ o2[i] = t
  <2>1. i \in 1 .. i
    BY <1>6
  <2> QED BY <2>1, <1>5, <1>6, <1>10 DEF Cleared, AtEnd, Grows
<1>12. Nest(c2, locals, scopeDepth, nested, h2, o2, g)
  <2>1. Grows(code, h, o, c2, h2, o2)
    BY <1>1, <1>5, <1>10, GrowsOn DEF Cleared
  <2>2. Extends(locals, locals, scopeDepth)
    BY <1>1 DEF Extends
  <2>3. \A j \in 1 .. Len(locals) : locals[j].depth <= scopeDepth
    BY <1>1 DEF Nest, Chain
  <2> QED BY <2>1, <2>2, <2>3, <1>1, NestGrows
<1>13. /\ Nest(c2, locals, scopeDepth, ns2, h2, o2, g)
       /\ Pendings(ns2) = Pendings(nested) \cup {i} /\ LoopsOf(ns2, g) = LoopsOf(nested, g)
  <2>1. h2[i] = g[x].base /\ o2[i] \subseteq Captured(locals) \cap (1 .. g[x].base)
    BY <1>2, <1>4, <1>11
  <2>2. Jumped(con, nested[x], i) /\ Updated(nested, x, con, ns2)
    OBVIOUS
  <2>3. x \in 1 .. Len(nested) /\ i \in 1 .. Len(c2)
    BY <1>3, <1>11
  <2> QED BY ONLY <2>1, <2>2, <2>3, <1>12, JumpAdded
<1> QED BY <1>7, <1>8, <1>10, <1>13 DEF Well

LEMMA BreakKeeps ==
  ASSUME Understood, BreakStatement
  PROVE  Understood'
<1>1. PICK h, o, g : Well(code, locals, scopeDepth, nested, h, o, g)
  BY DEF Understood
<1>2. Loops # {}
  BY DEF BreakStatement
<1>3. PICK x : x = CurrentLoop
  OBVIOUS
<1>4. /\ x \in 1 .. Len(nested) /\ nested[x] \in Construction /\ IsLoop(nested[x])
      /\ Nest(code, locals, scopeDepth, nested, h, o, g) /\ nested \in Seq(Construction)
  BY <1>1, <1>2, <1>3, InLoop, CodeIs
<1>5. PICK left : left = code \o CloseLoopLocals(nested[x].enterParamCount)
  OBVIOUS
<1>6. PICK d \in Construction : d = nested[x] /\ Shape(d) /\ IsLoop(d)
  BY <1>4 DEF Nest, Chain
<1>7. PICK i \in Nat : i = Len(left) + 1
  <2>1. \E h1, o1 : Cleared(h, o, g, g[x].base, Captured(locals) \cap (1 .. g[x].base), left, h1, o1)
    BY <1>1, <1>2, <1>3, <1>5, LoopCleared
  <2> QED BY <2>1 DEF Cleared
<1>8. PICK con : con = [d EXCEPT !.breakJumps = d.breakJumps \cup {i}]
  OBVIOUS
<1>9. PICK ns2 : ns2 = [nested EXCEPT ![x] = con]
  OBVIOUS
<1>10. PICK c2 : c2 = Append(left, Instr("JUMP", NoInstr, Unknown))
  OBVIOUS
<1>11. Jumped(con, nested[x], i)
  <2>1. /\ con \in Construction /\ con.kind = d.kind /\ con.exit = d.exit /\ con.start = d.start
        /\ con.enterParamCount = d.enterParamCount /\ con.continueJumps = d.continueJumps
        /\ con.breakJumps = d.breakJumps \cup {i}
    BY <1>8 DEF Construction
  <2>2. i # NoInstr
    BY DEF NoInstr
  <2>3. Shape(con)
    BY <2>1, <1>6 DEF Shape, IsLoop
  <2>4. Pending(con) = Pending(d) \cup {i}
    BY <2>1, <2>2 DEF Pending
  <2> QED BY <2>1, <2>3, <2>4, <1>6 DEF Jumped
<1>12. Updated(nested, x, con, ns2)
  BY <1>9 DEF Updated
<1>14. \E h2, o2 : Well(c2, locals, scopeDepth, ns2, h2, o2, g)
  BY <1>1, <1>2, <1>3, <1>5, <1>7, <1>10, <1>11, <1>12, LeavesLoop
<1>15. /\ code' = c2 /\ nested' = ns2 /\ locals' = locals /\ scopeDepth' = scopeDepth
  BY <1>3, <1>5, <1>6, <1>7, <1>8, <1>9, <1>10 DEF BreakStatement
<1> QED BY <1>14, <1>15 DEF Understood


LEMMA ContinueKeeps ==
  ASSUME Understood, ContinueStatement
  PROVE  Understood'
<1>1. PICK h, o, g : Well(code, locals, scopeDepth, nested, h, o, g)
  BY DEF Understood
<1>2. Loops # {}
  BY DEF ContinueStatement
<1>3. PICK x : x = CurrentLoop
  OBVIOUS
<1>4. /\ x \in 1 .. Len(nested) /\ nested[x] \in Construction /\ IsLoop(nested[x])
      /\ nested[x].enterParamCount = g[x].base /\ g[x].base \in 0 .. Len(locals)
      /\ \A r \in LoopsOf(nested, g) : r[2] <= g[x].base /\ r[1] <= g[x].first
  BY <1>1, <1>2, <1>3, InLoop
<1>5. PICK left : left = code \o CloseLoopLocals(nested[x].enterParamCount)
  OBVIOUS
<1>6. /\ Nest(code, locals, scopeDepth, nested, h, o, g) /\ nested \in Seq(Construction)
      /\ code \in Seq(Instruction) /\ Len(code) \in Nat /\ Len(locals) \in Nat
      /\ locals \in Seq(Local)
  BY <1>1, CodeIs
<1>7. PICK d \in Construction : d = nested[x] /\ Shape(d) /\ IsLoop(d)
  BY <1>4, <1>6 DEF Nest, Chain
<1>8. PICK b \in Nat : b = g[x].base
  BY <1>4, <1>6
<1>9. PICK t \in SUBSET (1 .. b) : t = Captured(locals) \cap (1 .. b)
  OBVIOUS
<1>10. PICK h1, o1 : Cleared(h, o, g, b, t, left, h1, o1)
  BY <1>1, <1>2, <1>3, <1>5, <1>8, <1>9, LoopCleared
<1>11. /\ Draft(left, h1, o1, Pendings(nested), LoopsOf(nested, g))
       /\ Grows(code, h, o, left, h1, o1) /\ AtEnd(left, h1, o1, b, t)
       /\ left \in Seq(Instruction) /\ Len(left) \in Nat
  BY <1>10 DEF Cleared
<1>12. CASE d.kind = "DO"
  <2>1. PICK i \in Nat : i = Len(left) + 1
    BY <1>11
  <2>2. PICK con : con = [d EXCEPT !.continueJumps = d.continueJumps \cup {i}]
    OBVIOUS
  <2>3. PICK ns2 : ns2 = [nested EXCEPT ![x] = con]
    OBVIOUS
  <2>4. PICK c2 : c2 = Append(left, Instr("JUMP", NoInstr, Unknown))
    OBVIOUS
  <2>5. Jumped(con, nested[x], i)
    <3>1. /\ con \in Construction /\ con.kind = d.kind /\ con.exit = d.exit /\ con.start = d.start
          /\ con.enterParamCount = d.enterParamCount /\ con.breakJumps = d.breakJumps
          /\ con.continueJumps = d.continueJumps \cup {i}
      BY <2>2 DEF Construction
    <3>2. i # NoInstr
      BY DEF NoInstr
    <3>3. Shape(con)
      BY <3>1, <1>7, <1>12 DEF Shape, IsLoop, LoopKinds
    <3>4. Pending(con) = Pending(d) \cup {i}
      BY <3>1, <3>2 DEF Pending
    <3> QED BY <3>1, <3>3, <3>4, <1>7 DEF Jumped
  <2>6. Updated(nested, x, con, ns2)
    BY <2>3 DEF Updated
  <2>7. \E h2, o2 : Well(c2, locals, scopeDepth, ns2, h2, o2, g)
    BY <1>1, <1>2, <1>3, <1>5, <2>1, <2>4, <2>5, <2>6, LeavesLoop
  <2>8. /\ code' = c2 /\ nested' = ns2 /\ locals' = locals /\ scopeDepth' = scopeDepth
    BY <1>3, <1>5, <1>7, <1>12, <2>1, <2>2, <2>3, <2>4 DEF ContinueStatement
  <2> QED BY <2>7, <2>8 DEF Understood
<1>13. CASE d.kind # "DO"
  <2>1. /\ d.start \in g[x].first .. Len(code) + 1 /\ h[d.start] = b /\ t \subseteq o[d.start]
        /\ g[x].first \in 1 .. Len(code) + 1
    BY <1>4, <1>6, <1>7, <1>8, <1>9 DEF Nest, Known
  <2>2. PICK start \in 1 .. Len(code) + 1 : start = d.start /\ g[x].first <= start
    BY <2>1, <1>6
  <2>3. start \in 1 .. Len(left) + 1 /\ h1[start] = b /\ t \subseteq o1[start]
    BY <2>1, <2>2, <1>6, <1>11 DEF Grows
  <2>4. \A r \in LoopsOf(nested, g) : r[1] <= start
    <3> SUFFICES ASSUME NEW r \in LoopsOf(nested, g) PROVE r[1] <= start
      OBVIOUS
    <3>1. r[1] <= g[x].first /\ r[1] \in 1 .. Len(left) + 1
      BY <1>4, <1>11 DEF Draft, Stays
    <3> QED BY <3>1, <2>1, <2>2, <1>6, <1>11
  <2>5. PICK n \in Nat : n = Len(locals)
    BY <1>6
  <2>6. PICK s \in SUBSET (1 .. n) : s = Captured(locals)
    BY <2>5 DEF Captured
  <2>7. \A r \in LoopsOf(nested, g) : r[2] <= n
    BY <1>6, <2>5, LoopsLow
  <2>8. PICK instr : instr = Instr("LOOP", start, Unknown)
    OBVIOUS
  <2>9. PICK c2 : c2 = Append(left, instr)
    OBVIOUS
  <2>10. PICK h2, o2 : /\ Draft(c2, h2, o2, Pendings(nested), LoopsOf(nested, g))
                       /\ Grows(left, h1, o1, c2, h2, o2) /\ AtEnd(c2, h2, o2, n, s)
    <3>1. \E h2, o2 : /\ Draft(Append(left, instr), h2, o2, Pendings(nested), LoopsOf(nested, g))
                      /\ Len(Append(left, instr)) = Len(left) + 1
                      /\ Grows(left, h1, o1, Append(left, instr), h2, o2)
                      /\ AtEnd(Append(left, instr), h2, o2, n, s)
      <4>1. Unknown \in {Unknown, b} /\ b \in Nat /\ n \in Nat /\ s \in SUBSET (1 .. n)
        OBVIOUS
      <4>2. Draft(left, h1, o1, Pendings(nested), LoopsOf(nested, g)) /\ AtEnd(left, h1, o1, b, t)
        BY <1>11
      <4> QED BY ONLY <4>1, <4>2, <2>3, <2>4, <2>7, <2>8, LoopEmitted
    <3> QED BY <3>1, <2>9
  <2>11. Nest(c2, locals, scopeDepth, nested, h2, o2, g)
    <3>1. Grows(code, h, o, c2, h2, o2)
      BY <1>6, <1>11, <2>10, GrowsOn
    <3>2. Extends(locals, locals, scopeDepth) /\ \A j \in 1 .. Len(locals) : locals[j].depth <= scopeDepth
      BY <1>6 DEF Extends, Nest, Chain
    <3> QED BY <3>1, <3>2, <1>6, NestGrows
  <2>12. Well(c2, locals, scopeDepth, nested, h2, o2, g)
    BY <2>5, <2>6, <2>10, <2>11 DEF Well
  <2>13. /\ code' = c2 /\ nested' = nested /\ locals' = locals /\ scopeDepth' = scopeDepth
    BY <1>3, <1>5, <1>7, <1>13, <2>2, <2>8, <2>9 DEF ContinueStatement
  <2> QED BY <2>12, <2>13 DEF Understood
<1> QED BY <1>12, <1>13


-----------------------------------------------------------------------------
(* A function begins with nothing but the slot of its closure.             *)

LEMMA Empty ==
  ASSUME Init
  PROVE  Understood
<1>1. PICK e \in Local : /\ e = [depth |-> 0, isCaptured |-> FALSE] /\ e.depth = 0
                         /\ ~ e.isCaptured
  <2>1. 0 \in Int
    OBVIOUS
  <2> QED BY <2>1, LocalIs, Zenon
<1>2. /\ code = <<>> /\ locals = <<e>> /\ scopeDepth = 1 /\ nested = <<>>
  BY <1>1 DEF Init
<1>3. /\ code \in Seq(Instruction) /\ Len(code) = 0 /\ nested \in Seq(Construction) /\ Len(nested) = 0
      /\ locals \in Seq(Local) /\ Len(locals) = 1 /\ locals[1] = e
  BY <1>2
<1>4. \A i \in 1 .. 1 : i = 1
  OBVIOUS
<1>5. Captured(locals) = {}
  BY <1>1, <1>3, <1>4 DEF Captured
<1>6. PICK h : h = [i \in Nat |-> 1]
  OBVIOUS
<1>7. PICK o : o = [i \in Nat |-> {}]
  OBVIOUS
<1>8. PICK g : g = [x \in Nat |-> [depth |-> 1, before |-> 0, base |-> 0, first |-> 0]]
  OBVIOUS
<1>9. h \in [Nat -> Nat] /\ h[1] = 1
  BY <1>6
<1>10. o \in [Nat -> SUBSET Nat] /\ \A i \in Nat : o[i] = {}
  <2>1. {} \in SUBSET Nat
    OBVIOUS
  <2> QED BY <2>1, <1>7
<1>11. g \in [Nat -> Frame] /\ g[0].depth = 1
  <2>1. [depth |-> 1, before |-> 0, base |-> 0, first |-> 0] \in Frame
    BY DEF Frame
  <2> QED BY <2>1, <1>8
<1>12. ~ \E x \in 1 .. Len(nested) : TRUE
  BY <1>3
<1>13. Pendings(nested) = {} /\ LoopsOf(nested, g) = {}
  BY <1>12 DEF Pendings, LoopsOf
<1>14. Draft(code, h, o, {}, {})
  <2>1. \A i \in 1 .. Len(code) + 1 : o[i] \subseteq 1 .. h[i]
    BY <1>3, <1>10
  <2>2. ~ \E i \in 1 .. Len(code) : TRUE
    BY <1>3
  <2> QED BY <2>1, <2>2, <1>3, <1>9, <1>10 DEF Draft
<1>15. AtEnd(code, h, o, Len(locals), Captured(locals))
  BY <1>3, <1>5, <1>9, <1>10 DEF AtEnd
<1>16. Nest(code, locals, scopeDepth, nested, h, o, g)
  <2>1. scopeDepth = g[Len(nested)].depth
    BY <1>2, <1>3, <1>11
  <2>2. \A s \in 1 .. Len(locals) : locals[s].depth <= scopeDepth
    BY <1>1, <1>2, <1>3, <1>4
  <2> QED BY <2>1, <2>2, <1>3, <1>11, <1>12 DEF Nest, Chain
<1>17. Well(code, locals, scopeDepth, nested, h, o, g)
  BY <1>13, <1>14, <1>15, <1>16 DEF Well
<1> QED BY <1>17 DEF Understood

-----------------------------------------------------------------------------
(* Execution: what the compiler knew of the stack at an instruction is so  *)
(* whenever execution comes there, and every way from an instruction leads *)
(* to another one.                                                         *)

Sound(c, h, o) ==
  /\ c \in Seq(Instruction) /\ h \in [Nat -> Nat] /\ o \in [Nat -> SUBSET Nat]
  /\ \A i \in 1 .. Len(c) :
       /\ o[i] \subseteq 1 .. h[i]
       /\ GoesOn(c[i]) => i + 1 \in 1 .. Len(c) /\ Leads(c[i], h, o, i, i + 1)
       /\ IsJump(c[i]) => c[i].arg \in 1 .. Len(c) /\ Leads(c[i], h, o, i, c[i].arg)
       /\ c[i].locals \in {Unknown, h[i]}

Runs(h, o) ==
  /\ Sound(code, h, o)
  /\ pc \in 1 .. Len(code) + 1
  /\ pc \in 1 .. Len(code) => height = h[pc] /\ open \subseteq o[pc]
  /\ pc = Len(code) + 1 => height = 0 /\ open = {}

Compiles == pc = 0 /\ height = 1 /\ open = {} /\ Understood

ScopesInv ==
  /\ family \in Families
  /\ Compiles \/ \E h, o : Runs(h, o)

LEMMA StartRuns ==
  ASSUME Compiles, Start
  PROVE  \E h, o : Runs(h, o)'
<1>1. PICK h, o, g : Well(code, locals, scopeDepth, nested, h, o, g)
  BY DEF Compiles, Understood
<1>2. Draft(code, h, o, Pendings(nested), LoopsOf(nested, g)) /\ AtEnd(code, h, o, Len(locals), Captured(locals))
  BY <1>1 DEF Well
<1>3. Pendings(nested) = {}
  <2>1. nested = <<>>
    BY DEF Start
  <2>2. ~ \E x \in 1 .. Len(nested) : TRUE
    BY <2>1
  <2> QED BY <2>2 DEF Pendings
<1>4. /\ code \in Seq(Instruction) /\ Len(code) \in Nat /\ Len(locals) \in Nat
  BY <1>1, CodeIs
<1>5. PICK m \in Nat : m = Len(code) + 1
  BY <1>4
<1>6. PICK instr : instr = Instr("RETURN", 0, Len(locals))
  OBVIOUS
<1>7. instr \in Instruction /\ instr.op = "RETURN" /\ instr.locals = Len(locals)
  <2>1. "RETURN" \in Ops
    BY DEF Ops
  <2> QED BY <2>1, <1>4, <1>6, InstrIs
<1>8. PICK c : c = Append(code, instr)
  OBVIOUS
<1>9. /\ c \in Seq(Instruction) /\ Len(c) = m /\ c[m] = instr
      /\ \A i \in 1 .. Len(code) : c[i] = code[i]
  BY <1>4, <1>5, <1>7, <1>8, AppendProperties
<1>10. ~ GoesOn(instr) /\ ~ IsJump(instr)
  BY <1>7 DEF GoesOn, IsJump, PlainOps, JumpOps
<1>11. h \in [Nat -> Nat] /\ o \in [Nat -> SUBSET Nat] /\ h[1] = 1
  BY <1>2 DEF Draft
<1>12. ASSUME NEW i \in 1 .. m
       PROVE  /\ o[i] \subseteq 1 .. h[i]
              /\ GoesOn(c[i]) => i + 1 \in 1 .. m /\ Leads(c[i], h, o, i, i + 1)
              /\ IsJump(c[i]) => c[i].arg \in 1 .. m /\ Leads(c[i], h, o, i, c[i].arg)
              /\ c[i].locals \in {Unknown, h[i]}
  <2>1. o[i] \subseteq 1 .. h[i]
    BY <1>2, <1>5 DEF Draft
  <2>2. CASE i = m
    BY <2>1, <2>2, <1>2, <1>5, <1>7, <1>9, <1>10 DEF AtEnd
  <2>3. CASE i # m
    <3>1. i \in 1 .. Len(code) /\ i + 1 \in 1 .. m /\ c[i] = code[i]
      BY <2>3, <1>4, <1>5, <1>9
    <3>2. FlowAt(code, h, o, i) /\ (IsJump(code[i]) => code[i].arg # NoInstr)
      BY <3>1, <1>2, <1>3 DEF Draft
    <3> QED BY <2>1, <3>1, <3>2, <1>5 DEF FlowAt
  <2> QED BY <2>2, <2>3
<1>13. Sound(c, h, o)
  BY <1>9, <1>11, <1>12 DEF Sound
<1>14. /\ code' = c /\ pc' = 1 /\ height' = 1 /\ open' = {}
  BY <1>6, <1>8 DEF Start, Emit, Compiles
<1>15. 1 \in 1 .. Len(c) /\ 1 # Len(c) + 1 /\ 1 \in 1 .. Len(c) + 1
  BY <1>4, <1>5, <1>9
<1> QED BY <1>11, <1>13, <1>14, <1>15 DEF Runs

(* An instruction that is not a return.                                    *)
LEMMA OneStep ==
  ASSUME NEW h, NEW o, Runs(h, o), Executing, code' = code, NEW j, pc' = j,
         \/ GoesOn(code[pc]) /\ j = pc + 1
         \/ IsJump(code[pc]) /\ j = Arg,
         height' = HeightAfter(code[pc], height),
         open' \subseteq OpenAfter(code[pc], height, open)
  PROVE  Runs(h, o)'
<1>1. Sound(code, h, o) /\ code \in Seq(Instruction) /\ Len(code) \in Nat
  <2>1. code \in Seq(Instruction)
    BY DEF Runs, Sound
  <2> QED BY <2>1 DEF Runs
<1>2. pc \in 1 .. Len(code)
  BY <1>1 DEF Executing
<1>3. height = h[pc] /\ open \subseteq o[pc]
  BY <1>2 DEF Runs
<1>4. j \in 1 .. Len(code) /\ Leads(code[pc], h, o, pc, j)
  BY <1>1, <1>2 DEF Sound, Arg
<1>5. OpenAfter(code[pc], height, open) \subseteq OpenAfter(code[pc], h[pc], o[pc])
  BY <1>3 DEF OpenAfter
<1>6. height' = h[j] /\ open' \subseteq o[j]
  BY <1>3, <1>4, <1>5 DEF Leads
<1>7. j \in 1 .. Len(code) + 1 /\ j # Len(code) + 1
  BY <1>1, <1>4
<1> QED BY <1>1, <1>4, <1>6, <1>7 DEF Runs

LEMMA ExecuteRuns ==
  ASSUME NEW h, NEW o, Runs(h, o), Execute
  PROVE  Runs(h, o)'
<1>1. code' = code /\ Executing
  BY DEF Execute, Push, Closure, Pop, CloseUpvalue, Expression, Jump, JumpIfFalse, FallThrough, Return,
         Goto, Fetched, compiling
<1>2. Len(code) \in Nat
  <2>1. code \in Seq(Instruction)
    BY DEF Runs, Sound
  <2> QED BY <2>1
<1>3. PICK instr : instr = code[pc]
  OBVIOUS
<1>4. CASE Push
  <2>1. instr.op = "VALUE" /\ pc' = pc + 1 /\ height' = height + 1 /\ open' = open
    BY <1>3, <1>4 DEF Push, Fetched
  <2> QED BY <2>1, <1>1, <1>3, OneStep DEF GoesOn, PlainOps, HeightAfter, OpenAfter
<1>5. CASE Closure
  <2>1. instr.op = "CLOSURE" /\ pc' = pc + 1 /\ height' = height + 1 /\ open' = open \cup {instr.arg}
    BY <1>3, <1>5 DEF Closure, Fetched, Arg
  <2> QED BY <2>1, <1>1, <1>3, OneStep DEF GoesOn, PlainOps, HeightAfter, OpenAfter
<1>6. CASE Pop
  <2>1. instr.op = "POP_N" /\ pc' = pc + 1 /\ height' = height - instr.arg /\ open' = open
    BY <1>3, <1>6 DEF Pop, Fetched, Arg
  <2> QED BY <2>1, <1>1, <1>3, OneStep DEF GoesOn, PlainOps, HeightAfter, OpenAfter
<1>7. CASE CloseUpvalue
  <2>1. /\ instr.op = "CLOSE_UPVALUE" /\ pc' = pc + 1 /\ height' = height - 1
        /\ open' = {slot \in open : slot < height}
    BY <1>3, <1>7 DEF CloseUpvalue, Fetched
  <2> QED BY <2>1, <1>1, <1>3, OneStep DEF GoesOn, PlainOps, HeightAfter, OpenAfter
<1>8. CASE Expression
  <2>1. instr.op = "EXPRESSION" /\ pc' = pc + 1 /\ height' = height /\ open' = open
    BY <1>3, <1>8 DEF Expression, Fetched, Goto
  <2> QED BY <2>1, <1>1, <1>3, OneStep DEF GoesOn, PlainOps, HeightAfter, OpenAfter
<1>9. CASE Jump \/ JumpIfFalse
  <2>1. instr.op \in JumpOps /\ pc' = Arg /\ height' = height /\ open' = open
    BY <1>3, <1>9 DEF Jump, JumpIfFalse, Fetched, Goto, JumpOps
  <2>2. HeightAfter(instr, height) = height /\ OpenAfter(instr, height, open) = open /\ IsJump(instr)
    BY <2>1 DEF IsJump, JumpOps, HeightAfter, OpenAfter
  <2> QED BY <2>1, <2>2, <1>1, <1>3, OneStep
<1>10. CASE FallThrough
  <2>1. instr.op = "JUMP_IF_FALSE_POP" /\ pc' = pc + 1 /\ height' = height /\ open' = open
    BY <1>3, <1>10 DEF FallThrough, Fetched, Goto
  <2> QED BY <2>1, <1>1, <1>3, OneStep DEF GoesOn, PlainOps, HeightAfter, OpenAfter
<1>11. CASE Return
  <2>1. pc' = Len(code) + 1 /\ height' = 0 /\ open' = {}
    BY <1>11 DEF Return
  <2>2. Len(code) + 1 \in 1 .. Len(code) + 1 /\ Len(code) + 1 \notin 1 .. Len(code)
    BY <1>2
  <2> QED BY <2>1, <2>2, <1>1 DEF Runs
<1> QED BY <1>4, <1>5, <1>6, <1>7, <1>8, <1>9, <1>10, <1>11 DEF Execute

LEMMA CompileKeeps ==
  ASSUME Compiles, family \in Families, Compile
  PROVE  Compiles' /\ family' = family
<1>1. Understood
  BY DEF Compiles
<1>2. Understood'
  BY SMTT(30), <1>1, VarKeeps, FunKeeps, ReturnKeeps, BeginBlockKeeps, EndBlockKeeps, BeginIfKeeps, BeginElseKeeps,
     EndIfKeeps, BeginWhileKeeps, EndWhileKeeps, BeginDoKeeps, EndDoKeeps, BeginForKeeps, EndForKeeps,
     BreakKeeps, ContinueKeeps DEF Compile
<1>3. UNCHANGED running
  BY DEF Compile, VarDeclaration, FunDeclaration, ReturnStatement, BeginBlock, EndBlock, BeginIf, BeginElse,
     EndIf, BeginWhile, EndWhile, BeginDo, EndDo, BeginFor, EndFor, BreakStatement, ContinueStatement,
     Open, Close
<1> QED BY <1>2, <1>3 DEF Compiles, running

LEMMA InitInv == Init => ScopesInv
<1> SUFFICES ASSUME Init PROVE ScopesInv
  OBVIOUS
<1>1. Understood
  BY Empty
<1> QED BY <1>1 DEF Init, ScopesInv, Compiles

LEMMA NextInv == ScopesInv /\ [Next]_vars => ScopesInv'
<1> SUFFICES ASSUME ScopesInv, [Next]_vars PROVE ScopesInv'
  OBVIOUS
<1>1. ASSUME Compiles, Compile PROVE ScopesInv'
  BY <1>1, CompileKeeps DEF ScopesInv
<1>2. ASSUME Compiles, Start PROVE ScopesInv'
  <2>1. family' = family
    BY <1>2 DEF Start
  <2> QED BY <2>1, <1>2, StartRuns DEF ScopesInv
<1>3. ASSUME NEW h, NEW o, Runs(h, o), Execute PROVE ScopesInv'
  <2>1. family' = family
    BY <1>3 DEF Execute, Push, Closure, Pop, CloseUpvalue, Expression, Jump, JumpIfFalse, FallThrough,
                Return, Goto, compiling
  <2>2. Runs(h, o)'
    BY <1>3, ExecuteRuns
  <2> QED BY <2>1, <2>2 DEF ScopesInv
<1>4. ASSUME NEW h, NEW o, Runs(h, o) PROVE pc # 0
  BY ONLY <1>4, SMTT(30) DEF Runs
<1>5. Compile \/ Start => pc = 0
  BY DEF Compile, VarDeclaration, FunDeclaration, ReturnStatement, BeginBlock, EndBlock, BeginIf, BeginElse,
     EndIf, BeginWhile, EndWhile, BeginDo, EndDo, BeginFor, EndFor, BreakStatement, ContinueStatement,
     Statement, Begins, IsInside, Start
<1>6. ASSUME Compiles, Execute PROVE FALSE
  <2>1. pc = 0 /\ code \in Seq(Instruction)
    BY <1>6, CodeIs DEF Compiles, Understood
  <2>2. pc \in DOMAIN code
    BY <1>6 DEF Execute, Push, Closure, Pop, CloseUpvalue, Expression, Jump, JumpIfFalse, FallThrough,
                Return, Fetched, Executing
  <2> QED BY <2>1, <2>2
<1>7. CASE UNCHANGED vars
  BY <1>7 DEF vars, ScopesInv, Compiles, Understood, Runs
<1>8. CASE Next
  BY <1>8, <1>1, <1>2, <1>3, <1>4, <1>5, <1>6 DEF Next, ScopesInv
<1> QED BY <1>7, <1>8

(* What the compiler knows of the stack while it emits the instructions of *)
(* a function is true of every execution of them: Understood while it      *)
(* compiles, Runs afterwards.                                              *)
THEOREM ScopesInvariant == Spec => []ScopesInv
<1>1. Init => ScopesInv
  BY InitInv
<1>2. ScopesInv /\ [Next]_vars => ScopesInv'
  BY NextInv
<1> QED BY <1>1, <1>2, PTL DEF Spec

(* Whatever statements a function consists of, and whatever way it takes   *)
(* through them, at every statement the stack holds the locals that the    *)
(* compiler numbered the variables by.                                     *)
THEOREM HeightsAgreeAlways == Spec => []HeightsAgree
<1>1. ScopesInv => HeightsAgree
  <2> SUFFICES ASSUME ScopesInv, Executing PROVE code[pc].locals \in {Unknown, height}
    BY DEF HeightsAgree
  <2>1. CASE Compiles
    <3>1. pc = 0 /\ code \in Seq(Instruction)
      BY <2>1, CodeIs DEF Compiles, Understood
    <3> QED BY <3>1 DEF Executing
  <2>2. ASSUME NEW h, NEW o, Runs(h, o) PROVE code[pc].locals \in {Unknown, height}
    <3>1. code \in Seq(Instruction)
      BY <2>2 DEF Runs, Sound
    <3>2. pc \in 1 .. Len(code)
      BY <3>1 DEF Executing
    <3> QED BY <3>2, <2>2 DEF Runs, Sound
  <2> QED BY <2>1, <2>2 DEF ScopesInv
<1> QED BY <1>1, ScopesInvariant, PTL

(* No slot is given up with an upvalue open on it: what endScope and       *)
(* closeLoopLocals pop instead of closing, no function had captured when   *)
(* the instruction is executed.                                            *)
THEOREM CapturedClosedAlways == Spec => []CapturedClosed
<1>1. ScopesInv => CapturedClosed
  <2> SUFFICES ASSUME ScopesInv, NEW slot \in open PROVE slot <= height
    BY DEF CapturedClosed
  <2>1. CASE Compiles
    BY <2>1 DEF Compiles
  <2>2. ASSUME NEW h, NEW o, Runs(h, o) PROVE slot <= height
    <3>1. code \in Seq(Instruction)
      BY <2>2 DEF Runs, Sound
    <3>2. pc \in 1 .. Len(code) \/ pc = Len(code) + 1
      BY <2>2, <3>1 DEF Runs
    <3>3. CASE pc = Len(code) + 1
      BY <3>3, <2>2 DEF Runs
    <3>4. CASE pc \in 1 .. Len(code)
      <4>1. height = h[pc] /\ open \subseteq 1 .. h[pc] /\ h[pc] \in Nat
        BY <3>1, <3>4, <2>2 DEF Runs, Sound
      <4> QED BY <4>1
    <3> QED BY <3>2, <3>3, <3>4
  <2> QED BY <2>1, <2>2 DEF ScopesInv
<1> QED BY <1>1, ScopesInvariant, PTL

(* Every jump that was emitted is patched by the end of the function, and  *)
(* no instruction leads out of it: execution never runs off the end of the *)
(* code, but is at an instruction of it until a return gives up the frame. *)
InFunction == pc \in 0 .. Len(code) \/ (pc = Len(code) + 1 /\ height = 0)

THEOREM StaysInFunction == Spec => []InFunction
<1>1. ScopesInv => InFunction
  <2> SUFFICES ASSUME ScopesInv PROVE InFunction
    OBVIOUS
  <2>1. CASE Compiles
    <3>1. pc = 0 /\ code \in Seq(Instruction)
      BY <2>1, CodeIs DEF Compiles, Understood
    <3> QED BY <3>1 DEF InFunction
  <2>2. ASSUME NEW h, NEW o, Runs(h, o) PROVE InFunction
    <3>1. code \in Seq(Instruction)
      BY <2>2 DEF Runs, Sound
    <3> QED BY <3>1, <2>2 DEF Runs, InFunction
  <2> QED BY <2>1, <2>2 DEF ScopesInv
<1> QED BY <1>1, ScopesInvariant, PTL
=============================================================================
