---------------------------- MODULE ParserProofs ----------------------------
(***************************************************************************)
(* Proofs about Parser, for every family of texts of any length and every  *)
(* limit on nesting.                                                       *)
(*                                                                         *)
(* The parser's C stack is todo, and what makes it right is what is still  *)
(* to be done: every thing to do has an effect on the levels (how deep the *)
(* parser is in scopes, loops, functions, classes and objects) and one on  *)
(* the brackets that are open.  The invariant is that the effects of all   *)
(* that is to be done lead from where the parser is to where it began.     *)
(***************************************************************************)
EXTENDS Parser, Integers, SequenceTheorems, TLAPS

(* The things to do and what they are told.                                *)
ItemNames ==
  {"program", "consume", "precedence", "prefix", "infix", "end", "arguments",
   "moreArguments", "assigned", "dotted", "error", "objectLiteral", "variable", "this",
   "super", "invoked", "statement", "else", "return", "returned", "loop", "endLoop",
   "beginScope", "endScope", "forInit", "forCondition", "forIncrement", "leaveLoop", "block",
   "declareVariable", "initializer", "moreVars", "constInitializer", "defineConst",
   "moreConsts", "method", "class", "superclass", "methods", "endClass", "function",
   "returnFrom", "check", "property", "moreProperties", "endObject", "statementInner",
   "parameters", "moreParameters", "endCompiler", "inherit", "declaration", "declare",
   "settle", "synchronize", "skip"}
Words ==
  {"(", ")", "[", "]", "{", "}", ";", ":", ".", "identifier", "while",
   "script", "function", "method", "initializer"}
Binding == {"precedence", "prefix", "infix"}
Item ==
  {item \in ItemNames \X (Nat \cup Words) : item[1] \in Binding => item[2] \in Nat \ {0}}

-----------------------------------------------------------------------------
(* Levels: where a thing to do leads from a context.                       *)

Compiler == [type : Nat \cup Words, scopeDepth : Int, loops : Int, objects : Int]
Levels == Int \X (Seq(Compiler) \ {<<>>}) \X Seq(BOOLEAN)
Origin == <<0, <<Script>>, <<>>>>

Adjusted(cs, field, n) ==
  [cs EXCEPT ![Len(cs)] = [cs[Len(cs)] EXCEPT ![field] = @ + n]]

LevelNames ==
  {"returnFrom", "beginScope", "endScope", "loop", "endLoop", "property", "moreProperties",
   "endObject", "endCompiler", "class", "superclass", "inherit", "endClass", "program"}

(* An object that is begun has yet to be ended.  Whether there is a         *)
(* superclass is not known before superclass, so it has no effect.         *)
LevelEffect(item, c) ==
  CASE item[1] = "returnFrom" -> <<c[1] - 1, c[2], c[3]>>
    [] item[1] = "beginScope"  -> <<c[1], Adjusted(c[2], "scopeDepth", 1), c[3]>>
    [] item[1] = "endScope"    -> <<c[1], Adjusted(c[2], "scopeDepth", -1), c[3]>>
    [] item[1] = "loop"        -> <<c[1], Adjusted(c[2], "loops", 1), c[3]>>
    [] item[1] = "endLoop"     -> <<c[1], Adjusted(c[2], "loops", -1), c[3]>>
    [] item[1] \in {"property", "moreProperties", "endObject"}
                               -> <<c[1], Adjusted(c[2], "objects", -1), c[3]>>
    [] item[1] = "endCompiler" -> <<c[1], SubSeq(c[2], 1, Len(c[2]) - 1), c[3]>>
    [] item[1] = "class"       -> <<c[1], c[2], <<FALSE>> \o c[3]>>
    [] item[1] = "inherit"     ->
         <<c[1], Adjusted(c[2], "scopeDepth", 1), <<TRUE>> \o Tail(c[3])>>
    [] item[1] = "endClass"    ->
         <<c[1], IF Head(c[3]) THEN Adjusted(c[2], "scopeDepth", -1) ELSE c[2], Tail(c[3])>>
    [] OTHER -> c

LevelAllowed(item, c) ==
  /\ item[1] = "program" => c = Origin
  /\ item[1] = "endCompiler" => Len(c[2]) >= 2
  /\ item[1] \in {"inherit", "endClass"} => c[3] # <<>>
  /\ item[1] = "superclass" => c[3] # <<>> /\ ~ Head(c[3])

-----------------------------------------------------------------------------
(* Brackets: a thing to do consumes them in pairs, but for the one it opens *)
(* or the one it closes.                                                   *)

Brackets == {"(", ")", "[", "]", "{", "}"}
BracketNames ==
  {"arguments", "moreArguments", "forIncrement", "block", "objectLiteral", "property",
   "moreProperties", "skip", "synchronize"}

Opens(item) == item[1] = "consume" /\ item[2] \in Opening

(* The bracket that was opened and that item closes. *)
Ends(item, open) ==
  \/ item[1] = "consume" /\ item[2] = Closing(open)
  \/ item[1] \in {"arguments", "moreArguments", "forIncrement"} /\ open = "("
  \/ item[1] \in {"block", "objectLiteral", "property", "moreProperties"} /\ open = "{"

BracketEffect(item, c) ==
  IF Opens(item) THEN <<item[2]>> \o c
  ELSE IF \E open \in Opening : Ends(item, open) THEN Tail(c) ELSE c

(* Only after an error are tokens skipped. *)
BracketAllowed(item, c) ==
  /\ item[1] \notin {"skip", "synchronize"}
  /\ \A open \in Opening : Ends(item, open) => c # <<>> /\ Head(c) = open

-----------------------------------------------------------------------------
(* Both, and what a list of things to do leads to. *)

Contexts(kind) == IF kind = "levels" THEN Levels ELSE Seq(Opening)
Effect(kind, item, c) ==
  IF kind = "levels" THEN LevelEffect(item, c) ELSE BracketEffect(item, c)
Allowed(kind, item, c) ==
  IF kind = "levels" THEN LevelAllowed(item, c) ELSE BracketAllowed(item, c)

Passes(kind, items, t) ==
  /\ \A i \in 1 .. Len(items) + 1 : t[i] \in Contexts(kind)
  /\ \A i \in 1 .. Len(items) :
       Allowed(kind, items[i], t[i]) /\ t[i + 1] = Effect(kind, items[i], t[i])

Leads(kind, items, c, d) ==
  \E t : Passes(kind, items, t) /\ t[1] = c /\ t[Len(items) + 1] = d

LEMMA LeadsNowhere ==
  ASSUME NEW kind, NEW c, NEW d
  PROVE  Leads(kind, <<>>, c, d) <=> c \in Contexts(kind) /\ c = d
<1>1. ASSUME Leads(kind, <<>>, c, d) PROVE c \in Contexts(kind) /\ c = d
  BY <1>1 DEF Leads, Passes
<1>2. ASSUME c \in Contexts(kind), c = d PROVE Leads(kind, <<>>, c, d)
  <2> DEFINE t == [i \in 1 .. 1 |-> c]
  <2>1. Passes(kind, <<>>, t) /\ t[1] = c /\ t[1] = d
    BY <1>2 DEF Passes
  <2> QED BY <2>1 DEF Leads
<1> QED BY <1>1, <1>2

(* One thing to do after another. *)
LEMMA LeadsOn ==
  ASSUME NEW kind, NEW S, NEW s, s \in Seq(S), NEW u, u \in Seq(S), NEW c, NEW d, NEW e,
         Leads(kind, s, c, d), Leads(kind, u, d, e)
  PROVE  Leads(kind, s \o u, c, e)
<1>1. PICK m \in Nat, n \in Nat : m = Len(s) /\ n = Len(u)
  OBVIOUS
<1>2. PICK f : Passes(kind, s, f) /\ f[1] = c /\ f[m + 1] = d
  BY <1>1 DEF Leads
<1>3. PICK g : Passes(kind, u, g) /\ g[1] = d /\ g[n + 1] = e
  BY <1>1 DEF Leads
<1>4. PICK r : r = s \o u
  OBVIOUS
<1>5. /\ Len(r) = m + n
      /\ \A i \in 1 .. m : r[i] = s[i]
      /\ \A i \in 1 .. n : r[m + i] = u[i]
  BY <1>1, <1>4
<1> DEFINE t == [i \in 1 .. m + n + 1 |-> IF i <= m THEN f[i] ELSE g[i - m]]
<1>6. \A i \in 1 .. m + 1 : i \in 1 .. m + n + 1 /\ t[i] = f[i]
  <2> TAKE i \in 1 .. m + 1
  <2>1. i <= m \/ i = m + 1
    OBVIOUS
  <2> QED BY <2>1, <1>2, <1>3
<1>7. \A i \in 1 .. n + 1 : m + i \in 1 .. m + n + 1 /\ t[m + i] = g[i]
  <2> TAKE i \in 1 .. n + 1
  <2>1. m + i > m /\ (m + i) - m = i
    OBVIOUS
  <2> QED BY <2>1
<1> HIDE DEF t
<1>8. \A i \in 1 .. m + n + 1 : t[i] \in Contexts(kind)
  <2> TAKE i \in 1 .. m + n + 1
  <2>1. CASE i <= m
    BY <2>1, <1>1, <1>2, <1>6 DEF Passes
  <2>2. CASE i > m
    <3>1. PICK j \in 1 .. n + 1 : i = m + j
      <4>1. i - m \in 1 .. n + 1 /\ i = m + (i - m)
        BY <2>2
      <4> QED BY <4>1
    <3> QED BY <3>1, <1>1, <1>3, <1>7 DEF Passes
  <2> QED BY <2>1, <2>2
<1>9. \A i \in 1 .. m + n : Allowed(kind, r[i], t[i]) /\ t[i + 1] = Effect(kind, r[i], t[i])
  <2> TAKE i \in 1 .. m + n
  <2>1. CASE i <= m
    <3>1. i \in 1 .. m /\ i \in 1 .. m + 1 /\ i + 1 \in 1 .. m + 1
      BY <2>1
    <3>2. r[i] = s[i] /\ t[i] = f[i] /\ t[i + 1] = f[i + 1]
      BY <3>1, <1>5, <1>6
    <3>3. Allowed(kind, s[i], f[i]) /\ f[i + 1] = Effect(kind, s[i], f[i])
      BY <3>1, <1>1, <1>2 DEF Passes
    <3> QED BY <3>2, <3>3
  <2>2. CASE i > m
    <3>1. PICK j \in 1 .. n : i = m + j
      <4>1. i - m \in 1 .. n /\ i = m + (i - m)
        BY <2>2
      <4> QED BY <4>1
    <3>2. j \in 1 .. n + 1 /\ j + 1 \in 1 .. n + 1 /\ i + 1 = m + (j + 1)
      BY <3>1
    <3>3. r[i] = u[j] /\ t[i] = g[j] /\ t[i + 1] = g[j + 1]
      BY <3>1, <3>2, <1>5, <1>7
    <3>4. Allowed(kind, u[j], g[j]) /\ g[j + 1] = Effect(kind, u[j], g[j])
      BY <3>1, <1>1, <1>3 DEF Passes
    <3> QED BY <3>3, <3>4
  <2> QED BY <2>1, <2>2
<1>10. Passes(kind, r, t)
  BY <1>5, <1>8, <1>9 DEF Passes
<1>11. t[1] = c /\ t[Len(r) + 1] = e
  <2>1. 1 \in 1 .. m + 1 /\ n + 1 \in 1 .. n + 1 /\ m + (n + 1) = m + n + 1
    OBVIOUS
  <2> QED BY <2>1, <1>2, <1>3, <1>5, <1>6, <1>7
<1> QED BY <1>4, <1>10, <1>11 DEF Leads

(* The first thing to do, and the others. *)
LEMMA LeadsFirst ==
  ASSUME NEW kind, NEW S, NEW s, s \in Seq(S), s # <<>>, NEW c, NEW e, Leads(kind, s, c, e)
  PROVE  /\ c \in Contexts(kind) /\ Allowed(kind, Head(s), c)
         /\ Effect(kind, Head(s), c) \in Contexts(kind)
         /\ Leads(kind, Tail(s), Effect(kind, Head(s), c), e)
<1>1. PICK n \in Nat : Len(s) = n + 1
  <2>1. Len(s) \in Nat /\ Len(s) # 0
    BY EmptySeq
  <2>2. Len(s) - 1 \in Nat /\ (Len(s) - 1) + 1 = Len(s)
    BY <2>1
  <2> QED BY <2>2
<1>2. PICK f : Passes(kind, s, f) /\ f[1] = c /\ f[n + 2] = e
  BY <1>1 DEF Leads
<1>3. PICK r : r = Tail(s)
  OBVIOUS
<1>4. Len(r) = n /\ \A i \in 1 .. n : r[i] = s[i + 1]
  BY <1>1, <1>3
<1>5. /\ c \in Contexts(kind) /\ Allowed(kind, s[1], c)
      /\ f[2] = Effect(kind, s[1], c) /\ f[2] \in Contexts(kind)
  <2>1. 1 \in 1 .. n + 1 /\ 1 \in 1 .. n + 2 /\ 2 \in 1 .. n + 2
    OBVIOUS
  <2> QED BY <2>1, <1>1, <1>2 DEF Passes
<1> DEFINE t == [i \in 1 .. n + 1 |-> f[i + 1]]
<1>6. \A i \in 1 .. n + 1 : i + 1 \in 1 .. n + 2 /\ t[i] = f[i + 1]
  OBVIOUS
<1>7. t[1] = f[2] /\ t[n + 1] = e
  <2>1. 1 \in 1 .. n + 1 /\ n + 1 \in 1 .. n + 1 /\ (n + 1) + 1 = n + 2
    OBVIOUS
  <2> QED BY <2>1, <1>2, <1>6
<1> HIDE DEF t
<1>8. \A i \in 1 .. n + 1 : t[i] \in Contexts(kind)
  BY <1>1, <1>2, <1>6 DEF Passes
<1>9. \A i \in 1 .. n : Allowed(kind, r[i], t[i]) /\ t[i + 1] = Effect(kind, r[i], t[i])
  <2> TAKE i \in 1 .. n
  <2>1. i \in 1 .. n + 1 /\ i + 1 \in 1 .. n + 1
    OBVIOUS
  <2>2. r[i] = s[i + 1] /\ t[i] = f[i + 1] /\ t[i + 1] = f[(i + 1) + 1]
    BY <2>1, <1>4, <1>6
  <2>3. Allowed(kind, s[i + 1], f[i + 1]) /\ f[(i + 1) + 1] = Effect(kind, s[i + 1], f[i + 1])
    BY <2>1, <1>1, <1>2 DEF Passes
  <2> QED BY <2>2, <2>3
<1>10. Passes(kind, r, t)
  BY <1>4, <1>8, <1>9 DEF Passes
<1>11. Leads(kind, r, f[2], e)
  BY <1>4, <1>7, <1>10 DEF Leads
<1>12. Head(s) = s[1]
  OBVIOUS
<1> QED BY <1>3, <1>5, <1>11, <1>12

(* What has no effect. *)
Plain(kind, item) ==
  \A c \in Contexts(kind) : Allowed(kind, item, c) /\ Effect(kind, item, c) = c

AllPlain(kind, items) == \A i \in 1 .. Len(items) : Plain(kind, items[i])

LEMMA LeadsStill ==
  ASSUME NEW kind, NEW S, NEW s, s \in Seq(S), AllPlain(kind, s), NEW c, c \in Contexts(kind)
  PROVE  Leads(kind, s, c, c)
<1>1. PICK n \in Nat : n = Len(s)
  OBVIOUS
<1> DEFINE t == [i \in 1 .. n + 1 |-> c]
<1>2. \A i \in 1 .. n + 1 : t[i] = c
  OBVIOUS
<1>3. \A i \in 1 .. n : i \in 1 .. n + 1 /\ i + 1 \in 1 .. n + 1
  OBVIOUS
<1>4. 1 \in 1 .. n + 1 /\ n + 1 \in 1 .. n + 1
  OBVIOUS
<1> HIDE DEF t
<1>5. \A i \in 1 .. n : Allowed(kind, s[i], t[i]) /\ t[i + 1] = Effect(kind, s[i], t[i])
  BY <1>1, <1>2, <1>3 DEF AllPlain, Plain
<1>6. Passes(kind, s, t)
  BY <1>1, <1>2, <1>5 DEF Passes
<1> QED BY <1>1, <1>2, <1>4, <1>6 DEF Leads

(* A list of which one thing has an effect. *)
LEMMA LeadsThrough ==
  ASSUME NEW kind, NEW S, NEW s, s \in Seq(S), NEW j, j \in 1 .. Len(s),
         \A i \in 1 .. Len(s) : i # j => Plain(kind, s[i]),
         NEW c, c \in Contexts(kind), Allowed(kind, s[j], c),
         NEW d, d = Effect(kind, s[j], c), d \in Contexts(kind)
  PROVE  Leads(kind, s, c, d)
<1>1. PICK n \in Nat : n = Len(s)
  OBVIOUS
<1> DEFINE t == [i \in 1 .. n + 1 |-> IF i <= j THEN c ELSE d]
<1>2. \A i \in 1 .. n + 1 : t[i] = IF i <= j THEN c ELSE d
  OBVIOUS
<1>3. j \in 1 .. n /\ 1 \in 1 .. n + 1 /\ n + 1 \in 1 .. n + 1
  BY <1>1
<1> HIDE DEF t
<1>4. \A i \in 1 .. n : Allowed(kind, s[i], t[i]) /\ t[i + 1] = Effect(kind, s[i], t[i])
  <2> TAKE i \in 1 .. n
  <2>1. i \in 1 .. n + 1 /\ i + 1 \in 1 .. n + 1
    OBVIOUS
  <2>2. CASE i < j
    <3>1. t[i] = c /\ t[i + 1] = c
      BY <2>1, <2>2, <1>2, <1>3
    <3> QED BY <3>1, <2>2, <1>1, <1>3 DEF Plain
  <2>3. CASE i = j
    <3>1. t[i] = c /\ t[i + 1] = d
      BY <2>1, <2>3, <1>2, <1>3
    <3> QED BY <3>1, <2>3
  <2>4. CASE i > j
    <3>1. t[i] = d /\ t[i + 1] = d
      BY <2>1, <2>4, <1>2, <1>3
    <3> QED BY <3>1, <2>4, <1>1, <1>3 DEF Plain
  <2> QED BY <2>2, <2>3, <2>4, <1>3
<1>5. \A i \in 1 .. n + 1 : t[i] \in Contexts(kind)
  BY <1>2
<1>6. Passes(kind, s, t)
  BY <1>1, <1>4, <1>5 DEF Passes
<1>7. t[1] = c /\ t[n + 1] = d
  BY <1>2, <1>3
<1> QED BY <1>1, <1>6, <1>7 DEF Leads

(* A list of which two things have an effect. *)
LEMMA LeadsThroughTwo ==
  ASSUME NEW kind, NEW S, NEW s, s \in Seq(S),
         NEW j, j \in 1 .. Len(s), NEW k, k \in 1 .. Len(s), j < k,
         \A i \in 1 .. Len(s) : i \notin {j, k} => Plain(kind, s[i]),
         NEW c, c \in Contexts(kind), Allowed(kind, s[j], c),
         NEW d, d = Effect(kind, s[j], c), d \in Contexts(kind), Allowed(kind, s[k], d),
         NEW e, e = Effect(kind, s[k], d), e \in Contexts(kind)
  PROVE  Leads(kind, s, c, e)
<1>1. PICK n \in Nat : n = Len(s)
  OBVIOUS
<1> DEFINE t == [i \in 1 .. n + 1 |-> IF i <= j THEN c ELSE IF i <= k THEN d ELSE e]
<1>2. \A i \in 1 .. n + 1 : t[i] = IF i <= j THEN c ELSE IF i <= k THEN d ELSE e
  OBVIOUS
<1>3. j \in 1 .. n /\ k \in 1 .. n /\ 1 \in 1 .. n + 1 /\ n + 1 \in 1 .. n + 1
  BY <1>1
<1> HIDE DEF t
<1>4. \A i \in 1 .. n : Allowed(kind, s[i], t[i]) /\ t[i + 1] = Effect(kind, s[i], t[i])
  <2> TAKE i \in 1 .. n
  <2>1. i \in 1 .. n + 1 /\ i + 1 \in 1 .. n + 1
    OBVIOUS
  <2>2. CASE i < j
    <3>1. t[i] = c /\ t[i + 1] = c
      BY <2>1, <2>2, <1>2, <1>3
    <3>2. i \notin {j, k}
      BY <2>2, <1>3
    <3> QED BY <3>1, <3>2, <1>1 DEF Plain
  <2>3. CASE i = j
    <3>1. t[i] = c /\ t[i + 1] = d
      BY <2>1, <2>3, <1>2, <1>3
    <3> QED BY <3>1, <2>3
  <2>4. CASE i > j /\ i < k
    <3>1. t[i] = d /\ t[i + 1] = d
      BY <2>1, <2>4, <1>2, <1>3
    <3>2. i \notin {j, k}
      BY <2>4, <1>3
    <3> QED BY <3>1, <3>2, <1>1 DEF Plain
  <2>5. CASE i = k
    <3>1. t[i] = d /\ t[i + 1] = e
      BY <2>1, <2>5, <1>2, <1>3
    <3> QED BY <3>1, <2>5
  <2>6. CASE i > k
    <3>1. t[i] = e /\ t[i + 1] = e
      BY <2>1, <2>6, <1>2, <1>3
    <3>2. i \notin {j, k}
      BY <2>6, <1>3
    <3> QED BY <3>1, <3>2, <1>1 DEF Plain
  <2> QED BY <2>2, <2>3, <2>4, <2>5, <2>6, <1>3
<1>5. \A i \in 1 .. n + 1 : t[i] \in Contexts(kind)
  BY <1>2
<1>6. Passes(kind, s, t)
  BY <1>1, <1>4, <1>5 DEF Passes
<1>7. t[1] = c /\ t[n + 1] = e
  BY <1>2, <1>3
<1> QED BY <1>1, <1>6, <1>7 DEF Leads

(* A thing to do that is replaced by others. *)
LEMMA LeadsInstead ==
  ASSUME NEW kind, NEW S, NEW s, s \in Seq(S), s # <<>>, NEW items, items \in Seq(S),
         NEW c, NEW d, NEW e, Leads(kind, s, c, e),
         Leads(kind, items, d, Effect(kind, Head(s), c))
  PROVE  items \o Tail(s) \in Seq(S) /\ Leads(kind, items \o Tail(s), d, e)
<1>1. Tail(s) \in Seq(S)
  OBVIOUS
<1>2. Leads(kind, Tail(s), Effect(kind, Head(s), c), e)
  BY LeadsFirst
<1>3. Leads(kind, items \o Tail(s), d, e)
  BY <1>1, <1>2, LeadsOn
<1> QED BY <1>1, <1>3

-----------------------------------------------------------------------------
(* The levels. *)

LEMMA CompilerAdjusted ==
  ASSUME NEW a, a \in Compiler, NEW f, f \in {"scopeDepth", "loops", "objects"},
         NEW n, n \in Int
  PROVE  /\ [a EXCEPT ![f] = @ + n] \in Compiler
         /\ [[a EXCEPT ![f] = @ + n] EXCEPT ![f] = @ - n] = a
<1>1. \A x \in Int : (x + n) - n = x /\ x + n \in Int
  OBVIOUS
<1>2. CASE f = "scopeDepth"
  BY <1>1, <1>2 DEF Compiler
<1>3. CASE f = "loops"
  BY <1>1, <1>3 DEF Compiler
<1>4. CASE f = "objects"
  BY <1>1, <1>4 DEF Compiler
<1> QED BY <1>2, <1>3, <1>4

LEMMA AdjustedIs ==
  ASSUME NEW cs, cs \in Seq(Compiler) \ {<<>>}, NEW n, n \in Int,
         NEW f, f \in {"scopeDepth", "loops", "objects"}
  PROVE  /\ Adjusted(cs, f, n) \in Seq(Compiler) \ {<<>>}
         /\ Len(Adjusted(cs, f, n)) = Len(cs)
         /\ Adjusted(Adjusted(cs, f, n), f, -n) = cs
<1>1. PICK m \in Nat \ {0} : m = Len(cs)
  BY EmptySeq
<1>2. PICK a : a = cs[m]
  OBVIOUS
<1>3. a \in Compiler
  BY <1>1, <1>2, ElementOfSeq
<1>4. PICK b : b = [a EXCEPT ![f] = @ + n]
  OBVIOUS
<1>5. b \in Compiler /\ [b EXCEPT ![f] = @ + (-n)] = a
  <2>1. b \in Compiler
    BY <1>3, <1>4, CompilerAdjusted
  <2>2. [b EXCEPT ![f] = @ - n] = a
    BY <1>3, <1>4, CompilerAdjusted
  <2>3. b[f] - n = b[f] + (-n)
    BY <2>1 DEF Compiler
  <2> QED BY <2>1, <2>2, <2>3
<1>6. PICK r : r = [cs EXCEPT ![m] = b]
  OBVIOUS
<1>7. Adjusted(cs, f, n) = r
  BY <1>1, <1>2, <1>4, <1>6 DEF Adjusted
<1>8. r \in Seq(Compiler) /\ Len(r) = m /\ r[m] = b
  BY <1>1, <1>5, <1>6
<1>9. r # <<>>
  BY <1>1, <1>8
<1>10. Adjusted(r, f, -n) = [r EXCEPT ![m] = a]
  BY <1>5, <1>8 DEF Adjusted
<1>11. [r EXCEPT ![m] = a] = cs
  <2>1. DOMAIN cs = 1 .. m /\ cs = [i \in 1 .. m |-> cs[i]]
    BY <1>1
  <2> QED BY <2>1, <1>1, <1>2, <1>6
<1> QED BY <1>1, <1>7, <1>8, <1>9, <1>10, <1>11


-----------------------------------------------------------------------------
(* What may come next. *)

FollowNames == {"declaration", "settle", "synchronize", "skip", "declare", "superclass"}

FollowsAt(s, i) ==
  /\ s[i][1] \in {"declaration", "settle"} =>
       i < Len(s) /\ s[i + 1][1] \in {"program", "block"}
  /\ s[i][1] \in {"synchronize", "skip"} =>
       i < Len(s) /\ s[i + 1][1] \in {"declare", "program", "block"}
  /\ s[i][1] = "declare" => i < Len(s) /\ s[i + 1][1] = "settle"
  /\ s[i][1] = "superclass" =>
       /\ i + 4 <= Len(s)
       /\ s[i + 1] = Consume("{") /\ s[i + 2] = Do("methods")
       /\ s[i + 3] = Consume("}") /\ s[i + 4] = Do("endClass")

Follows(s) == \A i \in 1 .. Len(s) : FollowsAt(s, i)

(* It depends on the next four things only. *)
GoesOn(s, m, i, r, n, j) ==
  /\ Len(s) = m /\ Len(r) = n /\ r[j] = s[i]
  /\ \A k \in 1 .. 4 : i + k <= m => j + k <= n /\ r[j + k] = s[i + k]

LEMMA FollowsShift ==
  ASSUME NEW s, NEW m, m \in Nat, NEW i, i \in Nat, FollowsAt(s, i),
         NEW r, NEW n, n \in Nat, NEW j, j \in Nat, GoesOn(s, m, i, r, n, j)
  PROVE  FollowsAt(r, j)
<1>0. Len(s) = m /\ Len(r) = n /\ r[j] = s[i]
  BY DEF GoesOn
<1>1. i + 1 <= m => j + 1 <= n /\ r[j + 1] = s[i + 1]
  BY DEF GoesOn
<1>2. i < m <=> i + 1 <= m
  OBVIOUS
<1>3. j < n <=> j + 1 <= n
  OBVIOUS
<1>4. r[j][1] \in {"declaration", "settle"} =>
        j < Len(r) /\ r[j + 1][1] \in {"program", "block"}
  BY <1>0, <1>1, <1>2, <1>3 DEF FollowsAt
<1>5. r[j][1] \in {"synchronize", "skip"} =>
        j < Len(r) /\ r[j + 1][1] \in {"declare", "program", "block"}
  BY <1>0, <1>1, <1>2, <1>3 DEF FollowsAt
<1>6. r[j][1] = "declare" => j < Len(r) /\ r[j + 1][1] = "settle"
  BY <1>0, <1>1, <1>2, <1>3 DEF FollowsAt
<1>7. ASSUME r[j][1] = "superclass"
      PROVE  /\ j + 4 <= Len(r)
             /\ r[j + 1] = Consume("{") /\ r[j + 2] = Do("methods")
             /\ r[j + 3] = Consume("}") /\ r[j + 4] = Do("endClass")
  <2>1. /\ i + 4 <= m
        /\ s[i + 1] = Consume("{") /\ s[i + 2] = Do("methods")
        /\ s[i + 3] = Consume("}") /\ s[i + 4] = Do("endClass")
    BY <1>0, <1>7 DEF FollowsAt
  <2>2. \A k \in 1 .. 4 : i + k <= m => j + k <= n /\ r[j + k] = s[i + k]
    BY DEF GoesOn
  <2>3. i + 4 <= m
    BY <2>1
  <2>4. \A k \in 1 .. 4 : i + k <= m
    BY <2>3
  <2>5. \A k \in 1 .. 4 : j + k <= n /\ r[j + k] = s[i + k]
    BY <2>2, <2>4
  <2>6. /\ j + 4 <= n /\ r[j + 1] = s[i + 1] /\ r[j + 2] = s[i + 2]
        /\ r[j + 3] = s[i + 3] /\ r[j + 4] = s[i + 4]
    BY <2>5
  <2> QED BY <1>0, <2>1, <2>6
<1> QED BY <1>4, <1>5, <1>6, <1>7 DEF FollowsAt

LEMMA FollowsTail ==
  ASSUME NEW S, NEW s, s \in Seq(S), s # <<>>, Follows(s)
  PROVE  Follows(Tail(s))
<1>1. PICK n \in Nat : Len(s) = n + 1
  <2>1. Len(s) \in Nat /\ Len(s) # 0
    BY EmptySeq
  <2>2. Len(s) - 1 \in Nat /\ (Len(s) - 1) + 1 = Len(s)
    BY <2>1
  <2> QED BY <2>2
<1>2. PICK r : r = Tail(s)
  OBVIOUS
<1>3. Len(r) = n /\ \A i \in 1 .. n : r[i] = s[i + 1]
  BY <1>1, <1>2
<1>4. ASSUME NEW i \in 1 .. n PROVE FollowsAt(r, i)
  <2>1. FollowsAt(s, i + 1)
    BY <1>1 DEF Follows
  <2>2. \A k \in 1 .. 4 : (i + 1) + k <= n + 1 => i + k <= n /\ r[i + k] = s[(i + 1) + k]
    <3> SUFFICES ASSUME NEW k \in 1 .. 4, (i + 1) + k <= n + 1
                 PROVE  i + k <= n /\ r[i + k] = s[(i + 1) + k]
      OBVIOUS
    <3>1. i + k \in 1 .. n /\ (i + k) + 1 = (i + 1) + k
      OBVIOUS
    <3> QED BY <3>1, <1>3
  <2>3. PICK h : h = i + 1
    OBVIOUS
  <2>4. h \in Nat /\ i \in Nat /\ n + 1 \in Nat /\ r[i] = s[h]
    BY <2>3, <1>3
  <2>5. GoesOn(s, n + 1, h, r, n, i)
    BY <2>2, <2>3, <2>4, <1>1, <1>3 DEF GoesOn
  <2>6. FollowsAt(s, h)
    BY <2>1, <2>3
  <2> QED BY <2>4, <2>5, <2>6, FollowsShift
<1> QED BY <1>2, <1>3, <1>4 DEF Follows

LEMMA FollowsOn ==
  ASSUME NEW S, NEW s, s \in Seq(S), NEW u, u \in Seq(S), Follows(u),
         \A i \in 1 .. Len(s) : FollowsAt(s \o u, i)
  PROVE  Follows(s \o u)
<1>1. PICK m \in Nat, n \in Nat : m = Len(s) /\ n = Len(u)
  OBVIOUS
<1>2. PICK r : r = s \o u
  OBVIOUS
<1>3. Len(r) = m + n /\ \A i \in 1 .. n : r[m + i] = u[i]
  BY <1>1, <1>2
<1>4. ASSUME NEW i \in 1 .. n PROVE FollowsAt(r, m + i)
  <2>1. FollowsAt(u, i)
    BY <1>1 DEF Follows
  <2>2. \A k \in 1 .. 4 : i + k <= n => (m + i) + k <= m + n /\ r[(m + i) + k] = u[i + k]
    <3> SUFFICES ASSUME NEW k \in 1 .. 4, i + k <= n
                 PROVE  (m + i) + k <= m + n /\ r[(m + i) + k] = u[i + k]
      OBVIOUS
    <3>1. i + k \in 1 .. n /\ (m + i) + k = m + (i + k)
      OBVIOUS
    <3> QED BY <3>1, <1>3
  <2>3. PICK h, l : h = m + i /\ l = m + n
    OBVIOUS
  <2>4. h \in Nat /\ i \in Nat /\ l \in Nat /\ r[h] = u[i] /\ Len(r) = l
    BY <2>3, <1>3
  <2>5. GoesOn(u, n, i, r, l, h)
    BY <2>2, <2>3, <2>4, <1>1 DEF GoesOn
  <2>6. FollowsAt(r, h)
    BY <2>1, <2>4, <2>5, FollowsShift
  <2> QED BY <2>3, <2>6
<1>5. ASSUME NEW i \in 1 .. m + n PROVE FollowsAt(r, i)
  <2>1. CASE i <= m
    BY <2>1, <1>1, <1>2
  <2>2. CASE i > m
    <3>1. i - m \in 1 .. n /\ i = m + (i - m)
      BY <2>2
    <3>2. PICK j \in 1 .. n : i = m + j
      BY <3>1
    <3> QED BY <3>2, <1>4
  <2> QED BY <2>1, <2>2
<1> QED BY <1>2, <1>3, <1>5 DEF Follows

(* What need not be followed by something. *)
Loose(items) == \A i \in 1 .. Len(items) : items[i][1] \notin FollowNames

LEMMA FollowsLoose ==
  ASSUME NEW S, NEW s, s \in Seq(S), Loose(s), NEW u, u \in Seq(S), Follows(u)
  PROVE  Follows(s \o u)
<1>1. ASSUME NEW i \in 1 .. Len(s) PROVE FollowsAt(s \o u, i)
  <2>1. (s \o u)[i] = s[i]
    OBVIOUS
  <2>2. s[i][1] \notin FollowNames
    BY DEF Loose
  <2> QED BY <2>1, <2>2 DEF FollowsAt, FollowNames
<1> QED BY <1>1, FollowsOn

-----------------------------------------------------------------------------
(* The invariant. *)

(* All that is left to do leads back to where the parser began. *)
LevelInv == Leads("levels", todo, context, Origin)

(* Without an error it closes all brackets. *)
BracketInv == hadError \/ At("error") \/ Leads("brackets", todo, brackets, <<>>)

(* After a report and a recovery nothing is reported before a token is      *)
(* consumed: what is to be done first does not report.                     *)
StaleNames ==
  {"skip", "declare", "statement", "statementInner", "precedence", "prefix", "program",
   "block", "declaration"}
Stale ==
  \/ current = "eof" \/ todo = <<>>
  \/ Head(todo)[1] \in StaleNames
  \/ Head(todo) = Consume("}") /\ current = "}"
StaleInv == panicMode \/ fresh \/ Stale

IInv ==
  /\ todo \in Seq(Item) /\ LevelInv /\ BracketInv /\ Follows(todo)
  /\ StaleInv /\ (panicMode => hadError)

(* ReportsOnce, of a step. *)
Once == ~panicMode /\ panicMode' /\ ~fresh' => fresh \/ Refused \/ current = "eof"

(* What the things that replace the first one have to do for it. *)
LevelsLead(items) == Leads("levels", items, context', Effect("levels", Head(todo), context))
BracketsLead(items) ==
  Leads("brackets", items, brackets', Effect("brackets", Head(todo), brackets))

LEMMA StepKeeps ==
  ASSUME IInv, todo # <<>>, ~ At("error"), NEW items, items \in Seq(Item), Then(items),
         LevelsLead(items),
         \/ hadError'
         \/ items # <<>> /\ items[1][1] = "error"
         \/ BracketsLead(items),
         hadError => hadError', panicMode' => hadError', StaleInv', Follows(todo')
  PROVE  IInv'
<1>1. todo' = items \o Tail(todo)
  BY DEF Then
<1>2. todo \in Seq(Item) /\ LevelInv /\ BracketInv
  BY DEF IInv
<1>3. todo' \in Seq(Item) /\ LevelInv'
  BY <1>1, <1>2, LeadsInstead DEF LevelInv, LevelsLead
<1>4. BracketInv'
  <2>1. CASE hadError'
    BY <2>1 DEF BracketInv
  <2>2. CASE items # <<>> /\ items[1][1] = "error"
    <3>1. Len(items) \in Nat /\ Len(items) # 0
      BY <2>2, EmptySeq
    <3>2. todo'[1] = items[1] /\ todo' # <<>>
      <4>1. Len(todo') = Len(items) + Len(Tail(todo)) /\ Len(Tail(todo)) \in Nat
        BY <1>1, <1>2
      <4>2. Len(todo') # 0
        BY <4>1, <3>1
      <4> QED BY <4>2, <3>1, <1>1, <1>2
    <3>3. Head(todo') = todo'[1]
      BY <3>2
    <3> QED BY <2>2, <3>2, <3>3 DEF BracketInv, At
  <2>3. CASE ~ hadError' /\ BracketsLead(items)
    <3>1. Leads("brackets", todo, brackets, <<>>)
      BY <2>3, <1>2 DEF BracketInv
    <3>2. Leads("brackets", todo', brackets', <<>>)
      BY <1>1, <1>2, <3>1, <2>3, LeadsInstead DEF BracketsLead
    <3> QED BY <3>2 DEF BracketInv
  <2> QED BY <2>1, <2>2, <2>3
<1> QED BY <1>3, <1>4 DEF IInv


-----------------------------------------------------------------------------
(* Lists of things to do that have no effect.                              *)

SimpleItem(item) ==
  /\ item \in Item
  /\ item[1] \notin LevelNames \cup BracketNames \cup FollowNames
  /\ item[1] = "consume" => item[2] \notin Brackets
Simple(items) == items \in Seq(Item) /\ \A i \in 1 .. Len(items) : SimpleItem(items[i])

LEMMA LevelStill ==
  ASSUME NEW item, item[1] \notin LevelNames, NEW c
  PROVE  LevelEffect(item, c) = c /\ LevelAllowed(item, c)
<1>1. LevelEffect(item, c) = c
  BY DEF LevelEffect, LevelNames
<1>2. LevelAllowed(item, c)
  BY DEF LevelAllowed, LevelNames
<1> QED BY <1>1, <1>2

LEMMA BracketStill ==
  ASSUME NEW item, item[1] \notin BracketNames, item[1] = "consume" => item[2] \notin Brackets
  PROVE  ~ Opens(item) /\ \A open \in Opening : ~ Ends(item, open)
<1>1. ~ Opens(item)
  BY DEF Opens, Opening, Brackets
<1>2. ASSUME NEW open \in Opening PROVE ~ Ends(item, open)
  <2>1. Closing(open) \in Brackets
    BY DEF Closing, Opening, Brackets
  <2> QED BY <2>1 DEF Ends, BracketNames
<1> QED BY <1>1, <1>2

LEMMA SimpleIsPlain ==
  ASSUME NEW item, SimpleItem(item)
  PROVE  Plain("levels", item) /\ Plain("brackets", item)
<1>1. item[1] \notin LevelNames /\ item[1] \notin BracketNames
  BY DEF SimpleItem
<1>2. Plain("levels", item)
  BY <1>1, LevelStill DEF Plain, Effect, Allowed
<1>3. ~ Opens(item) /\ \A open \in Opening : ~ Ends(item, open)
  BY <1>1, BracketStill DEF SimpleItem
<1>4. item[1] \notin {"skip", "synchronize"}
  BY <1>1 DEF BracketNames
<1>5. Plain("brackets", item)
  BY <1>3, <1>4 DEF Plain, Effect, Allowed, BracketEffect, BracketAllowed
<1> QED BY <1>2, <1>5

LEMMA SimpleList ==
  ASSUME NEW items, Simple(items)
  PROVE  /\ items \in Seq(Item) /\ Loose(items)
         /\ AllPlain("levels", items) /\ AllPlain("brackets", items)
<1>1. items \in Seq(Item) /\ \A i \in 1 .. Len(items) : SimpleItem(items[i])
  BY DEF Simple
<1>2. Loose(items)
  BY <1>1 DEF Loose, SimpleItem
<1> QED BY <1>1, <1>2, SimpleIsPlain DEF AllPlain

LEMMA SimpleJoined ==
  ASSUME NEW s, Simple(s), NEW u, Simple(u)
  PROVE  Simple(s \o u)
<1>1. PICK m \in Nat, n \in Nat : m = Len(s) /\ n = Len(u)
  BY DEF Simple
<1>2. PICK r : r = s \o u
  OBVIOUS
<1>3. s \in Seq(Item) /\ u \in Seq(Item)
  BY DEF Simple
<1>4. /\ r \in Seq(Item) /\ Len(r) = m + n
      /\ \A i \in 1 .. m : r[i] = s[i]
      /\ \A i \in 1 .. n : r[m + i] = u[i]
  BY <1>1, <1>2, <1>3
<1>5. ASSUME NEW i \in 1 .. m + n PROVE SimpleItem(r[i])
  <2>1. CASE i <= m
    BY <2>1, <1>1, <1>4 DEF Simple
  <2>2. CASE i > m
    <3>1. i - m \in 1 .. n /\ i = m + (i - m)
      BY <2>2
    <3>2. PICK j \in 1 .. n : i = m + j
      BY <3>1
    <3> QED BY <3>2, <1>1, <1>4 DEF Simple
  <2> QED BY <2>1, <2>2
<1> QED BY <1>2, <1>4, <1>5 DEF Simple

(* Check that are in none of the lists. *)
Special ==
  LevelNames \cup BracketNames \cup FollowNames \cup Binding \cup {"consume"}

LEMMA SimpleDo ==
  ASSUME NEW name, name \in ItemNames \ Special, NEW argument, argument \in Nat \cup Words
  PROVE  SimpleItem(<<name, argument>>)
<1>1. PICK item : item = <<name, argument>>
  OBVIOUS
<1>2. item[1] = name /\ name \notin Binding /\ item \in ItemNames \X (Nat \cup Words)
  BY <1>1 DEF Special
<1>3. SimpleItem(item)
  BY <1>2 DEF SimpleItem, Special, Item
<1> QED BY <1>1, <1>3

LEMMA SimpleConsume ==
  ASSUME NEW token, token \in Words \ Brackets
  PROVE  SimpleItem(Consume(token))
<1>1. PICK item : item = Consume(token)
  OBVIOUS
<1>2. item \in Item /\ item[1] = "consume" /\ item[2] = token
  <2>1. token \in Nat \cup Words /\ "consume" \in ItemNames
    BY DEF ItemNames
  <2>2. item = <<"consume", token>>
    BY <1>1 DEF Consume
  <2>3. item[1] = "consume" /\ item[2] = token
    BY <2>2
  <2>4. item \in ItemNames \X (Nat \cup Words) /\ item[1] \notin Binding
    BY <2>1, <2>2, <2>3 DEF Binding
  <2>5. item \in Item
    BY <2>4 DEF Item
  <2> QED BY <2>3, <2>5
<1>3. "consume" \notin LevelNames \cup BracketNames \cup FollowNames
  BY DEF LevelNames, BracketNames, FollowNames
<1>4. SimpleItem(item)
  BY <1>2, <1>3 DEF SimpleItem
<1> QED BY <1>1, <1>4

LEMMA SimplePrecedence ==
  ASSUME NEW name, name \in Binding, NEW p, p \in Nat \ {0}
  PROVE  SimpleItem(<<name, p>>)
<1>1. PICK item : item = <<name, p>>
  OBVIOUS
<1>2. item \in Item /\ item[1] = name /\ item[2] = p
  <2>1. name \in ItemNames /\ p \in Nat \cup Words
    BY DEF ItemNames, Binding
  <2>2. item \in ItemNames \X (Nat \cup Words) /\ item[2] \in Nat \ {0}
    BY <2>1, <1>1
  <2> QED BY <2>2, <1>1 DEF Item
<1>3. name \notin LevelNames \cup BracketNames \cup FollowNames /\ name # "consume"
  BY DEF LevelNames, BracketNames, FollowNames, Binding
<1>4. SimpleItem(item)
  BY <1>2, <1>3 DEF SimpleItem
<1> QED BY <1>1, <1>4

LEMMA SimpleLists ==
  ASSUME NEW a, SimpleItem(a), NEW b, SimpleItem(b), NEW c, SimpleItem(c), NEW d, SimpleItem(d),
         NEW e, SimpleItem(e)
  PROVE  /\ Simple(<<>>) /\ Simple(<<a>>) /\ Simple(<<a, b>>) /\ Simple(<<a, b, c>>)
         /\ Simple(<<a, b, c, d>>) /\ Simple(<<a, b, c, d, e>>)
<1>1. a \in Item /\ b \in Item /\ c \in Item /\ d \in Item /\ e \in Item
  BY DEF SimpleItem
<1>2. Simple(<<>>)
  BY DEF Simple
<1>3. Simple(<<a>>)
  BY <1>1 DEF Simple
<1>4. Simple(<<a, b>>)
  BY <1>1 DEF Simple
<1>5. Simple(<<a, b, c>>)
  BY <1>1 DEF Simple
<1>6. Simple(<<a, b, c, d>>)
  BY <1>1 DEF Simple
<1>7. Simple(<<a, b, c, d, e>>)
  BY <1>1 DEF Simple
<1> QED BY <1>2, <1>3, <1>4, <1>5, <1>6, <1>7

LEMMA SimpleItems ==
  /\ SimpleItem(Expression)
  /\ \A token \in {";", ":", ".", "identifier", "while"} : SimpleItem(Consume(token))
  /\ \A name \in {"error", "check", "invoked", "statement", "else", "return", "returned", "this",
                  "super", "forInit", "forCondition", "leaveLoop", "declareVariable",
                  "initializer", "moreVars", "constInitializer", "defineConst", "moreConsts",
                  "methods", "method", "parameters", "moreParameters", "statementInner"} :
       SimpleItem(Do(name))
  /\ \A type \in {"function", "method", "initializer"} : SimpleItem(<<"function", type>>)
<1>1. SimpleItem(Expression)
  BY SimplePrecedence DEF Expression, Precedence, AssignmentLevel, Binding
<1>2. ASSUME NEW token \in {";", ":", ".", "identifier", "while"} PROVE SimpleItem(Consume(token))
  <2>1. token \in Words \ Brackets
    BY DEF Words, Brackets
  <2> QED BY <2>1, SimpleConsume
<1>3. ASSUME NEW name \in {"error", "check", "invoked", "statement", "else", "return", "returned",
                  "this", "super", "forInit", "forCondition", "leaveLoop", "declareVariable",
                  "initializer", "moreVars", "constInitializer", "defineConst", "moreConsts",
                  "methods", "method", "parameters", "moreParameters", "statementInner"}
      PROVE  SimpleItem(Do(name))
  <2>1. name \in ItemNames
    BY DEF ItemNames
  <2>2. name \notin Special
    BY DEF Special, LevelNames, BracketNames, FollowNames, Binding
  <2>3. 0 \in Nat \cup Words
    OBVIOUS
  <2> QED BY <2>1, <2>2, <2>3, SimpleDo DEF Do
<1>4. ASSUME NEW type \in {"function", "method", "initializer"}
      PROVE  SimpleItem(<<"function", type>>)
  <2>1. "function" \in ItemNames /\ type \in Nat \cup Words
    BY DEF ItemNames, Words
  <2>2. "function" \notin Special
    BY DEF Special, LevelNames, BracketNames, FollowNames, Binding
  <2> QED BY <2>1, <2>2, SimpleDo
<1> QED BY <1>1, <1>2, <1>3, <1>4

LEMMA SimpleParts ==
  /\ Simple(<<>>) /\ Simple(<<Expression>>) /\ Simple(ExpressionStatement)
  /\ Simple(ParseVariable) /\ Simple(Var) /\ Simple(Const) /\ Simple(Method)
  /\ Simple(ParseVariable \o <<Do("moreParameters")>>)
  /\ Simple(ParseVariable \o <<<<"function", "function">>>>)
  /\ Simple(Method \o <<Do("methods")>>)
<1>1. Simple(<<>>) /\ Simple(<<Expression>>)
  BY SimpleItems, SimpleLists
<1>2. Simple(ExpressionStatement)
  BY SimpleItems, SimpleLists DEF ExpressionStatement
<1>3. Simple(ParseVariable)
  BY SimpleItems, SimpleLists DEF ParseVariable
<1>4. Simple(Method)
  BY SimpleItems, SimpleLists DEF Method
<1>5. Simple(<<Do("initializer"), Do("moreVars")>>) /\ Simple(<<Do("methods")>>)
  BY SimpleItems, SimpleLists
<1>6. Simple(<<Do("constInitializer"), Expression, Do("defineConst"), Do("moreConsts")>>)
  BY SimpleItems, SimpleLists
<1>7. Simple(<<Do("moreParameters")>>) /\ Simple(<<<<"function", "function">>>>)
  BY SimpleItems, SimpleLists
<1>8. Simple(Var) /\ Simple(Const)
  BY <1>3, <1>5, <1>6, SimpleJoined DEF Var, Const
<1> QED BY <1>1, <1>2, <1>3, <1>4, <1>5, <1>7, <1>8, SimpleJoined

-----------------------------------------------------------------------------
(* The steps: what each form of them keeps.                                *)

LEMMA Head1 ==
  ASSUME IInv, NEW name, At(name)
  PROVE  /\ todo \in Seq(Item) /\ todo # <<>> /\ Head(todo) \in Item /\ Head(todo)[1] = name
         /\ Head(todo) = <<name, Argument>>
<1>1. todo \in Seq(Item) /\ todo # <<>>
  BY DEF IInv, At
<1>2. Head(todo) \in Item
  BY <1>1
<1>3. Head(todo)[1] = name
  BY DEF At
<1>4. Head(todo) = <<Head(todo)[1], Head(todo)[2]>>
  BY <1>2 DEF Item
<1> QED BY <1>1, <1>2, <1>3, <1>4 DEF Argument

LEMMA ConsumeIs ==
  ASSUME NEW token
  PROVE  Consume(token)[1] = "consume" /\ Consume(token)[2] = token
BY DEF Consume

(* Nothing is reported that was, and an error is not forgotten. *)
Reported ==
  /\ StaleInv' /\ Once
  /\ hadError => hadError'
  /\ panicMode' => hadError'

LEMMA TakeReports ==
  ASSUME IInv, NEW items, Take(items)
  PROVE  Reported
<1>1. fresh' = TRUE /\ (hadError => hadError') /\ (panicMode' => hadError')
  BY DEF Take, Advance, IInv
<1> QED BY <1>1 DEF Reported, StaleInv, Once

LEMMA GoReports ==
  ASSUME IInv, NEW items, Go(items), todo # <<>>,
         Head(todo)[1] \notin StaleNames \cup {"consume"}
  PROVE  Reported
<1>1. /\ panicMode' = panicMode /\ hadError' = hadError /\ fresh' = fresh /\ current' = current
  BY DEF Go, Quiet, text, status
<1>2. Head(todo) # Consume("}")
  BY ConsumeIs
<1>3. panicMode \/ fresh \/ current = "eof"
  BY <1>2 DEF IInv, StaleInv, Stale
<1> QED BY <1>1, <1>3 DEF Reported, StaleInv, Stale, Once, IInv

LEMMA FailReports ==
  ASSUME IInv, NEW items, Fail(items), todo # <<>>,
         \/ Head(todo)[1] \notin StaleNames \cup {"consume"}
         \/ Refused
         \/ Head(todo)[1] = "consume" /\ current # Head(todo)[2]
  PROVE  Reported /\ hadError'
<1>1. panicMode' = TRUE /\ hadError' = TRUE
  BY DEF Fail, Report
<1>2. \/ Refused
      \/ Head(todo)[1] \notin StaleNames /\ ~ (Head(todo) = Consume("}") /\ current = "}")
  <2>1. Head(todo) = Consume("}") => Head(todo)[1] = "consume" /\ Head(todo)[2] = "}"
    BY ConsumeIs
  <2>2. "consume" \notin StaleNames
    BY DEF StaleNames
  <2> QED BY <2>1, <2>2
<1>3. panicMode \/ fresh \/ current = "eof" \/ Refused
  BY <1>2 DEF IInv, StaleInv, Stale
<1> QED BY <1>1, <1>3 DEF Reported, StaleInv, Once

LEMMA LevelsStay ==
  ASSUME IInv, todo # <<>>, Head(todo)[1] \notin LevelNames, UNCHANGED context,
         NEW items, items \in Seq(Item), AllPlain("levels", items)
  PROVE  LevelsLead(items)
<1>1. todo \in Seq(Item) /\ Leads("levels", todo, context, Origin)
  BY DEF IInv, LevelInv
<1>2. context \in Contexts("levels")
  BY <1>1, LeadsFirst
<1>3. Effect("levels", Head(todo), context) = context
  BY LevelStill DEF Effect
<1>4. Leads("levels", items, context, context)
  BY <1>2, LeadsStill
<1> QED BY <1>3, <1>4 DEF LevelsLead

LEMMA BracketsAre ==
  ASSUME IInv, todo # <<>>, ~ At("error"), ~ hadError
  PROVE  brackets \in Seq(Opening) /\ BracketAllowed(Head(todo), brackets)
<1>1. todo \in Seq(Item) /\ Leads("brackets", todo, brackets, <<>>)
  BY DEF IInv, BracketInv
<1>2. brackets \in Contexts("brackets") /\ Allowed("brackets", Head(todo), brackets)
  BY <1>1, LeadsFirst
<1> QED BY <1>2 DEF Contexts, Allowed

LEMMA BracketsStay ==
  ASSUME IInv, todo # <<>>, ~ At("error"), ~ hadError, Head(todo)[1] \notin BracketNames,
         Head(todo)[1] = "consume" => Head(todo)[2] \notin Brackets, brackets' = brackets,
         NEW items, items \in Seq(Item), AllPlain("brackets", items)
  PROVE  BracketsLead(items)
<1>1. brackets \in Contexts("brackets")
  BY BracketsAre DEF Contexts
<1>2. Effect("brackets", Head(todo), brackets) = brackets
  BY BracketStill DEF Effect, BracketEffect
<1>3. Leads("brackets", items, brackets, brackets)
  BY <1>1, LeadsStill
<1> QED BY <1>2, <1>3 DEF BracketsLead

LEMMA FollowsStay ==
  ASSUME IInv, todo # <<>>, NEW items, items \in Seq(Item), Loose(items), Then(items)
  PROVE  Follows(todo')
<1>1. todo \in Seq(Item) /\ Follows(todo)
  BY DEF IInv
<1>2. Tail(todo) \in Seq(Item) /\ Follows(Tail(todo))
  BY <1>1, FollowsTail
<1> QED BY <1>2, FollowsLoose DEF Then

LEMMA StepIs ==
  ASSUME IInv, todo # <<>>, ~ At("error"), NEW items, items \in Seq(Item), Then(items),
         LevelsLead(items), Reported, Follows(todo'),
         \/ hadError'
         \/ items # <<>> /\ items[1][1] = "error"
         \/ BracketsLead(items)
  PROVE  IInv' /\ Once
BY StepKeeps DEF Reported

(* A step that neither opens nor closes anything. *)
LEMMA SimpleStep ==
  ASSUME IInv, NEW name, At(name), name \notin LevelNames \cup BracketNames \cup {"consume", "error"},
         UNCHANGED context, NEW items, Simple(items), Reported,
         \/ Go(items)
         \/ Fail(items)
         \/ Take(items) /\ current \notin Brackets
  PROVE  IInv' /\ Once
<1>1. todo # <<>> /\ Head(todo)[1] = name /\ ~ At("error")
  BY Head1 DEF At
<1>2. /\ items \in Seq(Item) /\ Loose(items)
      /\ AllPlain("levels", items) /\ AllPlain("brackets", items)
  BY SimpleList
<1>3. Then(items)
  BY DEF Go, Fail, Take
<1>4. LevelsLead(items)
  BY <1>1, <1>2, LevelsStay
<1>5. Follows(todo')
  BY <1>1, <1>2, <1>3, FollowsStay
<1>6. hadError' \/ BracketsLead(items)
  <2>1. hadError' \/ (brackets' = brackets /\ ~ hadError)
    <3>1. CASE Go(items)
      BY <3>1 DEF Go, Quiet, text, status
    <3>2. CASE Fail(items)
      BY <3>2 DEF Fail, Report
    <3>3. CASE Take(items) /\ current \notin Brackets
      <4>1. BracketsAfter(current) = brackets
        BY <3>3 DEF BracketsAfter, Brackets, Opening
      <4> QED BY <3>3, <4>1 DEF Take, Advance
    <3> QED BY <3>1, <3>2, <3>3
  <2> QED BY <2>1, <1>1, <1>2, BracketsStay
<1> QED BY <1>1, <1>2, <1>3, <1>4, <1>5, <1>6, StepIs

LEMMA PlainStep ==
  ASSUME IInv, NEW name, At(name),
         name \notin LevelNames \cup BracketNames \cup StaleNames \cup {"consume", "error"},
         UNCHANGED context, NEW items, Simple(items),
         \/ Go(items)
         \/ Fail(items)
         \/ Take(items) /\ current \notin Brackets
  PROVE  IInv' /\ Once
<1>1. todo # <<>> /\ Head(todo)[1] = name
  BY Head1
<1>2. Reported
  BY <1>1, GoReports, FailReports, TakeReports
<1> QED BY <1>2, SimpleStep

-----------------------------------------------------------------------------
(* The steps that neither open nor close anything.                         *)

PlainNames ==
  {"end", "variable", "check", "this", "super", "invoked", "assigned", "dotted", "else",
   "return", "returned", "leaveLoop", "forInit", "forCondition", "declareVariable",
   "initializer", "moreVars", "constInitializer", "defineConst", "moreConsts", "parameters",
   "moreParameters", "methods", "method", "infix"}

LEMMA PlainNamesAre ==
  PlainNames \cap
    (LevelNames \cup BracketNames \cup StaleNames \cup {"consume", "error"}) = {}
BY DEF PlainNames, LevelNames, BracketNames, StaleNames

LEMMA PlainAt ==
  ASSUME IInv, NEW name \in PlainNames, At(name), UNCHANGED context, NEW items, Simple(items),
         \/ Go(items)
         \/ Fail(items)
         \/ Take(items) /\ current \notin Brackets
  PROVE  IInv' /\ Once
BY PlainNamesAre, PlainStep

LEMMA ExpressionSteps ==
  ASSUME IInv
  PROVE  EndExpression \/ Variable \/ Check \/ This \/ Super \/ Assigned => IInv' /\ Once
<1>1. Simple(<<>>) /\ Simple(<<Expression, Do("check")>>) /\ Simple(<<Do("error")>>)
  BY SimpleItems, SimpleLists
<1>2. "=" \notin Brackets
  BY DEF Brackets
<1>3. {"end", "infix", "variable", "check", "this", "super", "assigned"} \subseteq PlainNames
  BY DEF PlainNames
<1>4. ASSUME EndExpression PROVE IInv' /\ Once
  <2>1. /\ At("end") \/ At("infix")
        /\ UNCHANGED context
        /\ \/ Go(<<>>)
           \/ Take(<<Do("error")>>) /\ current = "="
    BY <1>4 DEF EndExpression, Matching
  <2> QED BY <2>1, <1>1, <1>2, <1>3, PlainAt
<1>5. ASSUME Variable PROVE IInv' /\ Once
  <2>1. /\ At("variable") /\ UNCHANGED context
        /\ \/ Go(<<<<"assigned", Argument>>>>)
           \/ Fail(<<<<"assigned", Argument>>>>)
    BY <1>5 DEF Variable, MayFail
  <2>2. Simple(<<<<"assigned", Argument>>>>)
    <3>1. Head(todo) \in Item /\ Head(todo)[2] = Argument
      BY <2>1, Head1 DEF Argument
    <3>2. Argument \in Nat \cup Words
      BY <3>1 DEF Item
    <3>3. "assigned" \in ItemNames \ Special
      BY DEF ItemNames, Special, LevelNames, BracketNames, FollowNames, Binding
    <3> QED BY <3>2, <3>3, SimpleDo, SimpleLists
  <2> QED BY <2>1, <2>2, <1>3, PlainAt
<1>6. ASSUME Check PROVE IInv' /\ Once
  BY <1>6, <1>1, <1>3, PlainAt DEF Check, MayFail
<1>7. ASSUME This PROVE IInv' /\ Once
  BY <1>7, <1>1, <1>3, PlainAt DEF This
<1>8. ASSUME Super PROVE IInv' /\ Once
  BY <1>8, <1>1, <1>3, PlainAt DEF Super
<1>9. ASSUME Assigned PROVE IInv' /\ Once
  <2>1. /\ At("assigned") /\ UNCHANGED context
        /\ \/ Go(<<>>)
           \/ Take(<<Expression, Do("check")>>) /\ current = "="
    BY <1>9 DEF Assigned, Matching
  <2> QED BY <2>1, <1>1, <1>2, <1>3, PlainAt
<1> QED BY <1>4, <1>5, <1>6, <1>7, <1>8, <1>9

LEMMA StatementSteps ==
  ASSUME IInv
  PROVE  Else \/ Return \/ Returned \/ LeaveLoop \/ ForInit \/ ForCondition => IInv' /\ Once
<1>1. /\ Simple(<<>>) /\ Simple(<<Do("statement")>>) /\ Simple(ExpressionStatement)
      /\ Simple(<<Consume(";")>>) /\ Simple(Var)
  BY SimpleItems, SimpleLists, SimpleParts
<1>2. {"else", ";", "var"} \cap Brackets = {}
  BY DEF Brackets
<1>3. {"else", "return", "returned", "leaveLoop", "forInit", "forCondition"} \subseteq PlainNames
  BY DEF PlainNames
<1>4. ASSUME Else PROVE IInv' /\ Once
  <2>1. /\ At("else") /\ UNCHANGED context
        /\ \/ Go(<<>>)
           \/ Take(<<Do("statement")>>) /\ current = "else"
    BY <1>4 DEF Else, Matching
  <2> QED BY <2>1, <1>1, <1>2, <1>3, PlainAt
<1>5. ASSUME Return PROVE IInv' /\ Once
  BY <1>5, <1>1, <1>3, PlainAt DEF Return
<1>6. ASSUME Returned PROVE IInv' /\ Once
  <2>1. /\ At("returned") /\ UNCHANGED context
        /\ \/ Go(ExpressionStatement)
           \/ Fail(ExpressionStatement)
           \/ Take(<<>>) /\ current = ";"
    BY <1>6 DEF Returned
  <2> QED BY <2>1, <1>1, <1>2, <1>3, PlainAt
<1>7. ASSUME LeaveLoop PROVE IInv' /\ Once
  <2>1. /\ At("leaveLoop") /\ UNCHANGED context
        /\ \/ Go(<<Consume(";")>>)
           \/ Fail(<<>>)
    BY <1>7 DEF LeaveLoop
  <2> QED BY <2>1, <1>1, <1>2, <1>3, PlainAt
<1>8. ASSUME ForInit PROVE IInv' /\ Once
  <2>1. /\ At("forInit") /\ UNCHANGED context
        /\ \/ Go(ExpressionStatement)
           \/ Take(<<>>) /\ current = ";"
           \/ Take(Var) /\ current = "var"
    BY <1>8 DEF ForInit
  <2> QED BY <2>1, <1>1, <1>2, <1>3, PlainAt
<1>9. ASSUME ForCondition PROVE IInv' /\ Once
  <2>1. /\ At("forCondition") /\ UNCHANGED context
        /\ \/ Go(ExpressionStatement)
           \/ Take(<<>>) /\ current = ";"
    BY <1>9 DEF ForCondition, Matching
  <2> QED BY <2>1, <1>1, <1>2, <1>3, PlainAt
<1> QED BY <1>4, <1>5, <1>6, <1>7, <1>8, <1>9

LEMMA DeclarationSteps ==
  ASSUME IInv
  PROVE  DeclareVariable \/ Initializer \/ MoreVars \/ ConstInitializer \/ DefineConst
           \/ MoreConsts => IInv' /\ Once
<1>1. /\ Simple(<<>>) /\ Simple(<<Expression>>) /\ Simple(<<Consume(";")>>)
      /\ Simple(Var) /\ Simple(Const)
  BY SimpleItems, SimpleLists, SimpleParts
<1>2. {"=", ","} \cap Brackets = {}
  BY DEF Brackets
<1>3. {"declareVariable", "initializer", "moreVars", "constInitializer", "defineConst",
       "moreConsts"} \subseteq PlainNames
  BY DEF PlainNames
<1>4. ASSUME DeclareVariable PROVE IInv' /\ Once
  BY <1>4, <1>1, <1>3, PlainAt DEF DeclareVariable, MayFail
<1>5. ASSUME Initializer PROVE IInv' /\ Once
  <2>1. /\ At("initializer") /\ UNCHANGED context
        /\ \/ Go(<<>>)
           \/ Take(<<Expression>>) /\ current = "="
    BY <1>5 DEF Initializer, Matching
  <2> QED BY <2>1, <1>1, <1>2, <1>3, PlainAt
<1>6. ASSUME MoreVars PROVE IInv' /\ Once
  <2>1. /\ At("moreVars") /\ UNCHANGED context
        /\ \/ Go(<<>>)
           \/ Go(<<Consume(";")>>)
           \/ Take(Var) /\ current = ","
    BY <1>6 DEF MoreVars, Matching
  <2> QED BY <2>1, <1>1, <1>2, <1>3, PlainAt
<1>7. ASSUME ConstInitializer PROVE IInv' /\ Once
  <2>1. /\ At("constInitializer") /\ UNCHANGED context
        /\ \/ Fail(<<>>)
           \/ Take(<<>>) /\ current = "="
    BY <1>7 DEF ConstInitializer
  <2> QED BY <2>1, <1>1, <1>2, <1>3, PlainAt
<1>8. ASSUME DefineConst PROVE IInv' /\ Once
  BY <1>8, <1>1, <1>3, PlainAt DEF DefineConst
<1>9. ASSUME MoreConsts PROVE IInv' /\ Once
  <2>1. /\ At("moreConsts") /\ UNCHANGED context
        /\ \/ Go(<<>>)
           \/ Go(<<Consume(";")>>)
           \/ Take(Const) /\ current = ","
    BY <1>9 DEF MoreConsts, Matching
  <2> QED BY <2>1, <1>1, <1>2, <1>3, PlainAt
<1> QED BY <1>4, <1>5, <1>6, <1>7, <1>8, <1>9

LEMMA MemberSteps ==
  ASSUME IInv
  PROVE  Parameters \/ MoreParameters \/ Methods \/ MethodBody => IInv' /\ Once
<1>1. /\ Simple(<<>>) /\ Simple(ParseVariable \o <<Do("moreParameters")>>)
      /\ Simple(Method \o <<Do("methods")>>)
      /\ \A type \in {"method", "initializer"} : Simple(<<<<"function", type>>>>)
  BY SimpleItems, SimpleLists, SimpleParts
<1>2. "," \notin Brackets
  BY DEF Brackets
<1>3. {"parameters", "moreParameters", "methods", "method"} \subseteq PlainNames
  BY DEF PlainNames
<1>4. ASSUME Parameters PROVE IInv' /\ Once
  BY <1>4, <1>1, <1>3, PlainAt DEF Parameters
<1>5. ASSUME MoreParameters PROVE IInv' /\ Once
  <2>1. /\ At("moreParameters") /\ UNCHANGED context
        /\ \/ Go(<<>>)
           \/ Take(ParseVariable \o <<Do("moreParameters")>>) /\ current = ","
    BY <1>5 DEF MoreParameters, Matching
  <2> QED BY <2>1, <1>1, <1>2, <1>3, PlainAt
<1>6. ASSUME Methods PROVE IInv' /\ Once
  <2>1. /\ At("methods") /\ UNCHANGED context
        /\ \/ Go(<<>>)
           \/ Go(Method \o <<Do("methods")>>)
    BY <1>6 DEF Methods
  <2> QED BY <2>1, <1>1, <1>3, PlainAt
<1>7. ASSUME MethodBody PROVE IInv' /\ Once
  <2>1. PICK type \in {"method", "initializer"} : Go(<<<<"function", type>>>>)
    BY <1>7 DEF MethodBody
  <2> QED BY <2>1, <1>7, <1>1, <1>3, PlainAt DEF MethodBody
<1> QED BY <1>4, <1>5, <1>6, <1>7

-----------------------------------------------------------------------------
(* The steps that open or close a bracket.                                 *)

LEMMA Pushed ==
  ASSUME NEW open \in Opening, NEW c, c \in Seq(Opening)
  PROVE  /\ <<open>> \o c \in Seq(Opening) /\ <<open>> \o c # <<>>
         /\ Head(<<open>> \o c) = open /\ Tail(<<open>> \o c) = c
OBVIOUS

LEMMA Popped ==
  ASSUME NEW open, NEW c, c \in Seq(Opening), c # <<>>, Head(c) = open
  PROVE  c = <<open>> \o Tail(c) /\ Tail(c) \in Seq(Opening)
OBVIOUS

LEMMA EndsOne ==
  ASSUME NEW item, NEW open \in Opening, Ends(item, open)
  PROVE  /\ ~ Opens(item) /\ \A other \in Opening : Ends(item, other) => other = open
         /\ item[1] \notin {"skip", "synchronize"}
<1>1. \A a \in Opening, b \in Opening : Closing(a) = Closing(b) => a = b
  BY DEF Opening, Closing
<1>2. Closing(open) \notin Opening
  BY DEF Opening, Closing
<1>3. CASE item[1] = "consume" /\ item[2] = Closing(open)
  BY <1>1, <1>2, <1>3 DEF Ends, Opens
<1>4. CASE item[1] \in {"arguments", "moreArguments", "forIncrement"} /\ open = "("
  BY <1>4 DEF Ends, Opens
<1>5. CASE item[1] \in {"block", "objectLiteral", "property", "moreProperties"} /\ open = "{"
  BY <1>5 DEF Ends, Opens
<1> QED BY <1>3, <1>4, <1>5 DEF Ends

LEMMA ClosesOne ==
  ASSUME NEW item, NEW open \in Opening, Ends(item, open), NEW c, c \in Seq(Opening)
  PROVE  /\ BracketAllowed(item, <<open>> \o c)
         /\ BracketEffect(item, <<open>> \o c) = c
<1>1. PICK d : d = <<open>> \o c
  OBVIOUS
<1>2. d # <<>> /\ Head(d) = open /\ Tail(d) = c
  BY <1>1, Pushed
<1>3. /\ ~ Opens(item) /\ \A other \in Opening : Ends(item, other) => other = open
      /\ item[1] \notin {"skip", "synchronize"}
  BY EndsOne
<1>4. BracketAllowed(item, d)
  BY <1>2, <1>3 DEF BracketAllowed
<1>5. BracketEffect(item, d) = c
  BY <1>2, <1>3 DEF BracketEffect
<1> QED BY <1>1, <1>4, <1>5

LEMMA OpensOne ==
  ASSUME NEW open \in Opening, NEW c
  PROVE  /\ BracketAllowed(Consume(open), c)
         /\ BracketEffect(Consume(open), c) = <<open>> \o c
<1>1. PICK item : item = Consume(open)
  OBVIOUS
<1>2. item[1] = "consume" /\ item[2] = open
  BY <1>1, ConsumeIs
<1>3. \A other \in Opening : ~ Ends(item, other)
  BY <1>2 DEF Ends, Opening, Closing
<1>4. BracketAllowed(item, c)
  BY <1>2, <1>3 DEF BracketAllowed
<1>5. BracketEffect(item, c) = <<open>> \o c
  BY <1>2 DEF BracketEffect, Opens
<1> QED BY <1>1, <1>4, <1>5

(* A list that closes a bracket and does nothing else. *)
ClosesIn(items, open) ==
  /\ items \in Seq(Item)
  /\ \E j \in 1 .. Len(items) :
       /\ Ends(items[j], open) /\ items[j][1] \notin LevelNames \cup FollowNames
       /\ \A i \in 1 .. Len(items) : i # j => SimpleItem(items[i])

LEMMA ClosesInIs ==
  ASSUME NEW open \in Opening, NEW items, ClosesIn(items, open)
  PROVE  /\ items \in Seq(Item) /\ Loose(items) /\ AllPlain("levels", items)
         /\ \A c \in Seq(Opening) : Leads("brackets", items, <<open>> \o c, c)
<1>1. items \in Seq(Item)
  BY DEF ClosesIn
<1>2. PICK j \in 1 .. Len(items) :
        /\ Ends(items[j], open) /\ items[j][1] \notin LevelNames \cup FollowNames
        /\ \A i \in 1 .. Len(items) : i # j => SimpleItem(items[i])
  BY DEF ClosesIn
<1>3. Loose(items)
  <2> SUFFICES ASSUME NEW i \in 1 .. Len(items) PROVE items[i][1] \notin FollowNames
    BY DEF Loose
  <2> QED BY <1>2 DEF SimpleItem
<1>4. AllPlain("levels", items)
  <2> SUFFICES ASSUME NEW i \in 1 .. Len(items) PROVE Plain("levels", items[i])
    BY DEF AllPlain
  <2>1. CASE i = j
    BY <2>1, <1>2, LevelStill DEF Plain, Effect, Allowed
  <2>2. CASE i # j
    BY <2>2, <1>2, SimpleIsPlain
  <2> QED BY <2>1, <2>2
<1>5. ASSUME NEW c \in Seq(Opening) PROVE Leads("brackets", items, <<open>> \o c, c)
  <2>1. PICK d : d = <<open>> \o c
    OBVIOUS
  <2>2. d \in Contexts("brackets") /\ c \in Contexts("brackets")
    BY <2>1, Pushed DEF Contexts
  <2>3. Allowed("brackets", items[j], d) /\ c = Effect("brackets", items[j], d)
    BY <2>1, <1>2, ClosesOne DEF Allowed, Effect
  <2>4. \A i \in 1 .. Len(items) : i # j => Plain("brackets", items[i])
    BY <1>2, SimpleIsPlain
  <2>5. Leads("brackets", items, d, c)
    BY <1>1, <2>2, <2>3, <2>4, LeadsThrough
  <2> QED BY <2>1, <2>5
<1> QED BY <1>1, <1>3, <1>4, <1>5

(* The first thing to do is to close a bracket: so it is open. *)
LEMMA ToClose ==
  ASSUME IInv, todo # <<>>, ~ At("error"), ~ hadError, NEW open \in Opening,
         Ends(Head(todo), open)
  PROVE  /\ brackets \in Seq(Opening) /\ brackets # <<>> /\ Head(brackets) = open
         /\ Tail(brackets) \in Seq(Opening) /\ brackets = <<open>> \o Tail(brackets)
         /\ Effect("brackets", Head(todo), brackets) = Tail(brackets)
<1>1. brackets \in Seq(Opening) /\ BracketAllowed(Head(todo), brackets)
  BY BracketsAre
<1>2. brackets # <<>> /\ Head(brackets) = open
  BY <1>1 DEF BracketAllowed
<1>3. brackets = <<open>> \o Tail(brackets) /\ Tail(brackets) \in Seq(Opening)
  BY <1>1, <1>2, Popped
<1>4. ~ Opens(Head(todo))
  BY EndsOne
<1>5. Effect("brackets", Head(todo), brackets) = Tail(brackets)
  BY <1>4 DEF Effect, BracketEffect
<1> QED BY <1>1, <1>2, <1>3, <1>5

(* What is left of a bracket that is or was open. *)
LEMMA ClosingLeads ==
  ASSUME IInv, todo # <<>>, ~ At("error"), ~ hadError, NEW open \in Opening, NEW items,
         \A c \in Seq(Opening) : Leads("brackets", items, <<open>> \o c, c),
         \/ brackets' = brackets /\ Ends(Head(todo), open)
         \/ /\ Head(todo)[1] \notin BracketNames \cup {"consume"}
            /\ brackets' = <<open>> \o brackets
  PROVE  BracketsLead(items)
<1>1. CASE brackets' = brackets /\ Ends(Head(todo), open)
  <2>1. Leads("brackets", items, <<open>> \o Tail(brackets), Tail(brackets))
    BY <1>1, ToClose
  <2>2. Leads("brackets", items, brackets, Tail(brackets))
    BY <2>1, <1>1, ToClose
  <2> QED BY <2>2, <1>1, ToClose DEF BracketsLead
<1>2. CASE /\ Head(todo)[1] \notin BracketNames \cup {"consume"}
           /\ brackets' = <<open>> \o brackets
  <2>1. Effect("brackets", Head(todo), brackets) = brackets
    BY <1>2, BracketStill DEF Effect, BracketEffect
  <2>2. Leads("brackets", items, <<open>> \o brackets, brackets)
    BY BracketsAre
  <2> QED BY <2>1, <2>2, <1>2 DEF BracketsLead
<1> QED BY <1>1, <1>2

LEMMA ClosingStep ==
  ASSUME IInv, NEW name, At(name), name \notin LevelNames \cup {"error"}, UNCHANGED context,
         NEW open \in Opening, NEW items, ClosesIn(items, open), Then(items), Reported,
         \/ hadError'
         \/ brackets' = brackets /\ Ends(Head(todo), open)
         \/ name \notin BracketNames \cup {"consume"} /\ brackets' = <<open>> \o brackets
  PROVE  IInv' /\ Once
<1>1. todo # <<>> /\ Head(todo)[1] = name /\ ~ At("error")
  BY Head1 DEF At
<1>2. /\ items \in Seq(Item) /\ Loose(items) /\ AllPlain("levels", items)
      /\ \A c \in Seq(Opening) : Leads("brackets", items, <<open>> \o c, c)
  BY ClosesInIs
<1>3. LevelsLead(items)
  BY <1>1, <1>2, LevelsStay
<1>4. Follows(todo')
  BY <1>1, <1>2, FollowsStay
<1>5. hadError => hadError'
  BY DEF Reported
<1>6. hadError' \/ BracketsLead(items)
  BY <1>1, <1>2, <1>5, ClosingLeads
<1> QED BY <1>1, <1>2, <1>3, <1>4, <1>6, StepIs

(* A token that is taken. *)
LEMMA Taken ==
  ASSUME NEW items, Take(items)
  PROVE  /\ Then(items)
         /\ hadError' \/ brackets' = BracketsAfter(current)
         /\ current \in Opening => BracketsAfter(current) = <<current>> \o brackets
         /\ current \notin Brackets => BracketsAfter(current) = brackets
         /\ \A open \in Opening :
              current = Closing(open) /\ brackets # <<>> /\ Head(brackets) = open =>
                BracketsAfter(current) = Tail(brackets)
<1>1. Then(items) /\ (hadError' \/ brackets' = BracketsAfter(current))
  BY DEF Take, Advance
<1>2. current \in Opening => BracketsAfter(current) = <<current>> \o brackets
  BY DEF BracketsAfter, Opening
<1>3. current \notin Brackets => BracketsAfter(current) = brackets
  BY DEF BracketsAfter, Brackets, Opening
<1>4. ASSUME NEW open \in Opening, current = Closing(open), brackets # <<>>,
             Head(brackets) = open
      PROVE  BracketsAfter(current) = Tail(brackets)
  <2>1. current \notin Opening /\ current \in {")", "]", "}"}
    BY <1>4 DEF Closing, Opening
  <2>2. Closes(current, Head(brackets))
    BY <1>4 DEF Closes
  <2> QED BY <2>1, <2>2, <1>4 DEF BracketsAfter
<1> QED BY <1>1, <1>2, <1>3, <1>4

(* A step that takes the closing bracket. *)
LEMMA ClosedStep ==
  ASSUME IInv, NEW name, At(name), name \notin LevelNames \cup {"error"}, UNCHANGED context,
         NEW open \in Opening, Ends(Head(todo), open), current = Closing(open),
         NEW items, Simple(items), Take(items)
  PROVE  IInv' /\ Once
<1>1. todo # <<>> /\ Head(todo)[1] = name /\ ~ At("error")
  BY Head1 DEF At
<1>2. /\ items \in Seq(Item) /\ Loose(items)
      /\ AllPlain("levels", items) /\ AllPlain("brackets", items)
  BY SimpleList
<1>3. Then(items) /\ Reported
  BY Taken, TakeReports
<1>4. LevelsLead(items)
  BY <1>1, <1>2, LevelsStay
<1>5. Follows(todo')
  BY <1>1, <1>2, <1>3, FollowsStay
<1>6. ASSUME ~ hadError' PROVE BracketsLead(items)
  <2>1. ~ hadError
    BY <1>6, <1>3 DEF Reported
  <2>2. /\ brackets # <<>> /\ Head(brackets) = open /\ Tail(brackets) \in Seq(Opening)
        /\ Effect("brackets", Head(todo), brackets) = Tail(brackets)
    BY <2>1, <1>1, ToClose
  <2>3. brackets' = Tail(brackets)
    BY <2>2, <1>6, Taken
  <2>4. Tail(brackets) \in Contexts("brackets")
    BY <2>2 DEF Contexts
  <2>5. Leads("brackets", items, Tail(brackets), Tail(brackets))
    BY <1>2, <2>4, LeadsStill
  <2> QED BY <2>2, <2>3, <2>5 DEF BracketsLead
<1> QED BY <1>1, <1>2, <1>3, <1>4, <1>5, <1>6, StepIs

LEMMA ConsumeStep ==
  ASSUME IInv, ConsumeToken
  PROVE  IInv' /\ Once
<1>1. /\ todo # <<>> /\ Head(todo) = <<"consume", Argument>> /\ Head(todo)[1] = "consume"
      /\ ~ At("error") /\ todo \in Seq(Item)
  BY Head1 DEF ConsumeToken, At
<1>2. /\ Simple(<<>>) /\ "consume" \notin LevelNames
  BY SimpleParts DEF LevelNames
<1>3. /\ <<>> \in Seq(Item) /\ Loose(<<>>) /\ AllPlain("levels", <<>>)
  BY <1>2, SimpleList
<1>4. Then(<<>>) /\ UNCHANGED context
  BY DEF ConsumeToken, Take, Fail
<1>5. LevelsLead(<<>>)
  BY <1>1, <1>2, <1>3, <1>4, LevelsStay
<1>6. Follows(todo')
  BY <1>1, <1>3, <1>4, FollowsStay
<1>7. CASE current # Argument /\ Fail(<<>>)
  <2>1. Reported /\ hadError'
    <3>1. Head(todo)[2] = Argument
      BY DEF Argument
    <3> QED BY <3>1, <1>1, <1>7, FailReports
  <2> QED BY <2>1, <1>1, <1>3, <1>4, <1>5, <1>6, StepIs
<1>8. CASE current = Argument /\ Take(<<>>)
  <2>1. Reported
    BY <1>8, TakeReports
  <2>2. ASSUME ~ hadError' PROVE BracketsLead(<<>>)
    <3>1. ~ hadError
      BY <2>1, <2>2 DEF Reported
    <3>2. Leads("brackets", todo, brackets, <<>>)
      BY <3>1, <1>1 DEF IInv, BracketInv
    <3>3. Effect("brackets", Head(todo), brackets) \in Contexts("brackets")
      BY <3>2, <1>1, LeadsFirst
    <3>4. Head(todo) = Consume(current) /\ Head(todo)[2] = current
      BY <1>1, <1>8, ConsumeIs DEF Consume
    <3>5. brackets' = BracketsAfter(current)
      BY <2>2, <1>8, Taken
    <3>6. brackets' = Effect("brackets", Head(todo), brackets)
      <4>1. CASE current \in Opening
        <5>1. BracketEffect(Head(todo), brackets) = <<current>> \o brackets
          BY <4>1, <3>4, OpensOne
        <5> QED BY <5>1, <4>1, <3>5, <1>8, Taken DEF Effect
      <4>2. CASE current \notin Brackets
        <5>1. Head(todo)[1] \notin BracketNames
          BY <1>1 DEF BracketNames
        <5>2. BracketEffect(Head(todo), brackets) = brackets
          BY <5>1, <3>4, <4>2, BracketStill DEF BracketEffect
        <5> QED BY <5>2, <4>2, <3>5, <1>8, Taken DEF Effect
      <4>3. ASSUME NEW open \in Opening, current = Closing(open)
            PROVE  brackets' = Effect("brackets", Head(todo), brackets)
        <5>1. Ends(Head(todo), open)
          BY <4>3, <1>1, <3>4 DEF Ends
        <5>2. /\ brackets # <<>> /\ Head(brackets) = open
              /\ Effect("brackets", Head(todo), brackets) = Tail(brackets)
          BY <5>1, <3>1, <1>1, ToClose
        <5> QED BY <5>2, <4>3, <3>5, <1>8, Taken
      <4>4. \/ current \in Opening
            \/ current \notin Brackets
            \/ \E open \in Opening : current = Closing(open)
        BY DEF Brackets, Opening, Closing
      <4> QED BY <4>1, <4>2, <4>3, <4>4
    <3>7. Leads("brackets", <<>>, brackets', Effect("brackets", Head(todo), brackets))
      BY <3>3, <3>6, LeadsNowhere
    <3> QED BY <3>7 DEF BracketsLead
  <2> QED BY <2>1, <2>2, <1>1, <1>3, <1>4, <1>5, <1>6, StepIs
<1> QED BY <1>7, <1>8 DEF ConsumeToken

(* A report that is still to be made. *)
LEMMA ErrorStep ==
  ASSUME IInv, ErrorAt
  PROVE  IInv' /\ Once
<1>1. /\ todo # <<>> /\ Head(todo)[1] = "error" /\ todo \in Seq(Item)
  BY Head1 DEF ErrorAt
<1>2. Simple(<<>>) /\ "error" \notin LevelNames /\ "error" \notin StaleNames \cup {"consume"}
  BY SimpleParts DEF LevelNames, StaleNames
<1>3. <<>> \in Seq(Item) /\ Loose(<<>>) /\ AllPlain("levels", <<>>)
  BY <1>2, SimpleList
<1>4. Fail(<<>>) /\ Then(<<>>) /\ UNCHANGED context
  BY DEF ErrorAt, Fail
<1>5. LevelsLead(<<>>)
  BY <1>1, <1>2, <1>3, <1>4, LevelsStay
<1>6. Follows(todo')
  BY <1>1, <1>3, <1>4, FollowsStay
<1>7. Reported /\ hadError'
  BY <1>1, <1>2, <1>4, FailReports
<1>8. todo' = <<>> \o Tail(todo)
  BY <1>4 DEF Then
<1>9. LevelInv /\ todo' \in Seq(Item) /\ LevelInv'
  <2>1. Leads("levels", todo, context, Origin)
    BY DEF IInv, LevelInv
  <2> QED BY <1>1, <1>3, <1>5, <1>8, <2>1, LeadsInstead DEF LevelInv, LevelsLead
<1>10. BracketInv'
  BY <1>7 DEF BracketInv
<1> QED BY <1>6, <1>7, <1>9, <1>10 DEF IInv, Reported

LEMMA ClosingItems ==
  /\ \A name \in {"arguments", "moreArguments", "forIncrement"} :
       ClosesIn(<<Do(name)>>, "(")
  /\ \A open \in Opening : ClosesIn(<<Consume(Closing(open))>>, open)
  /\ ClosesIn(<<Do("block")>>, "{") /\ ClosesIn(<<Do("objectLiteral")>>, "{")
<1>1. ASSUME NEW open \in Opening, NEW item \in Item, Ends(item, open),
             item[1] \notin LevelNames \cup FollowNames
      PROVE  ClosesIn(<<item>>, open)
  <2>1. <<item>> \in Seq(Item) /\ Len(<<item>>) = 1 /\ <<item>>[1] = item
    OBVIOUS
  <2> QED BY <2>1, <1>1 DEF ClosesIn
<1>2. "(" \in Opening /\ "{" \in Opening
  BY DEF Opening
<1>3. ASSUME NEW name \in {"arguments", "moreArguments", "forIncrement", "block", "objectLiteral"}
      PROVE  /\ Do(name) \in Item /\ Do(name)[1] = name
             /\ name \notin LevelNames \cup FollowNames
  <2>1. name \in ItemNames /\ name \notin Binding /\ name \notin LevelNames \cup FollowNames
    BY DEF ItemNames, Binding, LevelNames, FollowNames
  <2>2. Do(name)[1] = name /\ Do(name) \in ItemNames \X (Nat \cup Words)
    BY <2>1 DEF Do
  <2> QED BY <2>1, <2>2 DEF Item
<1>4. ASSUME NEW name \in {"arguments", "moreArguments", "forIncrement"}
      PROVE  ClosesIn(<<Do(name)>>, "(")
  <2>1. Ends(Do(name), "(")
    BY <1>3 DEF Ends
  <2> QED BY <2>1, <1>1, <1>2, <1>3
<1>5. ASSUME NEW name \in {"block", "objectLiteral"} PROVE ClosesIn(<<Do(name)>>, "{")
  <2>1. Ends(Do(name), "{")
    BY <1>3 DEF Ends
  <2> QED BY <2>1, <1>1, <1>2, <1>3
<1>6. ASSUME NEW open \in Opening PROVE ClosesIn(<<Consume(Closing(open))>>, open)
  <2>1. PICK item : item = Consume(Closing(open))
    OBVIOUS
  <2>2. item[1] = "consume" /\ item[2] = Closing(open)
    BY <2>1, ConsumeIs
  <2>3. Closing(open) \in Nat \cup Words /\ "consume" \in ItemNames
    BY DEF Closing, Opening, Words, ItemNames
  <2>4. item \in ItemNames \X (Nat \cup Words)
    BY <2>1, <2>3 DEF Consume
  <2>5. item \in Item
    BY <2>2, <2>4 DEF Item, Binding
  <2>6. Ends(item, open) /\ item[1] \notin LevelNames \cup FollowNames
    BY <2>2 DEF Ends, LevelNames, FollowNames
  <2> QED BY <2>1, <2>5, <2>6, <1>1
<1> QED BY <1>4, <1>5, <1>6

LEMMA ClosesInMore ==
  ASSUME NEW open, NEW a, SimpleItem(a), NEW c, SimpleItem(c), NEW b, ClosesIn(<<b>>, open)
  PROVE  ClosesIn(<<a, b>>, open) /\ ClosesIn(<<a, b, c>>, open)
<1>1. a \in Item /\ c \in Item
  BY DEF SimpleItem
<1>2. Len(<<b>>) = 1 /\ <<b>>[1] = b
  OBVIOUS
<1>3. <<b>> \in Seq(Item) /\ Ends(b, open) /\ b[1] \notin LevelNames \cup FollowNames
  BY <1>2 DEF ClosesIn
<1>4. b \in Item
  <2>1. <<b>>[1] \in Item
    BY <1>2, <1>3, ElementOfSeq
  <2> QED BY <2>1, <1>2
<1>5. ClosesIn(<<a, b>>, open)
  <2>1. /\ <<a, b>> \in Seq(Item) /\ Len(<<a, b>>) = 2
        /\ <<a, b>>[1] = a /\ <<a, b>>[2] = b
    BY <1>1, <1>4
  <2>2. 2 \in 1 .. 2 /\ \A i \in 1 .. 2 : i # 2 => i = 1
    OBVIOUS
  <2> QED BY <2>1, <2>2, <1>3 DEF ClosesIn
<1>6. ClosesIn(<<a, b, c>>, open)
  <2>1. /\ <<a, b, c>> \in Seq(Item) /\ Len(<<a, b, c>>) = 3
        /\ <<a, b, c>>[1] = a /\ <<a, b, c>>[2] = b /\ <<a, b, c>>[3] = c
    BY <1>1, <1>4
  <2>2. 2 \in 1 .. 3 /\ \A i \in 1 .. 3 : i # 2 => i = 1 \/ i = 3
    OBVIOUS
  <2> QED BY <2>1, <2>2, <1>3 DEF ClosesIn
<1> QED BY <1>5, <1>6

LEMMA ClosesInJoined ==
  ASSUME NEW open, NEW s, ClosesIn(s, open), NEW u, Simple(u)
  PROVE  ClosesIn(s \o u, open)
<1>1. s \in Seq(Item) /\ u \in Seq(Item)
  BY DEF ClosesIn, Simple
<1>2. PICK m \in Nat, n \in Nat : m = Len(s) /\ n = Len(u)
  BY <1>1
<1>3. PICK r : r = s \o u
  OBVIOUS
<1>4. /\ r \in Seq(Item) /\ Len(r) = m + n
      /\ \A i \in 1 .. m : r[i] = s[i]
      /\ \A i \in 1 .. n : r[m + i] = u[i]
  BY <1>1, <1>2, <1>3
<1>5. PICK j \in 1 .. m :
        /\ Ends(s[j], open) /\ s[j][1] \notin LevelNames \cup FollowNames
        /\ \A i \in 1 .. m : i # j => SimpleItem(s[i])
  BY <1>2 DEF ClosesIn
<1>6. ASSUME NEW i \in 1 .. m + n, i # j PROVE SimpleItem(r[i])
  <2>1. CASE i <= m
    BY <2>1, <1>4, <1>5, <1>6
  <2>2. CASE i > m
    <3>1. i - m \in 1 .. n /\ i = m + (i - m)
      BY <2>2
    <3>2. PICK k \in 1 .. n : i = m + k
      BY <3>1
    <3> QED BY <3>2, <1>2, <1>4 DEF Simple
  <2> QED BY <2>1, <2>2
<1>7. j \in 1 .. m + n /\ r[j] = s[j]
  BY <1>4
<1> QED BY <1>3, <1>4, <1>5, <1>6, <1>7 DEF ClosesIn

(* What comes next is a report. *)
LEMMA ReportStep ==
  ASSUME IInv, NEW name, At(name), name \notin LevelNames \cup {"error"}, UNCHANGED context,
         NEW items, Simple(items), items # <<>>, items[1][1] = "error", Take(items)
  PROVE  IInv' /\ Once
<1>1. todo # <<>> /\ Head(todo)[1] = name /\ ~ At("error")
  BY Head1 DEF At
<1>2. items \in Seq(Item) /\ Loose(items) /\ AllPlain("levels", items)
  BY SimpleList
<1>3. Then(items) /\ Reported
  BY Taken, TakeReports
<1>4. LevelsLead(items)
  BY <1>1, <1>2, LevelsStay
<1>5. Follows(todo')
  BY <1>1, <1>2, <1>3, FollowsStay
<1> QED BY <1>1, <1>2, <1>3, <1>4, <1>5, StepIs

(* A bracket is taken that items close. *)
LEMMA OpeningStep ==
  ASSUME IInv, NEW name, At(name),
         name \notin LevelNames \cup BracketNames \cup {"error", "consume"}, UNCHANGED context,
         current \in Opening, NEW items, ClosesIn(items, current), Take(items)
  PROVE  IInv' /\ Once
<1>1. Then(items) /\ Reported
  BY Taken, TakeReports
<1>2. hadError' \/ brackets' = <<current>> \o brackets
  BY Taken
<1>3. PICK open \in Opening : open = current
  OBVIOUS
<1>4. \/ hadError'
      \/ brackets' = brackets /\ Ends(Head(todo), open)
      \/ name \notin BracketNames \cup {"consume"} /\ brackets' = <<open>> \o brackets
  BY <1>2, <1>3
<1>5. ClosesIn(items, open) /\ name \notin LevelNames \cup {"error"}
  BY <1>3
<1> QED BY <1>1, <1>4, <1>5, ClosingStep

(* The bracket is still to be closed. *)
LEMMA StillOpenStep ==
  ASSUME IInv, NEW name, At(name), name \notin LevelNames \cup {"error"}, UNCHANGED context,
         NEW open \in Opening, Ends(Head(todo), open),
         NEW items, ClosesIn(items, open), Reported,
         \/ Go(items)
         \/ Take(items) /\ current \notin Brackets
  PROVE  IInv' /\ Once
<1>1. Then(items)
  BY DEF Go, Take
<1>2. hadError' \/ brackets' = brackets
  <2>1. CASE Go(items)
    BY <2>1 DEF Go, Quiet, text
  <2>2. CASE Take(items) /\ current \notin Brackets
    BY <2>2, Taken
  <2> QED BY <2>1, <2>2
<1> QED BY <1>1, <1>2, ClosingStep

LEMMA ArgumentSteps ==
  ASSUME IInv
  PROVE  Invoked \/ Dotted \/ Arguments \/ MoreArguments \/ ForIncrement => IInv' /\ Once
<1>1. /\ Simple(<<>>) /\ Simple(<<Expression>>) /\ SimpleItem(Expression)
  BY SimpleItems, SimpleParts
<1>2. "(" \in Opening /\ Closing("(") = ")" /\ {"=", ","} \cap Brackets = {}
  BY DEF Opening, Closing, Brackets
<1>3. /\ ClosesIn(<<Do("arguments")>>, "(") /\ ClosesIn(<<Consume(")")>>, "(")
      /\ ClosesIn(<<Expression, Do("moreArguments")>>, "(")
      /\ ClosesIn(<<Expression, Consume(")")>>, "(")
  <2>1. ClosesIn(<<Do("arguments")>>, "(") /\ ClosesIn(<<Do("moreArguments")>>, "(")
    BY ClosingItems
  <2>2. ClosesIn(<<Consume(")")>>, "(")
    BY <1>2, ClosingItems
  <2> QED BY <2>1, <2>2, <1>1, ClosesInMore
<1>4. {"invoked", "dotted"} \subseteq PlainNames
  BY DEF PlainNames
<1>5. \A name \in {"arguments", "moreArguments", "forIncrement"} :
        /\ name \notin LevelNames \cup {"error"}
        /\ name \notin StaleNames \cup {"consume"}
        /\ At(name) => Ends(Head(todo), "(") /\ Head(todo)[1] = name /\ todo # <<>>
  BY DEF LevelNames, StaleNames, At, Ends
<1>6. {"invoked", "dotted"} \cap
        (LevelNames \cup BracketNames \cup {"error", "consume"}) = {}
  BY <1>4, PlainNamesAre
<1>7. ASSUME Invoked PROVE IInv' /\ Once
  <2>1. CASE Go(<<>>)
    BY <2>1, <1>7, <1>1, <1>4, PlainAt DEF Invoked
  <2>2. CASE current = "(" /\ Take(<<Do("arguments")>>)
    BY <2>2, <1>7, <1>2, <1>3, <1>6, OpeningStep DEF Invoked
  <2> QED BY <1>7, <2>1, <2>2 DEF Invoked, Matching
<1>8. ASSUME Dotted PROVE IInv' /\ Once
  <2>1. CASE Go(<<>>)
    BY <2>1, <1>8, <1>1, <1>4, PlainAt DEF Dotted
  <2>2. CASE current = "=" /\ Take(<<Expression>>)
    BY <2>2, <1>8, <1>1, <1>2, <1>4, PlainAt DEF Dotted
  <2>3. CASE current = "(" /\ Take(<<Do("arguments")>>)
    BY <2>3, <1>8, <1>2, <1>3, <1>6, OpeningStep DEF Dotted
  <2> QED BY <1>8, <2>1, <2>2, <2>3 DEF Dotted, Matching
<1>9. ASSUME Arguments PROVE IInv' /\ Once
  <2>1. PICK items \in {<<Consume(")")>>, <<Expression, Do("moreArguments")>>} : Go(items)
    BY <1>9 DEF Arguments
  <2>2. At("arguments") /\ UNCHANGED context
    BY <1>9 DEF Arguments
  <2>3. Reported
    BY <2>1, <2>2, <1>5, GoReports
  <2>4. ClosesIn(items, "(")
    BY <1>3
  <2> QED BY <2>1, <2>2, <2>3, <2>4, <1>2, <1>5, StillOpenStep
<1>10. ASSUME MoreArguments PROVE IInv' /\ Once
  <2>1. PICK items \in {<<Consume(")")>>, <<Expression, Do("moreArguments")>>} :
          \/ Go(items)
          \/ Take(items) /\ current = ","
    BY <1>10 DEF MoreArguments, Matching
  <2>2. At("moreArguments") /\ UNCHANGED context
    BY <1>10 DEF MoreArguments
  <2>3. Reported
    BY <2>1, <2>2, <1>5, GoReports, TakeReports
  <2>4. ClosesIn(items, "(")
    BY <1>3
  <2> QED BY <2>1, <2>2, <2>3, <2>4, <1>2, <1>5, StillOpenStep
<1>11. ASSUME ForIncrement PROVE IInv' /\ Once
  <2>1. At("forIncrement") /\ UNCHANGED context
    BY <1>11 DEF ForIncrement
  <2>2. CASE Go(<<Expression, Consume(")")>>)
    <3>1. Reported
      BY <2>1, <2>2, <1>5, GoReports
    <3> QED BY <2>1, <2>2, <3>1, <1>2, <1>3, <1>5, StillOpenStep
  <2>3. CASE current = ")" /\ Take(<<>>)
    BY <2>1, <2>3, <1>1, <1>2, <1>5, ClosedStep
  <2> QED BY <1>11, <2>2, <2>3 DEF ForIncrement, Matching
<1> QED BY <1>7, <1>8, <1>9, <1>10, <1>11

-----------------------------------------------------------------------------
(* The steps that go in and out of a level.                                *)

LEMMA LevelsAre ==
  ASSUME IInv, todo # <<>>
  PROVE  /\ parseDepth \in Int /\ compilers \in Seq(Compiler) \ {<<>>}
         /\ classes \in Seq(BOOLEAN) /\ context \in Levels
         /\ context[1] = parseDepth /\ context[2] = compilers /\ context[3] = classes
         /\ LevelAllowed(Head(todo), context) /\ LevelEffect(Head(todo), context) \in Levels
<1>1. todo \in Seq(Item) /\ Leads("levels", todo, context, Origin)
  BY DEF IInv, LevelInv
<1>2. /\ context \in Contexts("levels") /\ Allowed("levels", Head(todo), context)
      /\ Effect("levels", Head(todo), context) \in Contexts("levels")
  BY <1>1, LeadsFirst
<1>3. /\ context \in Levels /\ LevelAllowed(Head(todo), context)
      /\ LevelEffect(Head(todo), context) \in Levels
  BY <1>2 DEF Contexts, Allowed, Effect
<1>4. context[1] = parseDepth /\ context[2] = compilers /\ context[3] = classes
  BY DEF context
<1>5. /\ parseDepth \in Int /\ compilers \in Seq(Compiler) \ {<<>>}
      /\ classes \in Seq(BOOLEAN)
  BY <1>3, <1>4 DEF Levels
<1> QED BY <1>3, <1>4, <1>5

(* A thing to do that is its effect on the levels. *)
LEMMA LevelStep ==
  ASSUME IInv, NEW name, At(name),
         name \notin BracketNames \cup StaleNames \cup {"consume", "error"},
         context' = LevelEffect(Head(todo), context), Go(<<>>) \/ Fail(<<>>)
  PROVE  IInv' /\ Once
<1>1. todo # <<>> /\ Head(todo)[1] = name /\ ~ At("error")
  BY Head1 DEF At
<1>2. <<>> \in Seq(Item) /\ Loose(<<>>) /\ AllPlain("brackets", <<>>)
  BY SimpleParts, SimpleList
<1>3. Then(<<>>)
  BY DEF Go, Fail
<1>4. LevelsLead(<<>>)
  <2>1. context' = Effect("levels", Head(todo), context)
    BY DEF Effect
  <2>2. context' \in Contexts("levels")
    BY <1>1, LevelsAre DEF Contexts
  <2> QED BY <2>1, <2>2, LeadsNowhere DEF LevelsLead
<1>5. Reported
  BY <1>1, GoReports, FailReports
<1>6. Follows(todo')
  BY <1>1, <1>2, <1>3, FollowsStay
<1>7. hadError' \/ BracketsLead(<<>>)
  <2>1. hadError' \/ (brackets' = brackets /\ ~ hadError)
    <3>1. CASE Go(<<>>)
      BY <3>1 DEF Go, Quiet, text, status
    <3>2. CASE Fail(<<>>)
      BY <3>2 DEF Fail, Report
    <3> QED BY <3>1, <3>2
  <2> QED BY <2>1, <1>1, <1>2, BracketsStay
<1> QED BY <1>1, <1>2, <1>3, <1>4, <1>5, <1>6, <1>7, StepIs

LEMMA CountingIs ==
  ASSUME NEW cs, cs \in Seq(Compiler) \ {<<>>}, NEW f, f \in {"scopeDepth", "loops", "objects"},
         NEW n, n \in Int
  PROVE  /\ cs[Len(cs)][f] \in Int
         /\ Adjusted(cs, f, n) = [cs EXCEPT ![Len(cs)] = [cs[Len(cs)] EXCEPT ![f] = cs[Len(cs)][f] + n]]
         /\ [cs EXCEPT ![Len(cs)] = cs[Len(cs)]] = cs
<1>1. PICK m \in Nat \ {0} : m = Len(cs)
  BY EmptySeq
<1>2. cs[m] \in Compiler
  BY <1>1, ElementOfSeq
<1>3. cs[m][f] \in Int
  BY <1>2 DEF Compiler
<1>4. DOMAIN cs = 1 .. m /\ cs = [i \in 1 .. m |-> cs[i]]
  BY <1>1
<1>5. [cs EXCEPT ![m] = cs[m]] = cs
  BY <1>4
<1> QED BY <1>1, <1>3, <1>5 DEF Adjusted

LEMMA LevelEffectIs ==
  ASSUME NEW item, NEW c
  PROVE  /\ item[1] = "returnFrom" => LevelEffect(item, c) = <<c[1] - 1, c[2], c[3]>>
         /\ item[1] = "beginScope" =>
              LevelEffect(item, c) = <<c[1], Adjusted(c[2], "scopeDepth", 1), c[3]>>
         /\ item[1] = "endScope" =>
              LevelEffect(item, c) = <<c[1], Adjusted(c[2], "scopeDepth", -1), c[3]>>
         /\ item[1] = "loop" =>
              LevelEffect(item, c) = <<c[1], Adjusted(c[2], "loops", 1), c[3]>>
         /\ item[1] = "endLoop" =>
              LevelEffect(item, c) = <<c[1], Adjusted(c[2], "loops", -1), c[3]>>
         /\ item[1] \in {"property", "moreProperties", "endObject"} =>
              LevelEffect(item, c) = <<c[1], Adjusted(c[2], "objects", -1), c[3]>>
         /\ item[1] = "endCompiler" =>
              LevelEffect(item, c) = <<c[1], SubSeq(c[2], 1, Len(c[2]) - 1), c[3]>>
         /\ item[1] = "class" => LevelEffect(item, c) = <<c[1], c[2], <<FALSE>> \o c[3]>>
         /\ item[1] = "inherit" =>
              LevelEffect(item, c) =
                <<c[1], Adjusted(c[2], "scopeDepth", 1), <<TRUE>> \o Tail(c[3])>>
         /\ item[1] = "endClass" =>
              LevelEffect(item, c) =
                <<c[1], IF Head(c[3]) THEN Adjusted(c[2], "scopeDepth", -1) ELSE c[2], Tail(c[3])>>
         /\ item[1] \in {"superclass", "program"} => LevelEffect(item, c) = c
<1>1. PICK name : name = item[1]
  OBVIOUS
<1> QED BY DEF LevelEffect

(* The step of a thing to do that changes a count of the current compiler. *)
Counts(name, f, n) ==
  /\ At(name) /\ Go(<<>>) /\ UNCHANGED <<parseDepth, classes>>
  /\ LevelEffect(Head(todo), context) = <<context[1], Adjusted(context[2], f, n), context[3]>>
  /\ compilers' = WithCurrent([Current EXCEPT ![f] = Current[f] + n])

LEMMA CountingSteps ==
  ASSUME IInv
  PROVE  BeginScope \/ EndScope \/ Loop \/ EndLoop \/ EndObject => IInv' /\ Once
<1>1. {"beginScope", "endScope", "loop", "endLoop", "endObject"} \cap
        (BracketNames \cup StaleNames \cup {"consume", "error"}) = {}
  BY DEF BracketNames, StaleNames
<1>2. ASSUME NEW name \in {"beginScope", "endScope", "loop", "endLoop", "endObject"},
             NEW f \in {"scopeDepth", "loops", "objects"}, NEW n \in Int, Counts(name, f, n)
      PROVE  IInv' /\ Once
  <2>1. todo # <<>>
    BY <1>2, Head1 DEF Counts
  <2>2. /\ context[1] = parseDepth /\ context[2] = compilers /\ context[3] = classes
        /\ compilers \in Seq(Compiler) \ {<<>>}
    BY <2>1, LevelsAre
  <2>3. compilers' = Adjusted(compilers, f, n)
    BY <1>2, <2>2, CountingIs DEF WithCurrent, Current, Counts
  <2>4. context' = LevelEffect(Head(todo), context)
    BY <1>2, <2>2, <2>3 DEF context, Counts
  <2> QED BY <2>4, <1>1, <1>2, LevelStep DEF Counts
<1>3. ASSUME todo # <<>>
      PROVE  \A f \in {"scopeDepth", "loops", "objects"} : Current[f] \in Int
  BY <1>3, LevelsAre, CountingIs DEF Current
<1>4. ASSUME NEW name, At(name) PROVE todo # <<>> /\ Head(todo)[1] = name
  BY <1>4, Head1
<1>5. ASSUME BeginScope PROVE IInv' /\ Once
  <2>1. /\ At("beginScope") /\ Go(<<>>) /\ UNCHANGED <<parseDepth, classes>>
        /\ compilers' = WithCurrent([Current EXCEPT !["scopeDepth"] = Current["scopeDepth"] + 1 - 0])
    BY <1>5 DEF BeginScope, Counting
  <2>2. compilers' = WithCurrent([Current EXCEPT !["scopeDepth"] = Current["scopeDepth"] + 1])
    <3>1. Current["scopeDepth"] + 1 - 0 = Current["scopeDepth"] + 1
      BY <2>1, <1>3, <1>4
    <3> QED BY <2>1, <3>1
  <2>3. LevelEffect(Head(todo), context) =
          <<context[1], Adjusted(context[2], "scopeDepth", 1), context[3]>>
    BY <2>1, <1>4, LevelEffectIs
  <2>4. Counts("beginScope", "scopeDepth", 1)
    BY <2>1, <2>2, <2>3 DEF Counts
  <2> QED BY <2>4, <1>2
<1>6. ASSUME EndScope PROVE IInv' /\ Once
  <2>1. /\ At("endScope") /\ Go(<<>>) /\ UNCHANGED <<parseDepth, classes>>
        /\ compilers' = WithCurrent([Current EXCEPT !["scopeDepth"] = Current["scopeDepth"] + 0 - 1])
    BY <1>6 DEF EndScope, Counting
  <2>2. compilers' = WithCurrent([Current EXCEPT !["scopeDepth"] = Current["scopeDepth"] + (-1)])
    <3>1. Current["scopeDepth"] + 0 - 1 = Current["scopeDepth"] + (-1)
      BY <2>1, <1>3, <1>4
    <3> QED BY <2>1, <3>1
  <2>3. LevelEffect(Head(todo), context) =
          <<context[1], Adjusted(context[2], "scopeDepth", -1), context[3]>>
    BY <2>1, <1>4, LevelEffectIs
  <2>4. Counts("endScope", "scopeDepth", -1)
    BY <2>1, <2>2, <2>3 DEF Counts
  <2> QED BY <2>4, <1>2
<1>7. ASSUME Loop PROVE IInv' /\ Once
  <2>1. /\ At("loop") /\ Go(<<>>) /\ UNCHANGED <<parseDepth, classes>>
        /\ compilers' = WithCurrent([Current EXCEPT !["loops"] = Current["loops"] + 1 - 0])
    BY <1>7 DEF Loop, Counting
  <2>2. compilers' = WithCurrent([Current EXCEPT !["loops"] = Current["loops"] + 1])
    <3>1. Current["loops"] + 1 - 0 = Current["loops"] + 1
      BY <2>1, <1>3, <1>4
    <3> QED BY <2>1, <3>1
  <2>3. LevelEffect(Head(todo), context) =
          <<context[1], Adjusted(context[2], "loops", 1), context[3]>>
    BY <2>1, <1>4, LevelEffectIs
  <2>4. Counts("loop", "loops", 1)
    BY <2>1, <2>2, <2>3 DEF Counts
  <2> QED BY <2>4, <1>2
<1>8. ASSUME EndLoop PROVE IInv' /\ Once
  <2>1. /\ At("endLoop") /\ Go(<<>>) /\ UNCHANGED <<parseDepth, classes>>
        /\ compilers' = WithCurrent([Current EXCEPT !["loops"] = Current["loops"] + 0 - 1])
    BY <1>8 DEF EndLoop, Counting
  <2>2. compilers' = WithCurrent([Current EXCEPT !["loops"] = Current["loops"] + (-1)])
    <3>1. Current["loops"] + 0 - 1 = Current["loops"] + (-1)
      BY <2>1, <1>3, <1>4
    <3> QED BY <2>1, <3>1
  <2>3. LevelEffect(Head(todo), context) =
          <<context[1], Adjusted(context[2], "loops", -1), context[3]>>
    BY <2>1, <1>4, LevelEffectIs
  <2>4. Counts("endLoop", "loops", -1)
    BY <2>1, <2>2, <2>3 DEF Counts
  <2> QED BY <2>4, <1>2
<1>9. ASSUME EndObject PROVE IInv' /\ Once
  <2>1. /\ At("endObject") /\ Go(<<>>) /\ UNCHANGED <<parseDepth, classes>>
        /\ compilers' = WithCurrent([Current EXCEPT !["objects"] = Current["objects"] - 1])
    BY <1>9 DEF EndObject
  <2>2. compilers' = WithCurrent([Current EXCEPT !["objects"] = Current["objects"] + (-1)])
    <3>1. Current["objects"] - 1 = Current["objects"] + (-1)
      BY <2>1, <1>3, <1>4
    <3> QED BY <2>1, <3>1
  <2>3. LevelEffect(Head(todo), context) =
          <<context[1], Adjusted(context[2], "objects", -1), context[3]>>
    BY <2>1, <1>4, LevelEffectIs
  <2>4. Counts("endObject", "objects", -1)
    BY <2>1, <2>2, <2>3 DEF Counts
  <2> QED BY <2>4, <1>2
<1> QED BY <1>5, <1>6, <1>7, <1>8, <1>9

LEMMA LeavingSteps ==
  ASSUME IInv
  PROVE  ReturnFrom \/ EndCompiler \/ Class \/ Inherit \/ EndClass => IInv' /\ Once
<1>1. {"returnFrom", "endCompiler", "class", "inherit", "endClass"} \cap
        (BracketNames \cup StaleNames \cup {"consume", "error"}) = {}
  BY DEF BracketNames, StaleNames
<1>2. ASSUME NEW name, At(name) PROVE todo # <<>> /\ Head(todo)[1] = name
  BY <1>2, Head1
<1>3. ASSUME todo # <<>>
      PROVE  /\ context[1] = parseDepth /\ context[2] = compilers /\ context[3] = classes
             /\ Current["scopeDepth"] \in Int /\ WithCurrent(Current) = compilers
             /\ \A n \in Int :
                  WithCurrent([Current EXCEPT !["scopeDepth"] = Current["scopeDepth"] + n]) =
                    Adjusted(compilers, "scopeDepth", n)
  <2>1. /\ context[1] = parseDepth /\ context[2] = compilers /\ context[3] = classes
        /\ compilers \in Seq(Compiler) \ {<<>>}
    BY <1>3, LevelsAre
  <2>2. Current = compilers[Len(compilers)]
    BY DEF Current
  <2>3. Current["scopeDepth"] \in Int
    BY <2>1, <2>2, CountingIs
  <2>4. WithCurrent(Current) = compilers
    BY <2>1, <2>2, CountingIs DEF WithCurrent
  <2>5. ASSUME NEW n \in Int
        PROVE  WithCurrent([Current EXCEPT !["scopeDepth"] = Current["scopeDepth"] + n]) =
                 Adjusted(compilers, "scopeDepth", n)
    BY <2>1, <2>2, CountingIs DEF WithCurrent
  <2> QED BY <2>1, <2>3, <2>4, <2>5
<1>4. ASSUME ReturnFrom PROVE IInv' /\ Once
  <2>1. /\ At("returnFrom") /\ Go(<<>>) /\ parseDepth' = parseDepth - 1
        /\ UNCHANGED <<compilers, classes>>
    BY <1>4 DEF ReturnFrom
  <2>2. context' = LevelEffect(Head(todo), context)
    <3>1. context' = <<parseDepth', compilers', classes'>>
      BY DEF context
    <3>2. LevelEffect(Head(todo), context) =
            <<parseDepth - 1, compilers, classes>>
      <4>1. LevelEffect(Head(todo), context) =
              <<context[1] - 1, context[2], context[3]>>
        BY <2>1, <1>2, LevelEffectIs
      <4> QED BY <4>1, <2>1, <1>2, <1>3
    <3> QED BY <3>1, <3>2, <2>1
  <2> QED BY <2>1, <2>2, <1>1, LevelStep
<1>5. ASSUME EndCompiler PROVE IInv' /\ Once
  <2>1. /\ At("endCompiler") /\ Go(<<>>)
        /\ compilers' = SubSeq(compilers, 1, Len(compilers) - 1)
        /\ UNCHANGED <<parseDepth, classes>>
    BY <1>5 DEF EndCompiler
  <2>2. context' = LevelEffect(Head(todo), context)
    <3>1. context' = <<parseDepth', compilers', classes'>>
      BY DEF context
    <3>2. LevelEffect(Head(todo), context) =
            <<parseDepth, SubSeq(compilers, 1, Len(compilers) - 1), classes>>
      <4>1. LevelEffect(Head(todo), context) =
              <<context[1], SubSeq(context[2], 1, Len(context[2]) - 1), context[3]>>
        BY <2>1, <1>2, LevelEffectIs
      <4> QED BY <4>1, <2>1, <1>2, <1>3
    <3> QED BY <3>1, <3>2, <2>1
  <2> QED BY <2>1, <2>2, <1>1, LevelStep
<1>6. ASSUME Class PROVE IInv' /\ Once
  <2>1. /\ At("class") /\ Go(<<>>) /\ classes' = <<FALSE>> \o classes
        /\ UNCHANGED <<parseDepth, compilers>>
    BY <1>6 DEF Class
  <2>2. context' = LevelEffect(Head(todo), context)
    <3>1. context' = <<parseDepth', compilers', classes'>>
      BY DEF context
    <3>2. LevelEffect(Head(todo), context) =
            <<parseDepth, compilers, <<FALSE>> \o classes>>
      <4>1. LevelEffect(Head(todo), context) =
              <<context[1], context[2], <<FALSE>> \o context[3]>>
        BY <2>1, <1>2, LevelEffectIs
      <4> QED BY <4>1, <2>1, <1>2, <1>3
    <3> QED BY <3>1, <3>2, <2>1
  <2> QED BY <2>1, <2>2, <1>1, LevelStep
<1>7. ASSUME Inherit PROVE IInv' /\ Once
  <2>1. /\ At("inherit") /\ (Go(<<>>) \/ Fail(<<>>)) /\ classes' = <<TRUE>> \o Tail(classes)
        /\ compilers' = WithCurrent([Current EXCEPT !["scopeDepth"] = Current["scopeDepth"] + 1])
        /\ UNCHANGED parseDepth
    BY <1>7 DEF Inherit, MayFail
  <2>2. compilers' = Adjusted(compilers, "scopeDepth", 1)
    BY <2>1, <1>2, <1>3
  <2>3. context' = LevelEffect(Head(todo), context)
    <3>1. context' = <<parseDepth', compilers', classes'>>
      BY DEF context
    <3>2. LevelEffect(Head(todo), context) =
            <<parseDepth, Adjusted(compilers, "scopeDepth", 1), <<TRUE>> \o Tail(classes)>>
      <4>1. LevelEffect(Head(todo), context) =
              <<context[1], Adjusted(context[2], "scopeDepth", 1), <<TRUE>> \o Tail(context[3])>>
        BY <2>1, <1>2, LevelEffectIs
      <4> QED BY <4>1, <2>1, <1>2, <1>3
    <3> QED BY <3>1, <3>2, <2>1, <2>2
  <2> QED BY <2>1, <2>3, <1>1, LevelStep
<1>8. ASSUME EndClass PROVE IInv' /\ Once
  <2>1. /\ At("endClass") /\ Go(<<>>) /\ classes' = Tail(classes) /\ UNCHANGED parseDepth
        /\ compilers' = WithCurrent(IF Head(classes)
             THEN [Current EXCEPT !["scopeDepth"] = Current["scopeDepth"] - 1] ELSE Current)
    BY <1>8 DEF EndClass
  <2>2. compilers' = IF Head(classes) THEN Adjusted(compilers, "scopeDepth", -1) ELSE compilers
    <3>1. Current["scopeDepth"] - 1 = Current["scopeDepth"] + (-1)
      BY <2>1, <1>2, <1>3
    <3>2. CASE Head(classes)
      <4>1. compilers' = WithCurrent([Current EXCEPT !["scopeDepth"] = Current["scopeDepth"] + (-1)])
        BY <2>1, <3>1, <3>2
      <4>2. -1 \in Int
        OBVIOUS
      <4>3. todo # <<>>
        BY <2>1, <1>2
      <4>4. compilers' = Adjusted(compilers, "scopeDepth", -1)
        BY <4>1, <4>2, <4>3, <1>3
      <4> QED BY <4>4, <3>2
    <3>3. CASE ~ Head(classes)
      BY <3>3, <2>1, <1>2, <1>3
    <3> QED BY <3>2, <3>3
  <2>3. context' = LevelEffect(Head(todo), context)
    <3>1. context' = <<parseDepth', compilers', classes'>>
      BY DEF context
    <3>2. LevelEffect(Head(todo), context) =
            <<parseDepth, IF Head(classes) THEN Adjusted(compilers, "scopeDepth", -1) ELSE compilers,
              Tail(classes)>>
      <4>1. LevelEffect(Head(todo), context) =
              <<context[1],
                IF Head(context[3]) THEN Adjusted(context[2], "scopeDepth", -1) ELSE context[2],
                Tail(context[3])>>
        BY <2>1, <1>2, LevelEffectIs
      <4> QED BY <4>1, <2>1, <1>2, <1>3
    <3> QED BY <3>1, <3>2, <2>1, <2>2
  <2> QED BY <2>1, <2>3, <1>1, LevelStep
<1> QED BY <1>4, <1>5, <1>6, <1>7, <1>8

(* What is to be done next does not report. *)
LEMMA StaleReports ==
  ASSUME IInv, todo # <<>>, NEW items, items \in Seq(Item), items # <<>>, Then(items), Quiet,
         items[1][1] \in StaleNames
  PROVE  Reported
<1>1. /\ panicMode' = panicMode /\ hadError' = hadError /\ fresh' = fresh /\ current' = current
  BY DEF Quiet, text, status
<1>2. todo \in Seq(Item) /\ todo' = items \o Tail(todo)
  BY DEF IInv, Then
<1>3. Head(todo') = items[1]
  <2>1. Tail(todo) \in Seq(Item)
    BY <1>2
  <2>2. Len(items) \in Nat /\ Len(items) # 0
    BY EmptySeq
  <2>3. Len(todo') = Len(items) + Len(Tail(todo)) /\ Len(Tail(todo)) \in Nat
    BY <2>1, <1>2
  <2>4. todo' # <<>> /\ todo'[1] = items[1]
    BY <2>1, <2>2, <2>3, <1>2
  <2> QED BY <2>4
<1>4. StaleInv'
  BY <1>3 DEF StaleInv, Stale
<1> QED BY <1>1, <1>4 DEF Reported, Once, IInv

(* A function that guards the depth of nesting and what it calls. *)
LEMMA DeeperStep ==
  ASSUME IInv, NEW name, At(name),
         name \notin LevelNames \cup BracketNames \cup {"consume", "error"},
         NEW item, SimpleItem(item), item[1] \in StaleNames,
         parseDepth' = parseDepth + 1, UNCHANGED <<compilers, classes>>,
         Go(<<item, Do("returnFrom")>>)
  PROVE  IInv' /\ Once
<1>1. todo # <<>> /\ Head(todo)[1] = name /\ ~ At("error")
  BY Head1 DEF At
<1>2. PICK r : r = Do("returnFrom")
  OBVIOUS
<1>3. r \in Item /\ r[1] = "returnFrom"
  <2>1. r[1] = "returnFrom" /\ r \in ItemNames \X (Nat \cup Words)
    BY <1>2 DEF Do, ItemNames
  <2> QED BY <2>1 DEF Item, Binding
<1>4. PICK items : items = <<item, r>>
  OBVIOUS
<1>5. /\ items \in Seq(Item) /\ Len(items) = 2 /\ items[1] = item /\ items[2] = r
      /\ items # <<>>
  <2>1. item \in Item
    BY DEF SimpleItem
  <2>2. <<item, r>> \in Seq(Item)
    BY <2>1, <1>3
  <2> QED BY <2>2, <1>4
<1>6. Then(items) /\ Quiet
  BY <1>2, <1>4 DEF Go
<1>7. Plain("levels", item) /\ Plain("brackets", item)
  BY SimpleIsPlain
<1>8. LevelsLead(items)
  <2>1. /\ parseDepth \in Int /\ context \in Levels /\ context[1] = parseDepth
        /\ context[2] = compilers /\ context[3] = classes
        /\ compilers \in Seq(Compiler) \ {<<>>} /\ classes \in Seq(BOOLEAN)
    BY <1>1, LevelsAre
  <2>2. context = <<parseDepth, compilers, classes>>
    BY DEF context
  <2>3. context' = <<parseDepth + 1, compilers, classes>>
    BY DEF context
  <2>4. context' \in Contexts("levels") /\ context \in Contexts("levels")
    BY <2>1, <2>3 DEF Contexts, Levels
  <2>5. Effect("levels", r, context') = context
    <3>1. LevelEffect(r, context') = <<context'[1] - 1, context'[2], context'[3]>>
      BY <1>3, LevelEffectIs
    <3>2. /\ context'[1] = parseDepth + 1 /\ context'[2] = compilers
          /\ context'[3] = classes
      BY <2>3
    <3>3. (parseDepth + 1) - 1 = parseDepth
      BY <2>1
    <3> QED BY <3>1, <3>2, <3>3, <2>2 DEF Effect
  <2>6. Allowed("levels", r, context')
    BY <1>3 DEF Allowed, LevelAllowed
  <2>7. 2 \in 1 .. Len(items) /\ \A i \in 1 .. Len(items) : i # 2 => i = 1
    BY <1>5
  <2>8. Leads("levels", items, context', context)
    BY <2>4, <2>5, <2>6, <2>7, <1>5, <1>7, LeadsThrough
  <2>9. Effect("levels", Head(todo), context) = context
    BY <1>1, LevelStill DEF Effect
  <2> QED BY <2>8, <2>9 DEF LevelsLead
<1>9. Reported
  BY <1>1, <1>5, <1>6, StaleReports
<1>10. Follows(todo')
  <2>1. Loose(items)
    <3>1. item[1] \notin FollowNames /\ r[1] \notin FollowNames
      BY <1>3 DEF SimpleItem, FollowNames
    <3> QED BY <3>1, <1>5 DEF Loose
  <2> QED BY <2>1, <1>1, <1>5, <1>6, FollowsStay
<1>11. hadError' \/ BracketsLead(items)
  <2>1. AllPlain("brackets", items)
    <3>1. Plain("brackets", r)
      <4>1. r[1] \notin BracketNames /\ r[1] # "consume" /\ r[1] \notin {"skip", "synchronize"}
        BY <1>3 DEF BracketNames
      <4>2. ~ Opens(r) /\ \A open \in Opening : ~ Ends(r, open)
        BY <4>1, BracketStill
      <4> QED BY <4>1, <4>2 DEF Plain, Effect, Allowed, BracketEffect, BracketAllowed
    <3> QED BY <3>1, <1>5, <1>7 DEF AllPlain
  <2>2. brackets' = brackets /\ hadError' = hadError
    BY <1>6 DEF Quiet, text, status
  <2> QED BY <2>1, <2>2, <1>1, <1>5, BracketsStay
<1> QED BY <1>1, <1>5, <1>6, <1>8, <1>9, <1>10, <1>11, StepIs

LEMMA GuardedSteps ==
  ASSUME IInv
  PROVE  ParsePrecedence \/ Statement => IInv' /\ Once
<1>1. {"precedence", "statement"} \cap
        (LevelNames \cup BracketNames \cup {"consume", "error"}) = {}
  BY DEF LevelNames, BracketNames
<1>2. ASSUME NEW name \in {"precedence", "statement"}, At(name), parseDepth >= MaxParseDepth,
             Fail(<<>>), UNCHANGED context
      PROVE  IInv' /\ Once
  <2>1. Refused /\ todo # <<>>
    BY <1>2 DEF Refused, At
  <2>2. Reported
    BY <1>2, <2>1, FailReports
  <2> QED BY <2>2, <1>1, <1>2, SimpleParts, SimpleStep
<1>3. ASSUME ParsePrecedence PROVE IInv' /\ Once
  <2>1. At("precedence")
    BY <1>3 DEF ParsePrecedence
  <2>2. CASE parseDepth >= MaxParseDepth
    BY <1>2, <1>3, <2>2 DEF ParsePrecedence
  <2>3. CASE ~ (parseDepth >= MaxParseDepth)
    <3>1. PICK item : item = <<"prefix", Argument>>
      OBVIOUS
    <3>2. Head(todo) \in Item /\ Head(todo)[1] = "precedence" /\ Head(todo)[2] = Argument
      BY <2>1, Head1 DEF Argument
    <3>3. Argument \in Nat \ {0}
      BY <3>2 DEF Item, Binding
    <3>4. SimpleItem(item) /\ item[1] \in StaleNames
      BY <3>1, <3>3, SimplePrecedence DEF StaleNames, Binding
    <3>5. /\ parseDepth' = parseDepth + 1 /\ UNCHANGED <<compilers, classes>>
          /\ Go(<<item, Do("returnFrom")>>)
      BY <1>3, <2>3, <3>1 DEF ParsePrecedence
    <3> QED BY <2>1, <3>4, <3>5, <1>1, DeeperStep
  <2> QED BY <2>2, <2>3
<1>4. ASSUME Statement PROVE IInv' /\ Once
  <2>1. At("statement")
    BY <1>4 DEF Statement
  <2>2. CASE parseDepth >= MaxParseDepth
    BY <1>2, <1>4, <2>2 DEF Statement
  <2>3. CASE ~ (parseDepth >= MaxParseDepth)
    <3>1. PICK item : item = Do("statementInner")
      OBVIOUS
    <3>2. SimpleItem(item) /\ item[1] \in StaleNames
      BY <3>1, SimpleItems DEF StaleNames, Do
    <3>3. /\ parseDepth' = parseDepth + 1 /\ UNCHANGED <<compilers, classes>>
          /\ Go(<<item, Do("returnFrom")>>)
      BY <1>4, <2>3, <3>1 DEF Statement
    <3> QED BY <2>1, <3>2, <3>3, <1>1, DeeperStep
  <2> QED BY <2>2, <2>3
<1> QED BY <1>3, <1>4

LEMMA LevelOfIs ==
  ASSUME NEW token
  PROVE  LevelOf(token) \in Nat /\ (token \in {")", "]", "}"} => LevelOf(token) = 0)
<1>1. ASSUME \E level \in 2 .. 7 : token \in Operators[level]
      PROVE  (CHOOSE level \in 2 .. 7 : token \in Operators[level]) \in 2 .. 7
  BY <1>1
<1>2. \A level \in 2 .. 7 : {")", "]", "}"} \cap Operators[level] = {}
  <2>1. 2 .. 7 = {2, 3, 4, 5, 6, 7}
    OBVIOUS
  <2>2. /\ Operators[2] = {"or"} /\ Operators[3] = {"and"} /\ Operators[4] = {"==", "!="}
        /\ Operators[5] = {"<", "<=", ">", ">="} /\ Operators[6] = {"+", "-"}
        /\ Operators[7] = {"*", "/", "%"}
    BY DEF Operators
  <2> QED BY <2>1, <2>2
<1>3. LevelOf(token) \in Nat
  <2>1. PICK n : n = CHOOSE level \in 2 .. 7 : token \in Operators[level]
    OBVIOUS
  <2>2. LevelOf(token) =
          IF token \in {"(", "[", ".", "{"} THEN 9
          ELSE IF \E level \in 2 .. 7 : token \in Operators[level] THEN n ELSE 0
    BY <2>1 DEF LevelOf, CallLevel
  <2>3. (\E level \in 2 .. 7 : token \in Operators[level]) => n \in Nat
    <3>1. ASSUME \E level \in 2 .. 7 : token \in Operators[level] PROVE n \in 2 .. 7
      BY <3>1, <1>1, <2>1
    <3> QED BY <3>1
  <2>4. LevelOf(token) \in {9, n, 0}
    BY <2>2
  <2>5. CASE \E level \in 2 .. 7 : token \in Operators[level]
    BY <2>3, <2>4, <2>5
  <2>6. CASE ~ \E level \in 2 .. 7 : token \in Operators[level]
    <3>1. LevelOf(token) \in {9, 0}
      BY <2>2, <2>6
    <3> QED BY <3>1
  <2> QED BY <2>5, <2>6
<1>4. token \in {")", "]", "}"} => LevelOf(token) = 0
  BY <1>2 DEF LevelOf
<1> QED BY <1>3, <1>4

(* What prefix and infix rules have to do.  A bracket is closed. *)
LEMMA RuleSteps ==
  ASSUME IInv
  PROVE  ParsePrefix \/ ParseInfix => IInv' /\ Once
<1>1. {"prefix", "infix"} \cap (LevelNames \cup BracketNames \cup {"consume", "error"}) = {}
  BY DEF LevelNames, BracketNames
<1>2. ASSUME NEW name \in {"prefix", "infix"}, At(name)
      PROVE  /\ Argument \in Nat \ {0} /\ SimpleItem(<<"infix", Argument>>)
             /\ Simple(<<<<"infix", Argument>>>>)
  <2>1. Head(todo) \in Item /\ Head(todo)[1] = name /\ Head(todo)[2] = Argument
    BY <1>2, Head1 DEF Argument
  <2>2. Argument \in Nat \ {0}
    BY <2>1 DEF Item, Binding
  <2>3. SimpleItem(<<"infix", Argument>>)
    BY <2>2, SimplePrecedence DEF Binding
  <2> QED BY <2>2, <2>3, SimpleLists
<1>3. ASSUME NEW name \in {"variable", "assigned", "dotted", "end"}, NEW p \in Nat
      PROVE  SimpleItem(<<name, p>>)
  <2>1. name \in ItemNames \ Special
    BY DEF ItemNames, Special, LevelNames, BracketNames, FollowNames, Binding
  <2>2. p \in Nat \cup Words
    OBVIOUS
  <2> QED BY <2>1, <2>2, SimpleDo
<1>4. ASSUME NEW name \in {"prefix", "infix"}, At(name), UNCHANGED context,
             NEW items, Take(items),
             \/ Simple(items) /\ current \notin Brackets
             \/ current \in Opening /\ ClosesIn(items, current)
             \/ Simple(items) /\ items # <<>> /\ items[1][1] = "error"
      PROVE  IInv' /\ Once
  <2>1. /\ name \notin LevelNames \cup {"error"}
        /\ name \notin LevelNames \cup BracketNames \cup {"error", "consume"}
    BY <1>1
  <2>2. CASE Simple(items) /\ current \notin Brackets
    BY <1>4, <2>1, <2>2, TakeReports, SimpleStep
  <2>3. CASE current \in Opening /\ ClosesIn(items, current)
    BY <1>4, <2>1, <2>3, OpeningStep
  <2>4. CASE Simple(items) /\ items # <<>> /\ items[1][1] = "error"
    BY <1>4, <2>1, <2>4, ReportStep
  <2> QED BY <1>4, <2>2, <2>3, <2>4
<1>5. ASSUME ParsePrefix PROVE IInv' /\ Once
  <2>1. At("prefix") /\ UNCHANGED context
    BY <1>5 DEF ParsePrefix
  <2>2. PICK p \in Nat \ {0} : p = Argument
    BY <2>1, <1>2
  <2>3. Simple(<<<<"infix", p>>>>)
    BY <2>1, <2>2, <1>2
  <2>4. CASE ~ HasPrefix(current)
    <3>1. PICK items : items = <<Do("error")>>
      OBVIOUS
    <3>2. Simple(items) /\ items # <<>> /\ items[1][1] = "error"
      <4>1. Simple(items)
        BY <3>1, SimpleItems, SimpleLists
      <4> QED BY <3>1, <4>1 DEF Do
    <3>3. Take(items)
      BY <1>5, <2>4, <3>1 DEF ParsePrefix
    <3> QED BY <2>1, <3>2, <3>3, <1>4
  <2>5. CASE HasPrefix(current)
    <3>1. PICK items : items = Prefix(current, p) \o <<<<"infix", p>>>>
      OBVIOUS
    <3>2. Take(items)
      BY <1>5, <2>2, <2>5, <3>1 DEF ParsePrefix
    <3>3. CASE current = "("
      <4>1. Prefix(current, p) = <<Expression, Consume(")")>>
        BY <3>3 DEF Prefix
      <4>2. "(" \in Opening /\ Closing("(") = ")"
        BY DEF Opening, Closing
      <4>3. ClosesIn(<<Expression, Consume(")")>>, "(")
        BY <4>2, ClosingItems, ClosesInMore, SimpleItems
      <4>4. ClosesIn(items, current)
        BY <4>1, <4>3, <3>1, <3>3, <2>3, ClosesInJoined
      <4> QED BY <4>2, <4>4, <3>2, <3>3, <2>1, <1>4
    <3>4. CASE current = "{"
      <4>1. Prefix(current, p) = <<Do("objectLiteral")>>
        BY <3>4 DEF Prefix
      <4>2. ClosesIn(<<Do("objectLiteral")>>, "{") /\ "{" \in Opening
        BY ClosingItems DEF Opening
      <4>3. ClosesIn(items, current)
        BY <4>1, <4>2, <3>1, <3>4, <2>3, ClosesInJoined
      <4> QED BY <4>2, <4>3, <3>2, <3>4, <2>1, <1>4
    <3>5. CASE current \notin {"(", "{"}
      <4>1. current \notin Brackets
        BY <2>5, <3>5 DEF HasPrefix, Brackets
      <4>2. Simple(Prefix(current, p))
        <5>1. CASE current \in {"!", "-"}
          <6>1. \/ Prefix(current, p) = <<<<"precedence", 8>>>>
                \/ Prefix(current, p) = <<<<"precedence", 8>>, Do("check")>>
            BY <5>1 DEF Prefix, Precedence, UnaryLevel
          <6>2. SimpleItem(<<"precedence", 8>>)
            BY SimplePrecedence DEF Binding
          <6>3. SimpleItem(Do("check"))
            BY SimpleItems
          <6> QED BY <6>1, <6>2, <6>3, SimpleLists
        <5>2. CASE current = "identifier"
          <6>1. Prefix(current, p) = <<<<"variable", p>>>>
            BY <5>2 DEF Prefix
          <6> QED BY <6>1, <1>3, SimpleLists
        <5>3. CASE current = "this"
          <6>1. Prefix(current, p) = <<Do("this")>>
            BY <5>3 DEF Prefix
          <6> QED BY <6>1, SimpleItems, SimpleLists
        <5>4. CASE current = "super"
          <6>1. Prefix(current, p) =
                  <<Do("super"), Consume("."), Consume("identifier"), Do("invoked")>>
            BY <5>4 DEF Prefix
          <6> QED BY <6>1, SimpleItems, SimpleLists
        <5>5. CASE current \in {"literal", "string"}
          <6>1. Prefix(current, p) = <<>>
            BY <5>5 DEF Prefix
          <6> QED BY <6>1, SimpleParts
        <5> QED BY <5>1, <5>2, <5>3, <5>4, <5>5, <2>5, <3>5 DEF HasPrefix
      <4>3. Simple(items)
        BY <4>2, <2>3, <3>1, SimpleJoined
      <4> QED BY <4>1, <4>3, <3>2, <2>1, <1>4
    <3> QED BY <3>3, <3>4, <3>5
  <2> QED BY <2>4, <2>5
<1>6. ASSUME ParseInfix PROVE IInv' /\ Once
  <2>1. At("infix") /\ UNCHANGED context /\ Argument <= LevelOf(current)
    BY <1>6 DEF ParseInfix
  <2>2. PICK p \in Nat \ {0} : p = Argument
    BY <2>1, <1>2
  <2>3. Simple(<<<<"infix", p>>>>)
    BY <2>1, <2>2, <1>2
  <2>4. PICK items : items = Infix(current, p) \o <<<<IF current = "{" THEN "end" ELSE "infix", p>>>>
    OBVIOUS
  <2>5. Take(items)
    BY <1>6, <2>2, <2>4 DEF ParseInfix
  <2>6. current \in Opening => Closing(current) \in Words
    BY DEF Opening, Closing, Words
  <2>7. CASE current = "("
    <3>1. Infix(current, p) = <<Do("arguments")>> /\ current \in Opening
      BY <2>7 DEF Infix, Opening
    <3>2. ClosesIn(<<Do("arguments")>>, current)
      BY <2>7, ClosingItems
    <3>3. ClosesIn(items, current)
      BY <3>1, <3>2, <2>3, <2>4, <2>7, ClosesInJoined
    <3> QED BY <3>1, <3>3, <2>1, <2>5, <1>4
  <2>8. CASE current = "["
    <3>1. /\ Infix(current, p) = <<Expression, Consume("]"), <<"assigned", p>>>>
          /\ current \in Opening /\ Closing(current) = "]"
      BY <2>8 DEF Infix, Opening, Closing
    <3>2. ClosesIn(<<Consume("]")>>, current)
      BY <3>1, ClosingItems
    <3>3. SimpleItem(<<"assigned", p>>)
      BY <1>3
    <3>4. ClosesIn(Infix(current, p), current)
      BY <3>1, <3>2, <3>3, ClosesInMore, SimpleItems
    <3>5. ClosesIn(items, current)
      BY <3>4, <2>3, <2>4, <2>8, ClosesInJoined
    <3> QED BY <3>1, <3>5, <2>1, <2>5, <1>4
  <2>9. CASE current = "{"
    <3>1. Infix(current, p) = <<Do("error")>>
      BY <2>9 DEF Infix
    <3>2. Simple(<<Do("error")>>) /\ Simple(<<<<"end", p>>>>)
      BY <1>3, SimpleItems, SimpleLists
    <3>3. Simple(items)
      BY <3>1, <3>2, <2>4, <2>9, SimpleJoined
    <3>4. items # <<>> /\ items[1][1] = "error"
      <4>1. PICK u : u = <<<<"end", p>>>>
        OBVIOUS
      <4>2. items = <<Do("error")>> \o u /\ u \in Seq(Item)
        BY <4>1, <3>1, <3>2, <2>4, <2>9 DEF Simple
      <4>3. PICK e : e = Do("error")
        OBVIOUS
      <4>4. e \in Item /\ e[1] = "error"
        BY <4>3, SimpleItems DEF SimpleItem, Do
      <4>5. items = <<e>> \o u
        BY <4>2, <4>3
      <4>6. items # <<>> /\ items[1] = e
        BY <4>2, <4>4, <4>5
      <4> QED BY <4>4, <4>6
    <3> QED BY <3>3, <3>4, <2>1, <2>5, <1>4
  <2>10. CASE current \notin {"(", "[", "{"}
    <3>1. current \notin Brackets
      <4>1. LevelOf(current) # 0
        BY <2>1, <2>2
      <4>2. current \in {")", "]", "}"} => LevelOf(current) = 0
        BY LevelOfIs
      <4> QED BY <4>1, <4>2, <2>10 DEF Brackets
    <3>2. Simple(Infix(current, p))
      <4>1. LevelOf(current) \in Nat
        BY LevelOfIs
      <4>2. CASE current \in {"and", "or"}
        <5>1. Infix(current, p) = <<<<"precedence", LevelOf(current)>>>>
          BY <4>2 DEF Infix, Precedence
        <5>2. LevelOf(current) \in Nat \ {0}
          BY <4>1, <2>1, <2>2
        <5>3. SimpleItem(<<"precedence", LevelOf(current)>>)
          BY <5>2, SimplePrecedence DEF Binding
        <5> QED BY <5>1, <5>3, SimpleLists
      <4>3. CASE current = "."
        <5>1. Infix(current, p) = <<Consume("identifier"), <<"dotted", p>>>>
          BY <4>3 DEF Infix
        <5> QED BY <5>1, <1>3, SimpleItems, SimpleLists
      <4>4. CASE current \notin {"and", "or", "."}
        <5>1. \/ Infix(current, p) = <<<<"precedence", LevelOf(current) + 1>>>>
              \/ Infix(current, p) = <<<<"precedence", LevelOf(current) + 1>>, Do("check")>>
          BY <4>4, <2>10 DEF Infix, Precedence
        <5>2. LevelOf(current) + 1 \in Nat \ {0}
          BY <4>1
        <5>3. SimpleItem(<<"precedence", LevelOf(current) + 1>>)
          BY <5>2, SimplePrecedence DEF Binding
        <5>4. SimpleItem(Do("check"))
          BY SimpleItems
        <5> QED BY <5>1, <5>3, <5>4, SimpleLists
      <4> QED BY <4>2, <4>3, <4>4
    <3>3. Simple(items)
      BY <3>2, <2>3, <2>4, <2>10, SimpleJoined
    <3> QED BY <3>1, <3>3, <2>1, <2>5, <1>4
  <2> QED BY <2>7, <2>8, <2>9, <2>10
<1> QED BY <1>5, <1>6

(* A level that is entered and left again. *)
Paired(up, down, f) ==
  \/ up = "loop" /\ down = "endLoop" /\ f = "loops"
  \/ up = "beginScope" /\ down = "endScope" /\ f = "scopeDepth"

LEMMA UpAndDown ==
  ASSUME NEW c, c \in Levels,
         NEW up, NEW down, NEW f,
         Paired(up, down, f)
  PROVE  /\ Allowed("levels", Do(up), c) /\ Effect("levels", Do(up), c) \in Contexts("levels")
         /\ Allowed("levels", Do(down), Effect("levels", Do(up), c))
         /\ Effect("levels", Do(down), Effect("levels", Do(up), c)) = c
<1>1. PICK d : d = <<c[1], Adjusted(c[2], f, 1), c[3]>>
  OBVIOUS
<1>2. /\ f \in {"loops", "scopeDepth"}
      /\ \/ up = "loop" /\ down = "endLoop" /\ f = "loops"
         \/ up = "beginScope" /\ down = "endScope" /\ f = "scopeDepth"
  BY DEF Paired
<1>3. /\ c = <<c[1], c[2], c[3]>> /\ c[1] \in Int /\ c[2] \in Seq(Compiler) \ {<<>>}
      /\ c[3] \in Seq(BOOLEAN)
  BY DEF Levels
<1>4. /\ Adjusted(c[2], f, 1) \in Seq(Compiler) \ {<<>>}
      /\ Adjusted(Adjusted(c[2], f, 1), f, -1) = c[2]
  <2>1. PICK n \in Int : n = 1
    OBVIOUS
  <2>2. f \in {"scopeDepth", "loops", "objects"}
    BY <1>2
  <2>3. /\ Adjusted(c[2], f, n) \in Seq(Compiler) \ {<<>>}
        /\ Adjusted(Adjusted(c[2], f, n), f, -n) = c[2]
    BY <2>2, <1>3, AdjustedIs
  <2>4. n = 1 /\ -n = -1
    BY <2>1
  <2> QED BY <2>3, <2>4
<1>5. d \in Levels /\ d[1] = c[1] /\ d[2] = Adjusted(c[2], f, 1) /\ d[3] = c[3]
  BY <1>1, <1>3, <1>4 DEF Levels
<1>6. LevelEffect(Do(up), c) = d
  <2>1. Do(up)[1] = up
    BY DEF Do
  <2>2. CASE up = "loop" /\ f = "loops"
    <3>1. LevelEffect(Do(up), c) = <<c[1], Adjusted(c[2], "loops", 1), c[3]>>
      BY <2>1, <2>2, LevelEffectIs
    <3> QED BY <3>1, <2>2, <1>1
  <2>3. CASE up = "beginScope" /\ f = "scopeDepth"
    <3>1. LevelEffect(Do(up), c) = <<c[1], Adjusted(c[2], "scopeDepth", 1), c[3]>>
      BY <2>1, <2>3, LevelEffectIs
    <3> QED BY <3>1, <2>3, <1>1
  <2> QED BY <2>2, <2>3, <1>2
<1>7. LevelEffect(Do(down), d) = c
  <2>1. Do(down)[1] = down
    BY DEF Do
  <2>2. LevelEffect(Do(down), d) = <<d[1], Adjusted(d[2], f, -1), d[3]>>
    <3>1. CASE down = "endLoop" /\ f = "loops"
      <4>1. LevelEffect(Do(down), d) = <<d[1], Adjusted(d[2], "loops", -1), d[3]>>
        BY <2>1, <3>1, LevelEffectIs
      <4> QED BY <4>1, <3>1
    <3>2. CASE down = "endScope" /\ f = "scopeDepth"
      <4>1. LevelEffect(Do(down), d) = <<d[1], Adjusted(d[2], "scopeDepth", -1), d[3]>>
        BY <2>1, <3>2, LevelEffectIs
      <4> QED BY <4>1, <3>2
    <3> QED BY <3>1, <3>2, <1>2
  <2> QED BY <2>2, <1>3, <1>4, <1>5
<1>8. LevelAllowed(Do(up), c) /\ LevelAllowed(Do(down), d)
  BY <1>2 DEF LevelAllowed, Do
<1> QED BY <1>5, <1>6, <1>7, <1>8 DEF Allowed, Effect, Contexts

LEMMA ItemsOf ==
  /\ \A name \in ItemNames \ Binding :
       Do(name) \in Item /\ Do(name)[1] = name /\ Do(name)[2] = 0
  /\ \A token \in Words :
       Consume(token) \in Item /\ Consume(token)[1] = "consume" /\ Consume(token)[2] = token
  /\ Expression \in Item /\ Expression[1] = "precedence" /\ Expression[2] = 1
<1>1. ASSUME NEW name \in ItemNames \ Binding
      PROVE  Do(name) \in Item /\ Do(name)[1] = name /\ Do(name)[2] = 0
  <2>1. /\ Do(name)[1] = name /\ Do(name)[2] = 0
        /\ Do(name) \in ItemNames \X (Nat \cup Words)
    BY DEF Do
  <2> QED BY <2>1 DEF Item
<1>2. ASSUME NEW token \in Words
      PROVE  /\ Consume(token) \in Item /\ Consume(token)[1] = "consume"
             /\ Consume(token)[2] = token
  <2>1. "consume" \in ItemNames /\ "consume" \notin Binding
    BY DEF ItemNames, Binding
  <2>2. /\ Consume(token)[1] = "consume" /\ Consume(token)[2] = token
        /\ Consume(token) \in ItemNames \X (Nat \cup Words)
    BY <2>1 DEF Consume
  <2> QED BY <2>1, <2>2 DEF Item
<1>3. Expression \in Item /\ Expression[1] = "precedence" /\ Expression[2] = 1
  <2>1. SimpleItem(Expression)
    BY SimpleItems
  <2>2. Expression[1] = "precedence" /\ Expression[2] = 1
    BY DEF Expression, Precedence, AssignmentLevel
  <2> QED BY <2>1, <2>2 DEF SimpleItem
<1> QED BY <1>1, <1>2, <1>3

(* What the names of an item tell. *)
LEMMA PlainByName ==
  ASSUME NEW item
  PROVE  /\ item[1] \notin LevelNames => Plain("levels", item)
         /\ item[1] \notin BracketNames \cup {"consume"} => Plain("brackets", item)
<1>1. item[1] \notin LevelNames => Plain("levels", item)
  BY LevelStill DEF Plain, Effect, Allowed
<1>2. ASSUME item[1] \notin BracketNames \cup {"consume"} PROVE Plain("brackets", item)
  <2>1. ~ Opens(item) /\ \A open \in Opening : ~ Ends(item, open)
    BY <1>2, BracketStill
  <2>2. item[1] \notin {"skip", "synchronize"}
    BY <1>2 DEF BracketNames
  <2> QED BY <2>1, <2>2 DEF Plain, Effect, Allowed, BracketEffect, BracketAllowed
<1> QED BY <1>1, <1>2

(* A pair of brackets in a list. *)
LEMMA LeadsThroughPair ==
  ASSUME NEW s, s \in Seq(Item), NEW open \in Opening,
         NEW j, j \in 1 .. Len(s), NEW k, k \in 1 .. Len(s), j < k,
         s[j] = Consume(open), Ends(s[k], open),
         \A i \in 1 .. Len(s) : i \notin {j, k} => Plain("brackets", s[i]),
         NEW c, c \in Seq(Opening)
  PROVE  Leads("brackets", s, c, c)
<1>1. PICK d : d = <<open>> \o c
  OBVIOUS
<1>2. c \in Contexts("brackets") /\ d \in Contexts("brackets")
  BY <1>1, Pushed DEF Contexts
<1>3. Allowed("brackets", s[j], c) /\ d = Effect("brackets", s[j], c)
  BY <1>1, OpensOne DEF Allowed, Effect
<1>4. Allowed("brackets", s[k], d) /\ c = Effect("brackets", s[k], d)
  BY <1>1, ClosesOne DEF Allowed, Effect
<1> QED BY <1>2, <1>3, <1>4, LeadsThroughTwo

(* A list that enters a level and leaves it. *)
LEMMA LeadsUpAndDown ==
  ASSUME NEW s, s \in Seq(Item), NEW up, NEW down, NEW f,
         Paired(up, down, f),
         NEW j, j \in 1 .. Len(s), NEW k, k \in 1 .. Len(s), j < k,
         s[j] = Do(up), s[k] = Do(down),
         \A i \in 1 .. Len(s) : i \notin {j, k} => s[i][1] \notin LevelNames,
         NEW c, c \in Levels
  PROVE  Leads("levels", s, c, c)
<1>1. PICK d : d = Effect("levels", s[j], c)
  OBVIOUS
<1>2. /\ Allowed("levels", s[j], c) /\ d \in Contexts("levels")
      /\ Allowed("levels", s[k], d) /\ Effect("levels", s[k], d) = c
  BY <1>1, UpAndDown
<1>3. \A i \in 1 .. Len(s) : i \notin {j, k} => Plain("levels", s[i])
  BY PlainByName
<1>4. c \in Contexts("levels")
  BY DEF Contexts
<1> QED BY <1>1, <1>2, <1>3, <1>4, LeadsThroughTwo

(* What the statements have to do. *)
Body(items) ==
  items \in Seq(Item) /\ Loose(items) /\ \A c \in Levels : Leads("levels", items, c, c)

LEMMA SimpleBody ==
  ASSUME NEW items, Simple(items)
  PROVE  Body(items) /\ \A c \in Seq(Opening) : Leads("brackets", items, c, c)
<1>1. /\ items \in Seq(Item) /\ Loose(items)
      /\ AllPlain("levels", items) /\ AllPlain("brackets", items)
  BY SimpleList
<1>2. ASSUME NEW c \in Levels PROVE Leads("levels", items, c, c)
  BY <1>1, LeadsStill DEF Contexts
<1>3. ASSUME NEW c \in Seq(Opening) PROVE Leads("brackets", items, c, c)
  BY <1>1, LeadsStill DEF Contexts
<1> QED BY <1>1, <1>2, <1>3 DEF Body

LEMMA IfBody ==
  Body(BodyOf("if")) /\ \A c \in Seq(Opening) : Leads("brackets", BodyOf("if"), c, c)
<1>1. PICK s : s = <<Consume("("), Expression, Consume(")"), Do("statement"), Do("else")>>
  OBVIOUS
<1>2. /\ Consume("(") \in Item /\ Expression \in Item /\ Consume(")") \in Item
      /\ Do("statement") \in Item /\ Do("else") \in Item
  BY ItemsOf DEF ItemNames, Binding, Words
<1>3. s \in Seq(Item) /\ Len(s) = 5
  BY <1>1, <1>2
<1>4. /\ s[1] = Consume("(") /\ s[2] = Expression /\ s[3] = Consume(")")
      /\ s[4] = Do("statement") /\ s[5] = Do("else")
  BY <1>1
<1>5. /\ s[1][1] = "consume" /\ s[2][1] = "precedence" /\ s[3][1] = "consume"
      /\ s[4][1] = "statement" /\ s[5][1] = "else" /\ s[3][2] = ")"
  BY <1>4 DEF Do, Consume, Expression, Precedence
<1>6. \A i \in 1 .. Len(s) : s[i][1] \notin LevelNames \cup FollowNames
  BY <1>3, <1>5 DEF LevelNames, FollowNames
<1>7. Loose(s)
  BY <1>6 DEF Loose
<1>8. ASSUME NEW c \in Levels PROVE Leads("levels", s, c, c)
  <2>1. AllPlain("levels", s)
    BY <1>6, PlainByName DEF AllPlain
  <2> QED BY <2>1, <1>3, LeadsStill DEF Contexts
<1>9. ASSUME NEW c \in Seq(Opening) PROVE Leads("brackets", s, c, c)
  <2>1. \A i \in 1 .. Len(s) : i \notin {1, 3} => s[i][1] \notin BracketNames \cup {"consume"}
    BY <1>3, <1>5 DEF BracketNames
  <2>2. \A i \in 1 .. Len(s) : i \notin {1, 3} => Plain("brackets", s[i])
    BY <2>1, PlainByName
  <2>3. "(" \in Opening /\ Ends(s[3], "(")
    BY <1>5 DEF Ends, Opening, Closing
  <2>4. 1 \in 1 .. Len(s) /\ 3 \in 1 .. Len(s) /\ 1 < 3
    BY <1>3
  <2> QED BY <2>2, <2>3, <2>4, <1>3, <1>4, LeadsThroughPair
<1>10. BodyOf("if") = s
  BY <1>1 DEF BodyOf
<1> QED BY <1>3, <1>7, <1>8, <1>9, <1>10 DEF Body

LEMMA WhileBody ==
  /\ Body(BodyOf("while"))
  /\ \A c \in Seq(Opening) : Leads("brackets", BodyOf("while"), c, c)
<1>1. PICK s : s = <<Consume("("), Expression, Consume(")"), Do("loop"), Do("statement"),
                     Do("endLoop")>>
  OBVIOUS
<1>2. /\ Consume("(") \in Item
      /\ Expression \in Item
      /\ Consume(")") \in Item
      /\ Do("loop") \in Item
      /\ Do("statement") \in Item
      /\ Do("endLoop") \in Item
  BY ItemsOf DEF ItemNames, Binding, Words
<1>3. s \in Seq(Item) /\ Len(s) = 6
  BY <1>1, <1>2
<1>4. /\ s[1] = Consume("(") /\ s[2] = Expression /\ s[3] = Consume(")")
      /\ s[4] = Do("loop") /\ s[5] = Do("statement") /\ s[6] = Do("endLoop")
  BY <1>1
<1>5. /\ s[1][1] = "consume" /\ s[2][1] = "precedence" /\ s[3][1] = "consume"
      /\ s[4][1] = "loop" /\ s[5][1] = "statement" /\ s[6][1] = "endLoop"
      /\ s[1][2] = "(" /\ s[3][2] = ")"
  BY <1>4 DEF Do, Consume, Expression, Precedence
<1>6. /\ \A i \in 1 .. Len(s) : s[i][1] \notin FollowNames
      /\ \A i \in 1 .. Len(s) : i \notin {4, 6} => s[i][1] \notin LevelNames
  BY <1>3, <1>5 DEF LevelNames, FollowNames
<1>7. Loose(s)
  BY <1>6 DEF Loose
<1>8. ASSUME NEW c \in Levels PROVE Leads("levels", s, c, c)
  <2>1. 4 \in 1 .. Len(s) /\ 6 \in 1 .. Len(s) /\ 4 < 6
    BY <1>3
  <2>2. s[4] = Do("loop") /\ s[6] = Do("endLoop")
    BY <1>4
  <2>3. \A i \in 1 .. Len(s) : i \notin {4, 6} => s[i][1] \notin LevelNames
    BY <1>6
  <2>4. Paired("loop", "endLoop", "loops")
    BY DEF Paired
  <2> QED BY <2>1, <2>2, <2>3, <2>4, <1>3, LeadsUpAndDown
<1>9. ASSUME NEW c \in Seq(Opening) PROVE Leads("brackets", s, c, c)
  <2>1. \A i \in 1 .. Len(s) : i \notin {1, 3} => s[i][1] \notin BracketNames \cup {"consume"}
    BY <1>3, <1>5 DEF BracketNames
  <2>2. \A i \in 1 .. Len(s) : i \notin {1, 3} => Plain("brackets", s[i])
    BY <2>1, PlainByName
  <2>3. "(" \in Opening /\ Ends(s[3], "(")
    BY <1>5 DEF Ends, Opening, Closing
  <2>4. 1 \in 1 .. Len(s) /\ 3 \in 1 .. Len(s) /\ 1 < 3
    BY <1>3
  <2> QED BY <2>2, <2>3, <2>4, <1>3, <1>4, LeadsThroughPair
<1>10. BodyOf("while") = s
  BY <1>1 DEF BodyOf
<1> QED BY <1>3, <1>7, <1>8, <1>9, <1>10 DEF Body

LEMMA DoBody ==
  /\ Body(BodyOf("do"))
  /\ \A c \in Seq(Opening) : Leads("brackets", BodyOf("do"), c, c)
<1>1. PICK last : last = Consume(";")
  OBVIOUS
<1>2. /\ Do("loop") \in Item /\ Do("statement") \in Item /\ Consume("while") \in Item
      /\ Consume("(") \in Item /\ Expression \in Item /\ Consume(")") \in Item
      /\ Do("endLoop") \in Item
  BY ItemsOf DEF ItemNames, Binding, Words
<1>3. last \in Item /\ last[1] = "consume" /\ SimpleItem(last)
  <2>1. SimpleItem(last)
    BY <1>1, SimpleItems
  <2>2. last[1] = "consume"
    BY <1>1, ConsumeIs
  <2> QED BY <2>1, <2>2 DEF SimpleItem
<1>4. PICK s : s = <<Do("loop"), Do("statement"), Consume("while"), Consume("("),
                     Expression, Consume(")"), last, Do("endLoop")>>
  OBVIOUS
<1>5. s \in Seq(Item) /\ Len(s) = 8
  BY <1>2, <1>3, <1>4
<1>6. /\ s[1] = Do("loop") /\ s[2] = Do("statement") /\ s[3] = Consume("while")
      /\ s[4] = Consume("(") /\ s[5] = Expression /\ s[6] = Consume(")")
      /\ s[7] = last /\ s[8] = Do("endLoop")
  BY <1>4
<1>7. /\ s[1][1] = "loop" /\ s[2][1] = "statement" /\ s[3][1] = "consume"
      /\ s[4][1] = "consume" /\ s[5][1] = "precedence" /\ s[6][1] = "consume"
      /\ s[7][1] = "consume" /\ s[8][1] = "endLoop" /\ s[3][2] = "while"
      /\ s[4][2] = "(" /\ s[6][2] = ")"
  BY <1>3, <1>6 DEF Do, Consume, Expression, Precedence
<1>8. /\ \A i \in 1 .. Len(s) : s[i][1] \notin FollowNames
      /\ \A i \in 1 .. Len(s) : i \notin {1, 8} => s[i][1] \notin LevelNames
  BY <1>5, <1>7 DEF LevelNames, FollowNames
<1>9. Loose(s)
  BY <1>8 DEF Loose
<1>10. ASSUME NEW c \in Levels PROVE Leads("levels", s, c, c)
  <2>1. 1 \in 1 .. Len(s) /\ 8 \in 1 .. Len(s) /\ 1 < 8
    BY <1>5
  <2>2. s[1] = Do("loop") /\ s[8] = Do("endLoop")
    BY <1>6
  <2>3. \A i \in 1 .. Len(s) : i \notin {1, 8} => s[i][1] \notin LevelNames
    BY <1>8
  <2>4. Paired("loop", "endLoop", "loops")
    BY DEF Paired
  <2> QED BY <2>1, <2>2, <2>3, <2>4, <1>5, LeadsUpAndDown
<1>11. ASSUME NEW c \in Seq(Opening) PROVE Leads("brackets", s, c, c)
  <2>1. \A i \in 1 .. Len(s) : i \notin {3, 4, 6, 7} =>
          s[i][1] \notin BracketNames \cup {"consume"}
    BY <1>5, <1>7 DEF BracketNames
  <2>2. \A i \in 1 .. Len(s) : i \notin {4, 6} => Plain("brackets", s[i])
    <3>1. SimpleItem(s[3]) /\ SimpleItem(s[7])
      BY <1>3, <1>6, SimpleItems
    <3>2. Plain("brackets", s[3]) /\ Plain("brackets", s[7])
      BY <3>1, SimpleIsPlain
    <3> QED BY <3>2, <2>1, PlainByName
  <2>3. "(" \in Opening /\ Ends(s[6], "(")
    BY <1>7 DEF Ends, Opening, Closing
  <2>4. 4 \in 1 .. Len(s) /\ 6 \in 1 .. Len(s) /\ 4 < 6
    BY <1>5
  <2> QED BY <2>2, <2>3, <2>4, <1>5, <1>6, LeadsThroughPair
<1>12. BodyOf("do") = s
  BY <1>1, <1>4 DEF BodyOf
<1> QED BY <1>5, <1>9, <1>10, <1>11, <1>12 DEF Body

LEMMA ForBody ==
  /\ Body(BodyOf("for"))
  /\ \A c \in Seq(Opening) : Leads("brackets", BodyOf("for"), c, c)
<1>1. PICK s : s = <<Do("beginScope"), Consume("("), Do("forInit"), Do("forCondition"),
                     Do("forIncrement"), Do("loop"), Do("statement"), Do("endLoop"),
                     Do("endScope")>>
  OBVIOUS
<1>2. /\ Do("beginScope") \in Item
      /\ Consume("(") \in Item
      /\ Do("forInit") \in Item
      /\ Do("forCondition") \in Item
      /\ Do("forIncrement") \in Item
      /\ Do("loop") \in Item
      /\ Do("statement") \in Item
      /\ Do("endLoop") \in Item
      /\ Do("endScope") \in Item
  <2>1. Consume("(") \in Item
    BY ItemsOf DEF Words
  <2>2. {"beginScope", "forInit", "forCondition", "forIncrement", "loop", "statement", "endLoop",
         "endScope"} \subseteq ItemNames \ Binding
    BY DEF ItemNames, Binding
  <2> QED BY <2>1, <2>2, ItemsOf
<1>3. s \in Seq(Item) /\ Len(s) = 9
  BY <1>1, <1>2
<1>4. /\ s[1] = Do("beginScope") /\ s[2] = Consume("(") /\ s[3] = Do("forInit")
      /\ s[4] = Do("forCondition") /\ s[5] = Do("forIncrement") /\ s[6] = Do("loop")
      /\ s[7] = Do("statement") /\ s[8] = Do("endLoop") /\ s[9] = Do("endScope")
  BY <1>1
<1>5. /\ s[1][1] = "beginScope" /\ s[2][1] = "consume" /\ s[3][1] = "forInit"
      /\ s[4][1] = "forCondition" /\ s[5][1] = "forIncrement" /\ s[6][1] = "loop"
      /\ s[7][1] = "statement" /\ s[8][1] = "endLoop" /\ s[9][1] = "endScope"
      /\ s[2][2] = "("
  BY <1>4 DEF Do, Consume, Expression, Precedence
<1>6. /\ \A i \in 1 .. Len(s) : s[i][1] \notin FollowNames
      /\ \A i \in 1 .. Len(s) : i \notin {1, 6, 8, 9} => s[i][1] \notin LevelNames
  BY <1>3, <1>5 DEF LevelNames, FollowNames
<1>7. Loose(s)
  BY <1>6 DEF Loose
<1>8. ASSUME NEW c \in Levels PROVE Leads("levels", s, c, c)
  <2>1. PICK d : d = Effect("levels", Do("beginScope"), c)
    OBVIOUS
  <2>2. PICK e : e = Effect("levels", Do("loop"), d)
    OBVIOUS
  <2>3. c \in Contexts("levels")
    BY DEF Contexts
  <2>4. /\ Allowed("levels", Do("beginScope"), c) /\ d \in Contexts("levels")
        /\ Allowed("levels", Do("endScope"), d) /\ Effect("levels", Do("endScope"), d) = c
    <3>1. Paired("beginScope", "endScope", "scopeDepth")
      BY DEF Paired
    <3> QED BY <3>1, <2>1, UpAndDown
  <2>5. /\ Allowed("levels", Do("loop"), d) /\ e \in Contexts("levels")
        /\ Allowed("levels", Do("endLoop"), e) /\ Effect("levels", Do("endLoop"), e) = d
    <3>1. d \in Levels
      BY <2>4 DEF Contexts
    <3>2. Paired("loop", "endLoop", "loops")
      BY DEF Paired
    <3> QED BY <3>1, <3>2, <2>2, UpAndDown
  <2> DEFINE t == <<c, d, d, d, d, d, e, e, d, c>>
  <2>6. /\ t[1] = c /\ t[2] = d /\ t[3] = d /\ t[4] = d /\ t[5] = d /\ t[6] = d
        /\ t[7] = e /\ t[8] = e /\ t[9] = d /\ t[10] = c
    OBVIOUS
  <2> HIDE DEF t
  <2>7. \A i \in {2, 3, 4, 5, 7} : Plain("levels", s[i])
    <3>1. \A i \in {2, 3, 4, 5, 7} : s[i][1] \notin LevelNames
      BY <1>3, <1>6
    <3> QED BY <3>1, PlainByName
  <2>8. \A i \in 1 .. 10 : t[i] \in Contexts("levels")
    BY <2>3, <2>4, <2>5, <2>6
  <2>9. \A i \in 1 .. 9 :
          Allowed("levels", s[i], t[i]) /\ t[i + 1] = Effect("levels", s[i], t[i])
    <3>1. /\ Allowed("levels", s[1], t[1]) /\ t[2] = Effect("levels", s[1], t[1])
          /\ Allowed("levels", s[6], t[6]) /\ t[7] = Effect("levels", s[6], t[6])
          /\ Allowed("levels", s[8], t[8]) /\ t[9] = Effect("levels", s[8], t[8])
          /\ Allowed("levels", s[9], t[9]) /\ t[10] = Effect("levels", s[9], t[9])
      BY <1>4, <2>1, <2>2, <2>4, <2>5, <2>6
    <3>2. /\ Allowed("levels", s[2], t[2]) /\ t[3] = Effect("levels", s[2], t[2])
          /\ Allowed("levels", s[3], t[3]) /\ t[4] = Effect("levels", s[3], t[3])
          /\ Allowed("levels", s[4], t[4]) /\ t[5] = Effect("levels", s[4], t[4])
          /\ Allowed("levels", s[5], t[5]) /\ t[6] = Effect("levels", s[5], t[5])
          /\ Allowed("levels", s[7], t[7]) /\ t[8] = Effect("levels", s[7], t[7])
      BY <2>4, <2>5, <2>6, <2>7 DEF Plain
    <3>3. \A i \in 1 .. 9 : i \in {1, 2, 3, 4, 5, 6, 7, 8, 9}
      OBVIOUS
    <3> QED BY <3>1, <3>2, <3>3
  <2>10. Passes("levels", s, t) /\ t[1] = c /\ t[Len(s) + 1] = c
    BY <2>6, <2>8, <2>9, <1>3 DEF Passes
  <2> QED BY <2>10 DEF Leads
<1>9. ASSUME NEW c \in Seq(Opening) PROVE Leads("brackets", s, c, c)
  <2>1. \A i \in 1 .. Len(s) : i \notin {2, 5} => s[i][1] \notin BracketNames \cup {"consume"}
    BY <1>3, <1>5 DEF BracketNames
  <2>2. \A i \in 1 .. Len(s) : i \notin {2, 5} => Plain("brackets", s[i])
    BY <2>1, PlainByName
  <2>3. "(" \in Opening /\ Ends(s[5], "(")
    BY <1>5 DEF Ends, Opening, Closing
  <2>4. 2 \in 1 .. Len(s) /\ 5 \in 1 .. Len(s) /\ 2 < 5
    BY <1>3
  <2> QED BY <2>2, <2>3, <2>4, <1>3, <1>4, LeadsThroughPair
<1>10. BodyOf("for") = s
  BY <1>1 DEF BodyOf
<1> QED BY <1>3, <1>7, <1>8, <1>9, <1>10 DEF Body

LEMMA BlockBody ==
  /\ Body(BodyOf("{"))
  /\ \A c \in Seq(Opening) : Leads("brackets", BodyOf("{"), <<"{">> \o c, c)
<1>1. PICK s : s = <<Do("beginScope"), Do("block"), Do("endScope")>>
  OBVIOUS
<1>2. /\ Do("beginScope") \in Item
      /\ Do("block") \in Item
      /\ Do("endScope") \in Item
  BY ItemsOf DEF ItemNames, Binding, Words
<1>3. s \in Seq(Item) /\ Len(s) = 3
  BY <1>1, <1>2
<1>4. /\ s[1] = Do("beginScope") /\ s[2] = Do("block") /\ s[3] = Do("endScope")
  BY <1>1
<1>5. /\ s[1][1] = "beginScope" /\ s[2][1] = "block" /\ s[3][1] = "endScope"
  BY <1>4 DEF Do, Consume, Expression, Precedence
<1>6. /\ \A i \in 1 .. Len(s) : s[i][1] \notin FollowNames
      /\ \A i \in 1 .. Len(s) : i \notin {1, 3} => s[i][1] \notin LevelNames
  BY <1>3, <1>5 DEF LevelNames, FollowNames
<1>7. Loose(s)
  BY <1>6 DEF Loose
<1>8. ASSUME NEW c \in Levels PROVE Leads("levels", s, c, c)
  <2>1. 1 \in 1 .. Len(s) /\ 3 \in 1 .. Len(s) /\ 1 < 3
    BY <1>3
  <2>2. s[1] = Do("beginScope") /\ s[3] = Do("endScope")
    BY <1>4
  <2>3. \A i \in 1 .. Len(s) : i \notin {1, 3} => s[i][1] \notin LevelNames
    BY <1>6
  <2>4. Paired("beginScope", "endScope", "scopeDepth")
    BY DEF Paired
  <2> QED BY <2>1, <2>2, <2>3, <2>4, <1>3, LeadsUpAndDown
<1>9. ASSUME NEW c \in Seq(Opening) PROVE Leads("brackets", s, <<"{">> \o c, c)
  <2>1. \A i \in 1 .. Len(s) : i # 2 => s[i][1] \notin BracketNames \cup {"consume"}
    BY <1>3, <1>5 DEF BracketNames
  <2>2. \A i \in 1 .. Len(s) : i # 2 => Plain("brackets", s[i])
    BY <2>1, PlainByName
  <2>3. "{" \in Opening /\ Ends(s[2], "{")
    BY <1>5 DEF Ends, Opening
  <2>4. PICK d : d = <<"{">> \o c
    OBVIOUS
  <2>5. d \in Contexts("brackets") /\ c \in Contexts("brackets")
    BY <2>3, <2>4, Pushed DEF Contexts
  <2>6. Allowed("brackets", s[2], d) /\ c = Effect("brackets", s[2], d)
    BY <2>3, <2>4, ClosesOne DEF Allowed, Effect
  <2>7. 2 \in 1 .. Len(s)
    BY <1>3
  <2> QED BY <2>2, <2>4, <2>5, <2>6, <2>7, <1>3, LeadsThrough
<1>10. BodyOf("{") = s
  BY <1>1 DEF BodyOf
<1> QED BY <1>3, <1>7, <1>8, <1>9, <1>10 DEF Body

LEMMA Bodies ==
  ASSUME NEW token \in Statements
  PROVE  /\ Body(BodyOf(token))
         /\ token # "{" =>
              token \notin Brackets /\ \A c \in Seq(Opening) : Leads("brackets", BodyOf(token), c, c)
<1>1. token \in {"print", "if", "return", "while", "do", "for", "break", "continue", "{"}
  BY DEF Statements
<1>2. token # "{" => token \notin Brackets
  BY <1>1 DEF Brackets
<1>3. CASE token = "print"
  <2>1. BodyOf(token) = ExpressionStatement
    BY <1>3 DEF BodyOf
  <2> QED BY <2>1, <1>2, SimpleParts, SimpleBody
<1>4. CASE token = "return"
  <2>1. BodyOf(token) = <<Do("return"), Do("returned")>>
    BY <1>4 DEF BodyOf
  <2>2. Simple(<<Do("return"), Do("returned")>>)
    BY SimpleItems, SimpleLists
  <2> QED BY <2>1, <2>2, <1>2, SimpleBody
<1>5. CASE token \in {"break", "continue"}
  <2>1. BodyOf(token) = <<Do("leaveLoop")>>
    BY <1>5 DEF BodyOf
  <2>2. Simple(<<Do("leaveLoop")>>)
    BY SimpleItems, SimpleLists
  <2> QED BY <2>1, <2>2, <1>2, SimpleBody
<1>6. CASE token = "if"
  BY <1>2, <1>6, IfBody
<1>7. CASE token = "while"
  BY <1>2, <1>7, WhileBody
<1>8. CASE token = "do"
  BY <1>2, <1>8, DoBody
<1>9. CASE token = "for"
  BY <1>2, <1>9, ForBody
<1>10. CASE token = "{"
  BY <1>10, BlockBody
<1> QED BY <1>1, <1>3, <1>4, <1>5, <1>6, <1>7, <1>8, <1>9, <1>10

(* What replaces a thing to do without an effect on the levels. *)
LEMMA BodyLevels ==
  ASSUME IInv, todo # <<>>, Head(todo)[1] \notin LevelNames, UNCHANGED context,
         NEW items, Body(items)
  PROVE  LevelsLead(items)
<1>1. context \in Levels
  BY LevelsAre
<1>2. Effect("levels", Head(todo), context) = context
  BY LevelStill DEF Effect
<1>3. Leads("levels", items, context, context)
  BY <1>1 DEF Body
<1> QED BY <1>2, <1>3 DEF LevelsLead

LEMMA InnerStep ==
  ASSUME IInv, StatementInner
  PROVE  IInv' /\ Once
<1>1. At("statementInner") /\ UNCHANGED context
  BY DEF StatementInner
<1>2. todo # <<>> /\ Head(todo)[1] = "statementInner" /\ ~ At("error")
  BY <1>1, Head1 DEF At
<1>3. "statementInner" \notin LevelNames \cup BracketNames \cup {"consume", "error"}
  BY DEF LevelNames, BracketNames
<1>4. CASE current \in Statements /\ Take(BodyOf(current))
  <2>1. PICK items : items = BodyOf(current)
    OBVIOUS
  <2>2. /\ Body(items)
        /\ current # "{" =>
             current \notin Brackets /\ \A c \in Seq(Opening) : Leads("brackets", items, c, c)
        /\ current = "{" => \A c \in Seq(Opening) : Leads("brackets", items, <<"{">> \o c, c)
    BY <1>4, <2>1, Bodies, BlockBody
  <2>3. items \in Seq(Item) /\ Loose(items)
    BY <2>2 DEF Body
  <2>4. Take(items) /\ Then(items) /\ Reported
    BY <1>4, <2>1, Taken, TakeReports
  <2>5. LevelsLead(items)
    BY <2>2, <1>1, <1>2, <1>3, BodyLevels
  <2>6. Follows(todo')
    BY <2>3, <2>4, <1>2, FollowsStay
  <2>7. ASSUME ~ hadError' PROVE BracketsLead(items)
    <3>1. ~ hadError
      BY <2>4, <2>7 DEF Reported
    <3>2. brackets \in Seq(Opening)
      BY <3>1, <1>2, BracketsAre
    <3>3. CASE current = "{"
      <4>1. "{" \in Opening
        BY DEF Opening
      <4>2. brackets' = <<"{">> \o brackets
        BY <2>4, <2>7, <3>3, <4>1, Taken
      <4>3. Head(todo)[1] \notin BracketNames \cup {"consume"}
        BY <1>2, <1>3
      <4>4. \A c \in Seq(Opening) : Leads("brackets", items, <<"{">> \o c, c)
        BY <2>2, <3>3
      <4> QED BY <4>1, <4>2, <4>3, <4>4, <3>1, <1>2, ClosingLeads
    <3>4. CASE current # "{"
      <4>1. current \notin Brackets
        BY <2>2, <3>4
      <4>2. brackets' = brackets
        BY <2>4, <2>7, <4>1, Taken
      <4>3. Leads("brackets", items, brackets, brackets)
        BY <2>2, <3>2, <3>4
      <4>4. Effect("brackets", Head(todo), brackets) = brackets
        BY <1>2, <1>3, BracketStill DEF Effect, BracketEffect
      <4> QED BY <4>2, <4>3, <4>4 DEF BracketsLead
    <3> QED BY <3>3, <3>4
  <2> QED BY <2>3, <2>4, <2>5, <2>6, <2>7, <1>2, StepIs
<1>5. CASE Go(ExpressionStatement)
  <2>1. PICK items : items = ExpressionStatement
    OBVIOUS
  <2>2. Simple(items) /\ Go(items)
    BY <1>5, <2>1, SimpleParts
  <2>3. items # <<>> /\ items[1][1] \in StaleNames
    BY <2>1 DEF ExpressionStatement, Expression, Precedence, StaleNames
  <2>4. Then(items) /\ Quiet /\ items \in Seq(Item)
    BY <2>2 DEF Go, Simple
  <2>5. Reported
    BY <2>3, <2>4, <1>2, StaleReports
  <2> QED BY <2>2, <2>5, <1>1, <1>3, SimpleStep
<1> QED BY <1>4, <1>5 DEF StatementInner

LEMMA Joined ==
  ASSUME NEW s, s \in Seq(Item), NEW u, u \in Seq(Item)
  PROVE  /\ s \o u \in Seq(Item) /\ Len(s \o u) = Len(s) + Len(u)
         /\ \A i \in 1 .. Len(s) : (s \o u)[i] = s[i]
         /\ \A i \in 1 .. Len(u) : (s \o u)[Len(s) + i] = u[i]
OBVIOUS

(* The first thing of a list. *)
LEMMA FirstOf ==
  ASSUME NEW items, items \in Seq(Item), items # <<>>, Then(items), todo \in Seq(Item), todo # <<>>
  PROVE  todo' # <<>> /\ Head(todo') = items[1]
<1>1. Tail(todo) \in Seq(Item) /\ todo' = items \o Tail(todo)
  BY DEF Then
<1>2. Len(items) \in Nat /\ Len(items) # 0
  BY EmptySeq
<1>3. Len(todo') = Len(items) + Len(Tail(todo)) /\ Len(Tail(todo)) \in Nat
  BY <1>1
<1>4. todo' # <<>> /\ todo'[1] = items[1]
  BY <1>1, <1>2, <1>3
<1> QED BY <1>4

(* What follows in a list follows when more is to be done after it. *)
LEMMA FollowsStill ==
  ASSUME NEW s, s \in Seq(Item), NEW u, u \in Seq(Item), NEW i, i \in 1 .. Len(s), FollowsAt(s, i)
  PROVE  FollowsAt(s \o u, i)
<1>1. PICK m \in Nat, n \in Nat : m = Len(s) /\ n = Len(s) + Len(u)
  OBVIOUS
<1>2. PICK r : r = s \o u
  OBVIOUS
<1>3. Len(r) = n /\ m <= n /\ \A k \in 1 .. m : r[k] = s[k]
  BY <1>1, <1>2, Joined
<1>4. i \in Nat /\ i \in 1 .. m
  BY <1>1
<1>5. \A k \in 1 .. 4 : i + k <= m => i + k <= n /\ r[i + k] = s[i + k]
  <2> SUFFICES ASSUME NEW k \in 1 .. 4, i + k <= m
               PROVE  i + k <= n /\ r[i + k] = s[i + k]
    OBVIOUS
  <2>1. i + k \in 1 .. m
    BY <1>4
  <2> QED BY <2>1, <1>3
<1>6. GoesOn(s, m, i, r, n, i)
  BY <1>1, <1>3, <1>4, <1>5 DEF GoesOn
<1>7. FollowsAt(r, i)
  BY <1>1, <1>4, <1>6, FollowsShift
<1> QED BY <1>2, <1>7

LEMMA FollowsWithin ==
  ASSUME NEW s, s \in Seq(Item), Follows(s), NEW u, u \in Seq(Item), Follows(u)
  PROVE  Follows(s \o u)
<1>1. \A i \in 1 .. Len(s) : FollowsAt(s \o u, i)
  BY FollowsStill DEF Follows
<1> QED BY <1>1, FollowsOn

LEMMA BlockStep ==
  ASSUME IInv, Block
  PROVE  IInv' /\ Once
<1>1. At("block") /\ UNCHANGED context
  BY DEF Block
<1>2. /\ todo # <<>> /\ Head(todo)[1] = "block" /\ ~ At("error") /\ todo \in Seq(Item)
      /\ Follows(todo)
  BY <1>1, Head1 DEF At, IInv
<1>3. "block" \notin LevelNames \cup {"error"} /\ "{" \in Opening /\ Closing("{") = "}"
  BY DEF LevelNames, Opening, Closing
<1>4. Ends(Head(todo), "{")
  BY <1>2 DEF Ends
<1>5. CASE current \in {"}", "eof"} /\ Go(<<Consume("}")>>)
  <2>1. PICK item : item = Consume("}")
    OBVIOUS
  <2>2. ClosesIn(<<item>>, "{")
    BY <2>1, <1>3, ClosingItems
  <2>3. Go(<<item>>) /\ Then(<<item>>)
    BY <1>5, <2>1 DEF Go
  <2>4. <<item>> \in Seq(Item) /\ <<item>> # <<>> /\ <<item>>[1] = item
    BY <2>2 DEF ClosesIn
  <2>5. Head(todo') = Consume("}")
    BY <2>1, <2>3, <2>4, <1>2, FirstOf
  <2>6. /\ panicMode' = panicMode /\ hadError' = hadError /\ current' = current
        /\ brackets' = brackets
    BY <2>3 DEF Go, Quiet, text, status
  <2>7. current = "eof" \/ (Head(todo') = Consume("}") /\ current' = "}")
    BY <2>5, <2>6, <1>5
  <2>8. Reported
    BY <2>6, <2>7 DEF Reported, StaleInv, Stale, Once, IInv
  <2> QED BY <2>2, <2>3, <2>6, <2>8, <1>1, <1>3, <1>4, ClosingStep
<1>6. CASE Go(<<Do("declaration"), Do("block")>>)
  <2>1. PICK a, b : a = Do("declaration") /\ b = Do("block")
    OBVIOUS
  <2>2. PICK items : items = <<a, b>>
    OBVIOUS
  <2>3. a \in Item /\ b \in Item /\ a[1] = "declaration" /\ b[1] = "block"
    BY <2>1, ItemsOf DEF ItemNames, Binding
  <2>4. /\ items \in Seq(Item) /\ Len(items) = 2 /\ items[1] = a /\ items[2] = b
        /\ items # <<>>
    BY <2>2, <2>3
  <2>5. Then(items) /\ Quiet
    BY <1>6, <2>1, <2>2 DEF Go
  <2>6. AllPlain("levels", items)
    <3>1. a[1] \notin LevelNames /\ b[1] \notin LevelNames
      BY <2>3 DEF LevelNames
    <3> QED BY <3>1, <2>4, PlainByName DEF AllPlain
  <2>7. LevelsLead(items)
    BY <2>4, <2>6, <1>1, <1>2, <1>3, LevelsStay
  <2>8. Reported
    BY <2>3, <2>4, <2>5, <1>2, StaleReports DEF StaleNames
  <2>9. Follows(todo')
    <3>1. PICK u : u = Tail(todo)
      OBVIOUS
    <3>2. u \in Seq(Item) /\ Follows(u)
      BY <3>1, <1>2, FollowsTail
    <3>3. FollowsAt(items, 1) /\ FollowsAt(items, 2)
      BY <2>3, <2>4 DEF FollowsAt
    <3>4. Follows(items)
      BY <3>3, <2>4 DEF Follows
    <3>5. Follows(items \o u)
      BY <3>2, <3>4, <2>4, FollowsWithin
    <3> QED BY <3>1, <3>5, <2>5 DEF Then
  <2>10. hadError' \/ BracketsLead(items)
    <3>1. brackets' = brackets /\ hadError' = hadError
      BY <2>5 DEF Quiet, text, status
    <3>2. ASSUME NEW c \in Seq(Opening) PROVE Leads("brackets", items, <<"{">> \o c, c)
      <4>1. PICK d : d = <<"{">> \o c
        OBVIOUS
      <4>2. d \in Contexts("brackets") /\ c \in Contexts("brackets")
        BY <4>1, <1>3, Pushed DEF Contexts
      <4>3. Ends(b, "{")
        BY <2>3 DEF Ends
      <4>4. Allowed("brackets", b, d) /\ c = Effect("brackets", b, d)
        BY <4>1, <4>3, <1>3, ClosesOne DEF Allowed, Effect
      <4>5. Plain("brackets", a)
        BY <2>3, PlainByName DEF BracketNames
      <4>6. 2 \in 1 .. Len(items) /\ \A i \in 1 .. Len(items) : i # 2 => i = 1
        BY <2>4
      <4>7. Leads("brackets", items, d, c)
        BY <4>2, <4>4, <4>5, <4>6, <2>4, LeadsThrough
      <4> QED BY <4>1, <4>7
    <3> QED BY <3>1, <3>2, <1>2, <1>3, <1>4, ClosingLeads
  <2> QED BY <2>4, <2>5, <2>7, <2>8, <2>9, <2>10, <1>2, StepIs
<1> QED BY <1>5, <1>6 DEF Block

-----------------------------------------------------------------------------
(* Object literals.                                                        *)

ObjectNames == {"property", "moreProperties", "endObject"}
ObjectLeft(c) == <<c[1], Adjusted(c[2], "objects", -1), c[3]>>

(* A list that leaves an object, and one that closes its brace. *)
Leaves(items) ==
  items \in Seq(Item) /\ Loose(items) /\ \A c \in Levels : Leads("levels", items, c, ObjectLeft(c))
EndsBrace(items) == \A c \in Seq(Opening) : Leads("brackets", items, <<"{">> \o c, c)

LEMMA ObjectLeftIs ==
  ASSUME NEW c, c \in Levels
  PROVE  ObjectLeft(c) \in Levels
<1>1. /\ c[1] \in Int /\ c[2] \in Seq(Compiler) \ {<<>>} /\ c[3] \in Seq(BOOLEAN)
  BY DEF Levels
<1>2. PICK n \in Int : n = -1
  <2>1. -1 \in Int
    OBVIOUS
  <2> QED BY <2>1
<1>3. Adjusted(c[2], "objects", n) \in Seq(Compiler) \ {<<>>}
  BY <1>1, AdjustedIs
<1> QED BY <1>1, <1>2, <1>3 DEF ObjectLeft, Levels

LEMMA LeavesOne ==
  ASSUME NEW s, s \in Seq(Item), NEW j, j \in 1 .. Len(s), s[j][1] \in ObjectNames,
         \A i \in 1 .. Len(s) : i # j => s[i][1] \notin LevelNames \cup FollowNames
  PROVE  Leaves(s)
<1>1. Loose(s)
  <2>1. s[j][1] \notin FollowNames
    BY DEF ObjectNames, FollowNames
  <2> QED BY <2>1 DEF Loose
<1>2. ASSUME NEW c \in Levels PROVE Leads("levels", s, c, ObjectLeft(c))
  <2>1. \A i \in 1 .. Len(s) : i # j => Plain("levels", s[i])
    BY PlainByName
  <2>2. Effect("levels", s[j], c) = ObjectLeft(c)
    BY LevelEffectIs DEF Effect, ObjectLeft, ObjectNames
  <2>3. Allowed("levels", s[j], c)
    BY DEF Allowed, LevelAllowed, ObjectNames
  <2>4. c \in Contexts("levels") /\ ObjectLeft(c) \in Contexts("levels")
    BY ObjectLeftIs DEF Contexts
  <2> QED BY <2>1, <2>2, <2>3, <2>4, LeadsThrough
<1> QED BY <1>1, <1>2 DEF Leaves

LEMMA EndsBraceOne ==
  ASSUME NEW s, s \in Seq(Item), NEW j, j \in 1 .. Len(s), Ends(s[j], "{"),
         \A i \in 1 .. Len(s) : i # j => Plain("brackets", s[i])
  PROVE  EndsBrace(s)
<1>1. "{" \in Opening
  BY DEF Opening
<1>2. ASSUME NEW c \in Seq(Opening) PROVE Leads("brackets", s, <<"{">> \o c, c)
  <2>1. PICK d : d = <<"{">> \o c
    OBVIOUS
  <2>2. d \in Contexts("brackets") /\ c \in Contexts("brackets")
    BY <2>1, <1>1, Pushed DEF Contexts
  <2>3. Allowed("brackets", s[j], d) /\ c = Effect("brackets", s[j], d)
    BY <2>1, <1>1, ClosesOne DEF Allowed, Effect
  <2>4. Leads("brackets", s, d, c)
    BY <2>2, <2>3, LeadsThrough
  <2> QED BY <2>1, <2>4
<1> QED BY <1>2 DEF EndsBrace

LEMMA ObjectLists ==
  /\ Leaves(<<Do("property")>>) /\ EndsBrace(<<Do("property")>>)
  /\ Leaves(<<Consume("}"), Do("endObject")>>) /\ EndsBrace(<<Consume("}"), Do("endObject")>>)
  /\ Leaves(<<Consume(":"), Expression, Do("moreProperties")>>)
  /\ EndsBrace(<<Consume(":"), Expression, Do("moreProperties")>>)
  /\ Leaves(<<Do("endObject")>>)
<1>1. /\ Do("property") \in Item /\ Do("property")[1] = "property"
      /\ Do("endObject") \in Item /\ Do("endObject")[1] = "endObject"
      /\ Do("moreProperties") \in Item /\ Do("moreProperties")[1] = "moreProperties"
  BY ItemsOf DEF ItemNames, Binding
<1>2. /\ Consume("}") \in Item /\ Consume("}")[1] = "consume" /\ Consume("}")[2] = "}"
      /\ Consume(":") \in Item /\ Consume(":")[1] = "consume"
  BY ItemsOf DEF Words
<1>3. SimpleItem(Consume(":")) /\ SimpleItem(Expression)
  BY SimpleItems
<1>4. "consume" \notin LevelNames \cup FollowNames /\ Closing("{") = "}"
  BY DEF LevelNames, FollowNames, Closing
<1>5. ASSUME NEW item, item \in Item, item[1] \in ObjectNames
      PROVE  /\ Leaves(<<item>>)
             /\ item[1] # "endObject" => EndsBrace(<<item>>)
  <2>1. <<item>> \in Seq(Item) /\ Len(<<item>>) = 1 /\ <<item>>[1] = item
    BY <1>5
  <2>2. 1 \in 1 .. Len(<<item>>) /\ \A i \in 1 .. Len(<<item>>) : i = 1
    BY <2>1
  <2>3. Leaves(<<item>>)
    BY <2>1, <2>2, <1>5, LeavesOne
  <2>4. item[1] # "endObject" => Ends(item, "{")
    BY <1>5 DEF Ends, ObjectNames
  <2> QED BY <2>1, <2>2, <2>3, <2>4, EndsBraceOne
<1>6. ASSUME NEW a, a = Consume("}"), NEW b, b = Do("endObject")
      PROVE  Leaves(<<a, b>>) /\ EndsBrace(<<a, b>>)
  <2>1. PICK s : s = <<a, b>>
    OBVIOUS
  <2>2. s \in Seq(Item) /\ Len(s) = 2 /\ s[1] = a /\ s[2] = b
    <3>1. a \in Item /\ b \in Item
      BY <1>1, <1>2, <1>6
    <3> QED BY <3>1, <2>1
  <2>3. a[1] = "consume" /\ a[2] = "}" /\ b[1] = "endObject"
    BY <1>1, <1>2, <1>6
  <2>4. 1 \in 1 .. Len(s) /\ 2 \in 1 .. Len(s) /\ \A i \in 1 .. Len(s) : i = 1 \/ i = 2
    BY <2>2
  <2>5. Leaves(s)
    <3>1. \A i \in 1 .. Len(s) : i # 2 => s[i][1] \notin LevelNames \cup FollowNames
      BY <2>2, <2>3, <2>4, <1>4
    <3>2. s[2][1] \in ObjectNames
      BY <2>2, <2>3 DEF ObjectNames
    <3> QED BY <3>1, <3>2, <2>2, <2>4, LeavesOne
  <2>6. Ends(s[1], "{")
    BY <2>2, <2>3, <1>4 DEF Ends
  <2>7. Plain("brackets", s[2])
    BY <2>2, <2>3, PlainByName DEF BracketNames
  <2>8. EndsBrace(s)
    BY <2>2, <2>4, <2>6, <2>7, EndsBraceOne
  <2> QED BY <2>1, <2>5, <2>8
<1>7. ASSUME NEW a, a = Consume(":"), NEW b, b = Expression, NEW d, d = Do("moreProperties")
      PROVE  Leaves(<<a, b, d>>) /\ EndsBrace(<<a, b, d>>)
  <2>1. PICK s : s = <<a, b, d>>
    OBVIOUS
  <2>2. SimpleItem(a) /\ SimpleItem(b) /\ d \in Item /\ d[1] = "moreProperties"
    BY <1>1, <1>3, <1>7
  <2>3. a \in Item /\ b \in Item
    BY <2>2 DEF SimpleItem
  <2>4. s \in Seq(Item) /\ Len(s) = 3 /\ s[1] = a /\ s[2] = b /\ s[3] = d
    BY <2>1, <2>2, <2>3
  <2>5. 3 \in 1 .. Len(s) /\ \A i \in 1 .. Len(s) : i # 3 => i = 1 \/ i = 2
    BY <2>4
  <2>6. \A i \in 1 .. Len(s) : i # 3 => SimpleItem(s[i])
    BY <2>2, <2>4, <2>5
  <2>7. \A i \in 1 .. Len(s) : i # 3 => s[i][1] \notin LevelNames \cup FollowNames
    BY <2>6 DEF SimpleItem
  <2>8. Leaves(s)
    BY <2>2, <2>4, <2>5, <2>7, LeavesOne DEF ObjectNames
  <2>9. Ends(s[3], "{")
    BY <2>2, <2>4 DEF Ends
  <2>10. \A i \in 1 .. Len(s) : i # 3 => Plain("brackets", s[i])
    BY <2>6, SimpleIsPlain
  <2>11. EndsBrace(s)
    BY <2>4, <2>5, <2>9, <2>10, EndsBraceOne
  <2> QED BY <2>1, <2>8, <2>11
<1>8. Leaves(<<Do("property")>>) /\ EndsBrace(<<Do("property")>>)
  BY <1>1, <1>5 DEF ObjectNames
<1>9. Leaves(<<Do("endObject")>>)
  BY <1>1, <1>5 DEF ObjectNames
<1> QED BY <1>6, <1>7, <1>8, <1>9

(* A step inside of an object. *)
LEMMA ObjectStep ==
  ASSUME IInv, NEW name, At(name), name \in {"objectLiteral", "property", "moreProperties"},
         NEW items, Leaves(items), Then(items), Reported,
         \/ name # "objectLiteral" /\ UNCHANGED context
         \/ name = "objectLiteral" /\ context' \in Levels /\ ObjectLeft(context') = context,
         hadError' \/ (EndsBrace(items) /\ brackets' = brackets)
  PROVE  IInv' /\ Once
<1>1. todo # <<>> /\ Head(todo)[1] = name /\ ~ At("error")
  BY Head1 DEF At
<1>2. items \in Seq(Item) /\ Loose(items)
  BY DEF Leaves
<1>3. LevelsLead(items)
  <2>1. context \in Levels
    BY <1>1, LevelsAre
  <2>2. CASE name # "objectLiteral" /\ UNCHANGED context
    <3>1. LevelEffect(Head(todo), context) = ObjectLeft(context)
      BY <2>2, <1>1, LevelEffectIs DEF ObjectLeft
    <3>2. Leads("levels", items, context, ObjectLeft(context))
      BY <2>1 DEF Leaves
    <3> QED BY <3>1, <3>2, <2>2 DEF LevelsLead, Effect
  <2>3. CASE name = "objectLiteral" /\ context' \in Levels /\ ObjectLeft(context') = context
    <3>1. "objectLiteral" \notin LevelNames
      BY DEF LevelNames
    <3>2. Effect("levels", Head(todo), context) = context
      BY <3>1, <2>3, <1>1, LevelStill DEF Effect
    <3>3. Leads("levels", items, context', ObjectLeft(context'))
      BY <2>3 DEF Leaves
    <3> QED BY <3>2, <3>3, <2>3 DEF LevelsLead
  <2> QED BY <2>2, <2>3
<1>4. Follows(todo')
  BY <1>1, <1>2, FollowsStay
<1>5. ASSUME ~ hadError' PROVE BracketsLead(items)
  <2>1. ~ hadError
    BY <1>5 DEF Reported
  <2>2. "{" \in Opening
    BY DEF Opening
  <2>3. Ends(Head(todo), "{")
    BY <1>1 DEF Ends
  <2>4. \A c \in Seq(Opening) : Leads("brackets", items, <<"{">> \o c, c)
    BY <1>5 DEF EndsBrace
  <2> QED BY <2>1, <2>2, <2>3, <2>4, <1>1, <1>5, ClosingLeads
<1> QED BY <1>1, <1>2, <1>3, <1>4, <1>5, StepIs

LEMMA ObjectEntered ==
  ASSUME IInv, todo # <<>>,
         compilers' = WithCurrent([Current EXCEPT !["objects"] = Current["objects"] + 1]),
         UNCHANGED <<parseDepth, classes>>
  PROVE  context' \in Levels /\ ObjectLeft(context') = context
<1>1. /\ parseDepth \in Int /\ compilers \in Seq(Compiler) \ {<<>>} /\ classes \in Seq(BOOLEAN)
  BY LevelsAre
<1>2. compilers' = Adjusted(compilers, "objects", 1)
  BY <1>1, CountingIs DEF WithCurrent, Current
<1>3. /\ compilers' \in Seq(Compiler) \ {<<>>}
      /\ Adjusted(compilers', "objects", -1) = compilers
  <2>1. PICK n \in Int : n = 1
    OBVIOUS
  <2>2. /\ Adjusted(compilers, "objects", n) \in Seq(Compiler) \ {<<>>}
        /\ Adjusted(Adjusted(compilers, "objects", n), "objects", -n) = compilers
    BY <1>1, AdjustedIs
  <2>3. n = 1 /\ -n = -1
    BY <2>1
  <2> QED BY <2>2, <2>3, <1>2
<1>4. context' = <<parseDepth, compilers', classes>>
  BY DEF context
<1>5. context' \in Levels
  BY <1>1, <1>3, <1>4 DEF Levels
<1>6. /\ context'[1] = parseDepth /\ context'[2] = compilers' /\ context'[3] = classes
  BY <1>4
<1>7. ObjectLeft(context') = <<parseDepth, compilers, classes>>
  BY <1>3, <1>6 DEF ObjectLeft
<1> QED BY <1>5, <1>7 DEF context

LEMMA ObjectSteps ==
  ASSUME IInv
  PROVE  ObjectLiteral \/ Property \/ MoreProperties => IInv' /\ Once
<1>1. {"objectLiteral", "property", "moreProperties"} \cap
        (StaleNames \cup {"consume", "error"}) = {}
  BY DEF StaleNames
<1>2. ASSUME NEW name, At(name) PROVE todo # <<>> /\ Head(todo)[1] = name
  BY <1>2, Head1
<1>3. ASSUME NEW items, Go(items)
      PROVE  Then(items) /\ brackets' = brackets /\ hadError' = hadError
  BY <1>3 DEF Go, Quiet, text, status
<1>4. ASSUME ObjectLiteral PROVE IInv' /\ Once
  <2>1. At("objectLiteral") /\ UNCHANGED <<parseDepth, classes>>
    BY <1>4 DEF ObjectLiteral
  <2>2. todo # <<>> /\ Head(todo)[1] = "objectLiteral" /\ ~ At("error")
    BY <2>1, <1>2 DEF At
  <2>3. CASE Fail(<<>>) /\ UNCHANGED compilers
    <3>1. UNCHANGED context
      BY <2>1, <2>3 DEF context
    <3>2. Reported /\ hadError'
      BY <2>2, <2>3, <1>1, FailReports
    <3>3. <<>> \in Seq(Item) /\ Loose(<<>>) /\ AllPlain("levels", <<>>) /\ Then(<<>>)
      BY <2>3, SimpleParts, SimpleList DEF Fail
    <3>4. "objectLiteral" \notin LevelNames
      BY DEF LevelNames
    <3>5. LevelsLead(<<>>) /\ Follows(todo')
      BY <3>1, <3>3, <3>4, <2>2, LevelsStay, FollowsStay
    <3> QED BY <3>2, <3>3, <3>5, <2>2, StepIs
  <2>4. CASE /\ compilers' = WithCurrent([Current EXCEPT !["objects"] = Current["objects"] + 1])
             /\ \/ Go(<<Do("property")>>)
                \/ Go(<<Consume("}"), Do("endObject")>>)
    <3>1. context' \in Levels /\ ObjectLeft(context') = context
      BY <2>1, <2>2, <2>4, ObjectEntered
    <3>2. PICK items : /\ Go(items) /\ Leaves(items) /\ EndsBrace(items)
      BY <2>4, ObjectLists
    <3>3. Reported
      BY <3>2, <2>2, <1>1, GoReports
    <3>4. Then(items) /\ brackets' = brackets
      BY <3>2, <1>3
    <3> QED BY <3>1, <3>2, <3>3, <3>4, <2>1, ObjectStep
  <2> QED BY <2>3, <2>4, <1>4 DEF ObjectLiteral
<1>5. ASSUME Property PROVE IInv' /\ Once
  <2>1. PICK items : items = <<Consume(":"), Expression, Do("moreProperties")>>
    OBVIOUS
  <2>2. Leaves(items) /\ EndsBrace(items)
    BY <2>1, ObjectLists
  <2>3. /\ At("property") /\ UNCHANGED context
        /\ \/ Take(items) /\ current \in {"identifier", "string"}
           \/ Fail(items)
    BY <1>5, <2>1 DEF Property
  <2>4. todo # <<>> /\ Head(todo)[1] = "property"
    BY <2>3, <1>2
  <2>5. Then(items)
    BY <2>3 DEF Take, Fail
  <2>6. Reported
    BY <2>3, <2>4, <1>1, FailReports, TakeReports
  <2>7. hadError' \/ brackets' = brackets
    <3>1. CASE Fail(items)
      BY <3>1 DEF Fail, Report
    <3>2. CASE Take(items) /\ current \in {"identifier", "string"}
      <4>1. current \notin Brackets
        BY <3>2 DEF Brackets
      <4> QED BY <4>1, <3>2, Taken
    <3> QED BY <3>1, <3>2, <2>3
  <2> QED BY <2>2, <2>3, <2>5, <2>6, <2>7, ObjectStep
<1>6. ASSUME MoreProperties PROVE IInv' /\ Once
  <2>1. /\ At("moreProperties") /\ UNCHANGED context
        /\ \/ panicMode /\ Go(<<Do("endObject")>>)
           \/ current = "," /\ Take(<<Do("property")>>)
           \/ Go(<<Consume("}"), Do("endObject")>>)
    BY <1>6 DEF MoreProperties, Matching
  <2>2. todo # <<>> /\ Head(todo)[1] = "moreProperties"
    BY <2>1, <1>2
  <2>6. ASSUME NEW items, Leaves(items), Then(items), Reported,
               hadError' \/ (EndsBrace(items) /\ brackets' = brackets)
        PROVE  IInv' /\ Once
    <3>1. At("moreProperties") /\ UNCHANGED context
      BY <2>1
    <3> QED BY <3>1, <2>6, ObjectStep
  <2>3. CASE panicMode /\ Go(<<Do("endObject")>>)
    <3>1. PICK items : items = <<Do("endObject")>>
      OBVIOUS
    <3>2. Leaves(items) /\ Go(items)
      BY <3>1, <2>3, ObjectLists
    <3>3. Reported
      BY <3>2, <2>2, <1>1, GoReports
    <3>4. hadError'
      BY <3>2, <2>3, <1>3 DEF IInv
    <3> QED BY <3>2, <3>3, <3>4, <2>6, <1>3
  <2>4. CASE current = "," /\ Take(<<Do("property")>>)
    <3>1. PICK items : items = <<Do("property")>>
      OBVIOUS
    <3>2. Leaves(items) /\ EndsBrace(items) /\ Take(items)
      BY <3>1, <2>4, ObjectLists
    <3>3. Reported /\ Then(items)
      BY <3>2, TakeReports, Taken
    <3>4. current \notin Brackets
      BY <2>4 DEF Brackets
    <3>5. hadError' \/ brackets' = brackets
      BY <3>2, <3>4, Taken
    <3> QED BY <3>2, <3>3, <3>5, <2>6
  <2>5. CASE Go(<<Consume("}"), Do("endObject")>>)
    <3>1. PICK items : items = <<Consume("}"), Do("endObject")>>
      OBVIOUS
    <3>2. Leaves(items) /\ EndsBrace(items) /\ Go(items)
      BY <3>1, <2>5, ObjectLists
    <3>3. Reported
      BY <3>2, <2>2, <1>1, GoReports
    <3> QED BY <3>2, <3>3, <2>6, <1>3
  <2> QED BY <2>1, <2>3, <2>4, <2>5
<1> QED BY <1>4, <1>5, <1>6
-----------------------------------------------------------------------------
(* Functions.                                                              *)

FunctionBody ==
  <<Consume("("), Do("parameters"), Consume(")"), Consume("{"), Do("block"), Do("endCompiler")>>

LEMMA FunctionBodyIs ==
  /\ FunctionBody \in Seq(Item) /\ Len(FunctionBody) = 6 /\ Loose(FunctionBody)
  /\ FunctionBody[1] = Consume("(") /\ FunctionBody[2][1] = "parameters"
  /\ FunctionBody[3] = Consume(")") /\ FunctionBody[4] = Consume("{")
  /\ FunctionBody[5][1] = "block" /\ FunctionBody[6][1] = "endCompiler"
  /\ \A i \in 1 .. 6 : i # 6 => Plain("levels", FunctionBody[i])
<1>1. PICK s : s = FunctionBody
  OBVIOUS
<1>2. /\ Consume("(") \in Item /\ Do("parameters") \in Item /\ Consume(")") \in Item
      /\ Consume("{") \in Item /\ Do("block") \in Item /\ Do("endCompiler") \in Item
  BY ItemsOf DEF ItemNames, Binding, Words
<1>0. s = <<Consume("("), Do("parameters"), Consume(")"), Consume("{"), Do("block"),
             Do("endCompiler")>>
  BY <1>1 DEF FunctionBody
<1>3. s \in Seq(Item) /\ Len(s) = 6
  <2>1. PICK a, b, c, d, e, f :
          /\ a = Consume("(") /\ b = Do("parameters") /\ c = Consume(")")
          /\ d = Consume("{") /\ e = Do("block") /\ f = Do("endCompiler")
    OBVIOUS
  <2>2. a \in Item /\ b \in Item /\ c \in Item /\ d \in Item /\ e \in Item /\ f \in Item
    BY <2>1, <1>2
  <2>3. s = <<a, b, c, d, e, f>>
    BY <2>1, <1>0
  <2> QED BY <2>2, <2>3
<1>4. /\ s[1] = Consume("(") /\ s[2] = Do("parameters") /\ s[3] = Consume(")")
      /\ s[4] = Consume("{") /\ s[5] = Do("block") /\ s[6] = Do("endCompiler")
  BY <1>0
<1>5. /\ s[1][1] = "consume" /\ s[2][1] = "parameters" /\ s[3][1] = "consume"
      /\ s[4][1] = "consume" /\ s[5][1] = "block" /\ s[6][1] = "endCompiler"
  <2>1. \A name : Do(name)[1] = name
    BY DEF Do
  <2> QED BY <2>1, <1>4, ConsumeIs
<1>6. \A i \in 1 .. 6 : s[i][1] \notin FollowNames
  BY <1>5 DEF FollowNames
<1>7. \A i \in 1 .. 6 : i # 6 => s[i][1] \notin LevelNames
  BY <1>5 DEF LevelNames
<1>8. Loose(s)
  BY <1>3, <1>6 DEF Loose
<1>9. \A i \in 1 .. 6 : i # 6 => Plain("levels", s[i])
  BY <1>7, PlainByName
<1> QED BY <1>1, <1>3, <1>4, <1>5, <1>8, <1>9

LEMMA FunctionBrackets ==
  ASSUME NEW c, c \in Seq(Opening)
  PROVE  Leads("brackets", FunctionBody, c, c)
<1>1. PICK s : s = FunctionBody
  OBVIOUS
<1>2. PICK d, e : d = <<"(">> \o c /\ e = <<"{">> \o c
  OBVIOUS
<1>3. "(" \in Opening /\ "{" \in Opening /\ Closing("(") = ")"
  BY DEF Opening, Closing
<1>4. c \in Contexts("brackets") /\ d \in Contexts("brackets") /\ e \in Contexts("brackets")
  BY <1>2, <1>3, Pushed DEF Contexts
<1>5. Allowed("brackets", s[1], c) /\ d = Effect("brackets", s[1], c)
  BY <1>1, <1>2, <1>3, OpensOne, FunctionBodyIs DEF Allowed, Effect
<1>6. Allowed("brackets", s[2], d) /\ d = Effect("brackets", s[2], d)
  <2>1. s[2][1] \notin BracketNames \cup {"consume"}
    BY <1>1, FunctionBodyIs DEF BracketNames
  <2>2. Plain("brackets", s[2])
    BY <2>1, PlainByName
  <2> QED BY <2>2, <1>4 DEF Plain
<1>7. Allowed("brackets", s[3], d) /\ c = Effect("brackets", s[3], d)
  <2>1. Ends(s[3], "(")
    <3>1. s[3] = Consume(")")
      BY <1>1, FunctionBodyIs
    <3>2. s[3][1] = "consume" /\ s[3][2] = ")"
      BY <3>1, ConsumeIs
    <3> QED BY <3>2, <1>3 DEF Ends
  <2> QED BY <2>1, <1>2, <1>3, ClosesOne DEF Allowed, Effect
<1>8. Allowed("brackets", s[4], c) /\ e = Effect("brackets", s[4], c)
  BY <1>1, <1>2, <1>3, OpensOne, FunctionBodyIs DEF Allowed, Effect
<1>9. Allowed("brackets", s[5], e) /\ c = Effect("brackets", s[5], e)
  <2>1. Ends(s[5], "{")
    BY <1>1, FunctionBodyIs DEF Ends
  <2> QED BY <2>1, <1>2, <1>3, ClosesOne DEF Allowed, Effect
<1>10. Allowed("brackets", s[6], c) /\ c = Effect("brackets", s[6], c)
  <2>1. s[6][1] \notin BracketNames \cup {"consume"}
    BY <1>1, FunctionBodyIs DEF BracketNames
  <2>2. Plain("brackets", s[6])
    BY <2>1, PlainByName
  <2> QED BY <2>2, <1>4 DEF Plain
<1>11. PICK t : t = <<c, d, d, c, e, c, c>>
  OBVIOUS
<1>12. /\ t[1] = c /\ t[2] = d /\ t[3] = d /\ t[4] = c /\ t[5] = e /\ t[6] = c /\ t[7] = c
  BY <1>11
<1>13. \A i \in 1 .. 7 : t[i] \in Contexts("brackets")
  <2>1. \A i \in 1 .. 7 : i \in {1, 2, 3, 4, 5, 6, 7}
    OBVIOUS
  <2> QED BY <2>1, <1>4, <1>12
<1>14. \A i \in 1 .. 6 :
         Allowed("brackets", s[i], t[i]) /\ t[i + 1] = Effect("brackets", s[i], t[i])
  <2>1. \A i \in 1 .. 6 : i \in {1, 2, 3, 4, 5, 6}
    OBVIOUS
  <2>2. /\ 1 + 1 = 2 /\ 2 + 1 = 3 /\ 3 + 1 = 4 /\ 4 + 1 = 5 /\ 5 + 1 = 6 /\ 6 + 1 = 7
    OBVIOUS
  <2>3. \A i \in {1, 2, 3} :
          Allowed("brackets", s[i], t[i]) /\ t[i + 1] = Effect("brackets", s[i], t[i])
    BY <2>2, <1>5, <1>6, <1>7, <1>12
  <2>4. \A i \in {4, 5, 6} :
          Allowed("brackets", s[i], t[i]) /\ t[i + 1] = Effect("brackets", s[i], t[i])
    BY <2>2, <1>8, <1>9, <1>10, <1>12
  <2> QED BY <2>1, <2>3, <2>4
<1>15. Len(s) = 6
  BY <1>1, FunctionBodyIs
<1>16. Passes("brackets", s, t)
  BY <1>13, <1>14, <1>15 DEF Passes
<1> QED BY <1>1, <1>12, <1>15, <1>16 DEF Leads

LEMMA FunctionEntered ==
  ASSUME IInv, At("function"), UNCHANGED <<parseDepth, classes>>,
         compilers' = Append(compilers, [Script EXCEPT !.type = Argument, !.scopeDepth = 1])
  PROVE  Leads("levels", FunctionBody, context', context)
<1>1. todo # <<>> /\ Head(todo) \in Item
  BY Head1
<1>2. /\ parseDepth \in Int /\ compilers \in Seq(Compiler) \ {<<>>} /\ classes \in Seq(BOOLEAN)
      /\ context \in Levels
  BY <1>1, LevelsAre
<1>3. PICK new : new = [Script EXCEPT !.type = Argument, !.scopeDepth = 1]
  OBVIOUS
<1>4. new \in Compiler
  <2>1. Argument \in Nat \cup Words
    BY <1>1 DEF Argument, Item
  <2>2. PICK a \in Nat \cup Words : a = Argument
    BY <2>1
  <2>3. new = [Script EXCEPT !.type = a, !.scopeDepth = 1]
    BY <2>2, <1>3
  <2>4. new = [type |-> a, scopeDepth |-> 1, loops |-> 0, objects |-> 0]
    BY <2>3 DEF Script
  <2> QED BY <2>4 DEF Compiler
<1>5. PICK m \in Nat \ {0} : m = Len(compilers)
  BY <1>2, EmptySeq
<1>6. PICK cs : cs = Append(compilers, new)
  OBVIOUS
<1>7. cs \in Seq(Compiler) /\ Len(cs) = m + 1 /\ cs # <<>>
  <2>1. cs \in Seq(Compiler) /\ Len(cs) = m + 1
    BY <1>2, <1>4, <1>5, <1>6
  <2>2. m + 1 # 0
    OBVIOUS
  <2> QED BY <2>1, <2>2
<1>8. SubSeq(cs, 1, Len(cs) - 1) = compilers
  <2>1. (m + 1) - 1 = m /\ \A i \in 1 .. m : i \in 1 .. m + 1 /\ i # m + 1
    OBVIOUS
  <2>2. \A i \in 1 .. m : cs[i] = compilers[i]
    BY <1>2, <1>5, <1>6
  <2>3. compilers = [i \in 1 .. m |-> compilers[i]]
    BY <1>2, <1>5
  <2>4. SubSeq(cs, 1, m) = [i \in 1 .. m |-> cs[i]]
    BY <1>7
  <2> QED BY <2>1, <2>2, <2>3, <2>4, <1>7
<1>9. context' = <<parseDepth', compilers', classes'>>
  BY DEF context
<1>10. context' = <<parseDepth, cs, classes>>
  BY <1>3, <1>6, <1>9
<1>11. context' \in Contexts("levels") /\ context \in Contexts("levels")
  BY <1>2, <1>7, <1>10 DEF Contexts, Levels
<1>12. /\ context'[1] = parseDepth /\ context'[2] = cs /\ context'[3] = classes
  BY <1>10
<1>13. PICK last : last = FunctionBody[6]
  OBVIOUS
<1>14. last[1] = "endCompiler"
  BY <1>13, FunctionBodyIs
<1>15. context = Effect("levels", last, context')
  <2>1. LevelEffect(last, context') =
          <<context'[1], SubSeq(context'[2], 1, Len(context'[2]) - 1), context'[3]>>
    BY <1>14, LevelEffectIs
  <2>2. LevelEffect(last, context') = <<parseDepth, compilers, classes>>
    BY <2>1, <1>8, <1>12
  <2> QED BY <2>2 DEF Effect, context
<1>16. Allowed("levels", last, context')
  <2>1. Len(context'[2]) >= 2
    BY <1>7, <1>12
  <2> QED BY <2>1, <1>14 DEF Allowed, LevelAllowed
<1>17. 6 \in 1 .. Len(FunctionBody) /\ FunctionBody \in Seq(Item)
  <2>1. Len(FunctionBody) = 6 /\ FunctionBody \in Seq(Item)
    BY FunctionBodyIs
  <2> QED BY <2>1
<1>18. \A i \in 1 .. Len(FunctionBody) : i # 6 => Plain("levels", FunctionBody[i])
  BY FunctionBodyIs
<1> QED BY <1>11, <1>13, <1>15, <1>16, <1>17, <1>18, LeadsThrough

LEMMA FunctionStep ==
  ASSUME IInv, Function
  PROVE  IInv' /\ Once
<1>1. /\ At("function") /\ UNCHANGED <<parseDepth, classes>>
      /\ compilers' = Append(compilers, [Script EXCEPT !.type = Argument, !.scopeDepth = 1])
      /\ Go(FunctionBody) \/ Fail(FunctionBody)
  BY DEF Function, FunctionBody
<1>2. todo # <<>> /\ Head(todo)[1] = "function" /\ ~ At("error")
  BY <1>1, Head1 DEF At
<1>3. "function" \notin LevelNames \cup BracketNames \cup StaleNames \cup {"consume"}
  BY DEF LevelNames, BracketNames, StaleNames
<1>4. FunctionBody \in Seq(Item) /\ Loose(FunctionBody)
  BY FunctionBodyIs
<1>5. Then(FunctionBody)
  BY <1>1 DEF Go, Fail
<1>6. Reported
  BY <1>1, <1>2, <1>3, GoReports, FailReports
<1>7. LevelsLead(FunctionBody)
  <2>1. Effect("levels", Head(todo), context) = context
    BY <1>2, <1>3, LevelStill DEF Effect
  <2>2. Leads("levels", FunctionBody, context', context)
    BY <1>1, FunctionEntered
  <2> QED BY <2>1, <2>2 DEF LevelsLead
<1>8. Follows(todo')
  BY <1>2, <1>4, <1>5, FollowsStay
<1>9. ASSUME ~ hadError' PROVE BracketsLead(FunctionBody)
  <2>1. brackets' = brackets /\ ~ hadError
    <3>1. ~ Fail(FunctionBody)
      BY <1>9 DEF Fail, Report
    <3>2. Go(FunctionBody)
      BY <3>1, <1>1
    <3> QED BY <3>2, <1>9 DEF Go, Quiet, text, status
  <2>2. brackets \in Seq(Opening)
    BY <2>1, <1>2, BracketsAre
  <2>3. Effect("brackets", Head(todo), brackets) = brackets
    BY <1>2, <1>3, BracketStill DEF Effect, BracketEffect
  <2>4. Leads("brackets", FunctionBody, brackets, brackets)
    BY <2>2, FunctionBrackets
  <2> QED BY <2>1, <2>3, <2>4 DEF BracketsLead
<1> QED BY <1>2, <1>4, <1>5, <1>6, <1>7, <1>8, <1>9, StepIs
-----------------------------------------------------------------------------
(* Superclasses.                                                           *)

(* A list whose fourth thing leads to the same from another context. *)
LEMMA LeadsFromAnother ==
  ASSUME NEW kind, NEW r, NEW n, n \in Nat, Len(r) = n, 4 <= n,
         \A i \in 1 .. 3 : Plain(kind, r[i]), NEW c, NEW e, Leads(kind, r, c, e),
         NEW d, d \in Contexts(kind), Allowed(kind, r[4], d),
         Effect(kind, r[4], d) = Effect(kind, r[4], c)
  PROVE  Leads(kind, r, d, e)
<1>1. PICK f : Passes(kind, r, f) /\ f[1] = c /\ f[n + 1] = e
  BY DEF Leads
<1>2. /\ \A i \in 1 .. n + 1 : f[i] \in Contexts(kind)
      /\ \A i \in 1 .. n : Allowed(kind, r[i], f[i]) /\ f[i + 1] = Effect(kind, r[i], f[i])
  BY <1>1 DEF Passes
<1>3. {1, 2, 3, 4} \subseteq 1 .. n /\ {1, 2, 3, 4, 5} \subseteq 1 .. n + 1
  OBVIOUS
<1>4. f[2] = c /\ f[3] = c /\ f[4] = c /\ f[5] = Effect(kind, r[4], c)
  <2>1. c \in Contexts(kind)
    BY <1>1, <1>2, <1>3
  <2>2. \A i \in 1 .. 3 : Effect(kind, r[i], c) = c
    BY <2>1 DEF Plain
  <2>3. /\ f[1 + 1] = Effect(kind, r[1], f[1]) /\ f[2 + 1] = Effect(kind, r[2], f[2])
        /\ f[3 + 1] = Effect(kind, r[3], f[3]) /\ f[4 + 1] = Effect(kind, r[4], f[4])
    BY <1>2, <1>3
  <2>4. 1 + 1 = 2 /\ 2 + 1 = 3 /\ 3 + 1 = 4 /\ 4 + 1 = 5
    OBVIOUS
  <2>5. f[2] = c
    BY <2>2, <2>3, <2>4, <1>1
  <2>6. f[3] = c
    BY <2>2, <2>3, <2>4, <2>5
  <2>7. f[4] = c
    BY <2>2, <2>3, <2>4, <2>6
  <2> QED BY <2>3, <2>4, <2>5, <2>6, <2>7
<1> DEFINE g == [i \in 1 .. n + 1 |-> IF i <= 4 THEN d ELSE f[i]]
<1>5. \A i \in 1 .. n + 1 : g[i] = IF i <= 4 THEN d ELSE f[i]
  OBVIOUS
<1> HIDE DEF g
<1>6. \A i \in 1 .. n + 1 : g[i] \in Contexts(kind)
  BY <1>2, <1>5
<1>7. ASSUME NEW i \in 1 .. n
      PROVE  Allowed(kind, r[i], g[i]) /\ g[i + 1] = Effect(kind, r[i], g[i])
  <2>1. i \in 1 .. n + 1 /\ i + 1 \in 1 .. n + 1
    OBVIOUS
  <2>2. CASE i < 4
    <3>1. g[i] = d /\ g[i + 1] = d /\ i \in 1 .. 3
      BY <2>1, <2>2, <1>5
    <3> QED BY <3>1 DEF Plain
  <2>3. CASE i = 4
    <3>1. g[i] = d /\ g[i + 1] = f[5]
      BY <2>1, <2>3, <1>5
    <3> QED BY <3>1, <2>3, <1>4
  <2>4. CASE i > 4
    <3>1. g[i] = f[i] /\ g[i + 1] = f[i + 1]
      BY <2>1, <2>4, <1>5
    <3> QED BY <3>1, <1>2
  <2> QED BY <2>2, <2>3, <2>4
<1>8. Passes(kind, r, g)
  BY <1>6, <1>7 DEF Passes
<1>9. g[1] = d /\ g[n + 1] = e
  <2>1. 1 \in 1 .. n + 1 /\ n + 1 \in 1 .. n + 1 /\ ~ (n + 1 <= 4)
    OBVIOUS
  <2> QED BY <2>1, <1>1, <1>5
<1> QED BY <1>8, <1>9 DEF Leads

(* A class with a superclass is left like one without. *)
Inherits(c) == c[3] # <<>> /\ ~ Head(c[3])

LEMMA InheritIs ==
  ASSUME NEW c, c \in Levels, Inherits(c),
         NEW inherit, inherit[1] = "inherit", NEW endClass, endClass[1] = "endClass"
  PROVE  /\ LevelAllowed(inherit, c) /\ LevelEffect(inherit, c) \in Levels
         /\ LevelAllowed(endClass, LevelEffect(inherit, c))
         /\ LevelEffect(endClass, LevelEffect(inherit, c)) = LevelEffect(endClass, c)
<1>1. /\ c[1] \in Int /\ c[2] \in Seq(Compiler) \ {<<>>} /\ c[3] \in Seq(BOOLEAN)
  BY DEF Levels
<1>2. PICK cs, tail, scoped, d :
        /\ cs = Adjusted(c[2], "scopeDepth", 1) /\ tail = Tail(c[3])
        /\ scoped = <<TRUE>> \o tail /\ d = <<c[1], cs, scoped>>
  OBVIOUS
<1>3. cs \in Seq(Compiler) \ {<<>>} /\ Adjusted(cs, "scopeDepth", -1) = c[2]
  <2>1. PICK n \in Int : n = 1
    OBVIOUS
  <2>2. /\ Adjusted(c[2], "scopeDepth", n) \in Seq(Compiler) \ {<<>>}
        /\ Adjusted(Adjusted(c[2], "scopeDepth", n), "scopeDepth", -n) = c[2]
    BY <1>1, AdjustedIs
  <2>3. n = 1 /\ -n = -1
    BY <2>1
  <2> QED BY <2>2, <2>3, <1>2
<1>4. tail \in Seq(BOOLEAN)
  <2>1. PICK z \in Seq(BOOLEAN) : z = c[3]
    BY <1>1
  <2>2. z # <<>>
    BY <2>1 DEF Inherits
  <2>3. Tail(z) \in Seq(BOOLEAN)
    BY <2>2
  <2> QED BY <2>1, <2>3, <1>2
<1>5. scoped \in Seq(BOOLEAN) /\ scoped # <<>> /\ Head(scoped) = TRUE /\ Tail(scoped) = tail
  <2>1. PICK yes \in BOOLEAN : yes = TRUE
    OBVIOUS
  <2>2. /\ <<yes>> \o tail \in Seq(BOOLEAN) /\ <<yes>> \o tail # <<>>
        /\ Head(<<yes>> \o tail) = yes /\ Tail(<<yes>> \o tail) = tail
    BY <1>4
  <2> QED BY <2>1, <2>2, <1>2
<1>6. d \in Levels /\ d[1] = c[1] /\ d[2] = cs /\ d[3] = scoped
  BY <1>1, <1>2, <1>3, <1>5 DEF Levels
<1>7. LevelEffect(inherit, c) = d
  BY <1>2, LevelEffectIs
<1>8. LevelEffect(endClass, c) = <<c[1], c[2], tail>>
  <2>1. LevelEffect(endClass, c) =
          <<c[1], IF Head(c[3]) THEN Adjusted(c[2], "scopeDepth", -1) ELSE c[2], Tail(c[3])>>
    BY LevelEffectIs
  <2> QED BY <2>1, <1>2 DEF Inherits
<1>9. LevelEffect(endClass, d) = <<c[1], c[2], tail>>
  <2>1. LevelEffect(endClass, d) =
          <<d[1], IF Head(d[3]) THEN Adjusted(d[2], "scopeDepth", -1) ELSE d[2], Tail(d[3])>>
    BY LevelEffectIs
  <2>2. Head(d[3]) /\ Tail(d[3]) = tail
    BY <1>5, <1>6
  <2> QED BY <2>1, <2>2, <1>3, <1>6
<1>10. LevelAllowed(inherit, c)
  BY DEF LevelAllowed, Inherits
<1>11. LevelAllowed(endClass, d)
  BY <1>5, <1>6 DEF LevelAllowed
<1> QED BY <1>6, <1>7, <1>8, <1>9, <1>10, <1>11

(* What is left of the class. *)
LEMMA ClassRest ==
  ASSUME IInv, At("superclass"), NEW r, r = Tail(todo)
  PROVE  /\ Len(r) \in Nat /\ 4 <= Len(r) /\ \A i \in 1 .. 3 : Plain("levels", r[i])
         /\ r[4][1] = "endClass"
<1>1. todo \in Seq(Item) /\ todo # <<>> /\ Head(todo)[1] = "superclass" /\ Follows(todo)
  BY Head1 DEF IInv
<1>2. PICK n \in Nat \ {0} : n = Len(todo)
  BY <1>1, EmptySeq
<1>3. Head(todo) = todo[1] /\ 1 \in 1 .. n
  BY <1>1, <1>2
<1>4. FollowsAt(todo, 1)
  BY <1>1, <1>2, <1>3 DEF Follows
<1>5. /\ 1 + 4 <= n
      /\ todo[1 + 1] = Consume("{") /\ todo[1 + 2] = Do("methods")
      /\ todo[1 + 3] = Consume("}") /\ todo[1 + 4] = Do("endClass")
  BY <1>1, <1>2, <1>3, <1>4 DEF FollowsAt
<1>6. r \in Seq(Item) /\ Len(r) = n - 1 /\ \A i \in 1 .. n - 1 : r[i] = todo[1 + i]
  <2>1. \A i \in 1 .. n - 1 : r[i] = todo[i + 1]
    BY <1>1, <1>2
  <2>2. \A i \in 1 .. n - 1 : i + 1 = 1 + i
    OBVIOUS
  <2> QED BY <2>1, <2>2, <1>1, <1>2
<1>7. {1, 2, 3, 4} \subseteq 1 .. n - 1 /\ 4 <= n - 1
  <2>1. 1 + 4 <= n
    BY <1>1, <1>2, <1>3, <1>4 DEF FollowsAt
  <2> QED BY <2>1
<1>8. /\ r[1] = Consume("{") /\ r[2] = Do("methods") /\ r[3] = Consume("}")
      /\ r[4] = Do("endClass")
  <2>1. r[1] = todo[1 + 1] /\ r[2] = todo[1 + 2] /\ r[3] = todo[1 + 3] /\ r[4] = todo[1 + 4]
    BY <1>6, <1>7
  <2> QED BY <2>1, <1>5
<1>9. /\ r[1][1] = "consume" /\ r[2][1] = "methods" /\ r[3][1] = "consume"
      /\ r[4][1] = "endClass"
  <2>1. \A name : Do(name)[1] = name
    BY DEF Do
  <2>2. r[1][1] = "consume" /\ r[3][1] = "consume"
    BY <1>8, ConsumeIs
  <2>3. r[2][1] = "methods" /\ r[4][1] = "endClass"
    BY <1>8, <2>1
  <2> QED BY <2>2, <2>3
<1>10. "consume" \notin LevelNames /\ "methods" \notin LevelNames
  BY DEF LevelNames
<1>11. Plain("levels", r[1]) /\ Plain("levels", r[2]) /\ Plain("levels", r[3])
  BY <1>9, <1>10, PlainByName
<1>12. \A i \in 1 .. 3 : i \in {1, 2, 3}
  OBVIOUS
<1>13. Len(r) \in Nat /\ 4 <= Len(r)
  BY <1>6, <1>7
<1> QED BY <1>9, <1>11, <1>12, <1>13

LEMMA SuperclassStep ==
  ASSUME IInv, Superclass
  PROVE  IInv' /\ Once
<1>1. At("superclass") /\ UNCHANGED context
  BY DEF Superclass
<1>2. /\ todo # <<>> /\ Head(todo)[1] = "superclass" /\ ~ At("error") /\ todo \in Seq(Item)
  BY <1>1, Head1 DEF At
<1>3. /\ context \in Levels /\ LevelAllowed(Head(todo), context)
      /\ LevelEffect(Head(todo), context) = context
  BY <1>2, LevelsAre, LevelEffectIs
<1>4. "superclass" \notin BracketNames \cup StaleNames \cup {"consume", "error"}
  BY DEF BracketNames, StaleNames
<1>5. CASE Go(<<>>)
  <2>1. context' = LevelEffect(Head(todo), context)
    BY <1>1, <1>3
  <2> QED BY <2>1, <1>1, <1>4, <1>5, LevelStep
<1>6. CASE current = "<" /\ Take(<<Consume("identifier"), Do("inherit")>>)
  <2>1. PICK a, b : a = Consume("identifier") /\ b = Do("inherit")
    OBVIOUS
  <2>2. SimpleItem(a) /\ a \in Item /\ b \in Item /\ b[1] = "inherit"
    <3>1. SimpleItem(a)
      BY <2>1, SimpleItems
    <3>2. b \in Item /\ b[1] = "inherit"
      BY <2>1, ItemsOf DEF ItemNames, Binding
    <3> QED BY <3>1, <3>2 DEF SimpleItem
  <2>3. PICK items : items = <<a, b>>
    OBVIOUS
  <2>4. items \in Seq(Item) /\ Len(items) = 2 /\ items[1] = a /\ items[2] = b
    BY <2>2, <2>3
  <2>5. 2 \in 1 .. Len(items) /\ \A i \in 1 .. Len(items) : i # 2 => i = 1
    BY <2>4
  <2>6. Take(items) /\ Then(items) /\ Reported
    <3>1. Take(items)
      BY <1>6, <2>1, <2>3
    <3> QED BY <3>1, Taken, TakeReports
  <2>7. Loose(items)
    <3>1. a[1] \notin FollowNames /\ b[1] \notin FollowNames
      BY <2>2 DEF SimpleItem, FollowNames
    <3> QED BY <3>1, <2>4, <2>5 DEF Loose
  <2>8. Follows(todo')
    BY <2>4, <2>6, <2>7, <1>2, FollowsStay
  <2>9. PICK r : r = Tail(todo)
    OBVIOUS
  <2>10. r \in Seq(Item) /\ todo' = items \o r
    BY <2>6, <2>9, <1>2 DEF Then
  <2>11. /\ Len(r) \in Nat /\ 4 <= Len(r) /\ \A i \in 1 .. 3 : Plain("levels", r[i])
         /\ r[4][1] = "endClass"
    BY <2>9, <1>1, ClassRest
  <2>12. Leads("levels", r, context, Origin)
    <3>1. Leads("levels", todo, context, Origin)
      BY DEF IInv, LevelInv
    <3>2. Leads("levels", r, Effect("levels", Head(todo), context), Origin)
      BY <3>1, <2>9, <1>2, LeadsFirst
    <3> QED BY <3>2, <1>3 DEF Effect
  <2>13. PICK d : d = LevelEffect(b, context)
    OBVIOUS
  <2>14. /\ LevelAllowed(b, context) /\ d \in Levels /\ LevelAllowed(r[4], d)
         /\ LevelEffect(r[4], d) = LevelEffect(r[4], context)
    <3>1. Inherits(context)
      BY <1>2, <1>3 DEF LevelAllowed, Inherits
    <3> QED BY <3>1, <2>2, <2>11, <2>13, <1>3, InheritIs
  <2>15. Leads("levels", r, d, Origin)
    <3>1. d \in Contexts("levels") /\ Allowed("levels", r[4], d)
      BY <2>14 DEF Contexts, Allowed
    <3>2. Effect("levels", r[4], d) = Effect("levels", r[4], context)
      BY <2>14 DEF Effect
    <3> QED BY <3>1, <3>2, <2>11, <2>12, LeadsFromAnother
  <2>16. Leads("levels", items, context, d)
    <3>1. Plain("levels", a)
      BY <2>2, SimpleIsPlain
    <3>2. \A i \in 1 .. Len(items) : i # 2 => Plain("levels", items[i])
      BY <3>1, <2>4, <2>5
    <3>3. Allowed("levels", items[2], context) /\ d = Effect("levels", items[2], context)
      BY <2>4, <2>13, <2>14 DEF Allowed, Effect
    <3>4. context \in Contexts("levels") /\ d \in Contexts("levels")
      BY <2>14, <1>3 DEF Contexts
    <3> QED BY <3>2, <3>3, <3>4, <2>4, <2>5, LeadsThrough
  <2>17. todo' \in Seq(Item) /\ Leads("levels", todo', context, Origin)
    <3>1. Leads("levels", items \o r, context, Origin)
      BY <2>4, <2>10, <2>15, <2>16, LeadsOn
    <3> QED BY <3>1, <2>4, <2>10
  <2>18. LevelInv'
    BY <2>17, <1>1 DEF LevelInv
  <2>19. BracketInv'
    <3>1. CASE hadError'
      BY <3>1 DEF BracketInv
    <3>2. CASE ~ hadError'
      <4>1. ~ hadError
        BY <3>2, <2>6 DEF Reported
      <4>2. current \notin Brackets
        BY <1>6 DEF Brackets
      <4>3. brackets' = brackets
        BY <4>2, <3>2, <2>6, Taken
      <4>4. AllPlain("brackets", items)
        <5>1. Plain("brackets", a)
          BY <2>2, SimpleIsPlain
        <5>2. Plain("brackets", b)
          BY <2>2, PlainByName DEF BracketNames
        <5> QED BY <5>1, <5>2, <2>4, <2>5 DEF AllPlain
      <4>5. BracketsLead(items)
        BY <4>1, <4>3, <4>4, <2>4, <1>2, <1>4, BracketsStay
      <4>6. Leads("brackets", todo, brackets, <<>>)
        BY <4>1, <1>2 DEF IInv, BracketInv
      <4>7. Leads("brackets", todo', brackets', <<>>)
        BY <4>5, <4>6, <2>4, <2>9, <2>10, <1>2, LeadsInstead DEF BracketsLead
      <4> QED BY <4>7 DEF BracketInv
    <3> QED BY <3>1, <3>2
  <2> QED BY <2>6, <2>8, <2>17, <2>18, <2>19 DEF IInv, Reported
<1> QED BY <1>5, <1>6 DEF Superclass, Matching
-----------------------------------------------------------------------------
(* Recovery, and the program.                                              *)

(* What is to be done after a thing of this name. *)
Fits(name, next) ==
  /\ name \in {"declaration", "settle"} => next \in {"program", "block"}
  /\ name \in {"synchronize", "skip"} => next \in {"declare", "program", "block"}
  /\ name = "declare" => next = "settle"

LEMMA FollowsLast ==
  ASSUME NEW s, s \in Seq(Item), NEW n, n \in Nat, Len(s) = n,
         \A i \in 1 .. n : i # n => FollowsAt(s, i),
         NEW last, last = s[n], last[1] # "superclass",
         NEW u, u \in Seq(Item), u # <<>>, Follows(u), Fits(last[1], u[1][1])
  PROVE  Follows(s \o u)
<1>1. PICK m \in Nat \ {0} : m = Len(u)
  BY EmptySeq
<1>2. PICK r : r = s \o u
  OBVIOUS
<1>3. /\ Len(r) = n + m /\ \A i \in 1 .. n : r[i] = s[i]
      /\ \A i \in 1 .. m : r[n + i] = u[i]
  <2>1. /\ Len(r) = Len(s) + Len(u) /\ \A i \in 1 .. Len(s) : r[i] = s[i]
        /\ \A i \in 1 .. Len(u) : r[Len(s) + i] = u[i]
    BY ONLY s \in Seq(Item), u \in Seq(Item), <1>2, Joined
  <2> QED BY <2>1, <1>1
<1>4. ASSUME NEW i \in 1 .. n PROVE FollowsAt(r, i)
  <2>1. CASE i # n
    BY <2>1, <1>2, FollowsStill
  <2>2. CASE i = n
    <3>1. n < n + m /\ 1 \in 1 .. m
      BY <1>1
    <3>2. r[n] = last /\ r[n + 1] = u[1]
      BY <3>1, <2>2, <1>3
    <3> QED BY <3>1, <3>2, <2>2, <1>3 DEF FollowsAt, Fits
  <2> QED BY <2>1, <2>2
<1>5. \A i \in 1 .. Len(s) : FollowsAt(s \o u, i)
  BY <1>2, <1>4
<1> QED BY <1>5, FollowsOn

LEMMA NextFits ==
  ASSUME IInv, NEW name, At(name),
         name \in {"declaration", "settle", "synchronize", "skip", "declare"},
         NEW u, u = Tail(todo)
  PROVE  u \in Seq(Item) /\ u # <<>> /\ Follows(u) /\ Fits(name, u[1][1])
<1>1. todo \in Seq(Item) /\ todo # <<>> /\ Head(todo)[1] = name /\ Follows(todo)
  BY Head1 DEF IInv
<1>2. PICK n \in Nat \ {0} : n = Len(todo)
  BY <1>1, EmptySeq
<1>3. Head(todo) = todo[1] /\ 1 \in 1 .. n
  BY <1>1, <1>2
<1>4. FollowsAt(todo, 1)
  BY <1>1, <1>2, <1>3 DEF Follows
<1>5. 1 < n
  BY <1>1, <1>2, <1>3, <1>4 DEF FollowsAt
<1>6. Fits(name, todo[1 + 1][1])
  BY <1>1, <1>3, <1>4 DEF FollowsAt, Fits
<1>7. u \in Seq(Item) /\ Len(u) = n - 1 /\ \A i \in 1 .. n - 1 : u[i] = todo[i + 1]
  BY <1>1, <1>2
<1>8. u # <<>> /\ u[1] = todo[1 + 1]
  <2>1. n - 1 # 0 /\ 1 \in 1 .. n - 1
    BY <1>5
  <2> QED BY <2>1, <1>7
<1>9. Follows(u)
  BY <1>1, FollowsTail
<1> QED BY <1>6, <1>7, <1>8, <1>9

(* A step that leaves levels and brackets as they are. *)
LEMMA ListStep ==
  ASSUME IInv, NEW name, At(name), name \notin LevelNames \cup {"error"}, UNCHANGED context,
         NEW items, items \in Seq(Item), Then(items), Reported, Follows(todo'),
         \A c \in Levels : Leads("levels", items, c, c),
         \/ hadError'
         \/ /\ name \notin BracketNames \cup {"consume"} /\ brackets' = brackets
            /\ \A c \in Seq(Opening) : Leads("brackets", items, c, c)
  PROVE  IInv' /\ Once
<1>1. todo # <<>> /\ Head(todo)[1] = name /\ ~ At("error")
  BY Head1 DEF At
<1>2. LevelsLead(items)
  <2>1. context \in Levels
    BY <1>1, LevelsAre
  <2>2. Effect("levels", Head(todo), context) = context
    BY <1>1, LevelStill DEF Effect
  <2> QED BY <2>1, <2>2 DEF LevelsLead
<1>3. ASSUME ~ hadError' PROVE BracketsLead(items)
  <2>1. ~ hadError /\ name \notin BracketNames \cup {"consume"}
    BY <1>3 DEF Reported
  <2>2. brackets \in Seq(Opening)
    BY <2>1, <1>1, BracketsAre
  <2>3. Effect("brackets", Head(todo), brackets) = brackets
    BY <2>1, <1>1, BracketStill DEF Effect, BracketEffect
  <2> QED BY <2>2, <2>3, <1>3 DEF BracketsLead
<1> QED BY <1>1, <1>2, <1>3, StepIs

LEMMA PlainLists ==
  ASSUME NEW items, items \in Seq(Item), \A i \in 1 .. Len(items) : items[i][1] \notin LevelNames
  PROVE  /\ \A c \in Levels : Leads("levels", items, c, c)
         /\ (\A i \in 1 .. Len(items) : items[i][1] \notin BracketNames \cup {"consume"}) =>
              \A c \in Seq(Opening) : Leads("brackets", items, c, c)
<1>1. AllPlain("levels", items)
  BY PlainByName DEF AllPlain
<1>2. \A c \in Levels : Leads("levels", items, c, c)
  BY <1>1, LeadsStill DEF Contexts
<1>3. ASSUME \A i \in 1 .. Len(items) : items[i][1] \notin BracketNames \cup {"consume"}
      PROVE  \A c \in Seq(Opening) : Leads("brackets", items, c, c)
  <2>1. AllPlain("brackets", items)
    BY <1>3, PlainByName DEF AllPlain
  <2> QED BY <2>1, LeadsStill DEF Contexts
<1> QED BY <1>2, <1>3

LEMMA PanicReports ==
  ASSUME IInv, Quiet, panicMode
  PROVE  Reported /\ hadError'
<1>1. panicMode' = panicMode /\ hadError' = hadError /\ hadError
  BY DEF Quiet, status, IInv
<1> QED BY <1>1 DEF Reported, StaleInv, Once

LEMMA DeclarationStep ==
  ASSUME IInv, Declaration
  PROVE  IInv' /\ Once
<1>1. At("declaration") /\ UNCHANGED context
  BY DEF Declaration
<1>2. todo # <<>> /\ todo \in Seq(Item)
  BY <1>1, Head1
<1>3. PICK u : u = Tail(todo)
  OBVIOUS
<1>4. u \in Seq(Item) /\ u # <<>> /\ Follows(u) /\ Fits("declaration", u[1][1])
  BY <1>1, <1>3, NextFits
<1>5. PICK a, b, d : a = Do("synchronize") /\ b = Do("declare") /\ d = Do("settle")
  OBVIOUS
<1>6. /\ a \in Item /\ a[1] = "synchronize" /\ b \in Item /\ b[1] = "declare"
      /\ d \in Item /\ d[1] = "settle"
  BY <1>5, ItemsOf DEF ItemNames, Binding
<1>7. Fits(d[1], u[1][1])
  BY <1>4, <1>6 DEF Fits
<1>8. "declaration" \notin LevelNames \cup {"error"} \cup BracketNames \cup {"consume"}
  BY DEF LevelNames, BracketNames
<1>9. CASE panicMode
  <2>1. PICK s : s = <<a>> \o <<b, d>>
    OBVIOUS
  <2>2. Go(s) /\ Then(s) /\ Quiet
    <3>1. Go(s)
      BY <1>5, <1>9, <2>1 DEF Declaration
    <3> QED BY <3>1 DEF Go
  <2>3. s \in Seq(Item) /\ Len(s) = 3 /\ s[1] = a /\ s[2] = b /\ s[3] = d
    <3>1. <<a>> \in Seq(Item) /\ <<b, d>> \in Seq(Item)
      BY <1>6
    <3> QED BY <3>1, <2>1
  <2>4. \A i \in 1 .. 3 : i # 3 => FollowsAt(s, i)
    <3>1. FollowsAt(s, 1) /\ FollowsAt(s, 2)
      BY <2>3, <1>6 DEF FollowsAt
    <3>2. \A i \in 1 .. 3 : i # 3 => i = 1 \/ i = 2
      OBVIOUS
    <3> QED BY <3>1, <3>2
  <2>5. Follows(s \o u)
    <3>1. 3 \in Nat /\ d = s[3] /\ d[1] # "superclass"
      BY <2>3, <1>6
    <3> QED BY <3>1, <2>3, <2>4, <1>4, <1>7, FollowsLast
  <2>6. Follows(todo')
    BY <2>2, <2>5, <1>3 DEF Then
  <2>7. \A i \in 1 .. Len(s) : s[i][1] \notin LevelNames
    <3>1. \A i \in 1 .. Len(s) : i = 1 \/ i = 2 \/ i = 3
      BY <2>3
    <3>2. a[1] \notin LevelNames /\ b[1] \notin LevelNames /\ d[1] \notin LevelNames
      BY <1>6 DEF LevelNames
    <3> QED BY <3>1, <3>2, <2>3
  <2>8. \A c \in Levels : Leads("levels", s, c, c)
    BY <2>3, <2>7, PlainLists
  <2>9. Reported /\ hadError'
    BY <2>2, <1>9, PanicReports
  <2> QED BY <2>2, <2>3, <2>6, <2>8, <2>9, <1>1, <1>8, ListStep
<1>10. CASE ~ panicMode
  <2>1. PICK s : s = <<>> \o <<b, d>>
    OBVIOUS
  <2>2. Go(s) /\ Then(s) /\ Quiet
    <3>1. Go(s)
      BY <1>5, <1>10, <2>1 DEF Declaration
    <3> QED BY <3>1 DEF Go
  <2>3. s \in Seq(Item) /\ Len(s) = 2 /\ s[1] = b /\ s[2] = d /\ s # <<>>
    <3>1. <<>> \in Seq(Item) /\ <<b, d>> \in Seq(Item)
      BY <1>6
    <3> QED BY <3>1, <2>1
  <2>4. \A i \in 1 .. 2 : i # 2 => FollowsAt(s, i)
    <3>1. FollowsAt(s, 1)
      BY <2>3, <1>6 DEF FollowsAt
    <3>2. \A i \in 1 .. 2 : i # 2 => i = 1
      OBVIOUS
    <3> QED BY <3>1, <3>2
  <2>5. Follows(s \o u)
    <3>1. 2 \in Nat /\ d = s[2] /\ d[1] # "superclass"
      BY <2>3, <1>6
    <3> QED BY <3>1, <2>3, <2>4, <1>4, <1>7, FollowsLast
  <2>6. Follows(todo')
    BY <2>2, <2>5, <1>3 DEF Then
  <2>7. /\ \A i \in 1 .. Len(s) : s[i][1] \notin LevelNames
        /\ \A i \in 1 .. Len(s) : s[i][1] \notin BracketNames \cup {"consume"}
    <3>1. \A i \in 1 .. Len(s) : i = 1 \/ i = 2
      BY <2>3
    <3>2. /\ b[1] \notin LevelNames /\ d[1] \notin LevelNames
          /\ b[1] \notin BracketNames \cup {"consume"}
          /\ d[1] \notin BracketNames \cup {"consume"}
      BY <1>6 DEF LevelNames, BracketNames
    <3> QED BY <3>1, <3>2, <2>3
  <2>8. /\ \A c \in Levels : Leads("levels", s, c, c)
        /\ \A c \in Seq(Opening) : Leads("brackets", s, c, c)
    BY <2>3, <2>7, PlainLists
  <2>9. Reported
    BY <2>2, <2>3, <1>2, <1>6, StaleReports DEF StaleNames
  <2>10. brackets' = brackets
    BY <2>2 DEF Quiet, text
  <2> QED BY <2>2, <2>3, <2>6, <2>8, <2>9, <2>10, <1>1, <1>8, ListStep
<1> QED BY <1>9, <1>10

(* One thing to do that is followed by what follows this one. *)
LEMMA InsteadStep ==
  ASSUME IInv, NEW name, At(name), name \in {"settle", "synchronize", "skip"}, UNCHANGED context,
         NEW other, other \in {"synchronize", "skip"}, Then(<<Do(other)>>), Reported, hadError'
  PROVE  IInv' /\ Once
<1>1. PICK u : u = Tail(todo)
  OBVIOUS
<1>2. u \in Seq(Item) /\ u # <<>> /\ Follows(u) /\ Fits(name, u[1][1])
  BY <1>1, NextFits
<1>3. PICK a : a = Do(other)
  OBVIOUS
<1>4. a \in Item /\ a[1] = other
  BY <1>3, ItemsOf DEF ItemNames, Binding
<1>5. PICK s : s = <<a>>
  OBVIOUS
<1>6. s \in Seq(Item) /\ Len(s) = 1 /\ s[1] = a /\ Then(s)
  BY <1>3, <1>4, <1>5
<1>7. Fits(a[1], u[1][1])
  BY <1>2, <1>4 DEF Fits
<1>8. Follows(s \o u)
  <2>1. 1 \in Nat /\ \A i \in 1 .. 1 : i = 1
    OBVIOUS
  <2>2. a[1] # "superclass"
    BY <1>4
  <2> QED BY <2>1, <2>2, <1>2, <1>6, <1>7, FollowsLast
<1>9. Follows(todo')
  BY <1>1, <1>6, <1>8 DEF Then
<1>10. \A i \in 1 .. Len(s) : s[i][1] \notin LevelNames
  <2>1. a[1] \notin LevelNames
    BY <1>4 DEF LevelNames
  <2> QED BY <2>1, <1>6
<1>11. \A c \in Levels : Leads("levels", s, c, c)
  BY <1>6, <1>10, PlainLists
<1>12. name \notin LevelNames \cup {"error"}
  BY DEF LevelNames
<1> QED BY <1>6, <1>9, <1>11, <1>12, ListStep

LEMMA SettleStep ==
  ASSUME IInv, Settle
  PROVE  IInv' /\ Once
<1>1. At("settle") /\ UNCHANGED context
  BY DEF Settle
<1>2. CASE panicMode /\ Go(<<Do("synchronize")>>)
  <2>1. Then(<<Do("synchronize")>>) /\ Quiet
    BY <1>2 DEF Go
  <2>2. Reported /\ hadError'
    BY <2>1, <1>2, PanicReports
  <2> QED BY <2>1, <2>2, <1>1, InsteadStep
<1>3. CASE ~ panicMode /\ Go(<<>>)
  <2>1. "settle" \notin LevelNames \cup BracketNames \cup StaleNames \cup {"consume", "error"}
    BY DEF LevelNames, BracketNames, StaleNames
  <2>2. Simple(<<>>)
    BY SimpleParts
  <2> QED BY <2>1, <2>2, <1>1, <1>3, PlainStep
<1> QED BY <1>2, <1>3 DEF Settle

(* Tokens are skipped after an error only. *)
LEMMA SkippingAfterError ==
  ASSUME IInv, At("synchronize") \/ At("skip")
  PROVE  hadError /\ todo # <<>> /\ todo \in Seq(Item)
<1>1. /\ todo # <<>> /\ ~ At("error") /\ Head(todo)[1] \in {"synchronize", "skip"}
      /\ todo \in Seq(Item)
  BY Head1 DEF At
<1>2. ~ BracketAllowed(Head(todo), brackets)
  BY <1>1 DEF BracketAllowed
<1> QED BY <1>1, <1>2, BracketsAre

LEMMA SynchronizeStep ==
  ASSUME IInv, Synchronize
  PROVE  IInv' /\ Once
<1>1. /\ At("synchronize") /\ UNCHANGED context /\ Then(<<Do("skip")>>)
      /\ panicMode' = FALSE /\ hadError' = hadError
  BY DEF Synchronize
<1>2. hadError /\ todo # <<>> /\ todo \in Seq(Item)
  BY <1>1, SkippingAfterError
<1>3. PICK a : a = Do("skip")
  OBVIOUS
<1>4. a \in Item /\ a[1] = "skip"
  BY <1>3, ItemsOf DEF ItemNames, Binding
<1>5. Then(<<a>>) /\ <<a>> \in Seq(Item) /\ <<a>> # <<>> /\ <<a>>[1] = a
  BY <1>1, <1>3, <1>4
<1>6. todo' # <<>> /\ Head(todo') = a
  BY <1>2, <1>5, FirstOf
<1>7. StaleInv'
  BY <1>4, <1>6 DEF StaleInv, Stale, StaleNames
<1>8. Reported
  BY <1>1, <1>2, <1>7 DEF Reported, Once
<1> QED BY <1>1, <1>2, <1>8, InsteadStep

LEMMA SkipStep ==
  ASSUME IInv, Skip
  PROVE  IInv' /\ Once
<1>1. At("skip") /\ UNCHANGED context
  BY DEF Skip
<1>2. hadError /\ todo # <<>> /\ todo \in Seq(Item)
  BY <1>1, SkippingAfterError
<1>3. CASE Take(<<Do("skip")>>)
  <2>1. Then(<<Do("skip")>>) /\ Reported
    BY <1>3, Taken, TakeReports
  <2>2. hadError'
    BY <2>1, <1>2 DEF Reported
  <2> QED BY <2>1, <2>2, <1>1, InsteadStep
<1>4. CASE Go(<<>>)
  <2>1. PICK u : u = Tail(todo)
    OBVIOUS
  <2>2. u \in Seq(Item) /\ u # <<>> /\ Follows(u) /\ Fits("skip", u[1][1])
    BY <2>1, <1>1, NextFits
  <2>3. todo' = u
    <3>1. todo' = <<>> \o u
      BY <2>1, <1>4 DEF Go, Then
    <3> QED BY <3>1, <2>2
  <2>4. u[1][1] \in StaleNames
    BY <2>2 DEF Fits, StaleNames
  <2>5. Head(u) = u[1]
    BY <2>2
  <2>6. StaleInv'
    BY <2>3, <2>4, <2>5 DEF StaleInv, Stale
  <2>7. panicMode' = panicMode /\ hadError' = hadError
    BY <1>4 DEF Go, Quiet, status
  <2>8. Reported /\ hadError'
    BY <2>6, <2>7, <1>2 DEF Reported, Once
  <2>9. Follows(todo')
    BY <2>2, <2>3
  <2>10. <<>> \in Seq(Item) /\ Then(<<>>) /\ \A c \in Levels : Leads("levels", <<>>, c, c)
    BY <1>4, LeadsNowhere DEF Go, Contexts
  <2>11. "skip" \notin LevelNames \cup {"error"}
    BY DEF LevelNames
  <2> QED BY <2>8, <2>9, <2>10, <2>11, <1>1, ListStep
<1> QED BY <1>3, <1>4 DEF Skip
LEMMA ProgramStep ==
  ASSUME IInv, Program
  PROVE  IInv' /\ Once
<1>1. At("program") /\ UNCHANGED context
  BY DEF Program
<1>2. todo # <<>> /\ Head(todo)[1] = "program" /\ ~ At("error") /\ todo \in Seq(Item)
  BY <1>1, Head1 DEF At
<1>3. /\ context \in Levels /\ LevelAllowed(Head(todo), context)
      /\ LevelEffect(Head(todo), context) = context
  BY <1>2, LevelsAre, LevelEffectIs
<1>4. "program" \notin BracketNames \cup {"consume"}
  BY DEF BracketNames
<1>5. CASE current = "eof" /\ Take(<<>>)
  <2>1. Then(<<>>) /\ Reported
    BY <1>5, Taken, TakeReports
  <2>2. /\ <<>> \in Seq(Item) /\ Loose(<<>>) /\ AllPlain("brackets", <<>>)
    BY SimpleParts, SimpleList
  <2>3. LevelsLead(<<>>)
    <3>1. Leads("levels", <<>>, context, context)
      BY <1>3, LeadsNowhere DEF Contexts
    <3> QED BY <3>1, <1>1, <1>3 DEF LevelsLead, Effect
  <2>4. Follows(todo')
    BY <2>1, <2>2, <1>2, FollowsStay
  <2>5. ASSUME ~ hadError' PROVE BracketsLead(<<>>)
    <3>1. ~ hadError
      BY <2>1, <2>5 DEF Reported
    <3>2. current \notin Brackets
      BY <1>5 DEF Brackets
    <3>3. brackets' = brackets
      BY <3>2, <2>5, <1>5, Taken
    <3> QED BY <3>1, <3>3, <2>2, <1>2, <1>4, BracketsStay
  <2> QED BY <2>1, <2>2, <2>3, <2>4, <2>5, <1>2, StepIs
<1>6. CASE Go(<<Do("declaration"), Do("program")>>)
  <2>1. PICK a, b : a = Do("declaration") /\ b = Do("program")
    OBVIOUS
  <2>2. a \in Item /\ b \in Item /\ a[1] = "declaration" /\ b[1] = "program"
    BY <2>1, ItemsOf DEF ItemNames, Binding
  <2>3. PICK items : items = <<a, b>>
    OBVIOUS
  <2>4. /\ items \in Seq(Item) /\ Len(items) = 2 /\ items[1] = a /\ items[2] = b
        /\ items # <<>>
    BY <2>2, <2>3
  <2>5. 2 \in 1 .. Len(items) /\ \A i \in 1 .. Len(items) : i # 2 => i = 1
    BY <2>4
  <2>6. Go(items) /\ Then(items) /\ Quiet
    BY <1>6, <2>1, <2>3 DEF Go
  <2>7. Reported
    BY <2>2, <2>4, <2>6, <1>2, StaleReports DEF StaleNames
  <2>8. LevelsLead(items)
    <3>1. Plain("levels", a)
      BY <2>2, PlainByName DEF LevelNames
    <3>2. \A i \in 1 .. Len(items) : i # 2 => Plain("levels", items[i])
      BY <3>1, <2>4, <2>5
    <3>3. LevelAllowed(b, context) /\ LevelEffect(b, context) = context
      BY <2>2, <1>2, <1>3, LevelEffectIs DEF LevelAllowed
    <3>4. Allowed("levels", items[2], context) /\ context = Effect("levels", items[2], context)
      BY <3>3, <2>4 DEF Allowed, Effect
    <3>5. context \in Contexts("levels")
      BY <1>3 DEF Contexts
    <3>6. Leads("levels", items, context, context)
      BY <3>2, <3>4, <3>5, <2>4, <2>5, LeadsThrough
    <3> QED BY <3>6, <1>1, <1>3 DEF LevelsLead, Effect
  <2>9. Follows(todo')
    <3>1. PICK u : u = Tail(todo)
      OBVIOUS
    <3>2. u \in Seq(Item) /\ Follows(u)
      BY <3>1, <1>2, FollowsTail DEF IInv
    <3>3. FollowsAt(items, 1) /\ FollowsAt(items, 2)
      BY <2>2, <2>4 DEF FollowsAt
    <3>4. Follows(items)
      BY <3>3, <2>5 DEF Follows
    <3>5. Follows(items \o u)
      BY <3>2, <3>4, <2>4, FollowsWithin
    <3> QED BY <3>1, <3>5, <2>6 DEF Then
  <2>10. ASSUME ~ hadError' PROVE BracketsLead(items)
    <3>1. ~ hadError /\ brackets' = brackets
      BY <2>6, <2>10 DEF Quiet, text, status
    <3>2. Plain("brackets", a) /\ Plain("brackets", b)
      BY <2>2, PlainByName DEF BracketNames
    <3>3. AllPlain("brackets", items)
      BY <3>2, <2>4, <2>5 DEF AllPlain
    <3> QED BY <3>1, <3>3, <2>4, <1>2, <1>4, BracketsStay
  <2> QED BY <2>4, <2>6, <2>7, <2>8, <2>9, <2>10, <1>2, StepIs
<1> QED BY <1>5, <1>6 DEF Program, Matching

-----------------------------------------------------------------------------
(* Classes.                                                                *)

ClassBody ==
  <<Do("class"), Do("superclass"), Consume("{"), Do("methods"), Consume("}"), Do("endClass")>>

LEMMA ClassBodyIs ==
  /\ ClassBody \in Seq(Item) /\ Len(ClassBody) = 6
  /\ ClassBody[1] = Do("class") /\ ClassBody[2] = Do("superclass")
  /\ ClassBody[3] = Consume("{") /\ ClassBody[4] = Do("methods")
  /\ ClassBody[5] = Consume("}") /\ ClassBody[6] = Do("endClass")
  /\ ClassBody[1][1] = "class" /\ ClassBody[2][1] = "superclass"
  /\ ClassBody[3][1] = "consume" /\ ClassBody[4][1] = "methods"
  /\ ClassBody[5][1] = "consume" /\ ClassBody[6][1] = "endClass"
<1>1. PICK a, b, c, d, e, f :
        /\ a = Do("class") /\ b = Do("superclass") /\ c = Consume("{")
        /\ d = Do("methods") /\ e = Consume("}") /\ f = Do("endClass")
  OBVIOUS
<1>2. a \in Item /\ b \in Item /\ c \in Item /\ d \in Item /\ e \in Item /\ f \in Item
  <2>1. c \in Item /\ e \in Item
    BY <1>1, ItemsOf DEF Words
  <2>2. {"class", "superclass", "methods", "endClass"} \subseteq ItemNames \ Binding
    BY DEF ItemNames, Binding
  <2> QED BY <1>1, <2>1, <2>2, ItemsOf
<1>3. PICK s : s = <<a, b, c, d, e, f>>
  OBVIOUS
<1>4. ClassBody = s
  BY <1>1, <1>3 DEF ClassBody
<1>5. /\ s \in Seq(Item) /\ Len(s) = 6
      /\ s[1] = a /\ s[2] = b /\ s[3] = c /\ s[4] = d /\ s[5] = e /\ s[6] = f
  BY <1>2, <1>3
<1>6. \A name : Do(name)[1] = name
  BY DEF Do
<1>7. a[1] = "class" /\ b[1] = "superclass" /\ d[1] = "methods" /\ f[1] = "endClass"
  BY <1>1, <1>6
<1>8. c[1] = "consume" /\ e[1] = "consume"
  BY <1>1, ConsumeIs
<1> QED BY <1>1, <1>4, <1>5, <1>7, <1>8

LEMMA ClassFollows ==
  Follows(ClassBody)
<1>1. PICK s : s = ClassBody
  OBVIOUS
<1>2. Len(s) = 6
  BY <1>1, ClassBodyIs
<1>3. FollowsAt(s, 2)
  <2>1. 2 + 1 = 3 /\ 2 + 2 = 4 /\ 2 + 3 = 5 /\ 2 + 4 = 6 /\ 6 <= 6
    OBVIOUS
  <2>2. /\ s[2 + 1] = Consume("{") /\ s[2 + 2] = Do("methods")
        /\ s[2 + 3] = Consume("}") /\ s[2 + 4] = Do("endClass") /\ 2 + 4 <= Len(s)
    BY <2>1, <1>1, ClassBodyIs
  <2>3. s[2][1] = "superclass"
    BY <1>1, ClassBodyIs
  <2> QED BY <2>2, <2>3 DEF FollowsAt
<1>4. /\ s[1][1] = "class" /\ s[3][1] = "consume" /\ s[4][1] = "methods"
      /\ s[5][1] = "consume" /\ s[6][1] = "endClass"
  BY <1>1, ClassBodyIs
<1>5. \A i \in {1, 3, 4, 5, 6} : s[i][1] \notin FollowNames
  BY <1>4 DEF FollowNames
<1>6. \A i \in {1, 3, 4, 5, 6} : FollowsAt(s, i)
  BY <1>5 DEF FollowsAt, FollowNames
<1>7. \A i \in 1 .. 6 : i = 2 \/ i \in {1, 3, 4, 5, 6}
  OBVIOUS
<1>8. \A i \in 1 .. Len(s) : FollowsAt(s, i)
  BY <1>2, <1>3, <1>6, <1>7
<1> QED BY <1>1, <1>8 DEF Follows

LEMMA ClassLevels ==
  ASSUME NEW c, c \in Levels
  PROVE  Leads("levels", ClassBody, c, c)
<1>1. PICK s : s = ClassBody
  OBVIOUS
<1>2. /\ c = <<c[1], c[2], c[3]>> /\ c[1] \in Int /\ c[2] \in Seq(Compiler) \ {<<>>}
      /\ c[3] \in Seq(BOOLEAN)
  BY DEF Levels
<1>3. PICK inside, d : inside = <<FALSE>> \o c[3] /\ d = <<c[1], c[2], inside>>
  OBVIOUS
<1>4. inside \in Seq(BOOLEAN) /\ inside # <<>> /\ Head(inside) = FALSE /\ Tail(inside) = c[3]
  <2>1. PICK no \in BOOLEAN : no = FALSE
    OBVIOUS
  <2>2. /\ <<no>> \o c[3] \in Seq(BOOLEAN) /\ <<no>> \o c[3] # <<>>
        /\ Head(<<no>> \o c[3]) = no /\ Tail(<<no>> \o c[3]) = c[3]
    BY <1>2
  <2> QED BY <2>1, <2>2, <1>3
<1>5. d \in Levels /\ d[1] = c[1] /\ d[2] = c[2] /\ d[3] = inside
  BY <1>2, <1>3, <1>4 DEF Levels
<1>6. c \in Contexts("levels") /\ d \in Contexts("levels")
  BY <1>5 DEF Contexts
<1>7. Allowed("levels", s[1], c) /\ d = Effect("levels", s[1], c)
  <2>1. s[1][1] = "class"
    BY <1>1, ClassBodyIs
  <2>2. LevelEffect(s[1], c) = d
    BY <2>1, <1>3, LevelEffectIs
  <2>3. LevelAllowed(s[1], c)
    BY <2>1 DEF LevelAllowed
  <2> QED BY <2>2, <2>3 DEF Allowed, Effect
<1>8. Allowed("levels", s[2], d) /\ d = Effect("levels", s[2], d)
  <2>1. s[2][1] = "superclass"
    BY <1>1, ClassBodyIs
  <2>2. LevelEffect(s[2], d) = d
    BY <2>1, LevelEffectIs
  <2>3. d[3] # <<>> /\ ~ Head(d[3])
    BY <1>4, <1>5
  <2>4. LevelAllowed(s[2], d)
    BY <2>1, <2>3 DEF LevelAllowed
  <2> QED BY <2>2, <2>4 DEF Allowed, Effect
<1>9. /\ Allowed("levels", s[3], d) /\ d = Effect("levels", s[3], d)
      /\ Allowed("levels", s[4], d) /\ d = Effect("levels", s[4], d)
      /\ Allowed("levels", s[5], d) /\ d = Effect("levels", s[5], d)
  <2>1. /\ s[3][1] \notin LevelNames /\ s[4][1] \notin LevelNames
        /\ s[5][1] \notin LevelNames
    BY <1>1, ClassBodyIs DEF LevelNames
  <2>2. Plain("levels", s[3]) /\ Plain("levels", s[4]) /\ Plain("levels", s[5])
    BY <2>1, PlainByName
  <2> QED BY <2>2, <1>6 DEF Plain
<1>10. Allowed("levels", s[6], d) /\ c = Effect("levels", s[6], d)
  <2>1. s[6][1] = "endClass"
    BY <1>1, ClassBodyIs
  <2>2. LevelEffect(s[6], d) =
          <<d[1], IF Head(d[3]) THEN Adjusted(d[2], "scopeDepth", -1) ELSE d[2], Tail(d[3])>>
    BY <2>1, LevelEffectIs
  <2>3. Head(d[3]) = FALSE /\ Tail(d[3]) = c[3] /\ d[3] # <<>>
    BY <1>4, <1>5
  <2>4. LevelEffect(s[6], d) = <<c[1], c[2], c[3]>>
    BY <2>2, <2>3, <1>5
  <2>5. LevelAllowed(s[6], d)
    BY <2>1, <2>3 DEF LevelAllowed
  <2> QED BY <2>4, <2>5, <1>2 DEF Allowed, Effect
<1>11. PICK t : t = <<c, d, d, d, d, d, c>>
  OBVIOUS
<1>12. /\ t[1] = c /\ t[2] = d /\ t[3] = d /\ t[4] = d /\ t[5] = d /\ t[6] = d /\ t[7] = c
  BY <1>11
<1>13. \A i \in 1 .. 7 : t[i] \in Contexts("levels")
  <2>1. \A i \in 1 .. 7 : i \in {1, 2, 3, 4, 5, 6, 7}
    OBVIOUS
  <2> QED BY <2>1, <1>6, <1>12
<1>14. \A i \in 1 .. 6 :
         Allowed("levels", s[i], t[i]) /\ t[i + 1] = Effect("levels", s[i], t[i])
  <2>1. \A i \in 1 .. 6 : i \in {1, 2, 3, 4, 5, 6}
    OBVIOUS
  <2>2. /\ 1 + 1 = 2 /\ 2 + 1 = 3 /\ 3 + 1 = 4 /\ 4 + 1 = 5 /\ 5 + 1 = 6 /\ 6 + 1 = 7
    OBVIOUS
  <2>3. \A i \in {1, 2, 3} :
          Allowed("levels", s[i], t[i]) /\ t[i + 1] = Effect("levels", s[i], t[i])
    BY <2>2, <1>7, <1>8, <1>9, <1>12
  <2>4. \A i \in {4, 5, 6} :
          Allowed("levels", s[i], t[i]) /\ t[i + 1] = Effect("levels", s[i], t[i])
    BY <2>2, <1>9, <1>10, <1>12
  <2> QED BY <2>1, <2>3, <2>4
<1>15. Len(s) = 6
  BY <1>1, ClassBodyIs
<1>16. Passes("levels", s, t)
  BY <1>13, <1>14, <1>15 DEF Passes
<1> QED BY <1>1, <1>12, <1>15, <1>16 DEF Leads

LEMMA ClassBrackets ==
  ASSUME NEW c, c \in Seq(Opening)
  PROVE  Leads("brackets", ClassBody, c, c)
<1>1. PICK s : s = ClassBody
  OBVIOUS
<1>2. s \in Seq(Item) /\ Len(s) = 6 /\ s[3] = Consume("{") /\ s[5] = Consume("}")
  BY <1>1, ClassBodyIs
<1>3. "{" \in Opening /\ Closing("{") = "}"
  BY DEF Opening, Closing
<1>4. Ends(s[5], "{")
  BY <1>2, <1>3, ConsumeIs DEF Ends
<1>5. /\ s[1][1] = "class" /\ s[2][1] = "superclass" /\ s[4][1] = "methods"
      /\ s[6][1] = "endClass"
  BY <1>1, ClassBodyIs
<1>6. \A i \in {1, 2, 4, 6} : s[i][1] \notin BracketNames \cup {"consume"}
  BY <1>5 DEF BracketNames
<1>7. \A i \in {1, 2, 4, 6} : Plain("brackets", s[i])
  BY <1>6, PlainByName
<1>8. Len(s) = 6 /\ \A i \in 1 .. 6 : i \notin {3, 5} => i \in {1, 2, 4, 6}
  <2>1. \A i \in 1 .. 6 : i \notin {3, 5} => i \in {1, 2, 4, 6}
    OBVIOUS
  <2> QED BY <2>1, <1>2
<1>9. 3 \in 1 .. Len(s) /\ 5 \in 1 .. Len(s) /\ 3 < 5
  BY <1>8
<1>10. \A i \in 1 .. Len(s) : i \notin {3, 5} => Plain("brackets", s[i])
  BY <1>7, <1>8
<1>11. Leads("brackets", s, c, c)
  BY <1>2, <1>3, <1>4, <1>9, <1>10, LeadsThroughPair
<1> QED BY <1>1, <1>11

LEMMA ClassIs ==
  /\ DeclarationOf("class") = ParseVariable \o ClassBody
  /\ DeclarationOf("class") \in Seq(Item) /\ Follows(DeclarationOf("class"))
  /\ \A c \in Levels : Leads("levels", DeclarationOf("class"), c, c)
  /\ \A c \in Seq(Opening) : Leads("brackets", DeclarationOf("class"), c, c)
<1>1. DeclarationOf("class") = ParseVariable \o ClassBody
  BY DEF DeclarationOf, ClassBody
<1>2. PICK v, w, s : v = ParseVariable /\ w = ClassBody /\ s = v \o w
  OBVIOUS
<1>3. /\ v \in Seq(Item) /\ Loose(v) /\ AllPlain("levels", v) /\ AllPlain("brackets", v)
  BY <1>2, SimpleParts, SimpleList
<1>4. w \in Seq(Item) /\ Follows(w)
  BY <1>2, ClassBodyIs, ClassFollows
<1>5. s \in Seq(Item)
  BY <1>2, <1>3, <1>4
<1>6. Follows(s)
  BY <1>2, <1>3, <1>4, FollowsLoose
<1>7. ASSUME NEW c \in Levels PROVE Leads("levels", s, c, c)
  <2>1. Leads("levels", v, c, c)
    BY <1>3, LeadsStill DEF Contexts
  <2>2. Leads("levels", w, c, c)
    BY <1>2, ClassLevels
  <2> QED BY <2>1, <2>2, <1>2, <1>3, <1>4, LeadsOn
<1>8. ASSUME NEW c \in Seq(Opening) PROVE Leads("brackets", s, c, c)
  <2>1. Leads("brackets", v, c, c)
    BY <1>3, LeadsStill DEF Contexts
  <2>2. Leads("brackets", w, c, c)
    BY <1>2, ClassBrackets
  <2> QED BY <2>1, <2>2, <1>2, <1>3, <1>4, LeadsOn
<1>9. DeclarationOf("class") = s
  BY <1>1, <1>2
<1> QED BY <1>1, <1>5, <1>6, <1>7, <1>8, <1>9

LEMMA DeclareStep ==
  ASSUME IInv, Declare
  PROVE  IInv' /\ Once
<1>1. At("declare") /\ UNCHANGED context
  BY DEF Declare
<1>2. todo # <<>> /\ Head(todo)[1] = "declare" /\ todo \in Seq(Item)
  BY <1>1, Head1
<1>3. "declare" \notin LevelNames \cup BracketNames \cup {"consume", "error"}
  BY DEF LevelNames, BracketNames
<1>4. CASE current = "class" /\ Take(DeclarationOf("class"))
  <2>1. PICK items : items = DeclarationOf("class")
    OBVIOUS
  <2>2. /\ items \in Seq(Item) /\ Follows(items)
        /\ \A c \in Levels : Leads("levels", items, c, c)
        /\ \A c \in Seq(Opening) : Leads("brackets", items, c, c)
    BY <2>1, ClassIs
  <2>3. Take(items) /\ Then(items) /\ Reported
    BY <1>4, <2>1, Taken, TakeReports
  <2>4. current \notin Brackets
    BY <1>4 DEF Brackets
  <2>5. hadError' \/ brackets' = brackets
    BY <2>3, <2>4, Taken
  <2>6. Follows(todo')
    <3>1. PICK u : u = Tail(todo)
      OBVIOUS
    <3>2. u \in Seq(Item) /\ Follows(u)
      BY <3>1, <1>2, FollowsTail DEF IInv
    <3>3. Follows(items \o u)
      BY <3>2, <2>2, FollowsWithin
    <3> QED BY <3>1, <3>3, <2>3 DEF Then
  <2> QED BY <2>2, <2>3, <2>5, <2>6, <1>1, <1>3, ListStep
<1>5. CASE current \in {"fun", "var", "const"} /\ Take(DeclarationOf(current))
  <2>1. Simple(DeclarationOf(current))
    <3>1. CASE current = "fun"
      BY <3>1, SimpleParts DEF DeclarationOf
    <3>2. CASE current = "var"
      BY <3>2, SimpleParts DEF DeclarationOf
    <3>3. CASE current = "const"
      BY <3>3, SimpleParts DEF DeclarationOf
    <3> QED BY <3>1, <3>2, <3>3, <1>5
  <2>2. current \notin Brackets
    BY <1>5 DEF Brackets
  <2>3. Reported
    BY <1>5, TakeReports
  <2> QED BY <2>1, <2>2, <2>3, <1>1, <1>3, <1>5, SimpleStep
<1>6. CASE Go(<<Do("statement")>>)
  <2>1. PICK items : items = <<Do("statement")>>
    OBVIOUS
  <2>2. Simple(items) /\ Go(items)
    BY <2>1, <1>6, SimpleItems, SimpleLists
  <2>3. items # <<>> /\ items[1][1] \in StaleNames
    BY <2>1 DEF Do, StaleNames
  <2>4. Then(items) /\ Quiet /\ items \in Seq(Item)
    BY <2>2 DEF Go, Simple
  <2>5. Reported
    BY <2>3, <2>4, <1>2, StaleReports
  <2> QED BY <2>2, <2>5, <1>1, <1>3, SimpleStep
<1> QED BY <1>4, <1>5, <1>6 DEF Declare, Declarations
-----------------------------------------------------------------------------
(* The first token, and the steps together.                                *)

LEMMA StartStep ==
  ASSUME Init, Start
  PROVE  IInv' /\ Once
<1>1. /\ Take(<<>>) /\ UNCHANGED context
  BY DEF Start
<1>2. /\ context = Origin /\ brackets = <<>> /\ current = "eof" /\ ~ panicMode /\ ~ hadError
  BY DEF Init, context, Origin
<1>3. PICK a, b : a = Do("start") /\ b = Do("program")
  OBVIOUS
<1>4. b \in Item /\ b[1] = "program"
  BY <1>3, ItemsOf DEF ItemNames, Binding
<1>5. todo = <<a, b>>
  BY <1>3 DEF Init
<1>6. PICK u : u = Tail(todo)
  OBVIOUS
<1>7. u \in Seq(Item) /\ Len(u) = 1 /\ u[1] = b
  <2>1. u = <<b>>
    BY <1>5, <1>6
  <2> QED BY <2>1, <1>4
<1>8. todo' = u
  <2>1. todo' = <<>> \o u
    BY <1>1, <1>6 DEF Take, Then
  <2> QED BY <2>1, <1>7
<1>9. Origin \in Levels
  <2>1. Script \in Compiler
    BY DEF Script, Compiler, Words
  <2>2. <<Script>> \in Seq(Compiler) \ {<<>>} /\ <<>> \in Seq(BOOLEAN)
    BY <2>1
  <2>3. PICK s \in Seq(Compiler) \ {<<>>}, e \in Seq(BOOLEAN) : s = <<Script>> /\ e = <<>>
    BY <2>2
  <2>4. Origin = <<0, s, e>>
    BY <2>3 DEF Origin
  <2> QED BY <2>4 DEF Levels
<1>10. 1 \in 1 .. Len(u) /\ \A i \in 1 .. Len(u) : i = 1
  BY <1>7
<1>11. Leads("levels", u, Origin, Origin)
  <2>1. LevelAllowed(b, Origin) /\ LevelEffect(b, Origin) = Origin
    BY <1>4, LevelEffectIs DEF LevelAllowed
  <2>2. Allowed("levels", u[1], Origin) /\ Origin = Effect("levels", u[1], Origin)
    BY <2>1, <1>7 DEF Allowed, Effect
  <2>3. Origin \in Contexts("levels")
    BY <1>9 DEF Contexts
  <2> QED BY <2>2, <2>3, <1>7, <1>10, LeadsThrough
<1>12. Leads("brackets", u, <<>>, <<>>)
  <2>1. Plain("brackets", b)
    BY <1>4, PlainByName DEF BracketNames
  <2>2. AllPlain("brackets", u)
    BY <2>1, <1>7, <1>10 DEF AllPlain
  <2>3. <<>> \in Contexts("brackets")
    BY DEF Contexts
  <2> QED BY <2>2, <2>3, <1>7, LeadsStill
<1>13. LevelInv'
  <2>1. context' = Origin
    BY <1>1, <1>2
  <2> QED BY <2>1, <1>8, <1>11 DEF LevelInv
<1>14. BracketInv'
  <2>1. current \notin Brackets
    BY <1>2 DEF Brackets
  <2>2. hadError' \/ brackets' = <<>>
    BY <2>1, <1>1, <1>2, Taken
  <2> QED BY <2>2, <1>8, <1>12 DEF BracketInv
<1>15. Follows(todo')
  <2>1. b[1] \notin FollowNames
    BY <1>4 DEF FollowNames
  <2>2. FollowsAt(u, 1)
    BY <2>1, <1>7 DEF FollowsAt, FollowNames
  <2> QED BY <2>2, <1>8, <1>10 DEF Follows
<1>16. fresh' = TRUE /\ (panicMode' => hadError')
  BY <1>1, <1>2 DEF Take, Advance
<1>17. todo' \in Seq(Item)
  BY <1>7, <1>8
<1> QED BY <1>13, <1>14, <1>15, <1>16, <1>17 DEF IInv, StaleInv, Once

LEMMA NotStarting ==
  ASSUME IInv
  PROVE  ~ At("start") /\ ~ Start
<1>1. "start" \notin ItemNames
  BY DEF ItemNames
<1>2. ASSUME At("start") PROVE FALSE
  <2>1. Head(todo) \in Item /\ Head(todo)[1] = "start"
    BY <1>2, Head1
  <2> QED BY <2>1, <1>1 DEF Item
<1> QED BY <1>2 DEF Start

(* At the beginning there is only the first token to read. *)
LEMMA OnlyStarting ==
  ASSUME Init, Next
  PROVE  Start
<1>1. ASSUME NEW name, At(name) PROVE name = "start"
  <2>1. todo = <<Do("start"), Do("program")>>
    BY DEF Init
  <2>2. Head(todo) = Do("start")
    BY <2>1
  <2> QED BY <1>1, <2>2 DEF At, Do
<1>2. ASSUME ConsumeToken \/ ErrorAt \/ Block \/ Statement \/ StatementInner \/ Else PROVE FALSE
  BY <1>1, <1>2 DEF ConsumeToken, ErrorAt, Block, Statement, StatementInner, Else
<1>3. ASSUME \/ ParsePrecedence \/ ReturnFrom \/ ParsePrefix \/ ParseInfix \/ EndExpression
             \/ Variable \/ Check \/ This \/ Super
      PROVE  FALSE
  BY <1>1, <1>3 DEF ParsePrecedence, ReturnFrom, ParsePrefix, ParseInfix, EndExpression, Variable,
                    Check, This, Super
<1>4. ASSUME \/ Invoked \/ Arguments \/ MoreArguments \/ Assigned \/ Dotted \/ ObjectLiteral
             \/ Property \/ MoreProperties \/ EndObject
      PROVE  FALSE
  BY <1>1, <1>4 DEF Invoked, Arguments, MoreArguments, Assigned, Dotted, ObjectLiteral, Property,
                    MoreProperties, EndObject
<1>5. ASSUME \/ Return \/ Returned \/ LeaveLoop \/ ForInit \/ ForCondition \/ ForIncrement
             \/ BeginScope \/ EndScope \/ Loop \/ EndLoop
      PROVE  FALSE
  BY <1>1, <1>5 DEF Return, Returned, LeaveLoop, ForInit, ForCondition, ForIncrement, BeginScope,
                    EndScope, Loop, EndLoop, Counting
<1>6. ASSUME \/ DeclareVariable \/ Initializer \/ MoreVars \/ ConstInitializer \/ DefineConst
             \/ MoreConsts \/ Function \/ Parameters \/ MoreParameters \/ EndCompiler
      PROVE  FALSE
  BY <1>1, <1>6 DEF DeclareVariable, Initializer, MoreVars, ConstInitializer, DefineConst, MoreConsts,
                    Function, Parameters, MoreParameters, EndCompiler
<1>7. ASSUME \/ Class \/ Superclass \/ Inherit \/ Methods \/ MethodBody \/ EndClass
             \/ Declaration \/ Declare \/ Settle \/ Synchronize \/ Skip \/ Program
      PROVE  FALSE
  BY <1>1, <1>7 DEF Class, Superclass, Inherit, Methods, MethodBody, EndClass, Declaration, Declare,
                    Settle, Synchronize, Skip, Program
<1> QED BY <1>2, <1>3, <1>4, <1>5, <1>6, <1>7 DEF Next, Expressions

LEMMA NextKeeps ==
  ASSUME IInv, Next
  PROVE  IInv' /\ Once
<1>1. CASE ConsumeToken \/ ErrorAt
  BY <1>1, ConsumeStep, ErrorStep
<1>2. CASE Expressions
  BY <1>2, GuardedSteps, RuleSteps, ExpressionSteps, ArgumentSteps, ObjectSteps, LeavingSteps,
     CountingSteps DEF Expressions
<1>3. CASE \/ Block \/ Statement \/ StatementInner \/ Else \/ Return \/ Returned \/ LeaveLoop
           \/ ForInit \/ ForCondition \/ ForIncrement \/ BeginScope \/ EndScope \/ Loop \/ EndLoop
  BY <1>3, BlockStep, GuardedSteps, InnerStep, StatementSteps, ArgumentSteps, CountingSteps
<1>4. CASE \/ DeclareVariable \/ Initializer \/ MoreVars \/ ConstInitializer \/ DefineConst
           \/ MoreConsts \/ Function \/ Parameters \/ MoreParameters \/ EndCompiler
  BY <1>4, DeclarationSteps, FunctionStep, MemberSteps, LeavingSteps
<1>5. CASE \/ Class \/ Superclass \/ Inherit \/ Methods \/ MethodBody \/ EndClass
  BY <1>5, LeavingSteps, SuperclassStep, MemberSteps
<1>6. CASE Declaration \/ Declare \/ Settle \/ Synchronize \/ Skip \/ Program
  BY <1>6, DeclarationStep, DeclareStep, SettleStep, SynchronizeStep, SkipStep, ProgramStep
<1> QED BY <1>1, <1>2, <1>3, <1>4, <1>5, <1>6, NotStarting DEF Next

LEMMA StutterKeeps ==
  ASSUME Init \/ IInv, UNCHANGED vars
  PROVE  (Init \/ IInv)'
<1>1. /\ family' = family /\ left' = left /\ previous' = previous /\ current' = current
      /\ brackets' = brackets /\ panicMode' = panicMode /\ hadError' = hadError
      /\ fresh' = fresh /\ parseDepth' = parseDepth /\ compilers' = compilers
      /\ classes' = classes /\ todo' = todo
  BY DEF vars, text, status, context
<1>2. CASE Init
  BY <1>1, <1>2 DEF Init
<1>3. CASE IInv
  <2>1. context' = context
    BY <1>1 DEF context
  <2>2. LevelInv'
    BY <1>1, <1>3, <2>1 DEF IInv, LevelInv
  <2>3. BracketInv'
    BY <1>1, <1>3 DEF IInv, BracketInv, At
  <2>4. StaleInv'
    BY <1>1, <1>3 DEF IInv, StaleInv, Stale
  <2> QED BY <1>1, <1>3, <2>2, <2>3, <2>4 DEF IInv
<1> QED BY <1>2, <1>3

-----------------------------------------------------------------------------
(* The theorems.                                                           *)

ParserInv == Init \/ IInv

(* compile: in every state of every parse, what the functions that are     *)
(* running have still to do leaves every level that was entered, and, as   *)
(* long as there was no error, closes every bracket that was opened.       *)
THEOREM ParserInvariant == Spec => []ParserInv
<1>1. Init => ParserInv
  BY DEF ParserInv
<1>2. ParserInv /\ [Next]_vars => ParserInv'
  <2>1. ASSUME ParserInv, Next PROVE ParserInv'
    <3>1. CASE Init
      BY <3>1, <2>1, OnlyStarting, StartStep DEF ParserInv
    <3>2. CASE IInv
      BY <3>2, <2>1, NextKeeps DEF ParserInv
    <3> QED BY <3>1, <3>2, <2>1 DEF ParserInv
  <2>2. ASSUME ParserInv, UNCHANGED vars PROVE ParserInv'
    BY <2>2, StutterKeeps DEF ParserInv
  <2> QED BY <2>1, <2>2
<1> QED BY <1>1, <1>2, PTL DEF Spec

(* compile, the early returns of classDeclaration, objectLiteral, the loops *)
(* and the guards of nesting: whatever was wrong in the text, at every     *)
(* declaration of the script and at the end every level is restored.       *)
THEOREM LevelsAreRestored == Spec => []LevelsRestored
<1>1. ParserInv => LevelsRestored
  <2>1. ASSUME Init PROVE ~ At("program") /\ ~ Done
    <3>1. todo = <<Do("start"), Do("program")>>
      BY <2>1 DEF Init
    <3>2. todo # <<>> /\ Head(todo) = Do("start")
      BY <3>1
    <3> QED BY <3>2 DEF At, Done, Do
  <2>2. ASSUME context = Origin PROVE parseDepth = 0 /\ compilers = <<Script>> /\ classes = <<>>
    BY <2>2 DEF context, Origin
  <2>3. ASSUME IInv, At("program") PROVE context = Origin
    <3>1. todo # <<>> /\ Head(todo)[1] = "program"
      BY <2>3, Head1
    <3>2. LevelAllowed(Head(todo), context)
      BY <2>3, <3>1, LevelsAre
    <3> QED BY <3>1, <3>2 DEF LevelAllowed
  <2>4. ASSUME IInv, Done PROVE context = Origin
    BY <2>4, LeadsNowhere DEF IInv, LevelInv, Done
  <2> QED BY <2>1, <2>2, <2>3, <2>4 DEF ParserInv, LevelsRestored
<1> QED BY <1>1, ParserInvariant, PTL

(* consume: a text that compile accepts is well bracketed.                 *)
THEOREM TextsAreBracketed == Spec => []AcceptedIsBracketed
<1>1. ParserInv => AcceptedIsBracketed
  <2>1. ASSUME Init PROVE ~ Done
    <3>1. todo = <<Do("start"), Do("program")>>
      BY <2>1 DEF Init
    <3> QED BY <3>1 DEF Done
  <2>2. ASSUME IInv, Done, ~ hadError PROVE brackets = <<>>
    <3>1. Leads("brackets", <<>>, brackets, <<>>)
      BY <2>2 DEF IInv, BracketInv, Done, At
    <3> QED BY <3>1, LeadsNowhere
  <2> QED BY <2>1, <2>2 DEF ParserInv, AcceptedIsBracketed
<1> QED BY <1>1, ParserInvariant, PTL

(* errorAt, synchronize: no place in the text is reported twice.           *)
THEOREM ErrorsAreReportedOnce == Spec => ReportsOnce
<1>1. ParserInv /\ [Next]_vars =>
        [~panicMode /\ panicMode' /\ ~fresh' => fresh \/ Refused \/ current = "eof"]_vars
  <2>1. ASSUME ParserInv, Next PROVE Once
    <3>1. CASE Init
      BY <3>1, <2>1, OnlyStarting, StartStep
    <3>2. CASE IInv
      BY <3>2, <2>1, NextKeeps
    <3> QED BY <3>1, <3>2, <2>1 DEF ParserInv
  <2> QED BY <2>1 DEF Once
<1> QED BY <1>1, ParserInvariant, PTL DEF Spec, ReportsOnce
=============================================================================
