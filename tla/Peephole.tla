------------------------------ MODULE Peephole ------------------------------
(***************************************************************************)
(* The peephole optimiser of src/compiler.c.  The parser emits an          *)
(* expression in postfix order; after every operator, instructionOptimize  *)
(* looks at the names of the last instructions (opStack) and may fold them *)
(* or merge them into one.  emitBranchJump does the same for conditions.   *)
(* Next builds programs construct by construct; em is what the compiler    *)
(* emits for one, plain the same without merging anything.                 *)
(***************************************************************************)
EXTENDS Integers, FiniteSetsExt, SequencesExt

(***************************************************************************)
(* A family of programs: the constructs they use, their constants (numbers *)
(* and strings), how many locals there are at first, what these and the    *)
(* global may hold, and bounds on the unfinished operands and the bytes of *)
(* a program.                                                              *)
(***************************************************************************)
CONSTANT Families

VARIABLES
  family,       (* The family of the program.                             *)
  em,           (* The chunk, opStack and parser.hadError.                *)
  plain,        (* The chunk without optimisation.                        *)
  depth,        (* Values on the stack at this point of the program.      *)
  locals,       (* How many of them are locals.                           *)
  start,        (* condStart: where the current statement begins.         *)
  pending,      (* Jumps to be patched, the innermost construct last.     *)
  crossed       (* Something was merged across the target of a jump.      *)

vars == <<family, em, plain, depth, locals, start, pending, crossed>>

Constructs == family.constructs
Locals == family.locals

-----------------------------------------------------------------------------
(* Values.  MULTIPLY, DIVIDE and MODULUS are treated like SUBTRACT.        *)

Num(n) == <<"number", n>>
NaN == <<"nan", 0>>
Str(n) == <<"string", n>>
Bool(b) == <<"bool", IF b THEN 1 ELSE 0>>
Nil == <<"nil", 0>>
Object == <<"object", 0>>
Literal == [TRUE |-> Bool(TRUE), FALSE |-> Bool(FALSE), NIL |-> Nil]

IsNumber(v) == v[1] \in {"number", "nan"}
IsString(v) == v[1] = "string"
IsFalsey(v) == v \in {Nil, Bool(FALSE)}
ValuesEqual(v, w) == v = w /\ v # NaN

Arithmetic == {"ADD", "SUBTRACT"}
Comparisons == {"LESS", "LESS_EQUAL", "GREATER", "GREATER_EQUAL"}
Equalities == {"EQUAL", "NOT_EQUAL"}

(* Both operands are constants an operator other than == and != accepts. *)
Accepts(op, v, w) ==
  \/ IsNumber(v) /\ IsNumber(w)
  \/ op # "SUBTRACT" /\ IsString(v) /\ IsString(w)

Calculated(op, v, w) ==
  CASE op = "EQUAL"         -> Bool(ValuesEqual(v, w))
    [] op = "NOT_EQUAL"     -> Bool(~ValuesEqual(v, w))
    [] op = "LESS"          -> Bool(NaN \notin {v, w} /\ v[2] < w[2])
    [] op = "LESS_EQUAL"    -> Bool(NaN \notin {v, w} /\ v[2] <= w[2])
    [] op = "GREATER"       -> Bool(NaN \notin {v, w} /\ v[2] > w[2])
    [] op = "GREATER_EQUAL" -> Bool(NaN \notin {v, w} /\ v[2] >= w[2])
    [] NaN \in {v, w}       -> NaN
    [] op = "SUBTRACT"      -> Num(v[2] - w[2])
    [] IsString(v)          -> Str(10 * v[2] + w[2])
    [] OTHER                -> Num(v[2] + w[2])

Negated(v) == IF v = NaN THEN NaN ELSE Num(-v[2])

(* The characters of Str(12) are 1 and 2. *)
Digits(n) == IF n < 10 THEN <<n>> ELSE <<n \div 10, n % 10>>
Character(string, index) ==
  IF index # NaN /\ index[2] + 1 \in DOMAIN Digits(string[2])
    THEN Num(Digits(string[2])[index[2] + 1]) ELSE Nil

(* The table of the one object, a set of pairs. *)
Field(fields, name) ==
  LET found == {f \in fields : f[1] = name}
  IN IF found = {} THEN Nil ELSE (CHOOSE f \in found : TRUE)[2]
SetField(fields, name, value) ==
  {f \in fields : f[1] # name} \cup (IF value = Nil THEN {} ELSE {<<name, value>>})

-----------------------------------------------------------------------------
(* A chunk is a sequence of bytes; the first one of an instruction stands  *)
(* for all of it, the others are no instruction.  right says where an      *)
(* operator takes its right operand from: the suffix of OP_ADD_CONST,      *)
(* OP_ADD_LOCAL, ...                                                       *)

Instr(op) == [op |-> op, test |-> "none", right |-> "stack", const |-> Nil,
              a |-> 0, b |-> 0, target |-> 0]
OperandByte == Instr("none")

Bytes(code, instr, size) == code \o <<instr>> \o [i \in 1 .. size - 1 |-> OperandByte]
Shorter(seq, n) == SubSeq(seq, 1, Len(seq) - n)

LoadConstant(v) == [Instr("CONSTANT") EXCEPT !.const = v]
LoadLocal(a) == [Instr("GET_LOCAL") EXCEPT !.a = a]
StoreLocal(a) == [Instr("SET_LOCAL") EXCEPT !.a = a]
Store(name) == [Instr("SET_PROPERTY") EXCEPT !.const = name]

Emit(e, instr, size) == [e EXCEPT !.code = Bytes(@, instr, size)]
PushOp(e, op) == [e EXCEPT !.ops = Append(@, op)]
ClearOps(e) == [e EXCEPT !.ops = <<>>]
Error(e) == [e EXCEPT !.hadError = TRUE]
Peek(e, offset) ==
  IF Len(e.ops) > offset THEN e.ops[Len(e.ops) - offset] ELSE "NONE"

(* chunk_fallback and opStack_fallback *)
Fallback(e, size, ops) ==
  [e EXCEPT !.code = Shorter(@, size), !.ops = Shorter(@, ops)]

EmitConstant(e, v) == PushOp(Emit(e, LoadConstant(v), 3), "CONSTANT")
EmitLiteral(e, op) == PushOp(Emit(e, Instr(op), 1), op)
EmitBool(e, b) == EmitLiteral(e, IF b THEN "TRUE" ELSE "FALSE")

-----------------------------------------------------------------------------
(* instructionOptimize.  The operator has been emitted and pushed.         *)

IsLiteral(op) == op \in {"TRUE", "FALSE", "NIL"}
IsKnown(op) == op = "CONSTANT" \/ IsLiteral(op)
OperandSize(op) == IF op = "CONSTANT" THEN 3 ELSE 1

(* The constant whose load ends offset bytes before the end. *)
ReadOperand(e, op, offset) ==
  IF IsLiteral(op) THEN Literal[op] ELSE e.code[Len(e.code) - offset - 2].const

Right(e) == ReadOperand(e, Peek(e, 1), 1)
Left(e) == ReadOperand(e, Peek(e, 2), 1 + OperandSize(Peek(e, 1)))
FoldedSize(e) == 1 + OperandSize(Peek(e, 1)) + OperandSize(Peek(e, 2))

(* Mutant: the load of a constant is taken for two bytes. *)
ConvertedShort(e, op, right) ==
  LET shorter == Shorter(e.code, 1)
      at == Len(shorter) - 1
  IN ClearOps([e EXCEPT !.code = [shorter EXCEPT ![at].op = op, ![at].right = right]])

(* The operator replaces the load of its right operand. *)
Converted(e, op, right) ==
  LET shorter == Shorter(e.code, 1)
      at == Len(shorter) - (IF right = "const" THEN 2 ELSE 1)
  IN ClearOps([e EXCEPT !.code = [shorter EXCEPT ![at].op = op, ![at].right = right]])

WithRight(e, op) ==
  CASE Peek(e, 1) = "CONSTANT"  -> Converted(e, op, "const")
    [] Peek(e, 1) = "GET_LOCAL" -> Converted(e, op, "local")
    [] OTHER                    -> e

(* Mutant: the operands are exchanged. *)
FoldBinarySwapped(e, op) ==
  LET value == Calculated(op, Right(e), Left(e))
      rest == Fallback(e, FoldedSize(e), 3)
  IN IF value[1] = "bool" THEN EmitBool(rest, value = Bool(TRUE))
     ELSE EmitConstant(rest, value)

FoldBinary(e, op) ==
  LET value == Calculated(op, Left(e), Right(e))
      rest == Fallback(e, FoldedSize(e), 3)
  IN IF value[1] = "bool" THEN EmitBool(rest, value = Bool(TRUE))
     ELSE EmitConstant(rest, value)

OptimizeBinary(e, op) ==
  IF op \in Equalities
    THEN IF IsKnown(Peek(e, 1)) /\ IsKnown(Peek(e, 2)) THEN FoldBinary(e, op)
         ELSE WithRight(e, op)
  ELSE IF Peek(e, 1) = "CONSTANT" /\ Peek(e, 2) = "CONSTANT"
    THEN IF Accepts(op, Left(e), Right(e)) THEN FoldBinary(e, op) ELSE Error(e)
  ELSE WithRight(e, op)

OptimizeNot(e) ==
  CASE IsKnown(Peek(e, 1)) ->
         EmitBool(Fallback(e, 1 + OperandSize(Peek(e, 1)), 2), IsFalsey(Right(e)))
    [] Peek(e, 1) = "GET_LOCAL" -> Converted(e, "NOT", "local")
    [] OTHER -> e

OptimizeNegate(e) ==
  CASE IsKnown(Peek(e, 1)) ->
         IF IsNumber(Right(e)) THEN EmitConstant(Fallback(e, 4, 2), Negated(Right(e)))
         ELSE Error(e)
    [] Peek(e, 1) = "GET_LOCAL" -> Converted(e, "NEGATE", "local")
    [] OTHER -> e

(* Mutant: the local that is read is taken for the one that is stored. *)
MergedStoreBack(e) ==
  LET code == Shorter(e.code, 1)
      at == Len(code) - 1
  IN IF Peek(e, 2) = "GET_LOCAL"
       THEN [e EXCEPT !.code = Append([Shorter(code, 2) EXCEPT
              ![at - 2].op = "MOVE_LOCAL", ![at - 2].a = code[at].a,
              ![at - 2].b = code[at - 2].a], OperandByte)]
     ELSE [e EXCEPT !.code = [code EXCEPT ![at].op = "SET_LOCAL_POP"]]

(* A store in a local that is not used as a value. *)
MergedStore(e) ==
  LET code == Shorter(e.code, 1)
      at == Len(code) - 1
  IN IF Peek(e, 2) = "GET_LOCAL"
       THEN [e EXCEPT !.code = Append([Shorter(code, 2) EXCEPT
              ![at - 2].op = "MOVE_LOCAL", ![at - 2].b = code[at].a], OperandByte)]
     ELSE [e EXCEPT !.code = [code EXCEPT ![at].op = "SET_LOCAL_POP"]]

OptimizePop(e) ==
  CASE Peek(e, 1) = "SET_LOCAL" -> ClearOps(MergedStore(e))
    [] Peek(e, 1) = "SET_PROPERTY" ->
         ClearOps([e EXCEPT !.code = [Shorter(@, 1) EXCEPT
                                        ![Len(@) - 3].op = "SET_PROPERTY_POP"]])
    [] OTHER -> e

Optimize(e, op) ==
  CASE op = "NOT"    -> OptimizeNot(e)
    [] op = "NEGATE" -> OptimizeNegate(e)
    [] op = "POP"    -> OptimizePop(e)
    [] OTHER         -> OptimizeBinary(e, op)

(* emitByte and emitOpStack of an operator *)
EmitOperator(e, op) == Optimize(PushOp(Emit(e, Instr(op), 1), op), op)

(* emitPopCount(1) *)
EmitPop(e) == ClearOps(EmitOperator(e, "POP"))

-----------------------------------------------------------------------------
(* emitJump and emitBranchJump: the jump is the last instruction of code,  *)
(* at its position at; 0 when there is nothing to patch.                   *)

EmitJump(e, op) ==
  [em |-> ClearOps(Emit(e, Instr(op), 3)), at |-> Len(e.code) + 1]

(* Mutant: the comparison is negated. *)
FlippedNegated(op) ==
  CASE op = "LESS" -> "GREATER_EQUAL" [] op = "LESS_EQUAL" -> "GREATER"
    [] op = "GREATER" -> "LESS_EQUAL" [] op = "GREATER_EQUAL" -> "LESS"
    [] OTHER -> op

(* The comparison with its operands exchanged. *)
Flipped(op) ==
  CASE op = "LESS" -> "GREATER" [] op = "LESS_EQUAL" -> "GREATER_EQUAL"
    [] op = "GREATER" -> "LESS" [] op = "GREATER_EQUAL" -> "LESS_EQUAL"
    [] OTHER -> op

EmitBranchJump(e, condStart) ==
  LET size == Len(e.code) - condStart
      at(k) == e.code[condStart + k]
      rolledBack == ClearOps([e EXCEPT !.code = SubSeq(@, 1, condStart)])
      Fused(test, a, right, b, const, n) ==
        [em |-> Emit(rolledBack, [Instr("JIF") EXCEPT !.test = test,
                   !.right = right, !.a = a, !.b = b, !.const = const], n),
         at |-> condStart + 1]
      IsTest(k, right) ==
        at(k).op \in Comparisons \cup Equalities /\ at(k).right = right
      left == at(1)
  IN CASE size = 1 /\ left.op \in {"FALSE", "NIL"} -> EmitJump(rolledBack, "JUMP")
       [] (size = 1 /\ left.op = "TRUE") \/ (size = 3 /\ left.op = "CONSTANT") ->
            [em |-> rolledBack, at |-> 0]
       [] size = 4 /\ left.op = "GET_LOCAL" /\ IsTest(3, "local") ->
            IF at(3).op \in {"GREATER", "GREATER_EQUAL"}
              THEN Fused(Flipped(at(3).op), at(3).a, "local", left.a, Nil, 5)
              ELSE Fused(at(3).op, left.a, "local", at(3).a, Nil, 5)
       [] size = 5 /\ left.op = "GET_LOCAL" /\ IsTest(3, "const") ->
            Fused(at(3).op, left.a, "const", 0, at(3).const, 6)
       [] size = 5 /\ left.op = "CONSTANT" /\ IsTest(4, "local") ->
            Fused(Flipped(at(4).op), at(4).a, "const", 0, left.const, 6)
       [] OTHER -> EmitJump(e, "JUMP_IF_FALSE_POP")

-----------------------------------------------------------------------------
(* The parser.  Operands of the innermost logical operator's left side and *)
(* the locals below them are not touched by its right side.                *)

Floor == IF pending = <<>> THEN locals ELSE Last(pending).depth
Temporaries == depth - Floor
InExpression == pending # <<>> /\ Last(pending).kind # "IF"
AtStatement == ~InExpression /\ depth = locals

Within == Len(plain) < family.maxCode /\ ~em.hadError

(* Some jump lands behind the first byte that before and after differ in,  *)
(* among the bytes that were merged.                                       *)
Crosses(before, after) ==
  LET changed == {i \in DOMAIN before : i > Len(after) \/ before[i] # after[i]}
  IN changed # {} /\ \E i \in DOMAIN before : before[i].target > Min(changed)

Patched(code, at) ==
  IF at = 0 THEN code ELSE [code EXCEPT ![at].target = Len(code) + 1]
PatchEm(e, at) == [e EXCEPT !.code = Patched(@, at)]

Operand(e, instr, size) ==
  /\ Within /\ Temporaries < family.maxTemporaries
  /\ em' = e
  /\ plain' = Bytes(plain, instr, size)
  /\ depth' = depth + 1
  /\ UNCHANGED <<family, locals, start, pending, crossed>>

Constant == \E v \in family.constants : Operand(EmitConstant(em, v), LoadConstant(v), 3)
LiteralValue ==
  \E op \in Constructs \cap DOMAIN Literal : Operand(EmitLiteral(em, op), Instr(op), 1)
GetLocal ==
  \E a \in 1 .. locals :
    Operand(PushOp(Emit(em, LoadLocal(a), 2), "GET_LOCAL"), LoadLocal(a), 2)
(* Mutant: opStack is not cleared. *)
GetGlobalKept ==
  /\ "GET_GLOBAL" \in Constructs
  /\ Operand(Emit(em, Instr("GET_GLOBAL"), 3), Instr("GET_GLOBAL"), 3)

(* Like calls, properties and upvalues: nothing is merged with it. *)
GetGlobal ==
  /\ "GET_GLOBAL" \in Constructs
  /\ Operand(ClearOps(Emit(em, Instr("GET_GLOBAL"), 3)), Instr("GET_GLOBAL"), 3)

Operator(op, operands) ==
  LET emitted == Bytes(em.code, Instr(op), 1)
  IN /\ Within /\ Temporaries >= operands
     /\ em' = EmitOperator(em, op)
     /\ plain' = Bytes(plain, Instr(op), 1)
     /\ depth' = depth - operands + 1
     /\ crossed' = (crossed \/ Crosses(emitted, em'.code))
     /\ UNCHANGED <<family, locals, start, pending>>

Binary ==
  \E op \in Constructs \cap (Arithmetic \cup Comparisons \cup Equalities) : Operator(op, 2)
Unary == \E op \in Constructs \cap {"NOT", "NEGATE"} : Operator(op, 1)

SetLocal ==
  /\ Within /\ "SET_LOCAL" \in Constructs
  /\ Temporaries >= 1
  /\ \E a \in 1 .. locals :
       /\ em' = PushOp(Emit(em, StoreLocal(a), 2), "SET_LOCAL")
       /\ plain' = Bytes(plain, StoreLocal(a), 2)
  /\ UNCHANGED <<family, depth, locals, start, pending, crossed>>

SetProperty ==
  /\ Within /\ "SET_PROPERTY" \in Constructs
  /\ Temporaries >= 2
  /\ em' = PushOp(ClearOps(Emit(em, Store(Str(1)), 3)), "SET_PROPERTY")
  /\ plain' = Bytes(plain, Store(Str(1)), 3)
  /\ depth' = depth - 1
  /\ UNCHANGED <<family, locals, start, pending, crossed>>

(* subscript, mergeSubscript: the load of a constant index is taken back   *)
(* before the value that is assigned is compiled.                          *)
IndexIsConstant == Peek(em, 0) = "CONSTANT"
Index == em.code[Len(em.code) - 2].const
WithoutIndex == ClearOps(Fallback(em, 3, 0))

IndexedBy(v) ==
  [Instr(IF IsNumber(v) THEN "GET_INDEX" ELSE "GET_PROPERTY") EXCEPT !.const = v]

(* Mutant: opStack is not cleared. *)
MergedSubscriptKept == Emit(Fallback(em, 3, 0), IndexedBy(Index), 3)
MergedSubscript == ClearOps(Emit(WithoutIndex, IndexedBy(Index), 3))

GetSubscript ==
  /\ Within /\ "SUBSCRIPT" \in Constructs
  /\ Temporaries >= 2
  /\ em' = IF IndexIsConstant THEN MergedSubscript
           ELSE ClearOps(Emit(em, Instr("GET_SUBSCRIPT"), 1))
  /\ plain' = Bytes(plain, Instr("GET_SUBSCRIPT"), 1)
  /\ depth' = depth - 1
  /\ crossed' = (crossed \/ Crosses(em.code, em'.code))
  /\ UNCHANGED <<family, locals, start, pending>>

BeginSetSubscript ==
  /\ Within /\ "SET_SUBSCRIPT" \in Constructs
  /\ Temporaries >= 2
  /\ em' = IF IndexIsConstant THEN WithoutIndex ELSE em
  /\ pending' = Append(pending, [kind |-> "SUBSCRIPT", depth |-> depth,
                                 index |-> IF IndexIsConstant THEN Index ELSE Nil])
  /\ crossed' = (crossed \/ Crosses(em.code, em'.code))
  /\ UNCHANGED <<family, plain, depth, locals, start>>

EndSetSubscript ==
  /\ InExpression /\ Last(pending).kind = "SUBSCRIPT" /\ Temporaries = 1
  /\ LET index == Last(pending).index
     IN em' = CASE index = Nil -> ClearOps(Emit(em, Instr("SET_SUBSCRIPT"), 1))
                [] IsNumber(index) -> Error(em)
                [] OTHER -> PushOp(Emit(em, Store(index), 3), "SET_PROPERTY")
  /\ plain' = Bytes(plain, Instr("SET_SUBSCRIPT"), 1)
  /\ depth' = depth - 2
  /\ pending' = Front(pending)
  /\ UNCHANGED <<family, locals, start, crossed>>

(* and_, or_: the left operand is popped when it does not decide. *)
LogicalJump(op) == IF op = "AND" THEN "JUMP_IF_FALSE" ELSE "JUMP_IF_TRUE"

BeginLogical ==
  \E op \in Constructs \cap {"AND", "OR"} :
    LET jump == EmitJump(em, LogicalJump(op))
    IN /\ Within /\ Temporaries >= 1
       /\ em' = EmitPop(jump.em)
       /\ plain' = Bytes(Bytes(plain, Instr(LogicalJump(op)), 3), Instr("POP"), 1)
       /\ depth' = depth - 1
       /\ pending' = Append(pending, [kind |-> "LOGICAL", depth |-> depth - 1,
                                      at |-> jump.at, plainAt |-> Len(plain) + 1])
       /\ UNCHANGED <<family, locals, start, crossed>>

EndLogical ==
  /\ InExpression /\ Last(pending).kind = "LOGICAL" /\ Temporaries = 1
  /\ em' = PatchEm(em, Last(pending).at)
  /\ plain' = Patched(plain, Last(pending).plainAt)
  /\ pending' = Front(pending)
  /\ UNCHANGED <<family, depth, locals, start, crossed>>

-----------------------------------------------------------------------------
(* Statements. *)

NextStatement == start' = Len(em'.code)
EndsExpression == ~InExpression /\ depth = locals + 1

(* expressionStatement, and endScope when the block had one local *)
PopOne ==
  /\ Within
  /\ em' = EmitPop(em)
  /\ plain' = Bytes(plain, Instr("POP"), 1)
  /\ depth' = depth - 1
  /\ crossed' = (crossed \/ Crosses(Bytes(em.code, Instr("POP"), 1), em'.code))
  /\ NextStatement
  /\ UNCHANGED <<family, pending>>

ExpressionStatement ==
  "POP" \in Constructs /\ EndsExpression /\ PopOne /\ UNCHANGED locals
EndScope ==
  AtStatement /\ pending = <<>> /\ locals > Locals /\ PopOne /\ locals' = locals - 1

(* varDeclaration: the value stays where it is. *)
VarDeclaration ==
  /\ Within /\ "VAR" \in Constructs
  /\ EndsExpression /\ pending = <<>> /\ locals = Locals
  /\ locals' = locals + 1
  /\ start' = Len(em.code)
  /\ UNCHANGED <<family, em, plain, depth, pending, crossed>>

PrintStatement ==
  /\ Within /\ "PRINT" \in Constructs
  /\ EndsExpression
  /\ em' = ClearOps(Emit(em, Instr("PRINT"), 1))
  /\ plain' = Bytes(plain, Instr("PRINT"), 1)
  /\ depth' = depth - 1
  /\ NextStatement
  /\ UNCHANGED <<family, locals, pending, crossed>>

BeginIf ==
  LET jump == EmitBranchJump(em, start)
  IN /\ Within /\ "IF" \in Constructs
     /\ EndsExpression
     /\ em' = jump.em
     /\ plain' = Bytes(plain, Instr("JUMP_IF_FALSE_POP"), 3)
     /\ depth' = depth - 1
     /\ pending' = Append(pending, [kind |-> "IF", depth |-> locals,
                                    at |-> jump.at, plainAt |-> Len(plain) + 1])
     /\ NextStatement
     /\ UNCHANGED <<family, locals, crossed>>

(* The jump over an else that is not there. *)
EndIf ==
  LET jump == EmitJump(em, "JUMP")
  IN /\ Within /\ AtStatement /\ pending # <<>>
     /\ em' = PatchEm(PatchEm(jump.em, Last(pending).at), jump.at)
     /\ plain' = Patched(Patched(Bytes(plain, Instr("JUMP"), 3),
                                 Last(pending).plainAt), Len(plain) + 1)
     /\ pending' = Front(pending)
     /\ NextStatement
     /\ UNCHANGED <<family, depth, locals, crossed>>

Init ==
  /\ family \in Families
  /\ em = [code |-> <<>>, ops |-> <<>>, hadError |-> FALSE]
  /\ plain = <<>>
  /\ depth = Locals /\ locals = Locals
  /\ start = 0 /\ pending = <<>>
  /\ crossed = FALSE

Next ==
  \/ Constant \/ LiteralValue \/ GetLocal \/ GetGlobal
  \/ Binary \/ Unary \/ SetLocal \/ SetProperty
  \/ GetSubscript \/ BeginSetSubscript \/ EndSetSubscript
  \/ BeginLogical \/ EndLogical
  \/ ExpressionStatement \/ EndScope \/ VarDeclaration \/ PrintStatement
  \/ BeginIf \/ EndIf

Spec == Init /\ [][Next]_vars

-----------------------------------------------------------------------------
(* The instructions that are emitted, as run() executes them.  A byte that *)
(* execution does not reach is passed by; reaching the middle of an        *)
(* instruction is no execution of the program any more ("wild").           *)

Fail(st) == [st EXCEPT !.stopped = "error"]
Jump(st, instr) == [st EXCEPT !.pc = instr.target]

Apply(st, instr) ==
  LET top == Last(st.stack)
      local == st.stack[instr.a]
      Push(v) == [st EXCEPT !.stack = Append(@, v)]
      Top(v) == [st EXCEPT !.stack = Append(Front(@), v)]
      Popped(n) == [st EXCEPT !.stack = Shorter(@, n)]
      right == CASE instr.right = "const" -> instr.const
                 [] instr.right = "local" -> local
                 [] OTHER -> top
      Operate(left, n) ==
        IF instr.op \in Equalities \/ Accepts(instr.op, left, right)
          THEN [Popped(n) EXCEPT !.stack = Append(@, Calculated(instr.op, left, right))]
          ELSE Fail(st)
      Below(n) == st.stack[Len(st.stack) - n]
      Subscripted(target, index, n) ==
        CASE target = Object /\ IsString(index) ->
               [Popped(n) EXCEPT !.stack = Append(@, Field(st.fields, index))]
          [] IsString(target) /\ IsNumber(index) ->
               [Popped(n) EXCEPT !.stack = Append(@, Character(target, index))]
          [] OTHER -> Fail(st)
      other == IF instr.right = "const" THEN instr.const ELSE st.stack[instr.b]
  IN CASE instr.op = "CONSTANT" -> Push(instr.const)
       [] instr.op \in {"TRUE", "FALSE", "NIL"} -> Push(Literal[instr.op])
       [] instr.op = "GET_GLOBAL" -> Push(st.global)
       [] instr.op = "GET_LOCAL" -> Push(local)
       [] instr.op = "SET_LOCAL" -> [st EXCEPT !.stack[instr.a] = top]
       [] instr.op = "SET_LOCAL_POP" -> [Popped(1) EXCEPT !.stack[instr.a] = top]
       [] instr.op = "MOVE_LOCAL" -> [st EXCEPT !.stack[instr.b] = local]
       [] instr.op \in {"SET_PROPERTY", "SET_PROPERTY_POP"} ->
            IF Below(1) # Object THEN Fail(st)
            ELSE [Popped(2) EXCEPT
                   !.stack = IF instr.op = "SET_PROPERTY" THEN Append(@, top) ELSE @,
                   !.fields = SetField(@, instr.const, top)]
       [] instr.op = "SET_SUBSCRIPT" ->
            IF Below(2) # Object \/ ~IsString(Below(1)) THEN Fail(st)
            ELSE [Popped(3) EXCEPT !.stack = Append(@, top),
                                   !.fields = SetField(@, Below(1), top)]
       [] instr.op = "GET_SUBSCRIPT" -> Subscripted(Below(1), top, 2)
       [] instr.op = "GET_INDEX" ->
            IF IsString(top) THEN Subscripted(top, instr.const, 1) ELSE Fail(st)
       [] instr.op = "GET_PROPERTY" ->
            IF top = Object THEN Subscripted(top, instr.const, 1) ELSE Fail(st)
       [] instr.op = "POP" -> Popped(1)
       [] instr.op = "PRINT" -> [Popped(1) EXCEPT !.printed = Append(@, top)]
       [] instr.op = "NOT" ->
            IF instr.right = "local" THEN Push(Bool(IsFalsey(local)))
            ELSE Top(Bool(IsFalsey(top)))
       [] instr.op = "NEGATE" ->
            IF ~IsNumber(right) THEN Fail(st)
            ELSE IF instr.right = "local" THEN Push(Negated(local)) ELSE Top(Negated(top))
       [] instr.op = "JUMP" -> Jump(st, instr)
       [] instr.op = "JUMP_IF_FALSE" -> IF IsFalsey(top) THEN Jump(st, instr) ELSE st
       [] instr.op = "JUMP_IF_TRUE" -> IF IsFalsey(top) THEN st ELSE Jump(st, instr)
       [] instr.op = "JUMP_IF_FALSE_POP" ->
            IF IsFalsey(top) THEN Jump(Popped(1), instr) ELSE Popped(1)
       [] instr.op = "JIF" ->
            IF instr.test \notin Equalities /\ ~Accepts(instr.test, local, other)
              THEN Fail(st)
            ELSE IF IsFalsey(Calculated(instr.test, local, other)) THEN Jump(st, instr)
            ELSE st
       [] OTHER -> IF instr.right = "stack" THEN Operate(st.stack[Len(st.stack) - 1], 2)
                   ELSE Operate(top, 1)

Size(instr) ==
  CASE instr.op \in {"CONSTANT", "GET_GLOBAL", "MOVE_LOCAL", "SET_PROPERTY",
                     "SET_PROPERTY_POP", "GET_PROPERTY", "GET_INDEX", "JUMP", "JUMP_IF_FALSE", "JUMP_IF_TRUE",
                     "JUMP_IF_FALSE_POP"} -> 3
    [] instr.op \in {"GET_LOCAL", "SET_LOCAL", "SET_LOCAL_POP"} -> 2
    [] instr.op = "JIF" -> IF instr.right = "const" THEN 6 ELSE 5
    [] OTHER -> CASE instr.right = "const" -> 3 [] instr.right = "local" -> 2 [] OTHER -> 1

Step(code, st, pc) ==
  IF st.pc # pc \/ st.stopped # "no" THEN st
  ELSE IF code[pc].op = "none" THEN [st EXCEPT !.stopped = "wild"]
  ELSE Apply([st EXCEPT !.pc = pc + Size(code[pc])], code[pc])

Run(code, values, global) ==
  FoldLeft(LAMBDA st, pc : Step(code, st, pc),
           [pc |-> 1, stack |-> values, global |-> global,
            fields |-> {<<Str(1), Num(2)>>}, printed |-> <<>>, stopped |-> "no"],
           [i \in DOMAIN code |-> i])

(* What a program does: after an error its stack is gone. *)
Effects(code, values, global) ==
  LET st == Run(code, values, global)
  IN [stack |-> IF st.stopped = "no" THEN st.stack ELSE <<>>,
      fields |-> st.fields, printed |-> st.printed, stopped |-> st.stopped]

(* The optimised program does what the program does, whatever the          *)
(* variables hold.                                                         *)
SameMeaning ==
  pending = <<>> /\ depth <= locals + 1 /\ ~em.hadError =>
    \A values \in [1 .. Locals -> family.localValues],
       global \in family.globalValues :
      Effects(em.code, values, global) = Effects(plain, values, global)

(* It does, unless an instruction was merged that ends at the target of    *)
(* the jump of an and or an or.                                            *)
MergesAreRight ==
  \/ crossed /\ Constructs \cap {"AND", "OR"} # {}
  \/ SameMeaning

=============================================================================
