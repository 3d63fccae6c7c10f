-------------------------------- MODULE Scopes -------------------------------
(***************************************************************************)
(* Block scopes and loops of src/compiler.c, from the statements of a      *)
(* function to its execution.  The compiler numbers the locals by counting *)
(* the declarations in scope and emits what removes them from the stack:   *)
(* at the end of a block, and before the jump of a break or a continue.    *)
(* Whether a local is popped or closed depends on the functions seen so    *)
(* far that capture it.  Next writes the body of a function statement by   *)
(* statement; then it executes the instructions, any way the conditions    *)
(* turn out.                                                               *)
(***************************************************************************)
EXTENDS Integers, FiniteSetsExt, SequencesExt

(***************************************************************************)
(* A family of functions: the statements they use; their conditions,       *)
(* "tested", or "true" and "false" when the compiler knows the value;      *)
(* localMax, LOCAL_MAX: a function with more locals is an error; and       *)
(* bounds on the instructions and the nesting of a function and on how     *)
(* often a condition turns out true in an execution.                       *)
(***************************************************************************)
CONSTANT Families

ASSUME ScopesAssumption ==
  \A f \in Families : f.conditions \subseteq {"tested", "true", "false"}

VARIABLES
  family,       (* The family of the function.                            *)
  code,         (* The function's chunk.                                  *)
  locals,       (* current->locals: depth and isCaptured.                 *)
  scopeDepth,
  nested,       (* The statements that are not complete, innermost last.  *)
  pc,           (* 0 while the function is compiled.                      *)
  height,       (* Slots of the frame in use.                             *)
  open,         (* Those of them with an open upvalue.                    *)
  turns         (* Conditions that turned out true so far.                *)

compiling == <<family, code, locals, scopeDepth, nested>>
running == <<family, pc, height, open, turns>>
vars == <<family, code, locals, scopeDepth, nested, pc, height, open, turns>>

-----------------------------------------------------------------------------
(* Instructions.  locals is the number of locals the compiler takes to be  *)
(* on the stack, for those that begin a statement or a condition.          *)

NoInstr == -1
Unknown == -1
Instr(op, arg, count) == [op |-> op, arg |-> arg, locals |-> count]
Emit(instr) == Append(code, instr)
NextByte == Len(code) + 1

(* patchJump and patchJumpTo: nothing is patched at NoInstr. *)
PatchedTo(c, jumps, target) ==
  [i \in DOMAIN c |-> IF i \in jumps THEN [c[i] EXCEPT !.arg = target] ELSE c[i]]
Patched(c, jumps) == PatchedTo(c, jumps, Len(c) + 1)

(* emitBranchJump: a condition that is known leaves a jump or nothing. *)
Branch(cond, count) ==
  CASE cond = "tested" -> <<Instr("JUMP_IF_FALSE_POP", NoInstr, count)>>
    [] cond = "false"  -> <<Instr("JUMP", NoInstr, count)>>
    [] cond = "true"   -> <<>>

(* The position of the last instruction of the branch after c, if any. *)
BranchAt(c, branch) == IF branch = <<>> THEN NoInstr ELSE Len(c) + 1

-----------------------------------------------------------------------------
(* What removes the locals of from above the first target, innermost first: *)
(* endScope and closeLoopLocals.                                           *)

PopN(n) == IF n = 0 THEN <<>> ELSE <<Instr("POP_N", n, Unknown)>>
CloseUpvalueInstr == Instr("CLOSE_UPVALUE", 0, Unknown)

WithLocal(acc, local) ==
  IF local.isCaptured
    THEN [emitted |-> acc.emitted \o PopN(acc.popCount) \o <<CloseUpvalueInstr>>,
          popCount |-> 0]
    ELSE [acc EXCEPT !.popCount = @ + 1]
Removal(from, target) ==
  LET removed == FoldLeft(WithLocal, [emitted |-> <<>>, popCount |-> 0],
                          Reverse(SubSeq(from, target + 1, Len(from))))
  IN removed.emitted \o PopN(removed.popCount)

Outside == Cardinality({i \in DOMAIN locals : locals[i].depth < scopeDepth})
EndScope == Removal(locals, Outside)

(* Mutant: what is captured is popped like the rest. *)
CloseLoopLocalsPopped(target) == PopN(Len(locals) - target)
(* Mutant: one local that was there before the loop is removed as well. *)
CloseLoopLocalsTooFar(target) == Removal(locals, target - 1)
CloseLoopLocals(target) == Removal(locals, target)

-----------------------------------------------------------------------------
(* Statements.                                                             *)

Statement(kind) ==
  pc = 0 /\ kind \in family.statements /\ Len(code) < family.maxCode
Begins(kind) == Statement(kind) /\ Len(nested) < family.maxNesting

(* loop: start, enterParamCount, breakJumps and continueJumps; exit is the *)
(* jump of the condition.                                                  *)
Construct(kind) ==
  [kind |-> kind, exit |-> NoInstr, start |-> NoInstr,
   enterParamCount |-> Len(locals), breakJumps |-> {}, continueJumps |-> {}]

Innermost == Last(nested)
IsInside(kind) == pc = 0 /\ nested # <<>> /\ Innermost.kind = kind

Declare(captured) ==
  locals' = Append(locals, [depth |-> scopeDepth, isCaptured |-> captured])

VarDeclaration ==
  /\ Statement("VAR") /\ Len(locals) < family.localMax
  /\ code' = Emit(Instr("VALUE", 0, Len(locals)))
  /\ Declare(FALSE)
  /\ UNCHANGED <<scopeDepth, nested, running>>

(* funDeclaration: the function captures a local, maybe itself. *)
FunDeclaration ==
  /\ Statement("FUN") /\ Len(locals) < family.localMax
  /\ \E captured \in 2 .. Len(locals) + 1 :
       /\ code' = Emit(Instr("CLOSURE", captured, Len(locals)))
       /\ locals' = [Append(locals, [depth |-> scopeDepth, isCaptured |-> FALSE])
                       EXCEPT ![captured].isCaptured = TRUE]
  /\ UNCHANGED <<scopeDepth, nested, running>>

ReturnStatement ==
  /\ Statement("RETURN")
  /\ code' = Emit(Instr("RETURN", 0, Len(locals)))
  /\ UNCHANGED <<locals, scopeDepth, nested, running>>

(* The body of every statement is a block. *)
Open(construct) ==
  /\ nested' = Append(nested, construct)
  /\ scopeDepth' = scopeDepth + 1
  /\ UNCHANGED <<locals, running>>

(* Ends the block; c is the code from there on. *)
Close(c) ==
  /\ code' = c
  /\ locals' = SubSeq(locals, 1, Outside)
  /\ scopeDepth' = scopeDepth - 1
  /\ nested' = Front(nested)
  /\ UNCHANGED running

BeginBlock == Begins("BLOCK") /\ Open(Construct("BLOCK")) /\ UNCHANGED code
EndBlock == IsInside("BLOCK") /\ Close(code \o EndScope)

BeginIf ==
  /\ Begins("IF")
  /\ \E cond \in family.conditions :
       LET branch == Branch(cond, Len(locals))
       IN /\ code' = code \o branch
          /\ Open([Construct("IF") EXCEPT !.exit = BranchAt(code, branch)])

(* The jump over the else part is the exit of the statement that is left. *)
BeginElse ==
  /\ IsInside("IF") /\ Statement("ELSE")
  /\ LET then == Append(code \o EndScope, Instr("JUMP", NoInstr, Outside))
     IN /\ code' = Patched(then, {Innermost.exit})
        /\ nested' = Append(Front(nested), [Construct("ELSE") EXCEPT !.exit = Len(then)])
  /\ locals' = SubSeq(locals, 1, Outside)
  /\ UNCHANGED <<scopeDepth, running>>

EndIf ==
  \/ /\ IsInside("IF")
     /\ LET then == Append(code \o EndScope, Instr("JUMP", NoInstr, Outside))
        IN Close(Patched(then, {Innermost.exit, Len(then)}))
  \/ /\ IsInside("ELSE")
     /\ Close(Patched(code \o EndScope, {Innermost.exit}))

-----------------------------------------------------------------------------
(* Loops.                                                                  *)

BeginWhile ==
  /\ Begins("WHILE")
  /\ \E cond \in family.conditions :
       LET branch == Branch(cond, Len(locals))
       IN /\ code' = code \o branch
          /\ Open([Construct("WHILE") EXCEPT !.exit = BranchAt(code, branch),
                                             !.start = NextByte])

(* The end of the body, the jump back and the jumps that leave the loop. *)
LoopEnd(loop) ==
  Patched(Append(code \o EndScope, Instr("LOOP", loop.start, Outside)),
          loop.breakJumps \cup {loop.exit})

EndWhile == IsInside("WHILE") /\ Close(LoopEnd(Innermost))

BeginDo ==
  /\ Begins("DO")
  /\ Open([Construct("DO") EXCEPT !.start = NextByte])
  /\ UNCHANGED code

(* Mutant: continue goes to the body, not to the condition. *)
ContinueToBody(c, loop) == PatchedTo(c, loop.continueJumps, loop.start)
ContinueTo(c, loop) == PatchedTo(c, loop.continueJumps, Len(c) + 1)

EndDo ==
  /\ IsInside("DO")
  /\ \E cond \in family.conditions :
       LET loop == Innermost
           body == ContinueTo(code \o EndScope, loop)
           branch == Branch(cond, Outside)
           looped == Append(body \o branch, Instr("LOOP", loop.start, Outside))
       IN Close(Patched(looped, loop.breakJumps \cup {BranchAt(body, branch)}))

(* The for statement is a block around its initializer, a declaration or   *)
(* nothing; the increment may be missing too, and a condition that is      *)
(* missing is a true one.                                                  *)
BeginFor ==
  /\ Begins("FOR")
  /\ \E initialized \in {Len(locals) < family.localMax, FALSE}, cond \in family.conditions, increment \in BOOLEAN :
       LET count == IF initialized THEN Len(locals) + 1 ELSE Len(locals)
           entered == IF initialized THEN Emit(Instr("VALUE", 0, Len(locals))) ELSE code
           branch == Branch(cond, count)
           tested == entered \o branch
           bodyJump == Len(tested) + 1
           clauses ==
             IF increment
               THEN Patched(tested \o <<Instr("JUMP", NoInstr, count),
                                        Instr("EXPRESSION", 0, count),
                                        Instr("LOOP", Len(entered) + 1, count)>>, {bodyJump})
               ELSE tested
       IN /\ code' = clauses
          /\ locals' = IF initialized
                         THEN Append(locals, [depth |-> scopeDepth + 1, isCaptured |-> FALSE])
                         ELSE locals
          /\ nested' = Append(nested,
               [Construct("FOR") EXCEPT
                  !.exit = BranchAt(entered, branch),
                  !.start = IF increment THEN bodyJump + 1 ELSE Len(entered) + 1,
                  !.enterParamCount = count])
  /\ scopeDepth' = scopeDepth + 2
  /\ UNCHANGED running

EndFor ==
  LET before == Cardinality({i \in DOMAIN locals : locals[i].depth < scopeDepth - 1})
  IN /\ IsInside("FOR")
     /\ code' = LoopEnd(Innermost) \o Removal(SubSeq(locals, 1, Outside), before)
     /\ locals' = SubSeq(locals, 1, before)
     /\ scopeDepth' = scopeDepth - 2
     /\ nested' = Front(nested)
     /\ UNCHANGED running

(* currentLoop *)
Loops == {i \in DOMAIN nested : nested[i].kind \in {"WHILE", "DO", "FOR"}}
CurrentLoop == Max(Loops)

BreakStatement ==
  /\ Statement("BREAK") /\ Loops # {}
  /\ LET left == code \o CloseLoopLocals(nested[CurrentLoop].enterParamCount)
     IN /\ code' = Append(left, Instr("JUMP", NoInstr, Unknown))
        /\ nested' = [nested EXCEPT ![CurrentLoop].breakJumps = @ \cup {Len(left) + 1}]
  /\ UNCHANGED <<locals, scopeDepth, running>>

ContinueStatement ==
  /\ Statement("CONTINUE") /\ Loops # {}
  /\ LET loop == nested[CurrentLoop]
         left == code \o CloseLoopLocals(loop.enterParamCount)
     IN IF loop.kind = "DO"
          THEN /\ code' = Append(left, Instr("JUMP", NoInstr, Unknown))
               /\ nested' = [nested EXCEPT ![CurrentLoop].continueJumps =
                                              @ \cup {Len(left) + 1}]
          ELSE /\ code' = Append(left, Instr("LOOP", loop.start, Unknown))
               /\ UNCHANGED nested
  /\ UNCHANGED <<locals, scopeDepth, running>>

-----------------------------------------------------------------------------
(* Execution.                                                              *)

(* endCompiler, and a call without arguments: slot 1 holds the closure. *)
Start ==
  /\ pc = 0 /\ nested = <<>>
  /\ code' = Emit(Instr("RETURN", 0, Len(locals)))
  /\ pc' = 1
  /\ UNCHANGED <<family, locals, scopeDepth, nested, height, open, turns>>

Executing == pc \in DOMAIN code
Fetched(op) == Executing /\ code[pc].op = op
Arg == code[pc].arg
Goto(target) == pc' = target /\ UNCHANGED <<height, open, compiling>>

Push ==
  /\ Fetched("VALUE")
  /\ height' = height + 1
  /\ pc' = pc + 1
  /\ UNCHANGED <<open, turns, compiling>>

Closure ==
  /\ Fetched("CLOSURE")
  /\ height' = height + 1
  /\ open' = open \cup {Arg}
  /\ pc' = pc + 1
  /\ UNCHANGED <<turns, compiling>>

Pop ==
  /\ Fetched("POP_N")
  /\ height' = height - Arg
  /\ pc' = pc + 1
  /\ UNCHANGED <<open, turns, compiling>>

CloseUpvalue ==
  /\ Fetched("CLOSE_UPVALUE")
  /\ open' = {slot \in open : slot < height}
  /\ height' = height - 1
  /\ pc' = pc + 1
  /\ UNCHANGED <<turns, compiling>>

Expression == Fetched("EXPRESSION") /\ Goto(pc + 1) /\ UNCHANGED turns
Jump == (Fetched("JUMP") \/ Fetched("LOOP")) /\ Goto(Arg) /\ UNCHANGED turns
JumpIfFalse == Fetched("JUMP_IF_FALSE_POP") /\ Goto(Arg) /\ UNCHANGED turns
FallThrough ==
  /\ Fetched("JUMP_IF_FALSE_POP") /\ turns < family.maxTurns
  /\ Goto(pc + 1)
  /\ turns' = turns + 1

Return ==
  /\ Fetched("RETURN")
  /\ height' = 0
  /\ open' = {}
  /\ pc' = Len(code) + 1
  /\ UNCHANGED <<turns, compiling>>

Init ==
  /\ family \in Families
  /\ code = <<>>
  /\ locals = <<[depth |-> 0, isCaptured |-> FALSE]>>
  /\ scopeDepth = 1
  /\ nested = <<>>
  /\ pc = 0 /\ height = 1 /\ open = {} /\ turns = 0

Compile ==
  \/ VarDeclaration \/ FunDeclaration \/ ReturnStatement
  \/ BeginBlock \/ EndBlock \/ BeginIf \/ BeginElse \/ EndIf
  \/ BeginWhile \/ EndWhile \/ BeginDo \/ EndDo
  \/ BeginFor \/ EndFor
  \/ BreakStatement \/ ContinueStatement

Execute ==
  \/ Push \/ Closure \/ Pop \/ CloseUpvalue
  \/ Expression \/ Jump \/ JumpIfFalse \/ FallThrough \/ Return

Next == Compile \/ Start \/ Execute

Spec == Init /\ [][Next]_vars

(* Execution goes on. *)
FairSpec == Spec /\ WF_vars(Execute)

-----------------------------------------------------------------------------
(* A slot that is given up has no open upvalue: no closure is left         *)
(* pointing at what comes to the slot next.                                *)
CapturedClosed == \A slot \in open : slot <= height

(* At every statement that execution comes to, the stack holds the locals  *)
(* that the compiler numbered the variables by.                            *)
HeightsAgree == Executing => code[pc].locals \in {Unknown, height}

(* A jump lands on an instruction of the function, and a function whose    *)
(* conditions do not stay true returns.                                    *)
MayEnd == "true" \notin family.conditions
Returns == pc # 0 /\ MayEnd ~> pc = Len(code) + 1

=============================================================================
