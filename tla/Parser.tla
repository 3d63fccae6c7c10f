------------------------------- MODULE Parser -------------------------------
(***************************************************************************)
(* The recursive-descent parser of src/compiler.c and its recovery from    *)
(* errors.  Its C stack is the variable todo: what the functions that are  *)
(* running have still to do, the innermost first.  A step does the first   *)
(* thing of it and consumes a token or none.  The tokens are chosen as     *)
(* they are scanned, so a behaviour is the parsing of any text.            *)
(***************************************************************************)
EXTENDS Naturals, Sequences

CONSTANTS
  Families,         (* Families of texts: their tokens and their length.  *)
  MaxParseDepth,    (* MAX_PARSE_DEPTH.                                   *)
  MaxObjects,       (* OBJECT_MAX_NESTING.                                *)
  MaxFunctions      (* FUNCTION_MAX_NESTING.                              *)

ASSUME ParserAssumption ==
  {MaxParseDepth, MaxObjects, MaxFunctions} \subseteq Nat \ {0}

VARIABLES
  family,           (* The family of the text.                            *)
  left,             (* How many tokens may still be scanned.              *)
  previous, current,    (* parser.previous, parser.current.               *)
  panicMode, hadError,
  parseDepth,
  compilers,        (* The Compiler of every function around this point.  *)
  classes,          (* currentClass and those around it: hasSuperclass.   *)
  todo,
  brackets,         (* History: the brackets consumed and not yet closed. *)
  fresh             (* History: a token was consumed since the last error.*)

text == <<left, previous, current, brackets>>
status == <<panicMode, hadError, fresh>>
context == <<parseDepth, compilers, classes>>
vars == <<family, text, status, context, todo>>

-----------------------------------------------------------------------------
(* rules[]: what a token does as the first one of an expression, and how   *)
(* strongly it binds after one.  A thing to do has a name and an argument. *)

Do(name) == <<name, 0>>
Consume(token) == <<"consume", token>>
Precedence(p) == <<"precedence", p>>
AssignmentLevel == 1
UnaryLevel == 8
CallLevel == 9
Expression == Precedence(AssignmentLevel)
ExpressionStatement == <<Expression, Consume(";")>>

Operators == [level \in 2 .. 7 |->
  CASE level = 2 -> {"or"} [] level = 3 -> {"and"} [] level = 4 -> {"==", "!="}
    [] level = 5 -> {"<", "<=", ">", ">="} [] level = 6 -> {"+", "-"}
    [] level = 7 -> {"*", "/", "%"}]
LevelOf(token) ==
  IF token \in {"(", "[", ".", "{"} THEN CallLevel
  ELSE IF \E level \in 2 .. 7 : token \in Operators[level]
    THEN CHOOSE level \in 2 .. 7 : token \in Operators[level]
    ELSE 0

(* and_ and or_ parse a right operand of their own level, binary of the next, *)
(* whose folding checks constant operands, unless it compares for equality.  *)
Infix(token, p) ==
  CASE token \in {"and", "or"} -> <<Precedence(LevelOf(token))>>
    [] token = "(" -> <<Do("arguments")>>
    [] token = "[" -> <<Expression, Consume("]"), <<"assigned", p>>>>
    [] token = "." -> <<Consume("identifier"), <<"dotted", p>>>>
    [] token = "{" -> <<Do("error")>>
    [] token \in {"==", "!="} -> <<Precedence(LevelOf(token) + 1)>>
    [] OTHER -> <<Precedence(LevelOf(token) + 1), Do("check")>>

Prefix(token, p) ==
  CASE token = "(" -> <<Expression, Consume(")")>>
    [] token = "{" -> <<Do("objectLiteral")>>
    [] token = "!" -> <<Precedence(UnaryLevel)>>
    [] token = "-" -> <<Precedence(UnaryLevel), Do("check")>>
    [] token = "identifier" -> <<<<"variable", p>>>>
    [] token = "this" -> <<Do("this")>>
    [] token = "super" -> <<Do("super"), Consume("."), Consume("identifier"), Do("invoked")>>
    [] token \in {"literal", "string"} -> <<>>

HasPrefix(token) ==
  token \in {"(", "{", "!", "-", "identifier", "this", "super", "literal", "string"}

-----------------------------------------------------------------------------
(* What the statements and declarations do after their first token. *)

BodyOf(token) ==
  CASE token = "print"    -> ExpressionStatement
    [] token = "if"       -> <<Consume("("), Expression, Consume(")"), Do("statement"), Do("else")>>
    [] token = "return"   -> <<Do("return"), Do("returned")>>
    [] token = "while"    -> <<Consume("("), Expression, Consume(")"), Do("loop"), Do("statement"),
                               Do("endLoop")>>
    [] token = "do"       -> <<Do("loop"), Do("statement"), Consume("while"), Consume("("),
                               Expression, Consume(")"), Consume(";"), Do("endLoop")>>
    [] token = "for"      -> <<Do("beginScope"), Consume("("), Do("forInit"), Do("forCondition"),
                               Do("forIncrement"), Do("loop"), Do("statement"), Do("endLoop"),
                               Do("endScope")>>
    [] token \in {"break", "continue"} -> <<Do("leaveLoop")>>
    [] token = "{"        -> <<Do("beginScope"), Do("block"), Do("endScope")>>
Statements == {"print", "if", "return", "while", "do", "for", "break", "continue", "{"}

ParseVariable == <<Consume("identifier"), Do("declareVariable")>>
Var == ParseVariable \o <<Do("initializer"), Do("moreVars")>>
Const == ParseVariable \o <<Do("constInitializer"), Expression, Do("defineConst"), Do("moreConsts")>>
Method == <<Consume("identifier"), Do("method")>>
DeclarationOf(token) ==
  CASE token = "class" -> ParseVariable \o <<Do("class"), Do("superclass"), Consume("{"),
                                             Do("methods"), Consume("}"), Do("endClass")>>
    [] token = "fun"   -> ParseVariable \o <<<<"function", "function">>>>
    [] token = "var"   -> Var
    [] token = "const" -> Const
Declarations == {"class", "fun", "var", "const"}

-----------------------------------------------------------------------------
(* The pieces of the steps. *)

Script == [type |-> "script", scopeDepth |-> 0, loops |-> 0, objects |-> 0]
Current == compilers[Len(compilers)]
WithCurrent(compiler) == [compilers EXCEPT ![Len(compilers)] = compiler]

At(name) == todo # <<>> /\ Head(todo)[1] = name
Argument == Head(todo)[2]
Then(items) == todo' = items \o Tail(todo)

Opening == {"(", "[", "{"}
Closing(open) == CASE open = "(" -> ")" [] open = "[" -> "]" [] open = "{" -> "}"
Closes(token, open) == open \in Opening /\ Closing(open) = token

(* The history of brackets matters as long as there is no error. *)
BracketsAfter(token) ==
  CASE token \in Opening -> <<token>> \o brackets
    [] token \in {")", "]", "}"} ->
         IF brackets # <<>> /\ Closes(token, Head(brackets))
           THEN Tail(brackets) ELSE <<token>> \o brackets
    [] OTHER -> brackets

(* advance: a token that the scanner cannot make sense of is an error and  *)
(* is skipped.  The text may end at any token, and its end is scanned for  *)
(* ever.                                                                   *)
Advance ==
  /\ previous' = current
  /\ \E skipped \in {0, 1}, token \in family.tokens \cup {"eof"} :
       /\ skipped + (IF token = "eof" THEN 0 ELSE 1) <= left
       /\ current' = token
       /\ left' = IF token = "eof" THEN 0 ELSE left - skipped - 1
       /\ panicMode' = (panicMode \/ skipped = 1)
       /\ hadError' = (hadError \/ skipped = 1)
  /\ brackets' = IF hadError' THEN <<>> ELSE BracketsAfter(current)
  /\ fresh' = TRUE
  /\ UNCHANGED family

(* errorAt: one report until the parser is synchronized. *)
Report ==
  /\ panicMode' = TRUE /\ hadError' = TRUE
  /\ fresh' = (fresh /\ panicMode)
  /\ brackets' = <<>>
  /\ UNCHANGED <<left, previous, current, family>>

Quiet == UNCHANGED <<family, text, status>>

Take(items) == Advance /\ Then(items)
Go(items) == Quiet /\ Then(items)
Fail(items) == Report /\ Then(items)

(* What a check of names, constants or sizes finds is left open. *)
MayFail(items) == Go(items) \/ Fail(items)

(* match(token) ? items : otherwise *)
Matching(token, items, otherwise) ==
  IF current = token THEN Take(items) ELSE Go(otherwise)

-----------------------------------------------------------------------------
(* Expressions. *)

Init ==
  /\ family \in Families
  /\ left = family.longest /\ previous = "eof" /\ current = "eof" /\ brackets = <<>>
  /\ panicMode = FALSE /\ hadError = FALSE /\ fresh = TRUE
  /\ parseDepth = 0 /\ compilers = <<Script>> /\ classes = <<>>
  /\ todo = <<Do("start"), Do("program")>>

(* compile: the first token. *)
Start == At("start") /\ Take(<<>>) /\ UNCHANGED context

ConsumeToken ==
  /\ At("consume")
  /\ IF current = Argument THEN Take(<<>>) ELSE Fail(<<>>)
  /\ UNCHANGED context

ErrorAt == At("error") /\ Fail(<<>>) /\ UNCHANGED context

(* parsePrecedence *)
ParsePrecedence ==
  /\ At("precedence")
  /\ IF parseDepth >= MaxParseDepth
       THEN Fail(<<>>) /\ UNCHANGED context
       ELSE /\ parseDepth' = parseDepth + 1
            /\ Go(<<<<"prefix", Argument>>, Do("returnFrom")>>)
            /\ UNCHANGED <<compilers, classes>>

ReturnFrom ==
  /\ At("returnFrom")
  /\ parseDepth' = parseDepth - 1
  /\ Go(<<>>) /\ UNCHANGED <<compilers, classes>>

(* Mutant: the rule is looked up before the token is consumed. *)
ParsePrefixAhead ==
  /\ At("prefix")
  /\ IF HasPrefix(current)
       THEN Take(Prefix(current, Argument) \o <<<<"infix", Argument>>>>)
       ELSE Fail(<<>>)
  /\ UNCHANGED context

(* parsePrecedenceInner *)
ParsePrefix ==
  /\ At("prefix")
  /\ Take(IF HasPrefix(current)
            THEN Prefix(current, Argument) \o <<<<"infix", Argument>>>>
            ELSE <<Do("error")>>)
  /\ UNCHANGED context

ParseInfix ==
  /\ At("infix") /\ Argument <= LevelOf(current)
  /\ Take(Infix(current, Argument) \o
            <<<<IF current = "{" THEN "end" ELSE "infix", Argument>>>>)
  /\ UNCHANGED context

Assignable == Argument <= AssignmentLevel

EndExpression ==
  /\ At("end") \/ (At("infix") /\ Argument > LevelOf(current))
  /\ IF Assignable THEN Matching("=", <<Do("error")>>, <<>>) ELSE Go(<<>>)
  /\ UNCHANGED context

(* variable: a variable may not be read in its own initializer. *)
Variable ==
  /\ At("variable") /\ MayFail(<<<<"assigned", Argument>>>>) /\ UNCHANGED context

(* namedVariable, subscript, mergeSubscript: assignment to a constant or to  *)
(* a numbered element is an error, found behind the value.                 *)
Assigned ==
  /\ At("assigned")
  /\ IF Assignable THEN Matching("=", <<Expression, Do("check")>>, <<>>) ELSE Go(<<>>)
  /\ UNCHANGED context

(* What the compiler knows of names and constants may be an error. *)
Check == At("check") /\ MayFail(<<>>) /\ UNCHANGED context

This ==
  /\ At("this")
  /\ IF classes = <<>> THEN Fail(<<>>) ELSE Go(<<>>)
  /\ UNCHANGED context

Super ==
  /\ At("super")
  /\ IF classes = <<>> \/ (classes # <<>> /\ ~Head(classes)) THEN Fail(<<>>) ELSE Go(<<>>)
  /\ UNCHANGED context

(* super_, argumentList *)
Invoked ==
  /\ At("invoked") /\ Matching("(", <<Do("arguments")>>, <<>>) /\ UNCHANGED context

Arguments ==
  /\ At("arguments")
  /\ Go(IF current = ")" THEN <<Consume(")")>> ELSE <<Expression, Do("moreArguments")>>)
  /\ UNCHANGED context

(* Mutant: the arguments need not be closed. *)
MoreArgumentsUnclosed ==
  /\ At("moreArguments")
  /\ Matching(",", <<Expression, Do("moreArguments")>>, <<>>)
  /\ UNCHANGED context

MoreArguments ==
  /\ At("moreArguments")
  /\ Matching(",", <<Expression, Do("moreArguments")>>, <<Consume(")")>>)
  /\ UNCHANGED context

(* dot *)
Dotted ==
  /\ At("dotted")
  /\ IF Assignable /\ current = "=" THEN Take(<<Expression>>)
     ELSE Matching("(", <<Do("arguments")>>, <<>>)
  /\ UNCHANGED context

(* objectLiteral *)
ObjectLiteral ==
  /\ At("objectLiteral")
  /\ IF Current.objects = MaxObjects
       THEN Fail(<<>>) /\ UNCHANGED compilers
       ELSE /\ compilers' = WithCurrent([Current EXCEPT !.objects = @ + 1])
            /\ Go(IF current \in {"}", "eof"} THEN <<Consume("}"), Do("endObject")>>
                  ELSE <<Do("property")>>)
  /\ UNCHANGED <<parseDepth, classes>>

Property ==
  /\ At("property")
  /\ LET rest == <<Consume(":"), Expression, Do("moreProperties")>>
     IN IF current \in {"identifier", "string"} THEN Take(rest) ELSE Fail(rest)
  /\ UNCHANGED context

(* Mutant: an object abandoned because of an error keeps its level. *)
MorePropertiesUnrestored ==
  /\ At("moreProperties")
  /\ IF panicMode THEN Go(<<>>)
     ELSE Matching(",", <<Do("property")>>, <<Consume("}"), Do("endObject")>>)
  /\ UNCHANGED context

MoreProperties ==
  /\ At("moreProperties")
  /\ IF panicMode THEN Go(<<Do("endObject")>>)
     ELSE Matching(",", <<Do("property")>>, <<Consume("}"), Do("endObject")>>)
  /\ UNCHANGED context

EndObject ==
  /\ At("endObject") /\ Go(<<>>)
  /\ compilers' = WithCurrent([Current EXCEPT !.objects = @ - 1])
  /\ UNCHANGED <<parseDepth, classes>>

Expressions ==
  \/ ParsePrecedence \/ ReturnFrom \/ ParsePrefix \/ ParseInfix \/ EndExpression
  \/ Variable \/ Assigned \/ Check \/ This \/ Super \/ Invoked \/ Arguments
  \/ MoreArguments \/ Dotted \/ ObjectLiteral \/ Property \/ MoreProperties \/ EndObject

-----------------------------------------------------------------------------
(* Statements. *)

Block ==
  /\ At("block")
  /\ Go(IF current \in {"}", "eof"} THEN <<Consume("}")>>
        ELSE <<Do("declaration"), Do("block")>>)
  /\ UNCHANGED context

(* statement *)
Statement ==
  /\ At("statement")
  /\ IF parseDepth >= MaxParseDepth
       THEN Fail(<<>>) /\ UNCHANGED context
       ELSE /\ parseDepth' = parseDepth + 1
            /\ Go(<<Do("statementInner"), Do("returnFrom")>>)
            /\ UNCHANGED <<compilers, classes>>

StatementInner ==
  /\ At("statementInner")
  /\ IF current \in Statements THEN Take(BodyOf(current)) ELSE Go(ExpressionStatement)
  /\ UNCHANGED context

Else == At("else") /\ Matching("else", <<Do("statement")>>, <<>>) /\ UNCHANGED context

(* returnStatement *)
Return ==
  /\ At("return")
  /\ IF Current.type = "script" THEN Fail(<<>>) ELSE Go(<<>>)
  /\ UNCHANGED context

Returned ==
  /\ At("returned")
  /\ IF current = ";" THEN Take(<<>>)
     ELSE IF Current.type = "initializer" THEN Fail(ExpressionStatement)
     ELSE Go(ExpressionStatement)
  /\ UNCHANGED context

(* breakStatement, continueStatement *)
LeaveLoop ==
  /\ At("leaveLoop")
  /\ IF Current.loops = 0 THEN Fail(<<>>) ELSE Go(<<Consume(";")>>)
  /\ UNCHANGED context

(* forStatement: its three clauses. *)
ForInit ==
  /\ At("forInit")
  /\ CASE current = ";"   -> Take(<<>>)
       [] current = "var" -> Take(Var)
       [] OTHER           -> Go(ExpressionStatement)
  /\ UNCHANGED context

ForCondition ==
  /\ At("forCondition") /\ Matching(";", <<>>, ExpressionStatement) /\ UNCHANGED context

ForIncrement ==
  /\ At("forIncrement") /\ Matching(")", <<>>, <<Expression, Consume(")")>>)
  /\ UNCHANGED context

(* beginScope, endScope; a loop's context. *)
Counting(name, field, change) ==
  /\ At(name) /\ Go(<<>>)
  /\ compilers' = WithCurrent([Current EXCEPT ![field] = @ + change[1] - change[2]])
  /\ UNCHANGED <<parseDepth, classes>>
BeginScope == Counting("beginScope", "scopeDepth", <<1, 0>>)
EndScope == Counting("endScope", "scopeDepth", <<0, 1>>)
Loop == Counting("loop", "loops", <<1, 0>>)
EndLoop == Counting("endLoop", "loops", <<0, 1>>)

-----------------------------------------------------------------------------
(* Declarations. *)

(* declareVariable: a name may be taken, in a local scope. *)
DeclareVariable ==
  /\ At("declareVariable")
  /\ IF Current.scopeDepth = 0 THEN Go(<<>>) ELSE MayFail(<<>>)
  /\ UNCHANGED context

(* varDeclaration *)
Initializer == At("initializer") /\ Matching("=", <<Expression>>, <<>>) /\ UNCHANGED context

MoreVars ==
  /\ At("moreVars")
  /\ IF panicMode THEN Go(<<>>) ELSE Matching(",", Var, <<Consume(";")>>)
  /\ UNCHANGED context

(* constDeclaration, defineConst *)
ConstInitializer ==
  /\ At("constInitializer")
  /\ IF current = "=" THEN Take(<<>>) ELSE Fail(<<>>)
  /\ UNCHANGED context

DefineConst ==
  /\ At("defineConst")
  /\ IF Current.scopeDepth = 0 THEN Fail(<<>>) ELSE Go(<<>>)
  /\ UNCHANGED context

MoreConsts ==
  /\ At("moreConsts")
  /\ IF panicMode THEN Go(<<>>) ELSE Matching(",", Const, <<Consume(";")>>)
  /\ UNCHANGED context

(* function: a compiler of its own for the parameters and the body. *)
Function ==
  /\ At("function")
  /\ compilers' = Append(compilers, [Script EXCEPT !.type = Argument, !.scopeDepth = 1])
  /\ LET body == <<Consume("("), Do("parameters"), Consume(")"), Consume("{"), Do("block"),
                   Do("endCompiler")>>
     IN IF Len(compilers) = MaxFunctions THEN Fail(body) ELSE Go(body)
  /\ UNCHANGED <<parseDepth, classes>>

Parameters ==
  /\ At("parameters")
  /\ Go(IF current = ")" THEN <<>> ELSE ParseVariable \o <<Do("moreParameters")>>)
  /\ UNCHANGED context

MoreParameters ==
  /\ At("moreParameters")
  /\ Matching(",", ParseVariable \o <<Do("moreParameters")>>, <<>>)
  /\ UNCHANGED context

EndCompiler ==
  /\ At("endCompiler") /\ Go(<<>>)
  /\ compilers' = SubSeq(compilers, 1, Len(compilers) - 1)
  /\ UNCHANGED <<parseDepth, classes>>

(* classDeclaration *)
Class ==
  /\ At("class") /\ Go(<<>>)
  /\ classes' = <<FALSE>> \o classes
  /\ UNCHANGED <<parseDepth, compilers>>

Superclass ==
  /\ At("superclass") /\ Matching("<", <<Consume("identifier"), Do("inherit")>>, <<>>)
  /\ UNCHANGED context

(* A class cannot inherit from itself. *)
Inherit ==
  /\ At("inherit") /\ MayFail(<<>>)
  /\ classes' = <<TRUE>> \o Tail(classes)
  /\ compilers' = WithCurrent([Current EXCEPT !.scopeDepth = @ + 1])
  /\ UNCHANGED parseDepth

(* Mutant: the methods of a class go on at the end of the text. *)
MethodsAtEnd ==
  /\ At("methods")
  /\ Go(IF current = "}" THEN <<>> ELSE Method \o <<Do("methods")>>)
  /\ UNCHANGED context

Methods ==
  /\ At("methods")
  /\ Go(IF current \in {"}", "eof"} THEN <<>> ELSE Method \o <<Do("methods")>>)
  /\ UNCHANGED context

(* A method named init is an initializer. *)
MethodBody ==
  /\ At("method")
  /\ \E type \in {"method", "initializer"} : Go(<<<<"function", type>>>>)
  /\ UNCHANGED context

EndClass ==
  /\ At("endClass") /\ Go(<<>>)
  /\ classes' = Tail(classes)
  /\ compilers' = WithCurrent(IF Head(classes) THEN [Current EXCEPT !.scopeDepth = @ - 1]
                              ELSE Current)
  /\ UNCHANGED parseDepth

-----------------------------------------------------------------------------
(* Recovery, and the program. *)

(* declaration *)
Declaration ==
  /\ At("declaration")
  /\ Go((IF panicMode THEN <<Do("synchronize")>> ELSE <<>>) \o <<Do("declare"), Do("settle")>>)
  /\ UNCHANGED context

Declare ==
  /\ At("declare")
  /\ IF current \in Declarations THEN Take(DeclarationOf(current)) ELSE Go(<<Do("statement")>>)
  /\ UNCHANGED context

Settle ==
  /\ At("settle")
  /\ Go(IF panicMode THEN <<Do("synchronize")>> ELSE <<>>)
  /\ UNCHANGED context

(* synchronize *)
Synchronize ==
  /\ At("synchronize") /\ Then(<<Do("skip")>>)
  /\ panicMode' = FALSE
  /\ UNCHANGED <<family, text, hadError, fresh, context>>

Restarts == {"class", "fun", "var", "const", "for", "if", "do", "while", "print", "return"}

Skip ==
  /\ At("skip")
  /\ IF current = "eof" \/ previous = ";" \/ current \in Restarts
       THEN Go(<<>>) ELSE Take(<<Do("skip")>>)
  /\ UNCHANGED context

(* compile *)
Program ==
  /\ At("program")
  /\ Matching("eof", <<>>, <<Do("declaration"), Do("program")>>)
  /\ UNCHANGED context

Next ==
  \/ Start \/ ConsumeToken \/ ErrorAt \/ Expressions
  \/ Block \/ Statement \/ StatementInner \/ Else \/ Return \/ Returned \/ LeaveLoop
  \/ ForInit \/ ForCondition \/ ForIncrement \/ BeginScope \/ EndScope \/ Loop \/ EndLoop
  \/ DeclareVariable \/ Initializer \/ MoreVars \/ ConstInitializer \/ DefineConst
  \/ MoreConsts \/ Function \/ Parameters \/ MoreParameters \/ EndCompiler
  \/ Class \/ Superclass \/ Inherit \/ Methods \/ MethodBody \/ EndClass
  \/ Declaration \/ Declare \/ Settle \/ Synchronize \/ Skip \/ Program

Spec == Init /\ [][Next]_vars

(* compile is a C function on the only thread: it goes on while it can. *)
FairSpec == Spec /\ WF_vars(Next)

-----------------------------------------------------------------------------
(* Correctness. *)

Done == todo = <<>>

(* The nesting guard turns down what is to be parsed here. *)
Refused ==
  /\ At("statement") \/ At("precedence")
  /\ parseDepth >= MaxParseDepth

(* compile returns for every text.                                         *)
ParsingEnds == <>Done

(* Recovery makes progress: only a text at the limit of nesting can keep    *)
(* the parser busy for ever.                                               *)
EndsUnlessTooDeep == <>Done \/ []<>Refused

(* No place in the text is reported twice: between two reports a token is  *)
(* consumed, the nesting guard's reports and those at the end apart.       *)
ReportsOnce ==
  [][~panicMode /\ panicMode' /\ ~fresh' => fresh \/ Refused \/ current = "eof"]_vars

(* Whatever was wrong before it, a declaration of the script begins with    *)
(* every level restored: no early return of the parser skips what leaves a  *)
(* scope, a loop, a function, a class, an object or a nesting level.       *)
LevelsRestored ==
  At("program") \/ Done => parseDepth = 0 /\ compilers = <<Script>> /\ classes = <<>>

(* A text that is accepted is well bracketed. *)
AcceptedIsBracketed == Done /\ ~hadError => brackets = <<>>

=============================================================================
