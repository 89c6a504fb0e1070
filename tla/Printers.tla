------------------------------ MODULE Printers ------------------------------
(***************************************************************************)
(* The printers of CCG and of the grammar: what printBlock(),              *)
(* printStatement(), printExpression() and the operators << of             *)
(* proto_to_c.cc write, as far as variables are concerned: declarations,   *)
(* braces and names.                                                       *)
(*                                                                         *)
(* A builder hands a Context down from block to block; the printers have   *)
(* no scopes, only the order in which they write.  Here the context of the *)
(* builder and the text are side by side.  The calls of the printers are   *)
(* kept on a stack.  A tree is not built first and kept: a node is chosen  *)
(* when it is printed, from those its builder makes in that context.       *)
(* Labels, jumps and the functions that are called are in Generator.       *)
(***************************************************************************)
EXTENDS Scope

CONSTANTS
  GlobalCounts,  \* what program.numglobalvars may be (10 .. 19)
  Cases,         \* cases of a switch with a default (11)
  MaxInserted,   \* bound of the instance: statements of the grammar in each other
  MaxSequence    \* bound of the instance: statements of the grammar in a sequence

ASSUME PrintersAssumption ==
  /\ GlobalCounts \subseteq Nat \ {0} /\ Widths \subseteq Nat
  /\ MaxPointerDepth \in 1 .. 15
  /\ {Cases, MaxInserted, MaxSequence, MaxLocalvars, MaxFunctionParameters, MaxStatementsPerBlock,
      MaxExpressionNesting, MaxBlockNesting} \subseteq Nat

VARIABLES
  todo,                \* the calls still to be made, the next one first
  normalVariableName,  \* the names the printers of the grammar choose from
  line,                \* what has been printed last
  blocks               \* history: the variables declared in each open block

vars == <<todo, normalVariableName, line, blocks>>
-----------------------------------------------------------------------------
Kinds == {"Assignment", "Loop", "DoWhile", "IfElse", "If", "Switch", "Labeled",
          "Expression", "Compound", "Jump"}

Ops ==
  {"globals", "functions", "body", "block", "locals", "functionBlock", "functionLocals",
   "statement", "expression", "close"} \cup
  {"name", "operand", "open", "insert", "Statement", "Sequence"} \cup Kinds

\* A call: the printer, the context its node was made in, the nesting (of the
\* grammar's statements: how deep they may still go), and a count that is left.
Call(op, ctx, nest, n) == [op |-> op, ctx |-> ctx, nest |-> nest, n |-> n]

Next1    == Head(todo)
At(op)   == todo # <<>> /\ Next1.op = op
Do(calls) == todo' = calls \o Tail(todo)

Stmt(ctx, nest)  == Call("statement", ctx, nest, 0)
Expr(ctx, nest)  == Call("expression", ctx, nest, 0)
Block(ctx, nest) == Call("block", ctx, nest, 0)
Close            == Call("close", NoContext, 0, 0)

\* A variable as a declaration says it: printVariableType(), printPointerDecl().
Object(v) == [name |-> v.name, width |-> v.width, depth |-> v.depth]

\* Fault: one star is missing.
OneLevelLess(v) == IF v.depth = 2 THEN 1 ELSE v.depth
\* maxDerefdPointer(): as many stars as the pointer has levels.
MaxDerefd(v) == v.depth

\* USABLE_ID
UsableId(v) == [op |-> "value", name |-> v.name, stars |-> MaxDerefd(v)]

PrintNothing == UNCHANGED <<line, blocks>>
Emit(l)      == line' = l /\ UNCHANGED blocks

\* printVariableDecl()
PrintDecl(v) ==
  /\ line' = [op |-> "declare", var |-> Object(v), init |-> v.pointed]
  /\ blocks' = [blocks EXCEPT ![Len(blocks)] = @ \cup {Object(v)}]

OpenBrace == line' = [op |-> "open"] /\ blocks' = Append(blocks, {})
-----------------------------------------------------------------------------
(* The file: MainFunctionToString(). *)

Init ==
  /\ todo = <<>> /\ normalVariableName = {}
  /\ line = [op |-> "start"] /\ blocks = <<{}>>

BeginProgram ==
  /\ todo = <<>>
  /\ \E k \in GlobalCounts : todo' = <<Call("globals", NoContext, 0, k)>>
  /\ PrintNothing /\ UNCHANGED normalVariableName

PrintGlobal ==
  /\ At("globals") /\ Next1.n > 0
  /\ \E w \in Widths :
       LET v == IntegerVar(Next1.ctx.nvars, w)
       IN /\ PrintDecl(v)
          /\ normalVariableName' = normalVariableName \cup {v.name}
          /\ Do(<<[Next1 EXCEPT !.ctx = Declare(@, v), !.n = @ - 1]>>)

GlobalsPrinted ==
  /\ At("globals") /\ Next1.n = 0
  /\ Do(<<[Next1 EXCEPT !.op = "functions"]>>)
  /\ PrintNothing /\ UNCHANGED normalVariableName

\* printFunctionPrototype() and a brace.
PrintFunction ==
  /\ At("functions")
  /\ \E ps \in ParameterLists :
       LET nglob  == Next1.ctx.nvars
           params == [i \in DOMAIN ps |-> IntegerVar(nglob + i - 1, ps[i])]
           ctx    == [Next1.ctx EXCEPT !.nvars = @ + Len(ps), !.nintegers = @ + Len(ps),
                                       !.scope = @ \o params]
       IN /\ line' = [op |-> "define", params |-> {Object(params[i]) : i \in DOMAIN params}]
          /\ blocks' = Append(blocks, line'.params)
          /\ \E k \in NumLocals(0) : Do(<<Call("body", ctx, 0, k), Next1>>)
  /\ UNCHANGED normalVariableName

\* Fault: the names stay for the next program.
NamesLeft == normalVariableName
\* normalVariableName.clear()
NamesCleared == {}

EndProgram ==
  /\ At("functions") /\ Do(<<>>)
  /\ line' = [op |-> "end"] /\ blocks' = <<{}>>
  /\ normalVariableName' = NamesCleared
-----------------------------------------------------------------------------
(* Blocks: printBlock() and printBlockForFunction(). *)

PrintBlock ==
  /\ At("block") \/ At("functionBlock")
  /\ OpenBrace
  /\ \E k \in NumLocals(Next1.nest) :
       Do(<<[Next1 EXCEPT !.op = IF @ = "block" THEN "locals" ELSE "functionLocals",
                          !.n = k]>>)
  /\ UNCHANGED normalVariableName

PrintLocal ==
  /\ At("locals") \/ At("functionLocals") \/ At("body")
  /\ Next1.n > 0
  /\ \E v \in NewVariables(Next1.ctx) :
       PrintDecl(v) /\ Do(<<[Next1 EXCEPT !.ctx = Declare(@, v), !.n = @ - 1]>>)
  /\ UNCHANGED normalVariableName

\* What follows the declarations: the statements of a block, the one statement
\* of a block for a function, and after that of a body perhaps one of the grammar,
\* made in the context of the body (cc).
PrintStatements ==
  /\ \/ /\ At("locals") /\ Next1.n = 0
        /\ \E k \in IF Next1.nest < MaxBlockNesting THEN 0 .. MaxStatementsPerBlock - 1 ELSE {0} :
             Do(Times(k, Stmt(Next1.ctx, Next1.nest)) \o <<Close>>)
     \/ /\ At("functionLocals") /\ Next1.n = 0
        /\ Do(<<Stmt(Next1.ctx, Next1.nest), Close>>)
     \/ /\ At("body") /\ Next1.n = 0
        /\ \E inserted \in {<<>>, <<Call("Statement", Next1.ctx, MaxInserted, 0)>>} :
             Do(<<Stmt(Next1.ctx, 0)>> \o inserted \o <<Close>>)
  /\ PrintNothing /\ UNCHANGED normalVariableName

\* Fault: the brace is not printed.
BraceMissing == PrintNothing
\* puts("}")
Brace == line' = [op |-> "close"] /\ blocks' = SubSeq(blocks, 1, Len(blocks) - 1)

CloseBrace == At("close") /\ Do(<<>>) /\ Brace /\ UNCHANGED normalVariableName
-----------------------------------------------------------------------------
(* Statements and expressions of CCG. *)

\* A statement that prints l, and then calls.
Statement(l, calls) ==
  At("statement") /\ Do(calls) /\ Emit(l) /\ UNCHANGED normalVariableName

\* The variables that selectVariable() may return, and selectOperand(), whose
\* constants print no name.
Selected(type) == {Next1.ctx.scope[i] : i \in Selectable(Next1.ctx, type)}
Operands       == {line} \cup {UsableId(v) : v \in Selected("any")}

PrintIf ==
  \E k \in {1, 2} :
    Statement(line, <<Expr(Next1.ctx, 0)>> \o Times(k, Block(Next1.ctx, Next1.nest + 1)))

PrintFor ==
  \E v \in Selected("any") : Statement(UsableId(v), <<Block(Next1.ctx, Next1.nest + 1)>>)

PrintAssignment ==
  \E v \in Selected("any") : Statement(UsableId(v), <<Expr(Next1.ctx, 0)>>)

PrintPtrAssignment ==
  \E l \in Selected("pointer"), r \in Selected("any") :
    /\ Consistent(l, r)
    /\ LET stars == Stars(l, r)
       IN Statement([op |-> "assign", left |-> l.name, lstars |-> stars.left,
                     right |-> r.name, rstars |-> stars.right,
                     address |-> r.type = "integer"], <<>>)

PrintFunctionCall ==
  \E k \in 0 .. MaxFunctionParameters :
    Statement(line, Times(k, Expr(Next1.ctx, Next1.nest + 1)))

PrintReturn == \E l \in Operands : Statement(l, <<>>)

PrintStatement ==
  /\ At("statement")
  /\ \/ PrintIf \/ PrintFor \/ PrintAssignment \/ PrintPtrAssignment \/ PrintFunctionCall
     \/ PrintReturn

\* The parts of an expression lie two levels deeper.
Parts(k) == Times(k, Expr(Next1.ctx, Next1.nest + 2))

\* printExpression(): an operand at the deepest level, else a test, a ternary, an
\* operation, an assignment or a call.
PrintExpression ==
  /\ At("expression")
  /\ \/ /\ Next1.nest >= MaxExpressionNesting
        /\ \E l \in Operands : Emit(l) /\ Do(<<>>)
     \/ /\ Next1.nest < MaxExpressionNesting
        /\ \/ \E k \in {2, 3} : Do(Parts(k)) /\ PrintNothing
           \/ \E v \in Selected("any") : Do(Parts(1)) /\ Emit(UsableId(v))
           \/ \E k \in 0 .. MaxFunctionParameters : Do(Parts(k)) /\ PrintNothing
  /\ UNCHANGED normalVariableName
-----------------------------------------------------------------------------
(* Statements of the grammar: the operators << of proto_to_c.cc. *)

Braced == <<"open", "insert", "Sequence", "close">>

\* What a statement consists of.  The variable of a loop or a switch is named
\* before its body, and by do-while after it.
Pieces(kind) ==
  CASE kind = "Assignment" -> <<"name", "operand", "insert">>
    [] kind = "Loop"       -> <<"name", "open", "name", "insert", "Sequence", "close">>
    [] kind = "DoWhile"    -> <<"name", "open", "name", "insert", "Sequence", "close", "name">>
    [] kind = "IfElse"     -> <<"operand">> \o Braced \o Braced
    [] kind = "If"         -> <<"operand", "open", "insert", "Assignment", "Sequence", "close">>
    [] kind = "Switch"     -> <<"name", "open">> \o
                              [i \in 1 .. 4 * Cases |-> Braced[((i - 1) % 4) + 1]] \o
                              <<"close", "operand">> \o Braced
    [] kind = "Labeled"    -> <<"operand", "Assignment">>
    [] kind = "Expression" -> <<"operand">>
    [] kind = "Compound"   -> Braced
    [] kind = "Jump"       -> <<"operand">>

\* A part of the statement that is being printed.
Piece(op) == IF op = "close" THEN Close ELSE [Next1 EXCEPT !.op = op]

PrintKind ==
  \E kind \in Kinds :
    /\ At(kind)
    /\ Do([i \in DOMAIN Pieces(kind) |-> Piece(Pieces(kind)[i])])
    /\ PrintNothing

\* Statement1 picks a kind; past the budget of depth nothing is printed.
PrintAnyStatement ==
  /\ At("Statement")
  /\ \/ Next1.nest = 0 /\ Do(<<>>)
     \/ Next1.nest > 0 /\ \E kind \in Kinds :
          Do(<<[Next1 EXCEPT !.op = kind, !.nest = @ - 1]>>)
  /\ PrintNothing

\* A statement, or a sequence and a statement: one statement after another.
PrintSequence ==
  /\ At("Sequence")
  /\ \E k \in 1 .. MaxSequence : Do(Times(k, Piece("Statement")))
  /\ PrintNothing

\* randome_pick_one(normalVariableName)
PrintName ==
  /\ At("name") /\ Do(<<>>)
  /\ \E n \in normalVariableName : Emit([op |-> "value", name |-> n, stars |-> 0])

\* insertExpression(): an operand made in cc.
InsertExpression == At("operand") /\ Do(<<>>) /\ \E l \in Operands : Emit(l)

\* insertStatement(): a block made in cc at nesting 2.
InsertStatement ==
  /\ At("insert") /\ Do(<<Call("functionBlock", Next1.ctx, 2, 0)>>)
  /\ PrintNothing

OpenGrammarBrace == At("open") /\ Do(<<>>) /\ OpenBrace

PrintGrammar ==
  /\ \/ PrintKind \/ PrintAnyStatement \/ PrintSequence \/ PrintName
     \/ InsertExpression \/ InsertStatement \/ OpenGrammarBrace
  /\ UNCHANGED normalVariableName
-----------------------------------------------------------------------------
Next ==
  \/ BeginProgram \/ PrintGlobal \/ GlobalsPrinted \/ PrintFunction \/ EndProgram
  \/ PrintBlock \/ PrintLocal \/ PrintStatements \/ CloseBrace
  \/ PrintStatement \/ PrintExpression \/ PrintGrammar

Spec == Init /\ [][Next]_vars
-----------------------------------------------------------------------------
(* Properties *)

Objects == [name : Nat, width : Widths, depth : Nat]

Lines ==
  [op : {"start", "open", "close", "end"}] \cup
  [op : {"declare"}, var : Objects, init : Nat] \cup
  [op : {"define"}, params : SUBSET Objects] \cup
  [op : {"value"}, name : Nat, stars : 0 .. 15] \cup
  [op : {"assign"}, left : Nat, lstars : 0 .. 15, right : Nat, rstars : 0 .. 15,
   address : BOOLEAN]

\* The variables have their types; stars fit into the buffers of genStars() and
\* maxDerefdPointer(), and the unsigned differences of depths do not wrap.
PrintersTypeOK ==
  /\ todo \in Seq([op : Ops, ctx : Context, nest : Nat, n : Nat])
  /\ normalVariableName \subseteq Nat
  /\ line \in Lines
  /\ blocks \in Seq(SUBSET Objects)

\* Where a statement, an expression or a declaration is printed, the variables
\* declared in the blocks open at that place of the text are exactly those of the
\* context it was made in: the recursion of the printers and their braces follow
\* the copies of the scope that the builders made (block.c), also in what is
\* inserted into a body in the shared context cc (proto_to_c.cc).
ScopeAtPlace ==
  todo # <<>> /\ Next1.op # "close" =>
    UNION {blocks[b] : b \in DOMAIN blocks} =
      {Object(Next1.ctx.scope[i]) : i \in DOMAIN Next1.ctx.scope}

\* The text is one that CBlock accepts: a block declares no name twice, every name
\* is declared where it stands, operands are integers, and pointers are
\* initialised and assigned at their level, for every program of a round.
Text == INSTANCE CBlock
ImplementsCBlock == Text!Spec
=============================================================================
