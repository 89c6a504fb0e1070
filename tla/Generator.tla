----------------------------- MODULE Generator -----------------------------
(***************************************************************************)
(* CCG, the random generator of C code in src/lib/ccg: the globals and the *)
(* tree of functions that makeFunction(false) builds from its calls to     *)
(* rand().                                                                 *)
(*                                                                         *)
(* The functions of CCG call each other recursively.  The model keeps the  *)
(* calls that have still to be made on a stack, the next one first, and    *)
(* makes one of them per step; every call to rand() is a choice.  Of the   *)
(* syntax trees it keeps what ties a part of the program to another: the   *)
(* variables in scope, the labels, the jumps and the calls, in the order   *)
(* in which they are built, which is the order the printers follow.        *)
(***************************************************************************)
EXTENDS Scope

CONSTANTS
  GlobalCounts,   \* what program.numglobalvars may be (10 .. 19)
  MaxFunctions,   \* cmdline.max_functions (10)
  NoJumps         \* cmdline.nojumps (false)

ASSUME GeneratorAssumption ==
  /\ GlobalCounts \subseteq Nat \ {0} /\ IsFiniteSet(GlobalCounts)
  /\ Widths \subseteq Nat /\ Widths # {}
  /\ MaxFunctions \in Nat \ {0}
  /\ MaxLocalvars \in Nat \ {0}
  /\ MaxFunctionParameters \in Nat
  /\ MaxStatementsPerBlock \in Nat \ {0}
  /\ MaxExpressionNesting \in Nat
  /\ MaxBlockNesting \in Nat
  /\ MaxPointerDepth \in Nat \ {0}
  /\ NoJumps \in BOOLEAN

VARIABLES
  todo,         \* the calls still to be made, the next one first
  globalvars,   \* program.globalvars
  funcs,        \* the functions made, in the order they were begun
  numfunctions, \* program.numfunctions
  functions,    \* program.functions, a list of functions
  dead          \* the generator died, divided by zero or loops for ever

vars == <<todo, globalvars, funcs, numfunctions, functions, dead>>
-----------------------------------------------------------------------------
(* The stack of calls. *)

StatementTypes ==
  {"if", "for", "functioncall", "return", "assignment", "ptrassignment", "goto"}

Ops ==
  {"program", "functionBlock", "functionLocals", "functionMade", "block", "locals",
   "statements", "statement", "arguments", "expression"} \cup StatementTypes

\* A call: the C function or the place in it, its context and nesting, a count
\* that is left (or the flag lastofblock), and the function it is about.
Call(op, ctx, nest, n, f) == [op |-> op, ctx |-> ctx, nest |-> nest, n |-> n, f |-> f]

Calls == [op : Ops, ctx : Context, nest : Nat, n : Nat, f : Nat]

Expr(ctx, nest)  == Call("expression", ctx, nest, 0, 0)
Block(ctx, nest) == Call("block", ctx, nest, 0, 0)

Next1 == Head(todo)

\* The next call is of op; calls takes its place.
At(op)    == todo # <<>> /\ ~dead /\ Next1.op = op
Do(calls) == todo' = calls \o Tail(todo)

\* The text of a function as its printers will write it.
Write(f, item) == [funcs EXCEPT ![f].text = Append(@, item)]
-----------------------------------------------------------------------------
Init ==
  /\ todo = <<Call("program", NoContext, 0, 0, 0)>>
  /\ globalvars = <<>> /\ funcs = <<>> /\ numfunctions = 0 /\ functions = <<>>
  /\ dead = FALSE

NewFunction(params) ==
  [name |-> numfunctions, params |-> params, numlabels |-> 0, labels |-> <<>>,
   text |-> <<>>, body |-> 0, context |-> NoContext]

\* makeFunction() up to its body: ps are the widths of its parameters.
EnterFunction(globals, ps, after) ==
  LET f      == Len(funcs) + 1
      nglob  == Len(globals)
      params == [i \in DOMAIN ps |-> IntegerVar(nglob + i - 1, ps[i])]
      ctx    == [nvars |-> nglob + Len(ps), nintegers |-> nglob + Len(ps),
                 scope |-> globals \o params, currfunc |-> f]
  IN /\ funcs' = Append(funcs, NewFunction(Len(ps)))
     /\ numfunctions' = numfunctions + 1
     /\ Do(<<Call("functionBlock", ctx, 0, 0, f)>> \o after)

\* makeGlobalVariables(), then makeFunction(false).
MakeProgram ==
  /\ At("program")
  /\ \E k \in GlobalCounts : \E ws \in [1 .. k -> Widths] :
       LET globals == [i \in 1 .. k |-> IntegerVar(i - 1, ws[i])]
       IN globalvars' = globals /\ EnterFunction(globals, <<>>, <<>>)
  /\ UNCHANGED <<functions, dead>>

EnterBlock ==
  /\ \/ At("block") /\ \E k \in NumLocals(Next1.nest) :
          Do(<<[Next1 EXCEPT !.op = "locals", !.n = k]>>)
     \/ At("functionBlock") /\ \E k \in NumLocals(Next1.nest) :
          Do(<<[Next1 EXCEPT !.op = "functionLocals", !.n = k]>>)
  /\ UNCHANGED <<globalvars, funcs, numfunctions, functions, dead>>

\* One local variable; a pointer points to a variable that is in scope already.
MakeLocal ==
  /\ At("locals") \/ At("functionLocals")
  /\ Next1.n > 0
  /\ \E v \in NewVariables(Next1.ctx) :
       Do(<<[Next1 EXCEPT !.ctx = Declare(@, v), !.n = @ - 1]>>)
  /\ dead' = PickFails(Next1.ctx)
  /\ UNCHANGED <<globalvars, funcs, numfunctions, functions>>

\* makeBlock(): statements only where the nesting allows them.
BlockStatements ==
  /\ At("locals") /\ Next1.n = 0
  /\ IF Next1.nest < MaxBlockNesting
       THEN \E k \in 0 .. MaxStatementsPerBlock - 1 :
              Do(<<Call("statements", Next1.ctx, Next1.nest, k, 0)>>)
       ELSE Do(<<>>)
  /\ UNCHANGED <<globalvars, funcs, numfunctions, functions, dead>>

\* Fault: !(numstatements - i), off by one.
LastOfBlockTooSoon(left) == IF left <= 2 THEN 1 ELSE 0
\* lastofblock is !(numstatements - 1 - i).
LastOfBlock(left) == IF left = 1 THEN 1 ELSE 0
\* Fault: the loop does not count, or counts twice per statement.
LeftForEver(n) == n
LeftTwice(n) == n - 2
\* The loop's counter.
LeftAfter(n) == n - 1

NextStatement ==
  /\ At("statements")
  /\ IF Next1.n = 0
       THEN Do(<<>>)
       ELSE Do(<<Call("statement", Next1.ctx, Next1.nest, LastOfBlock(Next1.n), 0),
                 [Next1 EXCEPT !.n = LeftAfter(@)]>>)
  /\ UNCHANGED <<globalvars, funcs, numfunctions, functions, dead>>

\* makeBlockForFunction() has one statement, the last of its block.
FunctionStatement ==
  /\ At("functionLocals") /\ Next1.n = 0
  /\ Do(<<Call("statement", Next1.ctx, Next1.nest, 1, 0)>> \o
        (IF Next1.f = 0 THEN <<>> ELSE <<[Next1 EXCEPT !.op = "functionMade"]>>))
  /\ UNCHANGED <<globalvars, funcs, numfunctions, functions, dead>>
-----------------------------------------------------------------------------
(* Statements. *)

\* Fault: a jump where the function has no label yet.
IsInvalidNoLabel(type, ctx, nest, last) ==
  \/ type = "ptrassignment" /\ ctx.nvars = ctx.nintegers
  \/ type = "functioncall" /\ numfunctions >= MaxFunctions
  \/ type = "return" /\ (nest = 0 \/ last = 0)
  \/ type = "goto" /\ NoJumps
\* IS_INVALID
IsInvalid(type, ctx, nest, last) ==
  \/ type = "ptrassignment" /\ ctx.nvars = ctx.nintegers
  \/ type = "functioncall" /\ numfunctions >= MaxFunctions
  \/ type = "return" /\ (nest = 0 \/ last = 0)
  \/ type = "goto" /\ (NoJumps \/ funcs[ctx.currfunc].numlabels = 0)

\* Fault: the label is not printed with its statement.
AddLabelUnprinted(fn) ==
  [fn EXCEPT !.numlabels = @ + 1, !.labels = Append(@, Len(@) + 1)]
\* makeLabel()
AddLabel(fn) ==
  LET l == Len(fn.labels) + 1
  IN [fn EXCEPT !.numlabels = @ + 1, !.labels = Append(@, l),
                !.text = Append(@, <<"label", l>>)]

\* makeStatement(): a valid type, perhaps a label.
MakeStatement ==
  /\ At("statement")
  /\ \E type \in StatementTypes :
       /\ ~IsInvalid(type, Next1.ctx, Next1.nest, Next1.n)
       /\ Do(<<[Next1 EXCEPT !.op = type]>>)
       /\ \/ UNCHANGED funcs
          \/ /\ ~NoJumps /\ type # "goto"
             /\ funcs' = [funcs EXCEPT ![Next1.ctx.currfunc] = AddLabel(@)]
  /\ UNCHANGED <<globalvars, numfunctions, functions, dead>>

\* The condition, the one path, perhaps the other.
BuildIf ==
  /\ At("if")
  /\ LET path == Block(Next1.ctx, Next1.nest + 1)
     IN \E k \in {1, 2} : Do(<<Expr(Next1.ctx, 0)>> \o Times(k, path))
  /\ UNCHANGED <<globalvars, funcs, numfunctions, functions, dead>>

BuildFor ==
  /\ At("for")
  /\ Do(<<Block(Next1.ctx, Next1.nest + 1)>>)
  /\ dead' = SelectionFails(Next1.ctx, "any")
  /\ UNCHANGED <<globalvars, funcs, numfunctions, functions>>

BuildAssignment ==
  /\ At("assignment")
  /\ Do(<<Expr(Next1.ctx, 0)>>)
  /\ dead' = SelectionFails(Next1.ctx, "any")
  /\ UNCHANGED <<globalvars, funcs, numfunctions, functions>>

\* The right-hand side is drawn until it is wide enough for the left-hand side.
BuildPtrAssignment ==
  /\ At("ptrassignment")
  /\ Do(<<>>)
  /\ LET scope == Next1.ctx.scope
     IN dead' = \/ SelectionFails(Next1.ctx, "pointer")
                \/ SelectionFails(Next1.ctx, "any")
                \/ \E l \in Selectable(Next1.ctx, "pointer") :
                     \A r \in Selectable(Next1.ctx, "any") : ~Consistent(scope[l], scope[r])
  /\ UNCHANGED <<globalvars, funcs, numfunctions, functions>>

\* selectOperand(): a constant or a variable.
BuildReturn ==
  /\ At("return")
  /\ Do(<<>>)
  /\ dead' = SelectionFails(Next1.ctx, "any")
  /\ UNCHANGED <<globalvars, funcs, numfunctions, functions>>

\* selectLabel() draws below numlabels and walks the list of labels.
BuildGoto ==
  /\ At("goto")
  /\ Do(<<>>)
  /\ LET fn == funcs[Next1.ctx.currfunc]
     IN IF fn.numlabels = 0 \/ fn.numlabels > Len(fn.labels)
          THEN dead' = TRUE /\ UNCHANGED funcs
          ELSE /\ \E i \in 1 .. fn.numlabels :
                    funcs' = Write(Next1.ctx.currfunc, <<"goto", fn.labels[i]>>)
               /\ UNCHANGED dead
  /\ UNCHANGED <<globalvars, numfunctions, functions>>

\* The function to be called is made for the purpose, then the call.
BuildFunctionCall ==
  /\ At("functioncall")
  /\ \E ps \in ParameterLists :
       EnterFunction(globalvars, ps,
         <<Call("arguments", Next1.ctx, Next1.nest + 1, 0, Len(funcs) + 1)>>)
  /\ UNCHANGED <<globalvars, functions, dead>>

\* Fault: it adds in front.
ListedInFront(f) == <<f>> \o functions
\* addFunctionToList()
Listed(f) == Append(functions, f)

\* The end of makeFunction(): the function is listed and keeps the context and
\* the text of its body.
FunctionMade ==
  /\ At("functionMade")
  /\ Do(<<>>)
  /\ functions' = Listed(Next1.f)
  /\ funcs' = [funcs EXCEPT ![Next1.f].context = Next1.ctx, ![Next1.f].body = Len(funcs[Next1.f].text)]
  /\ UNCHANGED <<globalvars, numfunctions, dead>>

\* Fault: the first function of the program.
CalleeAlwaysFirst == 1
\* The function a call is made to.
Callee == Next1.f

\* The call is built, one expression per parameter.  In an expression the
\* function is listed once more (n is 1).
BuildArguments ==
  /\ At("arguments")
  /\ Do(Times(funcs[Next1.f].params, Expr(Next1.ctx, Next1.nest)))
  /\ funcs' = Write(Next1.ctx.currfunc, <<"call", Callee>>)
  /\ functions' = IF Next1.n = 1 THEN Listed(Next1.f) ELSE functions
  /\ UNCHANGED <<globalvars, numfunctions, dead>>
-----------------------------------------------------------------------------
(* Expressions: makeExpression() adds one level and so does the builder. *)

Shallow == Next1.nest < MaxExpressionNesting
Part    == Expr(Next1.ctx, Next1.nest + 2)

BuildOperand ==
  /\ At("expression") /\ ~Shallow
  /\ Do(<<>>)
  /\ dead' = SelectionFails(Next1.ctx, "any")
  /\ UNCHANGED <<globalvars, funcs, numfunctions, functions>>

\* Two operands for a test or an operation; the middle part of ?: may be missing.
BuildOperation ==
  /\ At("expression") /\ Shallow
  /\ \E k \in {2, 3} : Do(Times(k, Part))
  /\ UNCHANGED <<globalvars, funcs, numfunctions, functions, dead>>

BuildAssignmentExpr ==
  /\ At("expression") /\ Shallow
  /\ Do(<<Part>>)
  /\ dead' = SelectionFails(Next1.ctx, "any")
  /\ UNCHANGED <<globalvars, funcs, numfunctions, functions>>

\* Fault: one function more than the limit.
CallIsInvalidLate == numfunctions > MaxFunctions
\* EXPRESSION_IS_INVALID
CallIsInvalid == numfunctions >= MaxFunctions

BuildFunctionCallExpr ==
  /\ At("expression") /\ Shallow /\ ~CallIsInvalid
  /\ \E ps \in ParameterLists :
       EnterFunction(globalvars, ps,
         <<Call("arguments", Next1.ctx, Next1.nest + 2, 1, Len(funcs) + 1)>>)
  /\ UNCHANGED <<globalvars, functions, dead>>
-----------------------------------------------------------------------------
BlockStep ==
  EnterBlock \/ MakeLocal \/ BlockStatements \/ NextStatement \/ FunctionStatement

StatementStep ==
  \/ MakeStatement \/ BuildIf \/ BuildFor \/ BuildAssignment \/ BuildPtrAssignment
  \/ BuildReturn \/ BuildGoto \/ BuildFunctionCall

ExpressionStep ==
  \/ BuildOperand \/ BuildOperation \/ BuildAssignmentExpr \/ BuildFunctionCallExpr
  \/ BuildArguments

GenerateStep == BlockStep \/ StatementStep \/ ExpressionStep \/ FunctionMade

Next == MakeProgram \/ GenerateStep

Spec == Init /\ [][Next]_vars

\* A sequential program runs on as long as it can.
FairSpec == Spec /\ WF_vars(Next)
-----------------------------------------------------------------------------
(* Properties *)

\* The variables have the types of the C declarations.
TodoTypeOK  == todo \in Seq(Calls)
ScopeTypeOK == globalvars \in Seq(Variable)
FuncsTypeOK ==
  /\ funcs \in Seq([name : Nat, params : Nat, numlabels : Nat, labels : Seq(Nat),
                     text : Seq({"label", "goto", "call"} \X Nat), body : Nat,
                     context : Context])
  /\ numfunctions \in Nat
  /\ functions \in Seq(Nat)
  /\ dead \in BOOLEAN
TypeOK == TodoTypeOK /\ ScopeTypeOK /\ FuncsTypeOK

\* The contexts in use: of the calls to be made, and those kept with a function.
Contexts ==
  {todo[k].ctx : k \in DOMAIN todo} \cup {funcs[f].context : f \in DOMAIN funcs}

\* In every context, at every depth of the recursion, the counters and the list
\* they count have moved together (block.c, func.c: three statements each time).
ContextsAgree == \A ctx \in Contexts : CountersAgree(ctx)

\* No variable of the program hides or duplicates another (integer.c, pointer.c).
NoShadowing == \A ctx \in Contexts : NamesDiffer(ctx)

\* Every pointer declaration of the program compiles and respects
\* max_pointer_depth (pointer.c).
PointersWellFormed == \A ctx \in Contexts : PointersResolve(ctx)

\* The two sides of a pointer assignment are printed at the same depth, with no
\* more stars than the buffer of genStars() has room for, and the unsigned
\* difference lhsdepth - rhsdepth - 1 does not wrap (statement.c, utils.c).
PtrAssignmentsTyped ==
  todo # <<>> /\ Next1.op = "ptrassignment" =>
    \A i \in Selectable(Next1.ctx, "pointer") : \A j \in Selectable(Next1.ctx, "any") :
      LET l == Next1.ctx.scope[i]
          r == Next1.ctx.scope[j]
          p == Stars(l, r)
      IN /\ p.left \in 0 .. 15 /\ p.right \in 0 .. 15
         /\ l.depth - p.left = r.depth - p.right + (IF r.type = "integer" THEN 1 ELSE 0)

\* CCG never reaches die("unreachable"), a remainder by zero, or a loop that
\* draws for ever because no candidate is left (variable.c, label.c, pointer.c,
\* statement.c).
NeverDies == ~dead

\* The limit on the number of functions holds through the recursion of
\* makeFunction(), and is what ends it; no two functions have one name.
FunctionsLimited ==
  /\ numfunctions = Len(funcs) /\ numfunctions <= MaxFunctions
  /\ \A f, g \in DOMAIN funcs : funcs[f].name = funcs[g].name => f = g

\* The calls in the text of a function.
CalleesOf(f) == {funcs[f].text[i][2] : i \in {j \in DOMAIN funcs[f].text :
                                               funcs[f].text[j][1] = "call"}}

\* A function is listed after all it calls, and calls only what was begun after
\* it: printed in the order of the list, a call follows its callee, and the
\* program does not recurse (func.c, expression.c list the callee).
CalleesFirst ==
  \A f \in DOMAIN funcs : \A g \in CalleesOf(f) :
    /\ f < g
    /\ \A k \in DOMAIN functions :
         functions[k] = f => \E j \in 1 .. k - 1 : functions[j] = g

\* Every function but the first is called from exactly one place, once its call
\* is built: the call that was its reason to be made (statement.c, expression.c).
CallSites(g) ==
  UNION {{<<f, i>> : i \in {j \in DOMAIN funcs[f].text : funcs[f].text[j] = <<"call", g>>}} :
         f \in DOMAIN funcs}
CallsDue(g) == {k \in DOMAIN todo : todo[k].op = "arguments" /\ todo[k].f = g}
CallTree ==
  \A g \in 2 .. Len(funcs) : Cardinality(CallSites(g)) + Cardinality(CallsDue(g)) = 1

\* Every goto of a function has its label in the same function, and the label is
\* printed with exactly one statement, whatever was built in between (label.c).
JumpsLand ==
  \A f \in DOMAIN funcs : \A i \in DOMAIN funcs[f].text :
    LET text == funcs[f].text
    IN text[i][1] = "goto" =>
         Cardinality({j \in DOMAIN text : text[j] = <<"label", text[i][2]>>}) = 1

\* A return statement has no statement after it in its block (block.c draws one
\* only where lastofblock is true).
ReturnEndsBlock ==
  todo # <<>> /\ Next1.op = "return" /\ Len(todo) > 1
    => ~(todo[2].op = "statements" /\ todo[2].n > 0)

\* The recursion of makeFunction(), makeBlock() and makeExpression() ends.
GenerationEnds == <>(todo = <<>>)
=============================================================================
