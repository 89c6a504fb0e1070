---------------------------- MODULE Translation ----------------------------
(***************************************************************************)
(* MainFunctionToString() in src/src/proto_to_c.cc: the program a round of *)
(* remccg tests.  CCG makes a tree of functions; they are printed one by   *)
(* one, and after the statement of each a random statement of the C        *)
(* grammar may be inserted, whose parts are made by CCG in the context of  *)
(* the function being printed.  They may call new functions: the list that *)
(* is being printed grows, and their prototypes are printed at once, in    *)
(* the middle of what is being printed.                                    *)
(*                                                                         *)
(* The printers have a stack of calls of their own, under that of Generator: *)
(* they call CCG, and go on when it has returned.                          *)
(***************************************************************************)
EXTENDS Generator

CONSTANTS
  MaxDepth,     \* max_depth (15)
  Cases,        \* cases of a switch with a default (11)
  MaxPending,   \* bound of the instance: calls on the stack when a sequence grows
  MaxInserting  \* bound of the instance: definitions that are inserted into

ASSUME TranslationAssumption ==
  MaxDepth \in Nat /\ Cases \in Nat /\ MaxPending \in Nat /\ MaxInserting \in Nat

VARIABLES
  frames,    \* the calls of the printers still to be made, the next one first
  cc,        \* the global Context *cc
  depth,     \* the global budget of nested statements
  funcName,  \* names of the functions printed
  printed,   \* printed[f]: the text that stands in the definition of f
  declared,  \* names declared at file scope
  blocks,    \* names declared extern in each open block, outermost first
  called     \* history: names of functions called in the text printed so far

output == <<printed, declared, blocks, called>>
tvars  == <<vars, frames, cc, depth, funcName, output>>
-----------------------------------------------------------------------------
\* Fault: the block is as deep as the body of a function.
ThrowawayShallow == 0
\* makeBlock(), inlined at nesting 8: beyond the limit on statements.
ThrowawayNesting == 8

\* Fault: a whole expression.
InsertedNestingFull == 0
\* insertExpression() asks for nesting 15: nothing but an operand.
InsertedNesting == 15

\* A call of a printer, or a place in it: a count, the function it is about and
\* what it keeps of cc.
Frame(op, n, f) == [op |-> op, n |-> n, f |-> f, ctx |-> NoContext]

Frame1 == Head(frames)

\* CCG has returned, and the next call of the printers is of op; calls takes its place.
Reached(op)  == todo = <<>> /\ ~dead /\ frames # <<>> /\ Frame1.op = op
Proceed(calls) == frames' = calls \o Tail(frames)
\* Before that, CCG is called.
Make(call)   == todo' = <<call>> /\ UNCHANGED <<globalvars, funcs, numfunctions, functions, dead>>

TInit ==
  /\ Init /\ frames = <<Frame("prototypes", 0, 0)>>
  /\ cc = NoContext /\ funcName = {}
  /\ depth \in 0 .. MaxDepth  \* left by the program before, in the same process
  /\ printed = [f \in 1 .. MaxFunctions |-> {}]
  /\ declared = {} /\ blocks = <<>> /\ called = {}

\* Fault: only the first makeFunction(), with no parameters, prints.
ExternOutside(n) ==
  IF blocks = <<>>
    THEN declared' = declared \cup {n} /\ UNCHANGED blocks
    ELSE UNCHANGED <<declared, blocks>>
\* The extern declaration that ends makeFunction(): where the text is just now.
Extern(n) ==
  IF blocks = <<>>
    THEN declared' = declared \cup {n} /\ UNCHANGED blocks
    ELSE blocks' = [blocks EXCEPT ![Len(blocks)] = @ \cup {n}] /\ UNCHANGED declared

\* CCG at work; a function that is made is declared at once.
Generate ==
  \/ MakeProgram /\ UNCHANGED <<frames, cc, depth, funcName, output>>
  \/ /\ BlockStep \/ StatementStep \/ ExpressionStep
     /\ UNCHANGED <<frames, cc, depth, funcName, output>>
  \/ /\ FunctionMade
     /\ Extern(funcs[Next1.f].name)
     /\ UNCHANGED <<frames, cc, depth, funcName, printed, called>>

\* cc is given the globals and func_0, a block is made that nobody prints, and
\* every function is declared.
Prototypes ==
  /\ Reached("prototypes")
  /\ cc' = [nvars |-> Len(globalvars), nintegers |-> Len(globalvars),
            scope |-> globalvars, currfunc |-> 1]
  /\ Make(Block(cc', ThrowawayNesting))
  /\ Proceed(<<[Frame("definitions", 1, 0) EXCEPT !.ctx = cc']>>)
  /\ declared' = declared \cup {funcs[functions[k]].name : k \in DOMAIN functions}
  /\ UNCHANGED <<depth, funcName, printed, blocks, called>>
-----------------------------------------------------------------------------
(* The loop over program.functions. *)

\* Fault: the scope is left as it was.
BodyContextStale(f) == [funcs[f].context EXCEPT !.scope = cc.scope]
\* lcc: the context in which the body of the function ended.
BodyContext(f) == funcs[f].context

NextDefinition == [Frame1 EXCEPT !.n = @ + 1]

\* A function that is listed once more.
SkipFunction ==
  /\ Reached("definitions") /\ Frame1.n <= Len(functions)
  /\ funcs[functions[Frame1.n]].name \in funcName
  /\ Proceed(<<NextDefinition>>)
  /\ UNCHANGED <<vars, cc, depth, funcName, output>>

DefineFunction ==
  /\ Reached("definitions") /\ Frame1.n <= Len(functions)
  /\ LET f == functions[Frame1.n]
     IN /\ funcs[f].name \notin funcName
        /\ cc' = BodyContext(f)
        /\ blocks' = <<{}>>
        /\ declared' = declared \cup {funcs[f].name}
        /\ Proceed(<<Frame("body", 0, f), Frame("endFunction", 0, f), NextDefinition>>)
  /\ UNCHANGED <<vars, depth, funcName, printed, called>>

\* The function whose definition is being printed, if one is.
InDefinition == {k \in DOMAIN frames : frames[k].op = "endFunction"}
Printing     == frames[CHOOSE k \in InDefinition : TRUE].f

\* Text from..to of g is printed in the definition of f.
PrintText(f, g, from, to) ==
  /\ printed' = [printed EXCEPT ![f] = @ \cup {<<g, i>> : i \in from .. to}]
  /\ called' = called \cup {funcs[funcs[g].text[i][2]].name :
                              i \in {j \in from .. to : funcs[g].text[j][1] = "call"}}

\* What may be inserted, and whether the budget of depth is given back after it.
StatementKinds ==
  {"Assignment", "Loop", "IfElse", "If", "Switch", "Labeled", "Expression", "Compound", "Jump"}
GivesBack == {"Loop", "IfElse", "If", "Switch", "Jump"}

Insert(kind) == Frame(kind, 0, 0)

\* The body's statement, then perhaps one more.
PrintBody ==
  /\ Reached("body")
  /\ PrintText(Frame1.f, Frame1.f, 1, funcs[Frame1.f].body)
  /\ \/ Proceed(<<>>)
     \/ Cardinality(funcName) < MaxInserting /\ \E kind \in StatementKinds :
          Proceed(<<Insert(kind)>> \o (IF kind \in GivesBack THEN <<Insert("depth")>> ELSE <<>>))
  /\ UNCHANGED <<vars, cc, depth, funcName, declared, blocks>>

\* Fault: one level is given back, where the budget counts every statement.
BudgetOneLevel == depth - 1
\* depth = 0, whatever has been spent.
BudgetRestored == 0

GiveBackDepth ==
  /\ Reached("depth") /\ Proceed(<<>>) /\ depth' = BudgetRestored
  /\ UNCHANGED <<vars, cc, funcName, output>>

EndFunction ==
  /\ Reached("endFunction") /\ Proceed(<<>>)
  /\ blocks' = <<>>
  /\ funcName' = funcName \cup {funcs[Frame1.f].name}
  /\ UNCHANGED <<vars, cc, depth, printed, declared, called>>

\* The loop is over: cc is as it was before, main() calls func_0.
PrintMain ==
  /\ Reached("definitions") /\ Frame1.n > Len(functions)
  /\ Proceed(<<>>)
  /\ cc' = Frame1.ctx
  /\ called' = called \cup {0}
  /\ UNCHANGED <<vars, depth, funcName, printed, declared, blocks>>
-----------------------------------------------------------------------------
(* The inserted statements. *)

\* { insertStatement(); statement_seq }
Braced == <<Insert("open"), Insert("insert"), Insert("Sequence"), Insert("close")>>

DoInsert(op, calls) ==
  /\ Reached(op) /\ Proceed(calls)
  /\ UNCHANGED <<vars, cc, funcName, output>>

Plain(op, calls) == DoInsert(op, calls) /\ UNCHANGED depth

\* if (++depth > max_depth) return
Deeper(op, calls) ==
  DoInsert(op, IF depth < MaxDepth THEN calls ELSE <<>>) /\ depth' = depth + 1

\* insertStatement(): a block is made in cc, and printed.
InsertStatement ==
  /\ Reached("insert") /\ Make(Call("functionBlock", cc, 2, 0, 0))
  /\ Proceed(<<Frame("printBlock", Len(funcs[cc.currfunc].text), cc.currfunc)>>)
  /\ UNCHANGED <<cc, depth, funcName, output>>

\* insertExpression(): the line it is in has been begun, and ends after it.
InsertExpression ==
  /\ Reached("inline") /\ Make(Expr(cc, InsertedNesting))
  /\ Proceed(<<Insert("endLine")>>)
  /\ UNCHANGED <<cc, depth, funcName, output>>

EndLine == Plain("endLine", <<>>)

\* StatementSeq: a statement, or a sequence and a statement.
Sequence ==
  \/ Plain("Sequence", <<Insert("Statement")>>)
  \/ Len(frames) < MaxPending /\ Plain("Sequence", <<Insert("Sequence"), Insert("Statement")>>)

AnyStatement ==
  \E kind \in StatementKinds :
    /\ kind # "Compound" \/ Len(frames) < MaxPending
    /\ Plain("Statement", <<Insert(kind)>>)

AssignmentStatement == Plain("Assignment", <<Insert("inline"), Insert("insert")>>)
ExpressionStatement == Plain("Expression", <<Insert("inline")>>)
LabeledStatement    == Plain("Labeled", <<Insert("inline"), Insert("Assignment")>>)
CompoundStatement   == Plain("Compound", Braced)
JumpStatement       == Plain("Jump", <<>>) \/ Plain("Jump", <<Insert("inline")>>)

\* while, do-while and for differ in what their heads look like.
LoopStatement   == Deeper("Loop", Braced)
IfElseStatement == Deeper("IfElse", <<Insert("inline")>> \o Braced \o Braced)
IfStatement ==
  Deeper("If", <<Insert("inline"), Insert("open"), Insert("insert"), Insert("Assignment"),
                                 Insert("Sequence"), Insert("close")>>)
SwitchStatement ==
  Deeper("Switch", <<Insert("open")>> \o Times(Cases, Insert("case")) \o
                   <<Insert("close")>> \o <<Insert("inline")>> \o Braced)
CaseOfSwitch == Plain("case", Braced)

OpenBrace ==
  /\ Reached("open") /\ Proceed(<<>>)
  /\ blocks' = Append(blocks, {})
  /\ UNCHANGED <<vars, cc, depth, funcName, printed, declared, called>>

CloseBrace ==
  /\ Reached("close") /\ Proceed(<<>>)
  /\ blocks' = SubSeq(blocks, 1, Len(blocks) - 1)
  /\ UNCHANGED <<vars, cc, depth, funcName, printed, declared, called>>

\* printBlockForFunction(): what has been added to the text since the block was begun.
PrintBlock ==
  /\ Reached("printBlock") /\ Proceed(<<>>)
  /\ PrintText(Printing, Frame1.f, Frame1.n + 1, Len(funcs[Frame1.f].text))
  /\ UNCHANGED <<vars, cc, depth, funcName, declared, blocks>>
-----------------------------------------------------------------------------
Definitions ==
  SkipFunction \/ DefineFunction \/ PrintBody \/ GiveBackDepth \/ EndFunction \/ PrintMain

Inserting ==
  \/ InsertStatement \/ InsertExpression \/ EndLine \/ Sequence \/ AnyStatement \/ PrintBlock
  \/ AssignmentStatement \/ ExpressionStatement \/ LabeledStatement \/ CompoundStatement
  \/ JumpStatement \/ LoopStatement \/ IfElseStatement \/ IfStatement \/ SwitchStatement
  \/ CaseOfSwitch \/ OpenBrace \/ CloseBrace

TNext == Generate \/ Prototypes \/ Definitions \/ Inserting

TSpec == TInit /\ [][TNext]_tvars
-----------------------------------------------------------------------------
(* Properties *)

FrameOps ==
  StatementKinds \cup
  {"prototypes", "definitions", "body", "depth", "endFunction", "insert", "inline", "endLine",
   "printBlock", "Sequence", "Statement", "open", "close", "case"}

\* The variables have the types of the C++ declarations.
TranslationTypeOK ==
  /\ TypeOK
  /\ frames \in Seq([op : FrameOps, n : Nat, f : Nat, ctx : Context])
  /\ cc \in Context /\ depth \in Nat
  /\ funcName \subseteq Nat /\ declared \subseteq Nat /\ called \subseteq Nat
  /\ printed \in [1 .. MaxFunctions -> SUBSET (Nat \X Nat)]
  /\ blocks \in Seq(SUBSET Nat)

\* The text of a round is a C program as CUnit describes one: functions that are
\* invented while another is being printed are declared in the block that calls
\* them, are defined later though the loop over program.functions has begun,
\* and are defined before any other function that calls them (proto_to_c.cc).
Unit == INSTANCE CUnit WITH
  Names   <- 0 .. MaxFunctions - 1,
  ended   <- frames = <<>>,
  defined <- funcName \cup {funcs[frames[k].f].name : k \in InDefinition}
ImplementsUnit == Unit!Spec

\* When the definition of a function ends, every jump that was printed in it,
\* by the body or by an inserted block, has its label printed in it: a label is
\* on offer to selectLabel() as soon as it is made, printed or not.
JumpsPrinted ==
  \A k \in InDefinition : k = 1 =>
    LET text    == printed[frames[k].f]
        Item(t) == funcs[t[1]].text[t[2]]
    IN \A jump \in text : Item(jump)[1] = "goto" =>
         \E target \in text :
           target[1] = jump[1] /\ Item(target) = <<"label", Item(jump)[2]>>

\* makeFunction() prints a declaration at once; it is never in the middle of an
\* expression that the printer has begun (insertExpression in proto_to_c.cc).
ExternAtLineStart ==
  todo # <<>> /\ Next1.op = "functionMade" =>
    \A k \in DOMAIN frames : frames[k].op # "endLine"

\* Whatever CCG makes for the function being printed is made in the scope of its
\* body, with the locals of blocks around it added (cc in proto_to_c.cc).
InsertedInScope ==
  InDefinition # {} =>
    LET body == funcs[Printing].context
    IN \A k \in DOMAIN todo :
         LET ctx == todo[k].ctx
         IN ctx.currfunc = Printing =>
              /\ CountersAgree(ctx)
              /\ Len(body.scope) <= Len(ctx.scope)
              /\ SubSeq(ctx.scope, 1, Len(body.scope)) = body.scope
=============================================================================
