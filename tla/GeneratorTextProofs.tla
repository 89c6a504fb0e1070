------------------------- MODULE GeneratorTextProofs -------------------------
(***************************************************************************)
(* What CCG writes, for all limits and all outcomes of rand(): jumps have  *)
(* their labels, pointer assignments their stars, a return is the last of  *)
(* its block, a function is listed after all it calls, and is called from  *)
(* one place.                                                              *)
(***************************************************************************)
EXTENDS GeneratorProofs

-----------------------------------------------------------------------------
(* Pointer assignments *)

\* The depths of the two sides are within the limit, and an integer has none.
LEMMA Depths ==
  ASSUME NEW ctx, GoodContext(ctx), NEW i \in DOMAIN ctx.scope
  PROVE  /\ ctx.scope[i].type \in {"integer", "pointer"} /\ ctx.scope[i].depth \in Nat
         /\ ctx.scope[i].type = "integer" => ctx.scope[i].depth = 0
         /\ ctx.scope[i].type = "pointer" => ctx.scope[i].depth \in 1 .. MaxPointerDepth
<1>1. /\ ctx.scope \in Seq(Variable) /\ DOMAIN ctx.scope = 1 .. Len(ctx.scope)
  BY DEF GoodContext, Context
<1>2. ctx.scope[i] \in Variable
  BY <1>1, ElementOfSeq
<1>3. ASSUME ctx.scope[i].type = "pointer" PROVE ctx.scope[i].depth \in 1 .. MaxPointerDepth
  <2>1. PICK j \in 1 .. i - 1 : ctx.scope[j].depth + 1 = ctx.scope[i].depth
    BY <1>3 DEF GoodContext, PointersResolve
  <2>2. ctx.scope[j] \in Variable
    <3>1. j \in 1 .. Len(ctx.scope)
      BY <1>1
    <3> QED BY <1>1, <3>1, ElementOfSeq
  <2>3. ctx.scope[i].depth <= MaxPointerDepth
    BY <1>3 DEF GoodContext, PointersResolve
  <2> QED BY <1>2, <2>1, <2>2, <2>3, GeneratorAssumption DEF Variable
<1> QED BY <1>2, <1>3 DEF Variable, GoodContext, IntegersFlat

\* As many stars as printPtrAssignmentStatement() draws make the sides equally
\* deep, and are fewer than max_pointer_depth.
LEMMA StarsLevel ==
  ASSUME NEW ctx, GoodContext(ctx),
         NEW i \in Selectable(ctx, "pointer"), NEW j \in Selectable(ctx, "any")
  PROVE  LET l == ctx.scope[i]
             r == ctx.scope[j]
             p == Stars(l, r)
         IN /\ p.left \in 0 .. MaxPointerDepth - 1 /\ p.right \in 0 .. MaxPointerDepth - 1
            /\ l.depth - p.left = r.depth - p.right + (IF r.type = "integer" THEN 1 ELSE 0)
<1> DEFINE l == ctx.scope[i]
           r == ctx.scope[j]
<1>1. i \in DOMAIN ctx.scope /\ l.type = "pointer" /\ j \in DOMAIN ctx.scope
  BY DEF Selectable
<1>2. /\ l.depth \in 1 .. MaxPointerDepth /\ r.type \in {"integer", "pointer"}
      /\ r.type = "integer" => r.depth = 0
      /\ r.type = "pointer" => r.depth \in 1 .. MaxPointerDepth
  BY <1>1, Depths
<1> DEFINE p == Stars(l, r)
<1> SUFFICES /\ p.left \in 0 .. MaxPointerDepth - 1 /\ p.right \in 0 .. MaxPointerDepth - 1
             /\ l.depth - p.left = r.depth - p.right + (IF r.type = "integer" THEN 1 ELSE 0)
  OBVIOUS
<1>3. MaxPointerDepth \in Nat
  BY GeneratorAssumption
<1> HIDE DEF l, r
<1>4. CASE r.type = "integer"
  <2>1. p.left = l.depth - r.depth - 1 /\ p.right = 0
    BY <1>4 DEF Stars
  <2> HIDE DEF p
  <2> QED BY <1>2, <1>3, <1>4, <2>1
<1>5. CASE r.type = "pointer"
  <2>1. /\ p.left = IF l.depth > r.depth THEN l.depth - r.depth ELSE 0
        /\ p.right = IF l.depth < r.depth THEN r.depth - l.depth ELSE 0
    BY <1>5 DEF Stars
  <2> HIDE DEF p
  <2> QED BY <1>2, <1>3, <1>5, <2>1
<1> QED BY <1>2, <1>4, <1>5

\* The two sides of a pointer assignment are printed equally deep, for every
\* max_pointer_depth for which its stars fit in the 16 bytes of genStars()
\* (statement.c, utils.c).
THEOREM PtrAssignmentsCorrect ==
  ASSUME MaxPointerDepth <= 16
  PROVE  Spec => []PtrAssignmentsTyped
<1>1. GoodProgram => PtrAssignmentsTyped
  <2> SUFFICES ASSUME GoodProgram, todo # <<>>, Next1.op = "ptrassignment",
                      NEW i \in Selectable(Next1.ctx, "pointer"),
                      NEW j \in Selectable(Next1.ctx, "any")
               PROVE  LET l == Next1.ctx.scope[i]
                          r == Next1.ctx.scope[j]
                          p == Stars(l, r)
                      IN /\ p.left \in 0 .. 15 /\ p.right \in 0 .. 15
                         /\ l.depth - p.left
                              = r.depth - p.right + (IF r.type = "integer" THEN 1 ELSE 0)
    BY DEF PtrAssignmentsTyped
  <2>1. GoodContext(Next1.ctx)
    BY NextGood
  <2>2. 0 .. MaxPointerDepth - 1 \subseteq 0 .. 15
    BY GeneratorAssumption
  <2> QED BY <2>1, <2>2, StarsLevel
<1> QED BY <1>1, GoodProgramHolds, PTL
-----------------------------------------------------------------------------
(* Labels and jumps *)

\* The labels ls of a function are numbered, each is printed once in its text t,
\* and what is printed as a label or jumped to is one of them.
LabelsFit(ls, t) ==
  /\ \A i \in 1 .. Len(ls) : ls[i] = i
  /\ \A i \in 1 .. Len(t) : t[i][1] \in {"label", "goto"} => t[i][2] \in 1 .. Len(ls)
  /\ \A l \in 1 .. Len(ls) : \E j \in 1 .. Len(t) : t[j] = <<"label", l>>
  /\ \A i, j \in 1 .. Len(t) : t[i][1] = "label" /\ t[i] = t[j] => i = j

Labelled(r) == LabelsFit(r.labels, r.text)

LabelsOK == \A f \in 1 .. Len(funcs) : Labelled(funcs[f])

\* Writing a call, or a jump to a label of the function.
LEMMA WriteLabelled ==
  ASSUME NEW r \in Function, Labelled(r), NEW item \in {"goto", "call"} \X Nat,
         item[1] = "goto" => item[2] \in 1 .. Len(r.labels)
  PROVE  Labelled([r EXCEPT !.text = Append(@, item)])
<1> DEFINE q == [r EXCEPT !.text = Append(@, item)]
           t == r.text
           n == Len(t)
           u == Append(t, item)
           ls == r.labels
<1>1. q.labels = ls /\ q.text = u
  BY DEF Function
<1>2. t \in Seq({"label", "goto", "call"} \X Nat) /\ n \in Nat /\ item[1] # "label"
  BY DEF Function
<1>3. Len(u) = n + 1 /\ u[n + 1] = item /\ \A i \in 1 .. n : u[i] = t[i]
  BY <1>2, AppendProperties
<1>4. /\ \A i \in 1 .. n : t[i][1] \in {"label", "goto"} => t[i][2] \in 1 .. Len(ls)
      /\ \A l \in 1 .. Len(ls) : \E j \in 1 .. n : t[j] = <<"label", l>>
      /\ \A i, j \in 1 .. n : t[i][1] = "label" /\ t[i] = t[j] => i = j
      /\ \A i \in 1 .. Len(ls) : ls[i] = i
  BY DEF Labelled, LabelsFit
<1>5. item[1] = "goto" => item[2] \in 1 .. Len(ls)
  OBVIOUS
<1> HIDE DEF q, t, u, n, ls
<1>6. /\ \A i \in 1 .. Len(u) : i \in 1 .. n \/ i = n + 1
      /\ 1 .. n \subseteq 1 .. Len(u)
  BY <1>2, <1>3
<1>7. \A i \in 1 .. Len(u) : u[i][1] \in {"label", "goto"} => u[i][2] \in 1 .. Len(ls)
  BY <1>2, <1>3, <1>4, <1>5, <1>6
<1>8. \A l \in 1 .. Len(ls) : \E j \in 1 .. Len(u) : u[j] = <<"label", l>>
  BY <1>3, <1>4, <1>6
<1>9. \A i, j \in 1 .. Len(u) : u[i][1] = "label" /\ u[i] = u[j] => i = j
  BY <1>2, <1>3, <1>4, <1>6
<1>10. LabelsFit(ls, u)
  BY <1>4, <1>7, <1>8, <1>9 DEF LabelsFit
<1>11. Labelled(q)
  BY <1>1, <1>10 DEF Labelled
<1> QED BY <1>11 DEF q

\* makeLabel() adds the next label to the list and to the text.
LEMMA AddLabelLabelled ==
  ASSUME NEW r \in Function, Labelled(r)
  PROVE  Labelled(AddLabel(r))
<1> DEFINE k == Len(r.labels)
           t == r.text
           n == Len(t)
           item == <<"label", k + 1>>
           u == Append(t, item)
           ls == Append(r.labels, k + 1)
<1>1. AddLabel(r).labels = ls /\ AddLabel(r).text = u
  BY DEF Function, AddLabel
<1>2. /\ t \in Seq({"label", "goto", "call"} \X Nat) /\ n \in Nat /\ r.labels \in Seq(Nat)
      /\ k \in Nat
  BY DEF Function
<1>3. Len(u) = n + 1 /\ u[n + 1] = item /\ \A i \in 1 .. n : u[i] = t[i]
  BY <1>2, AppendProperties
<1>4. Len(ls) = k + 1 /\ ls[k + 1] = k + 1 /\ \A i \in 1 .. k : ls[i] = r.labels[i]
  BY <1>2, AppendProperties
<1>5. /\ \A i \in 1 .. n : t[i][1] \in {"label", "goto"} => t[i][2] \in 1 .. k
      /\ \A l \in 1 .. k : \E j \in 1 .. n : t[j] = <<"label", l>>
      /\ \A i, j \in 1 .. n : t[i][1] = "label" /\ t[i] = t[j] => i = j
      /\ \A i \in 1 .. k : r.labels[i] = i
  BY DEF Labelled, LabelsFit
<1>6. item[1] = "label" /\ item[2] = k + 1
  OBVIOUS
<1> HIDE DEF k, t, u, n, ls
<1>7. /\ \A i \in 1 .. Len(u) : i \in 1 .. n \/ i = n + 1
      /\ \A i \in 1 .. Len(ls) : i \in 1 .. k \/ i = k + 1
      /\ k + 1 \notin 1 .. k /\ k + 1 \in 1 .. Len(ls) /\ n + 1 \in 1 .. Len(u)
      /\ 1 .. k \subseteq 1 .. Len(ls) /\ 1 .. n \subseteq 1 .. Len(u)
  BY <1>2, <1>3, <1>4
<1>8. \A i \in 1 .. Len(ls) : ls[i] = i
  BY <1>4, <1>5, <1>7
<1>9. \A i \in 1 .. Len(u) : u[i][1] \in {"label", "goto"} => u[i][2] \in 1 .. Len(ls)
  BY <1>3, <1>5, <1>6, <1>7
<1>10. \A l \in 1 .. Len(ls) : \E j \in 1 .. Len(u) : u[j] = <<"label", l>>
  BY <1>3, <1>5, <1>7
<1>11. \A i, j \in 1 .. Len(u) : u[i][1] = "label" /\ u[i] = u[j] => i = j
  <2>1. \A i \in 1 .. n : u[i] # item
    BY <1>3, <1>5, <1>6, <1>7
  <2> HIDE DEF item
  <2> QED BY <1>3, <1>5, <1>7, <2>1
<1>12. LabelsFit(ls, u)
  BY <1>8, <1>9, <1>10, <1>11 DEF LabelsFit
<1> QED BY <1>1, <1>12 DEF Labelled
-----------------------------------------------------------------------------
(* The shape of a step *)

\* A call that builds more statements of a block.
GoesOn(c) == c.op = "statements" /\ c.n > 0

\* Where a function is being made.
FunctionPlaces == {"functionBlock", "functionLocals", "functionMade"}

\* A call that goes on making a function; the block of a function that is inserted
\* elsewhere makes none.
Making(c) == c.op \in FunctionPlaces /\ (c.f = 0 => c.op = "functionMade")

\* The scope of ctx is that of body, with perhaps more declared.
Extends(ctx, body) ==
  \A i \in 1 .. Len(body.scope) :
    i \in 1 .. Len(ctx.scope) /\ ctx.scope[i] = body.scope[i]

\* What ends its block, or will: a return, a statement that may become one.
EndsBlock(c) ==
  \/ c.op = "return" \/ (c.op = "statement" /\ c.n # 0)
  \/ (c.op \in FunctionPlaces /\ ~Making(c))

\* The calls that take the place of the next one are made in its function and its
\* scope; the last of them goes on making the function if the next one did.
Within(calls) ==
  /\ calls \in Seq(Calls)
  /\ \A k \in 1 .. Len(calls) :
       /\ calls[k].ctx.currfunc = Next1.ctx.currfunc /\ calls[k].op # "arguments"
       /\ Extends(calls[k].ctx, Next1.ctx)
       /\ Making(calls[k]) =>
            k = Len(calls) /\ Making(Next1) /\ calls[k].f = Next1.f
  /\ Making(Next1) =>
       Len(calls) > 0 /\ Making(calls[Len(calls)])

\* None of them puts statements behind what ends a block.
Closed(calls) ==
  \A k \in 1 .. Len(calls) : EndsBlock(calls[k]) =>
    IF k = Len(calls) THEN EndsBlock(Next1) ELSE ~GoesOn(calls[k + 1])

LabelStep ==
  /\ Next1.ctx.currfunc \in 1 .. Len(funcs)
  /\ funcs' = [funcs EXCEPT ![Next1.ctx.currfunc] = AddLabel(funcs[Next1.ctx.currfunc])]

WriteStep(item) ==
  /\ Next1.ctx.currfunc \in 1 .. Len(funcs)
  /\ funcs' = [funcs EXCEPT ![Next1.ctx.currfunc] =
                [funcs[Next1.ctx.currfunc] EXCEPT !.text = Append(@, item)]]

GotoStep ==
  \E i \in 1 .. Len(funcs[Next1.ctx.currfunc].labels) :
    WriteStep(<<"goto", funcs[Next1.ctx.currfunc].labels[i]>>)

\* A step within a function: nothing is listed, nothing called.
LocalStep(calls) ==
  /\ Do(calls) /\ Within(calls) /\ Closed(calls) /\ Next1.op # "arguments"
  /\ UNCHANGED functions
  /\ UNCHANGED funcs \/ LabelStep \/ GotoStep

\* A function is begun, the first one or one to be called.
EnterStep(k, c, after) ==
  /\ funcs' = Append(funcs, NewFunction(k)) /\ UNCHANGED functions
  /\ c \in Calls /\ c.op = "functionBlock"
  /\ c.ctx.currfunc = Len(funcs) + 1 /\ c.f = Len(funcs) + 1
  /\ Do(<<c>> \o after)
  /\ Next1.op \notin FunctionPlaces \cup {"arguments"}
  /\ \/ after = <<>> /\ Next1.op = "program"
     \/ \E a \in Calls :
          /\ after = <<a>> /\ Next1.op # "program"
          /\ a.op = "arguments" /\ a.ctx = Next1.ctx /\ a.f = Len(funcs) + 1

MadeStep ==
  /\ Next1.op = "functionMade" /\ Do(<<>>)
  /\ functions' = Append(functions, Next1.f)
  /\ funcs' = [funcs EXCEPT ![Next1.f] =
                [funcs[Next1.f] EXCEPT !.context = Next1.ctx,
                                       !.body = Len(funcs[Next1.f].text)]]

CallStep(calls) ==
  /\ Next1.op = "arguments" /\ Do(calls) /\ Within(calls) /\ Closed(calls)
  /\ functions' = IF Next1.n = 1 THEN Append(functions, Next1.f) ELSE functions
  /\ WriteStep(<<"call", Next1.f>>)

\* Every step is one of these.
Shaped ==
  /\ todo # <<>>
  /\ \/ \E calls : LocalStep(calls)
     \/ \E k \in Nat : \E c, after : EnterStep(k, c, after)
     \/ MadeStep
     \/ \E calls : CallStep(calls)

\* Calls that begin no block's end and are at no other place of note.
Quiet(calls) ==
  /\ calls \in Seq(Calls)
  /\ \A k \in 1 .. Len(calls) :
       /\ calls[k].ctx.currfunc = Next1.ctx.currfunc
       /\ Extends(calls[k].ctx, Next1.ctx)
       /\ calls[k].op \in {"block", "locals", "statements", "expression"}

LEMMA QuietWithin ==
  ASSUME NEW calls, Quiet(calls), ~Making(Next1)
  PROVE  Within(calls) /\ Closed(calls)
BY DEF Quiet, Within, Closed, EndsBlock, FunctionPlaces, Making

LEMMA QuietNone == Quiet(<<>>)
BY DEF Quiet

LEMMA QuietParts ==
  ASSUME GoodProgram, todo # <<>>, Next1.op # "program", NEW nest \in Nat, NEW k \in Nat
  PROVE  /\ Quiet(<<Expr(Next1.ctx, nest)>>)
         /\ Quiet(<<Block(Next1.ctx, nest)>>)
         /\ Quiet(Times(k, Expr(Next1.ctx, nest)))
         /\ Quiet(Times(k, Block(Next1.ctx, nest)))
<1> DEFINE e == Expr(Next1.ctx, nest)
           b == Block(Next1.ctx, nest)
<1>1. /\ e \in Calls /\ e.op = "expression" /\ e.ctx = Next1.ctx
      /\ b \in Calls /\ b.op = "block" /\ b.ctx = Next1.ctx
  <2>1. e \in Calls /\ b \in Calls /\ e.op = "expression" /\ b.op = "block"
    BY PartGood DEF GoodCall
  <2> QED BY <2>1 DEF Expr, Block, Call
<1> HIDE DEF e, b
<1>2. ASSUME NEW c \in Calls, c.ctx = Next1.ctx, c.op \in {"block", "expression"}
      PROVE  Quiet(<<c>>) /\ Quiet(Times(k, c))
  <2>1. <<c>> \in Seq(Calls) /\ Len(<<c>>) = 1 /\ <<c>>[1] = c
    OBVIOUS
  <2>2. /\ Times(k, c) \in Seq(Calls) /\ Len(Times(k, c)) = k
        /\ \A i \in 1 .. k : Times(k, c)[i] = c
    BY DEF Times
  <2> QED BY <1>2, <2>1, <2>2 DEF Quiet, Extends
<1>3. Quiet(<<e>>) /\ Quiet(<<b>>) /\ Quiet(Times(k, e)) /\ Quiet(Times(k, b))
  BY <1>1, <1>2
<1> QED BY <1>3 DEF e, b

LEMMA QuietBoth ==
  ASSUME NEW c, Quiet(c), NEW d, Quiet(d)
  PROVE  Quiet(c \o d)
<1>1. c \in Seq(Calls) /\ d \in Seq(Calls) /\ Len(c) \in Nat /\ Len(d) \in Nat
  BY DEF Quiet
<1>2. /\ c \o d \in Seq(Calls) /\ Len(c \o d) = Len(c) + Len(d)
      /\ \A k \in 1 .. Len(c \o d) : (c \o d)[k] = IF k <= Len(c) THEN c[k] ELSE d[k - Len(c)]
  BY <1>1, ConcatProperties
<1>3. ASSUME NEW k \in 1 .. Len(c \o d)
      PROVE  k \in 1 .. Len(c) \/ k - Len(c) \in 1 .. Len(d)
  BY <1>1, <1>2
<1> HIDE DEF Quiet
<1> QED BY <1>1, <1>2, <1>3 DEF Quiet

LEMMA QuietLocal ==
  ASSUME todo # <<>>, NEW calls, Quiet(calls), Do(calls), UNCHANGED <<funcs, functions>>,
         Next1.op \notin FunctionPlaces \cup {"arguments"}
  PROVE  Shaped
BY QuietWithin DEF Shaped, LocalStep, Making

LEMMA BlockShaped == GoodProgram /\ (EnterBlock \/ MakeLocal \/ BlockStatements) => Shaped
<1> SUFFICES ASSUME GoodProgram, EnterBlock \/ MakeLocal \/ BlockStatements PROVE Shaped
  OBVIOUS
<1>1. /\ todo # <<>> /\ UNCHANGED <<funcs, functions>>
      /\ Next1.op \in {"block", "functionBlock", "locals", "functionLocals"}
  BY DEF EnterBlock, MakeLocal, BlockStatements, At
<1>2. /\ Next1 \in Calls /\ Next1.ctx \in Context /\ Next1.nest \in Nat /\ Next1.n \in Nat
      /\ GoodContext(Next1.ctx)
  BY <1>1, NextGood
\* The next call again, at a place of the same kind.
<1>3. ASSUME NEW c \in Calls, Do(<<c>>), c.ctx.currfunc = Next1.ctx.currfunc, c.f = Next1.f,
             Extends(c.ctx, Next1.ctx),
             \/ Next1.op \in {"block", "locals"} /\ c.op \in {"locals", "statements"}
             \/ Next1.op \in {"functionBlock", "functionLocals"} /\ c.op = "functionLocals"
      PROVE  Shaped
  <2>1. <<c>> \in Seq(Calls) /\ Len(<<c>>) = 1 /\ <<c>>[1] = c
    OBVIOUS
  <2>2. Within(<<c>>) /\ Closed(<<c>>)
    BY <1>3, <2>1 DEF Within, Closed, EndsBlock, FunctionPlaces, Making
  <2> QED BY <1>1, <1>3, <2>2 DEF Shaped, LocalStep
<1>4. CASE EnterBlock
  <2>1. PICK k \in NumLocals(Next1.nest), op \in {"locals", "functionLocals"} :
          /\ Do(<<[Next1 EXCEPT !.op = op, !.n = k]>>)
          /\ Next1.op = IF op = "locals" THEN "block" ELSE "functionBlock"
    BY <1>4 DEF EnterBlock, At
  <2> DEFINE c == [Next1 EXCEPT !.op = op, !.n = k]
  <2>2. k \in Nat
    BY GeneratorAssumption DEF NumLocals
  <2>3. c \in Calls
    BY <1>2, <2>2, CallUpdate DEF Ops
  <2>4. c.ctx = Next1.ctx /\ c.f = Next1.f /\ c.op = op
    BY <1>2 DEF Calls
  <2>5. Do(<<c>>)
    BY <2>1
  <2>6. Extends(c.ctx, Next1.ctx)
    BY <2>4 DEF Extends
  <2> HIDE DEF c
  <2> QED BY <1>3, <2>1, <2>3, <2>4, <2>5, <2>6
<1>5. CASE MakeLocal
  <2>1. PICK v \in NewVariables(Next1.ctx) :
          Do(<<[Next1 EXCEPT !.ctx = Declare(@, v), !.n = @ - 1]>>)
    BY <1>5 DEF MakeLocal
  <2> DEFINE ctx == Declare(Next1.ctx, v)
             c == [Next1 EXCEPT !.ctx = Declare(@, v), !.n = @ - 1]
  <2>0. Next1.n > 0 /\ Next1.op \in {"locals", "functionLocals"}
    BY <1>5 DEF MakeLocal, At
  <2>2. Next1.n - 1 \in Nat /\ Next1.op \in {"locals", "functionLocals"}
    BY <1>2, <2>0
  <2>3. ctx \in Context /\ ctx.currfunc = Next1.ctx.currfunc
    <3>1. ctx \in Context
      BY <1>2, DeclareGood DEF GoodContext
    <3>2. ctx.currfunc = Next1.ctx.currfunc
      BY <1>2 DEF Declare, Context
    <3> QED BY <3>1, <3>2
  <2>4. c = [Next1 EXCEPT !.ctx = ctx, !.n = Next1.n - 1]
    BY <1>2 DEF Calls
  <2>5. c \in Calls
    <3> HIDE DEF ctx, c
    <3> QED BY <1>2, <2>2, <2>3, <2>4, CallUpdate DEF Ops
  <2>6. c.ctx = ctx /\ c.f = Next1.f /\ c.op = Next1.op
    BY <1>2 DEF Calls
  <2>7. Do(<<c>>)
    BY <2>1
  <2>8. Extends(ctx, Next1.ctx)
    <3>1. Next1.ctx.scope \in Seq(Variable \cup {v}) /\ v \in Variable \cup {v}
      BY <1>2 DEF Context
    <3>2. ctx.scope = Append(Next1.ctx.scope, v)
      BY <1>2 DEF Declare, Context
    <3> HIDE DEF ctx
    <3>3. /\ Len(ctx.scope) = Len(Next1.ctx.scope) + 1 /\ Len(Next1.ctx.scope) \in Nat
          /\ \A i \in 1 .. Len(Next1.ctx.scope) : ctx.scope[i] = Next1.ctx.scope[i]
      BY <3>1, <3>2, AppendProperties
    <3> QED BY <3>3 DEF Extends
  <2> HIDE DEF c, ctx
  <2> QED BY <1>3, <2>2, <2>3, <2>5, <2>6, <2>7, <2>8
<1>6. CASE BlockStatements
  <2>1. Next1.op = "locals" /\ Next1.op \notin FunctionPlaces \cup {"arguments"}
    BY <1>6 DEF BlockStatements, At, FunctionPlaces, Making
  <2>2. CASE Do(<<>>)
    BY <1>1, <2>1, <2>2, QuietNone, QuietLocal
  <2>3. ASSUME NEW k \in 0 .. MaxStatementsPerBlock - 1,
               Do(<<Call("statements", Next1.ctx, Next1.nest, k, 0)>>)
        PROVE  Shaped
    <3> DEFINE c == Call("statements", Next1.ctx, Next1.nest, k, 0)
    <3>1. k \in Nat
      BY GeneratorAssumption
    <3>2. c \in Calls /\ c.op = "statements" /\ c.ctx = Next1.ctx
      BY <1>2, <3>1, CallRecord DEF Ops, Call
    <3> HIDE DEF c
    <3>3. <<c>> \in Seq(Calls) /\ Len(<<c>>) = 1 /\ <<c>>[1] = c
      BY <3>2
    <3>4. Quiet(<<c>>)
      BY <3>2, <3>3 DEF Quiet, Extends
    <3>5. Do(<<c>>)
      BY <2>3 DEF c
    <3> QED BY <1>1, <2>1, <3>4, <3>5, QuietLocal
  <2> QED BY <1>6, <2>2, <2>3 DEF BlockStatements
<1> QED BY <1>4, <1>5, <1>6

\* Two calls, the first perhaps the last statement of its block.
LEMMA StatementsShaped == GoodProgram /\ NextStatement => Shaped
<1> SUFFICES ASSUME GoodProgram, NextStatement PROVE Shaped
  OBVIOUS
<1>1. /\ todo # <<>> /\ UNCHANGED <<funcs, functions>> /\ Next1.op = "statements"
      /\ Next1.op \notin FunctionPlaces \cup {"arguments"}
  BY DEF NextStatement, At, FunctionPlaces, Making
<1>2. /\ Next1 \in Calls /\ Next1.ctx \in Context /\ Next1.nest \in Nat /\ Next1.n \in Nat
  BY <1>1, NextGood
<1>3. CASE Next1.n = 0
  BY <1>1, <1>3, QuietNone, QuietLocal DEF NextStatement
<1>4. CASE Next1.n # 0
  <2> DEFINE c == Call("statement", Next1.ctx, Next1.nest, LastOfBlock(Next1.n), 0)
             d == [Next1 EXCEPT !.n = LeftAfter(@)]
  <2>1. LastOfBlock(Next1.n) \in Nat /\ LeftAfter(Next1.n) \in Nat
    BY <1>2, <1>4 DEF LastOfBlock, LeftAfter
  <2>2. /\ c \in Calls /\ c.op = "statement" /\ c.ctx = Next1.ctx
        /\ c.n = LastOfBlock(Next1.n)
    BY <1>2, <2>1, CallRecord DEF Ops, Call
  <2>3. d \in Calls /\ d.op = "statements" /\ d.ctx = Next1.ctx /\ d.n = LeftAfter(Next1.n)
    <3>1. d = [Next1 EXCEPT !.n = LeftAfter(Next1.n)]
      BY <1>2 DEF Calls
    <3>2. d \in Calls
      BY <1>2, <2>1, <3>1, CallUpdate DEF Ops
    <3>3. d.op = "statements" /\ d.ctx = Next1.ctx /\ d.n = LeftAfter(Next1.n)
      BY <1>1, <1>2 DEF Calls
    <3> QED BY <3>2, <3>3
  <2>4. Do(<<c, d>>)
    BY <1>4 DEF NextStatement
  <2> HIDE DEF c, d
  <2>5. /\ <<c, d>> \in Seq(Calls) /\ Len(<<c, d>>) = 2 /\ <<c, d>>[1] = c
        /\ <<c, d>>[2] = d
    BY <2>2, <2>3
  <2>6. c.n # 0 => ~(d.n > 0)
    BY <1>2, <1>4, <2>2, <2>3 DEF LastOfBlock, LeftAfter
  <2>7. Within(<<c, d>>)
    BY <1>1, <2>2, <2>3, <2>5 DEF Within, Extends, FunctionPlaces, Making
  <2>8. Closed(<<c, d>>)
    BY <2>2, <2>3, <2>5, <2>6 DEF Closed, EndsBlock, GoesOn, FunctionPlaces
  <2> QED BY <1>1, <2>4, <2>7, <2>8 DEF Shaped, LocalStep
<1> QED BY <1>3, <1>4

\* The body of a function, and its end, if the function has a number.
LEMMA FunctionStatementShaped ==
  GoodProgram /\ FunctionStatement /\ Next1.f # 0 => Shaped
<1> SUFFICES ASSUME GoodProgram, FunctionStatement, Next1.f # 0 PROVE Shaped
  OBVIOUS
<1> DEFINE c == Call("statement", Next1.ctx, Next1.nest, 1, 0)
           d == [Next1 EXCEPT !.op = "functionMade"]
<1>1. /\ todo # <<>> /\ Next1.op = "functionLocals" /\ UNCHANGED <<funcs, functions>>
      /\ Do(<<c>> \o <<d>>)
  BY DEF FunctionStatement, At
<1>2. Next1 \in Calls /\ Next1.ctx \in Context /\ Next1.nest \in Nat
  BY <1>1, NextGood
<1>3. /\ c \in Calls /\ c.op = "statement" /\ c.ctx = Next1.ctx
  BY <1>2, CallRecord DEF Ops, Call
<1>4. d \in Calls /\ d.op = "functionMade" /\ d.ctx = Next1.ctx /\ d.f = Next1.f
  <2>1. d \in Calls
    BY <1>2, CallUpdate DEF Ops
  <2> QED BY <1>2, <2>1 DEF Calls
<1> HIDE DEF c, d
<1> DEFINE calls == <<c>> \o <<d>>
<1>5. calls \in Seq(Calls) /\ Len(calls) = 2 /\ calls[1] = c /\ calls[2] = d
  <2>1. /\ <<c>> \in Seq(Calls) /\ Len(<<c>>) = 1 /\ <<c>>[1] = c
        /\ <<d>> \in Seq(Calls) /\ Len(<<d>>) = 1 /\ <<d>>[1] = d
    BY <1>3, <1>4
  <2> QED BY <2>1, ConcatProperties
<1> HIDE DEF calls
<1>6. Within(calls)
  BY <1>1, <1>3, <1>4, <1>5 DEF Within, Extends, FunctionPlaces, Making
<1>7. Closed(calls)
  BY <1>1, <1>3, <1>4, <1>5 DEF Closed, EndsBlock, GoesOn, FunctionPlaces, Making
<1>8. Do(calls)
  BY <1>1 DEF calls
<1> QED BY <1>8, <1>1, <1>5, <1>6, <1>7 DEF Shaped, LocalStep

\* The body of a function that is inserted elsewhere.
LEMMA InsertedStatementShaped ==
  GoodProgram /\ FunctionStatement /\ Next1.f = 0 => Shaped
<1> SUFFICES ASSUME GoodProgram, FunctionStatement, Next1.f = 0 PROVE Shaped
  OBVIOUS
<1> DEFINE c == Call("statement", Next1.ctx, Next1.nest, 1, 0)
<1>1. /\ todo # <<>> /\ Next1.op = "functionLocals" /\ UNCHANGED <<funcs, functions>>
      /\ Do(<<c>> \o <<>>)
  BY DEF FunctionStatement, At
<1>2. Next1 \in Calls /\ Next1.ctx \in Context /\ Next1.nest \in Nat
  BY <1>1, NextGood
<1>3. /\ c \in Calls /\ c.op = "statement" /\ c.ctx = Next1.ctx
  BY <1>2, CallRecord DEF Ops, Call
<1> HIDE DEF c
<1>4. /\ <<c>> \in Seq(Calls) /\ Len(<<c>>) = 1 /\ <<c>>[1] = c /\ <<c>> \o <<>> = <<c>>
  BY <1>3
<1>5. ~Making(Next1) /\ EndsBlock(Next1)
  BY <1>1 DEF Making, EndsBlock, FunctionPlaces
<1>6. Within(<<c>>) /\ Closed(<<c>>)
  BY <1>3, <1>4, <1>5 DEF Within, Extends, Closed, Making, FunctionPlaces
<1>7. Do(<<c>>)
  BY <1>1, <1>4
<1> QED BY <1>1, <1>6, <1>7 DEF Shaped, LocalStep

LEMMA MakeStatementShaped == GoodProgram /\ MakeStatement => Shaped
<1> SUFFICES ASSUME GoodProgram, MakeStatement PROVE Shaped
  OBVIOUS
<1>1. todo # <<>> /\ Next1.op = "statement" /\ UNCHANGED functions
  BY DEF MakeStatement, At
<1>2. PICK type \in StatementTypes :
        /\ ~IsInvalid(type, Next1.ctx, Next1.nest, Next1.n)
        /\ Do(<<[Next1 EXCEPT !.op = type]>>)
        /\ \/ UNCHANGED funcs
           \/ funcs' = [funcs EXCEPT ![Next1.ctx.currfunc] = AddLabel(@)]
  BY DEF MakeStatement
<1> DEFINE c == [Next1 EXCEPT !.op = type]
<1>3. /\ Next1 \in Calls /\ Next1.ctx.currfunc \in 1 .. Len(funcs)
      /\ Next1.ctx \in Context /\ Next1.n \in Nat
  BY <1>1, NextGood DEF InFunction
<1>4. c \in Calls /\ c.op = type /\ c.ctx = Next1.ctx /\ c.n = Next1.n
  <2>0. type \in Ops
    BY DEF Ops
  <2>1. c \in Calls
    BY <1>3, <2>0, CallUpdate
  <2> QED BY <1>3, <2>1 DEF Calls
<1>5. Do(<<c>>)
  BY <1>2
<1> HIDE DEF c
<1>6. <<c>> \in Seq(Calls) /\ Len(<<c>>) = 1 /\ <<c>>[1] = c
  BY <1>4
<1>7. Within(<<c>>)
  BY <1>1, <1>4, <1>6 DEF Within, Extends, FunctionPlaces, Making, StatementTypes
<1>8. Closed(<<c>>)
  <2>1. type = "return" => Next1.n # 0
    BY <1>2 DEF IsInvalid
  <2> QED BY <1>1, <1>4, <1>6, <2>1 DEF Closed, EndsBlock, StatementTypes, FunctionPlaces
<1>9. UNCHANGED funcs \/ LabelStep
  BY <1>2, <1>3 DEF LabelStep
<1> QED BY <1>1, <1>5, <1>7, <1>8, <1>9 DEF Shaped, LocalStep

\* Statements and expressions leave their parts.
LEMMA PartsShaped ==
  GoodProgram /\ (\/ BuildIf \/ BuildFor \/ BuildAssignment \/ BuildPtrAssignment \/ BuildReturn
                  \/ BuildOperand \/ BuildOperation \/ BuildAssignmentExpr)
    => Shaped
<1> SUFFICES ASSUME GoodProgram,
                    \/ BuildIf \/ BuildFor \/ BuildAssignment \/ BuildPtrAssignment \/ BuildReturn
                    \/ BuildOperand \/ BuildOperation \/ BuildAssignmentExpr
             PROVE  Shaped
  OBVIOUS
<1>1. /\ todo # <<>> /\ UNCHANGED <<funcs, functions>> /\ Next1.op # "program"
      /\ Next1.op \notin FunctionPlaces \cup {"arguments"}
  BY DEF BuildIf, BuildFor, BuildAssignment, BuildPtrAssignment, BuildReturn,
     BuildOperand, BuildOperation, BuildAssignmentExpr, At, FunctionPlaces, Making
<1>2. /\ Next1.nest + 1 \in Nat /\ Next1.nest + 2 \in Nat /\ 0 \in Nat /\ 1 \in Nat /\ 2 \in Nat
      /\ 3 \in Nat
  BY <1>1, NextGood
<1>3. CASE BuildIf
  <2>1. PICK k \in {1, 2} :
          Do(<<Expr(Next1.ctx, 0)>> \o Times(k, Block(Next1.ctx, Next1.nest + 1)))
    BY <1>3 DEF BuildIf
  <2>2. Quiet(<<Expr(Next1.ctx, 0)>>)
    BY <1>1, <1>2, QuietParts
  <2>3. Quiet(Times(k, Block(Next1.ctx, Next1.nest + 1)))
    BY <1>1, <1>2, QuietParts
  <2> QED BY <1>1, <2>1, <2>2, <2>3, QuietBoth, QuietLocal
<1>4. CASE BuildFor
  <2>1. Do(<<Block(Next1.ctx, Next1.nest + 1)>>)
    BY <1>4 DEF BuildFor
  <2> QED BY <1>1, <1>2, <2>1, QuietParts, QuietLocal
<1>5. CASE BuildAssignment
  <2>1. Do(<<Expr(Next1.ctx, 0)>>)
    BY <1>5 DEF BuildAssignment
  <2> QED BY <1>1, <1>2, <2>1, QuietParts, QuietLocal
<1>6. CASE BuildPtrAssignment \/ BuildReturn \/ BuildOperand
  <2>1. Do(<<>>)
    BY <1>6 DEF BuildPtrAssignment, BuildReturn, BuildOperand
  <2> QED BY <1>1, <2>1, QuietNone, QuietLocal
<1>7. CASE BuildOperation
  <2>1. PICK k \in {2, 3} : Do(Times(k, Expr(Next1.ctx, Next1.nest + 2)))
    BY <1>7 DEF BuildOperation, Part
  <2>2. Quiet(Times(k, Expr(Next1.ctx, Next1.nest + 2)))
    BY <1>1, <1>2, QuietParts
  <2> QED BY <1>1, <2>1, <2>2, QuietLocal
<1>8. CASE BuildAssignmentExpr
  <2>1. Do(<<Expr(Next1.ctx, Next1.nest + 2)>>)
    BY <1>8 DEF BuildAssignmentExpr, Part
  <2> QED BY <1>1, <1>2, <2>1, QuietParts, QuietLocal
<1> QED BY <1>3, <1>4, <1>5, <1>6, <1>7, <1>8

LEMMA BuildGotoShaped == GoodProgram /\ BuildGoto => Shaped
<1> SUFFICES ASSUME GoodProgram, BuildGoto PROVE Shaped
  OBVIOUS
<1> DEFINE f == Next1.ctx.currfunc
<1>1. /\ todo # <<>> /\ Do(<<>>) /\ UNCHANGED functions
      /\ Next1.op \notin FunctionPlaces \cup {"arguments"}
  BY DEF BuildGoto, At, FunctionPlaces, Making
<1>2. CASE UNCHANGED funcs
  BY <1>1, <1>2, QuietNone, QuietLocal
<1>3. ASSUME NEW i \in 1 .. funcs[f].numlabels,
             ~(funcs[f].numlabels = 0 \/ funcs[f].numlabels > Len(funcs[f].labels)),
             funcs' = Write(f, <<"goto", funcs[f].labels[i]>>)
      PROVE  Shaped
  <2>1. f \in 1 .. Len(funcs) /\ funcs \in Seq(Function)
    <3>1. todo # <<>> /\ Next1.op = "goto"
      BY DEF BuildGoto, At
    <3> QED BY <3>1, NextGood DEF InFunction, GoodProgram, FuncsOK, FuncsTypeOK, Function
  <2>2. i \in 1 .. Len(funcs[f].labels)
    <3>1. funcs[f] \in Function
      BY <2>1, ElementOfSeq
    <3>2. funcs[f].labels \in Seq(Nat) /\ funcs[f].numlabels \in Nat
      BY <3>1 DEF Function
    <3> QED BY <1>3, <3>2
  <2>3. WriteStep(<<"goto", funcs[f].labels[i]>>)
    BY <1>3, <2>1 DEF WriteStep, Write
  <2>4. Within(<<>>) /\ Closed(<<>>)
    BY <1>1, QuietNone, QuietWithin DEF Making
  <2> QED BY <1>1, <2>2, <2>3, <2>4 DEF Shaped, LocalStep, GotoStep
<1> QED BY <1>2, <1>3 DEF BuildGoto

\* The context of the function begun says which it is.
LEMMA EnterShaped ==
  ASSUME GoodProgram, todo # <<>>, NEW ps \in ParameterLists,
         GoodProgram', NEW after, EnterFunction(globalvars', ps, after), UNCHANGED functions,
         Next1.op \notin FunctionPlaces \cup {"arguments"},
         \/ after = <<>> /\ Next1.op = "program"
         \/ \E a \in Calls :
              /\ after = <<a>> /\ Next1.op # "program"
              /\ a.op = "arguments" /\ a.ctx = Next1.ctx /\ a.f = Len(funcs) + 1
  PROVE  Shaped
<1> DEFINE g == globalvars'
           f == Len(funcs) + 1
           ctx == [nvars |-> Len(g) + Len(ps), nintegers |-> Len(g) + Len(ps),
                   scope |-> g \o [i \in DOMAIN ps |-> IntegerVar(Len(g) + i - 1, ps[i])],
                   currfunc |-> f]
           c == Call("functionBlock", ctx, 0, 0, f)
<1>1. Len(ps) \in Nat
  <2>1. 0 .. MaxFunctionParameters \subseteq Nat
    BY GeneratorAssumption
  <2>2. PICK k \in Nat : ps \in [1 .. k -> Widths]
    BY <2>1 DEF ParameterLists
  <2> QED BY <2>2
<1>2. /\ funcs' = Append(funcs, NewFunction(Len(ps))) /\ Do(<<c>> \o after)
  BY DEF EnterFunction
<1>3. /\ c.op = "functionBlock" /\ c.ctx.currfunc = f /\ c.f = f
  BY DEF Call
<1>4. c \in Calls
  <2>1. \/ after = <<>>
        \/ \E a \in Calls : after = <<a>>
    OBVIOUS
  <2>2. /\ todo \in Seq(Calls) /\ Tail(todo) \in Seq(Calls) /\ todo' \in Seq(Calls)
    BY HeadTailProperties DEF GoodProgram, TodoOK
  <2> HIDE DEF c
  <2>3. todo'[1] = c /\ Len(todo') \in Nat \ {0}
    <3>1. todo' = (<<c>> \o after) \o Tail(todo)
      BY <1>2 DEF Do
    <3> QED BY <2>1, <2>2, <3>1
  <2>4. 1 \in 1 .. Len(todo')
    BY <2>3
  <2> QED BY <2>2, <2>3, <2>4, ElementOfSeq
<1> HIDE DEF c
<1> QED BY <1>1, <1>2, <1>3, <1>4 DEF Shaped, EnterStep

LEMMA MakeProgramShaped == GoodProgram /\ MakeProgram => Shaped
<1> SUFFICES ASSUME GoodProgram, MakeProgram PROVE Shaped
  OBVIOUS
<1>1. /\ todo # <<>> /\ Next1.op = "program" /\ UNCHANGED functions
      /\ Next1.op \notin FunctionPlaces \cup {"arguments"}
  BY DEF MakeProgram, At, FunctionPlaces, Making
<1>2. EnterFunction(globalvars', <<>>, <<>>)
  BY DEF MakeProgram
<1>3. <<>> \in ParameterLists
  <2>1. 0 \in 0 .. MaxFunctionParameters /\ <<>> \in [1 .. 0 -> Widths]
    BY GeneratorAssumption
  <2> QED BY <2>1 DEF ParameterLists
<1>4. GoodProgram'
  BY MakeProgramGood
<1> QED BY <1>1, <1>2, <1>3, <1>4, EnterShaped

\* A statement or an expression that is a call.
LEMMA FunctionCallShaped ==
  GoodProgram /\ (BuildFunctionCall \/ BuildFunctionCallExpr) => Shaped
<1> SUFFICES ASSUME GoodProgram, BuildFunctionCall \/ BuildFunctionCallExpr PROVE Shaped
  OBVIOUS
<1>1. /\ todo # <<>> /\ UNCHANGED <<globalvars, functions>>
      /\ Next1.op \in {"functioncall", "expression"}
  BY DEF BuildFunctionCall, BuildFunctionCallExpr, At
<1>2. PICK ps \in ParameterLists, k \in {1, 2}, n \in {0, 1} :
        EnterFunction(globalvars', ps,
                      <<Call("arguments", Next1.ctx, Next1.nest + k, n, Len(funcs) + 1)>>)
  BY <1>1 DEF BuildFunctionCall, BuildFunctionCallExpr
<1> DEFINE a == Call("arguments", Next1.ctx, Next1.nest + k, n, Len(funcs) + 1)
<1>3. Next1.ctx \in Context /\ Next1.nest + k \in Nat /\ Len(funcs) + 1 \in Nat
  BY <1>1, NextGood
<1>4. a \in Calls /\ a.op = "arguments" /\ a.ctx = Next1.ctx /\ a.f = Len(funcs) + 1
  BY <1>3, CallRecord DEF Ops, Call
<1>5. EnterFunction(globalvars', ps, <<a>>)
  BY <1>2
<1>6. GoodProgram'
  BY BuildFunctionCallGood, BuildFunctionCallExprGood
<1> HIDE DEF a
<1>7. Next1.op # "program" /\ Next1.op \notin FunctionPlaces \cup {"arguments"}
  BY <1>1 DEF FunctionPlaces, Making
<1> DEFINE after == <<a>>
<1>8. \E b \in Calls :
         /\ after = <<b>> /\ Next1.op # "program"
         /\ b.op = "arguments" /\ b.ctx = Next1.ctx /\ b.f = Len(funcs) + 1
  BY <1>4, <1>7
<1> HIDE DEF after
<1>9. EnterFunction(globalvars', ps, after)
  BY <1>5 DEF after
<1> QED BY <1>1, <1>6, <1>7, <1>8, <1>9, EnterShaped

LEMMA FunctionMadeShaped == GoodProgram /\ FunctionMade => Shaped
<1> SUFFICES ASSUME GoodProgram, FunctionMade PROVE Shaped
  OBVIOUS
<1>1. /\ todo # <<>> /\ Next1.op = "functionMade" /\ Do(<<>>)
      /\ functions' = Append(functions, Next1.f)
  BY DEF FunctionMade, At, Listed
<1>2. funcs' = [funcs EXCEPT ![Next1.f] =
                [funcs[Next1.f] EXCEPT !.context = Next1.ctx,
                                       !.body = Len(funcs[Next1.f].text)]]
  BY DEF FunctionMade
<1> QED BY <1>1, <1>2 DEF Shaped, MadeStep

LEMMA BuildArgumentsShaped == GoodProgram /\ BuildArguments => Shaped
<1> SUFFICES ASSUME GoodProgram, BuildArguments PROVE Shaped
  OBVIOUS
<1>1. /\ todo # <<>> /\ Next1.op = "arguments" /\ ~Making(Next1)
      /\ Do(Times(funcs[Next1.f].params, Expr(Next1.ctx, Next1.nest)))
      /\ functions' = IF Next1.n = 1 THEN Append(functions, Next1.f) ELSE functions
      /\ funcs' = Write(Next1.ctx.currfunc, <<"call", Next1.f>>)
  BY DEF BuildArguments, At, Listed, Callee, FunctionPlaces, Making
<1>2. /\ Next1.f \in 1 .. Len(funcs) /\ Next1.nest \in Nat /\ funcs \in Seq(Function)
      /\ Next1.ctx.currfunc \in 1 .. Len(funcs)
  BY <1>1, NextGood DEF GoodProgram, FuncsOK, FuncsTypeOK, Function, GoodCall, InFunction
<1>3. funcs[Next1.f].params \in Nat
  <2>1. funcs[Next1.f] \in Function
    BY <1>2, ElementOfSeq
  <2> QED BY <2>1 DEF Function
<1> DEFINE calls == Times(funcs[Next1.f].params, Expr(Next1.ctx, Next1.nest))
<1>4. Quiet(calls)
  BY <1>1, <1>2, <1>3, QuietParts
<1>5. WriteStep(<<"call", Next1.f>>)
  BY <1>1, <1>2 DEF WriteStep, Write
<1> HIDE DEF calls
<1>6. Within(calls) /\ Closed(calls)
  BY <1>1, <1>4, QuietWithin
<1>7. Do(calls)
  BY <1>1 DEF calls
<1> QED BY <1>1, <1>5, <1>6, <1>7 DEF Shaped, CallStep

\* A place at which a function is made is in that function.
PlacesNumbered ==
  \A k \in 1 .. Len(todo) :
    Making(todo[k]) => todo[k].f = todo[k].ctx.currfunc

LEMMA StepShaped == GoodProgram /\ Next => Shaped
<1> SUFFICES ASSUME GoodProgram, Next PROVE Shaped
  OBVIOUS
<1>1. CASE BlockStep
  BY <1>1, BlockShaped, StatementsShaped, FunctionStatementShaped, InsertedStatementShaped
  DEF BlockStep
<1>2. CASE StatementStep
  BY <1>2, MakeStatementShaped, PartsShaped, BuildGotoShaped, FunctionCallShaped
  DEF StatementStep
<1>3. CASE ExpressionStep
  BY <1>3, PartsShaped, FunctionCallShaped, BuildArgumentsShaped DEF ExpressionStep
<1>4. CASE MakeProgram \/ FunctionMade
  BY <1>4, MakeProgramShaped, FunctionMadeShaped
<1> QED BY <1>1, <1>2, <1>3, <1>4 DEF Next, GenerateStep
-----------------------------------------------------------------------------
(* The stack after a step *)

\* The calls made come first, the others have moved.
LEMMA DoStack ==
  ASSUME todo \in Seq(Calls), todo # <<>>, NEW calls \in Seq(Calls), Do(calls)
  PROVE  /\ todo' \in Seq(Calls) /\ Len(todo) \in Nat \ {0} /\ Next1 = todo[1]
         /\ Len(calls) \in Nat /\ Len(todo') = Len(calls) + Len(todo) - 1
         /\ \A k \in 1 .. Len(calls) : k \in 1 .. Len(todo') /\ todo'[k] = calls[k]
         /\ \A k \in 1 .. Len(todo') :
              \/ k \in 1 .. Len(calls)
              \/ k - Len(calls) + 1 \in 2 .. Len(todo) /\ todo'[k] = todo[k - Len(calls) + 1]
         /\ \A k \in 2 .. Len(todo) :
              k + Len(calls) - 1 \in 1 .. Len(todo') /\ todo'[k + Len(calls) - 1] = todo[k]
<1>1. /\ Tail(todo) \in Seq(Calls)
      /\ Len(Tail(todo)) = Len(todo) - 1 /\ Len(todo) \in Nat \ {0}
      /\ \A k \in 1 .. Len(Tail(todo)) : Tail(todo)[k] = todo[k + 1]
  BY HeadTailProperties
<1>2. Len(calls) \in Nat /\ Next1 = todo[1]
  BY DEF Next1
<1>3. /\ todo' \in Seq(Calls) /\ Len(todo') = Len(calls) + Len(todo) - 1
      /\ \A k \in 1 .. Len(todo') :
           todo'[k] = IF k <= Len(calls) THEN calls[k] ELSE Tail(todo)[k - Len(calls)]
  BY <1>1, <1>2, ConcatProperties DEF Do
<1>4. \A k \in 1 .. Len(calls) : k \in 1 .. Len(todo') /\ todo'[k] = calls[k]
  BY <1>1, <1>2, <1>3
<1>5. ASSUME NEW k \in 1 .. Len(todo'), k \notin 1 .. Len(calls)
      PROVE  k - Len(calls) + 1 \in 2 .. Len(todo) /\ todo'[k] = todo[k - Len(calls) + 1]
  BY <1>1, <1>2, <1>3, <1>5
<1>6. ASSUME NEW k \in 2 .. Len(todo)
      PROVE  k + Len(calls) - 1 \in 1 .. Len(todo') /\ todo'[k + Len(calls) - 1] = todo[k]
  <2>1. /\ k + Len(calls) - 1 \in 1 .. Len(todo') /\ ~(k + Len(calls) - 1 <= Len(calls))
        /\ k + Len(calls) - 1 - Len(calls) = k - 1
        /\ k - 1 \in 1 .. Len(Tail(todo)) /\ k - 1 + 1 = k
    BY <1>1, <1>2, <1>3, <1>6
  <2> QED BY <1>1, <1>3, <2>1
<1> QED BY <1>1, <1>2, <1>3, <1>4, <1>5, <1>6
-----------------------------------------------------------------------------
(* The ends of blocks *)

NothingAfter ==
  \A k \in 1 .. Len(todo) - 1 : EndsBlock(todo[k]) => ~GoesOn(todo[k + 1])

LEMMA NothingAfterDo ==
  ASSUME todo \in Seq(Calls), todo # <<>>, NothingAfter,
         NEW calls \in Seq(Calls), Do(calls), Closed(calls)
  PROVE  NothingAfter'
<1> DEFINE m == Len(calls)
<1>1. /\ Len(todo) \in Nat \ {0} /\ Next1 = todo[1]
      /\ m \in Nat /\ Len(todo') = m + Len(todo) - 1
      /\ \A k \in 1 .. m : todo'[k] = calls[k]
      /\ \A k \in 2 .. Len(todo) : todo'[k + m - 1] = todo[k]
  BY DoStack
<1> SUFFICES ASSUME NEW k \in 1 .. Len(todo') - 1, EndsBlock(todo'[k])
             PROVE  ~GoesOn(todo'[k + 1])
  BY DEF NothingAfter, EndsBlock, GoesOn
<1> HIDE DEF m
<1>2. CASE k < m
  <2>1. k \in 1 .. m /\ k + 1 \in 1 .. m /\ k # m
    BY <1>1, <1>2
  <2>2. ~GoesOn(calls[k + 1])
    BY <1>1, <2>1 DEF Closed, m
  <2> QED BY <1>1, <2>1, <2>2
<1>3. CASE k = m
  <2>1. /\ k \in 1 .. m /\ 1 \in 1 .. Len(todo) - 1 /\ 2 \in 2 .. Len(todo)
        /\ 2 + m - 1 = k + 1 /\ 1 + 1 = 2
    BY <1>1, <1>3
  <2>2. EndsBlock(Next1)
    BY <1>1, <1>3, <2>1 DEF Closed, m
  <2>3. ~GoesOn(todo[2])
    BY <1>1, <2>1, <2>2 DEF NothingAfter
  <2> QED BY <1>1, <2>1, <2>3
<1>4. CASE k > m
  <2> DEFINE j == k - m + 1
  <2>1. /\ j \in 2 .. Len(todo) /\ j + 1 \in 2 .. Len(todo) /\ j \in 1 .. Len(todo) - 1
        /\ j + m - 1 = k /\ j + 1 + m - 1 = k + 1
    BY <1>1, <1>4
  <2> HIDE DEF j
  <2>2. todo'[k] = todo[j] /\ todo'[k + 1] = todo[j + 1]
    BY <1>1, <2>1
  <2> QED BY <2>1, <2>2 DEF NothingAfter
<1> QED BY <1>1, <1>2, <1>3, <1>4

\* The calls that begin a function.
LEMMA EnterCalls ==
  ASSUME NEW k \in Nat, NEW c, NEW after, EnterStep(k, c, after)
  PROVE  /\ <<c>> \o after \in Seq(Calls) /\ (<<c>> \o after)[1] = c
         /\ \/ after = <<>> /\ Len(<<c>> \o after) = 1 /\ Next1.op = "program"
            \/ \E a \in Calls :
                 /\ Len(<<c>> \o after) = 2 /\ (<<c>> \o after)[2] = a
                 /\ Next1.op # "program"
                 /\ a.op = "arguments" /\ a.ctx = Next1.ctx /\ a.f = Len(funcs) + 1
<1>1. c \in Calls /\ <<c>> \in Seq(Calls) /\ Len(<<c>>) = 1 /\ <<c>>[1] = c
  BY DEF EnterStep
<1>2. CASE after = <<>> /\ Next1.op = "program"
  <2>1. <<>> \in Seq(Calls) /\ Len(<<>>) = 0
    OBVIOUS
  <2> QED BY <1>1, <1>2, <2>1, ConcatProperties
<1>3. ASSUME NEW a \in Calls, after = <<a>>, Next1.op # "program",
             a.op = "arguments", a.ctx = Next1.ctx, a.f = Len(funcs) + 1
      PROVE  /\ <<c>> \o after \in Seq(Calls) /\ (<<c>> \o after)[1] = c
             /\ Len(<<c>> \o after) = 2 /\ (<<c>> \o after)[2] = a
  <2> DEFINE d == <<c>>
             e == <<a>>
  <2>1. /\ e \in Seq(Calls) /\ Len(e) = 1 /\ e[1] = a
        /\ d \in Seq(Calls) /\ Len(d) = 1 /\ d[1] = c
    BY <1>1
  <2> HIDE DEF d, e
  <2>2. d \o e \in Seq(Calls) /\ Len(d \o e) = 2 /\ (d \o e)[1] = c /\ (d \o e)[2] = a
    <3>1. /\ d \o e \in Seq(Calls) /\ Len(d \o e) = Len(d) + Len(e)
          /\ \A i \in 1 .. Len(d) + Len(e) :
               (d \o e)[i] = IF i <= Len(d) THEN d[i] ELSE e[i - Len(d)]
      BY <2>1, ConcatProperties
    <3>2. Len(d) + Len(e) = 2 /\ 2 - Len(d) = 1 /\ ~(2 <= Len(d)) /\ 1 <= Len(d)
      BY <2>1
    <3> QED BY <2>1, <3>1, <3>2
  <2>3. d \o e = <<c>> \o after
    BY <1>3 DEF d, e
  <2> QED BY <2>2, <2>3
<1> QED BY <1>2, <1>3 DEF EnterStep

LEMMA NothingAfterStep == GoodProgram /\ NothingAfter /\ Shaped => NothingAfter'
<1> SUFFICES ASSUME GoodProgram, NothingAfter, Shaped PROVE NothingAfter'
  OBVIOUS
<1>1. todo \in Seq(Calls) /\ todo # <<>>
  BY DEF GoodProgram, TodoOK, Shaped
<1>2. ASSUME NEW calls, Do(calls), Within(calls), Closed(calls) PROVE NothingAfter'
  BY <1>1, <1>2, NothingAfterDo DEF Within
<1>3. ASSUME NEW k \in Nat, NEW c, NEW after, EnterStep(k, c, after) PROVE NothingAfter'
  <2> DEFINE calls == <<c>> \o after
  <2>1. calls \in Seq(Calls) /\ calls[1] = c /\ c.op = "functionBlock" /\ Do(calls)
    BY <1>3, EnterCalls DEF EnterStep
  <2>2. Len(calls) = 1 \/ (Len(calls) = 2 /\ calls[2].op = "arguments")
    BY <1>3, EnterCalls
  <2> HIDE DEF calls
  <2>3. Closed(calls)
    <3>1. c.f = Len(funcs) + 1 /\ Len(funcs) \in Nat
      BY <1>1, <1>3, NextGood DEF EnterStep
    <3> QED BY <2>1, <2>2, <3>1 DEF Closed, EndsBlock, Making, FunctionPlaces
  <2> QED BY <1>1, <2>1, <2>3, NothingAfterDo
<1>4. CASE MadeStep
  <2>1. Do(<<>>) /\ <<>> \in Seq(Calls) /\ Closed(<<>>)
    BY <1>4 DEF MadeStep, Closed
  <2> QED BY <1>1, <2>1, NothingAfterDo
<1> QED BY <1>2, <1>3, <1>4 DEF Shaped, LocalStep, CallStep
-----------------------------------------------------------------------------
(* The functions being made *)

\* What is further down the stack is in a function begun earlier, and in one begun
\* strictly earlier if it is below a place at which the function is made.
Below(a, b) ==
  /\ b.ctx.currfunc <= a.ctx.currfunc
  /\ Making(a) => b.ctx.currfunc < a.ctx.currfunc

Nested ==
  /\ PlacesNumbered
  /\ \A k \in 1 .. Len(todo) : \A j \in 1 .. k - 1 : Below(todo[j], todo[k])

LEMMA NestedDo ==
  ASSUME todo \in Seq(Calls), todo # <<>>, Nested, NEW calls \in Seq(Calls), Do(calls),
         \A k \in 1 .. Len(calls) :
           Making(calls[k]) => calls[k].f = calls[k].ctx.currfunc,
         \A k \in 1 .. Len(calls) : \A j \in 1 .. k - 1 : Below(calls[j], calls[k]),
         \A k \in 2 .. Len(todo) : \A j \in 1 .. Len(calls) : Below(calls[j], todo[k])
  PROVE  Nested'
<1> DEFINE m == Len(calls)
<1>1. /\ Len(todo) \in Nat \ {0} /\ m \in Nat /\ Len(todo') = m + Len(todo) - 1
      /\ \A k \in 1 .. m : todo'[k] = calls[k]
      /\ \A k \in 1 .. Len(todo') :
           \/ k \in 1 .. m
           \/ k - m + 1 \in 2 .. Len(todo) /\ todo'[k] = todo[k - m + 1]
  BY DoStack
<1> HIDE DEF m
<1>2. ASSUME NEW k \in 1 .. Len(todo'), Making(todo'[k])
      PROVE  todo'[k].f = todo'[k].ctx.currfunc
  <2>1. CASE k \in 1 .. m
    BY <1>1, <1>2, <2>1 DEF m
  <2>2. CASE k \notin 1 .. m
    <3> DEFINE i == k - m + 1
    <3>1. i \in 1 .. Len(todo) /\ todo'[k] = todo[i]
      BY <1>1, <2>2
    <3> HIDE DEF i
    <3> QED BY <1>2, <3>1 DEF Nested, PlacesNumbered
  <2> QED BY <2>1, <2>2
<1>3. ASSUME NEW k \in 1 .. Len(todo'), NEW j \in 1 .. k - 1
      PROVE  Below(todo'[j], todo'[k])
  <2>1. j \in 1 .. Len(todo')
    BY <1>1
  <2>2. CASE k \in 1 .. m
    <3>1. j \in 1 .. m /\ todo'[j] = calls[j] /\ todo'[k] = calls[k]
      BY <1>1, <2>2
    <3> QED BY <2>2, <3>1 DEF m
  <2>3. CASE k \notin 1 .. m
    <3>1. k - m + 1 \in 2 .. Len(todo) /\ todo'[k] = todo[k - m + 1]
      BY <1>1, <2>3
    <3>2. CASE j \in 1 .. m
      BY <1>1, <3>1, <3>2 DEF m
    <3>3. CASE j \notin 1 .. m
      <4>1. j - m + 1 \in 2 .. Len(todo) /\ todo'[j] = todo[j - m + 1]
        BY <1>1, <2>1, <3>3
      <4>2. j - m + 1 \in 1 .. (k - m + 1) - 1
        BY <1>1, <3>1, <4>1
      <4> QED BY <3>1, <4>1, <4>2 DEF Nested
    <3> QED BY <3>2, <3>3
  <2> QED BY <2>2, <2>3
<1>4. PlacesNumbered'
  BY <1>2 DEF PlacesNumbered, FunctionPlaces, Making
<1> QED BY <1>3, <1>4 DEF Nested, Below, FunctionPlaces, Making

\* Functions further down the stack, the next one's function, and how many there are.
LEMMA StackNumbers ==
  ASSUME GoodProgram, todo # <<>>, Nested
  PROVE  /\ Len(todo) \in Nat \ {0} /\ Next1 = todo[1] /\ Len(funcs) \in Nat
         /\ \A k \in 1 .. Len(todo) : todo[k].ctx.currfunc \in Nat
         /\ \A k \in 2 .. Len(todo) :
              todo[k].ctx.currfunc \in 1 .. Len(funcs) /\ Below(Next1, todo[k])
<1>1. /\ todo \in Seq(Calls) /\ Len(todo) \in Nat \ {0} /\ Next1 = todo[1]
  BY DEF GoodProgram, TodoOK, Next1
<1>2. Len(funcs) \in Nat
  BY NextGood
<1>3. \A k \in 1 .. Len(todo) : todo[k].ctx.currfunc \in Nat
  <2>1. \A k \in 1 .. Len(todo) : todo[k] \in Calls
    BY <1>1, ElementOfSeq
  <2> QED BY <2>1 DEF Calls, Context
<1>4. ASSUME NEW k \in 2 .. Len(todo)
      PROVE  todo[k].ctx.currfunc \in 1 .. Len(funcs) /\ Below(Next1, todo[k])
  <2>1. k \in 1 .. Len(todo) /\ 1 \in 1 .. k - 1 /\ k # 1
    BY <1>1
  <2>2. todo[k].op # "program" /\ GoodCall(todo[k], Len(funcs))
    BY <2>1 DEF GoodProgram, PlacesOK, TodoOK
  <2>3. todo[k].ctx.currfunc \in 1 .. Len(funcs)
    BY <2>2 DEF GoodCall, InFunction
  <2> QED BY <1>1, <2>1, <2>3 DEF Nested
<1> QED BY <1>1, <1>2, <1>3, <1>4

LEMMA NestedStep == GoodProgram /\ Nested /\ Shaped => Nested'
<1> SUFFICES ASSUME GoodProgram, Nested, Shaped PROVE Nested'
  OBVIOUS
<1>1. todo \in Seq(Calls) /\ todo # <<>>
  BY DEF GoodProgram, TodoOK, Shaped
<1>2. /\ Len(todo) \in Nat \ {0} /\ Next1 = todo[1] /\ Len(funcs) \in Nat
      /\ Next1.ctx.currfunc \in Nat
      /\ \A k \in 2 .. Len(todo) :
           todo[k].ctx.currfunc \in 1 .. Len(funcs) /\ Below(Next1, todo[k])
  <2>1. 1 \in 1 .. Len(todo)
    BY <1>1, StackNumbers
  <2> QED BY <1>1, <2>1, StackNumbers
<1>3. ASSUME NEW calls, Do(calls), Within(calls) PROVE Nested'
  <2>1. calls \in Seq(Calls) /\ Len(calls) \in Nat
    BY <1>3 DEF Within
  <2>2. Making(Next1) => Next1.f = Next1.ctx.currfunc
    BY <1>2 DEF Nested, PlacesNumbered
  <2>3. \A k \in 1 .. Len(calls) :
          Making(calls[k]) => calls[k].f = calls[k].ctx.currfunc
    BY <1>3, <2>2 DEF Within
  <2>4. \A k \in 1 .. Len(calls) : \A j \in 1 .. k - 1 : Below(calls[j], calls[k])
    <3> SUFFICES ASSUME NEW k \in 1 .. Len(calls), NEW j \in 1 .. k - 1
                 PROVE  Below(calls[j], calls[k])
      OBVIOUS
    <3>1. j \in 1 .. Len(calls) /\ j # Len(calls)
      BY <2>1
    <3>2. /\ calls[j].ctx.currfunc = Next1.ctx.currfunc /\ ~Making(calls[j])
          /\ calls[k].ctx.currfunc = Next1.ctx.currfunc
      BY <1>3, <3>1 DEF Within
    <3> QED BY <1>2, <3>2 DEF Below
  <2>5. \A k \in 2 .. Len(todo) : \A j \in 1 .. Len(calls) : Below(calls[j], todo[k])
    <3> SUFFICES ASSUME NEW k \in 2 .. Len(todo), NEW j \in 1 .. Len(calls)
                 PROVE  Below(calls[j], todo[k])
      OBVIOUS
    <3>1. /\ calls[j].ctx.currfunc = Next1.ctx.currfunc
          /\ Making(calls[j]) => Making(Next1)
      BY <1>3 DEF Within
    <3> QED BY <1>2, <3>1 DEF Below
  <2> QED BY <1>1, <1>3, <2>1, <2>3, <2>4, <2>5, NestedDo
<1>4. ASSUME NEW n \in Nat, NEW c, NEW after, EnterStep(n, c, after) PROVE Nested'
  <2> DEFINE calls == <<c>> \o after
  <2>1. /\ calls \in Seq(Calls) /\ calls[1] = c /\ c.op = "functionBlock" /\ Do(calls)
        /\ c.f = Len(funcs) + 1 /\ c.ctx.currfunc = Len(funcs) + 1
        /\ ~Making(Next1)
    BY <1>4, EnterCalls DEF EnterStep, Making
  <2>2. \/ Len(calls) = 1
        \/ /\ Len(calls) = 2 /\ calls[2].op = "arguments" /\ calls[2].ctx = Next1.ctx
           /\ Next1.op # "program"
    BY <1>4, EnterCalls
  <2> HIDE DEF calls
  <2>3. Next1.op # "program" => Next1.ctx.currfunc \in 1 .. Len(funcs)
    BY <1>1, NextGood DEF InFunction
  <2>4. \A k \in 1 .. Len(calls) :
          Making(calls[k]) => calls[k].f = calls[k].ctx.currfunc
    BY <2>1, <2>2 DEF FunctionPlaces, Making
  <2>5. \A k \in 1 .. Len(calls) : \A j \in 1 .. k - 1 : Below(calls[j], calls[k])
    <3> SUFFICES ASSUME NEW k \in 1 .. Len(calls), NEW j \in 1 .. k - 1
                 PROVE  Below(calls[j], calls[k])
      OBVIOUS
    <3>1. k = 2 /\ j = 1 /\ Len(calls) = 2
      BY <2>2
    <3>2. calls[2].ctx.currfunc \in 1 .. Len(funcs)
      BY <2>2, <2>3, <3>1
    <3> QED BY <1>2, <2>1, <3>1, <3>2 DEF Below
  <2>6. \A k \in 2 .. Len(todo) : \A j \in 1 .. Len(calls) : Below(calls[j], todo[k])
    <3> SUFFICES ASSUME NEW k \in 2 .. Len(todo), NEW j \in 1 .. Len(calls)
                 PROVE  Below(calls[j], todo[k])
      OBVIOUS
    <3>1. CASE j = 1
      <4>1. todo[k].ctx.currfunc \in 1 .. Len(funcs)
        BY <1>2
      <4> QED BY <1>2, <2>1, <3>1, <4>1 DEF Below
    <3>2. CASE j = 2
      <4>1. calls[j].ctx = Next1.ctx /\ ~Making(calls[j])
        BY <2>2, <3>2 DEF FunctionPlaces, Making
      <4> QED BY <1>2, <4>1 DEF Below
    <3> QED BY <2>2, <3>1, <3>2
  <2> QED BY <1>1, <2>1, <2>4, <2>5, <2>6, NestedDo
<1>5. CASE MadeStep
  <2> DEFINE calls == <<>>
  <2>1. Do(calls) /\ calls \in Seq(Calls) /\ 1 .. Len(calls) = {}
    BY <1>5 DEF MadeStep
  <2> HIDE DEF calls
  <2>2. /\ \A k \in 1 .. Len(calls) :
             Making(calls[k]) => calls[k].f = calls[k].ctx.currfunc
        /\ \A k \in 1 .. Len(calls) : \A j \in 1 .. k - 1 : Below(calls[j], calls[k])
        /\ \A k \in 2 .. Len(todo) : \A j \in 1 .. Len(calls) : Below(calls[j], todo[k])
    BY <2>1
  <2> QED BY <1>1, <2>1, <2>2, NestedDo
<1> QED BY <1>3, <1>4, <1>5 DEF Shaped, LocalStep, CallStep
-----------------------------------------------------------------------------
(* The functions after a step *)

\* One function is changed, the others are not.
LEMMA OneChanged ==
  ASSUME GoodProgram, NEW f, NEW r, funcs' = [funcs EXCEPT ![f] = r]
  PROVE  /\ Len(funcs') = Len(funcs) /\ Len(funcs) \in Nat
         /\ f \in 1 .. Len(funcs) => funcs'[f] = r /\ funcs[f] \in Function
         /\ \A g \in 1 .. Len(funcs) : g # f => funcs'[g] = funcs[g]
<1>1. funcs \in Seq(Function) /\ Len(funcs) \in Nat /\ DOMAIN funcs = 1 .. Len(funcs)
  BY DEF GoodProgram, FuncsOK, FuncsTypeOK, Function
<1>2. Len(funcs') = Len(funcs)
  <2> DEFINE n == Len(funcs)
             e(g) == IF g = f THEN r ELSE funcs[g]
             s == [g \in 1 .. n |-> e(g)]
  <2>1. funcs' = s /\ n \in Nat
    BY <1>1
  <2>2. Len(s) = n
    <3> HIDE DEF e, n
    <3> QED BY <2>1
  <2> QED BY <2>1, <2>2
<1>3. f \in 1 .. Len(funcs) => funcs'[f] = r /\ funcs[f] \in Function
  BY <1>1, ElementOfSeq
<1>4. \A g \in 1 .. Len(funcs) : g # f => funcs'[g] = funcs[g]
  BY <1>1
<1> QED BY <1>1, <1>2, <1>3, <1>4

\* A new function comes last.
LEMMA OneMore ==
  ASSUME GoodProgram, NEW k \in Nat, funcs' = Append(funcs, NewFunction(k))
  PROVE  /\ Len(funcs') = Len(funcs) + 1 /\ Len(funcs) \in Nat
         /\ funcs'[Len(funcs) + 1] = NewFunction(k)
         /\ \A f \in 1 .. Len(funcs) : funcs'[f] = funcs[f]
<1>1. funcs \in Seq(Function) /\ Len(funcs) \in Nat /\ numfunctions \in Nat
  BY DEF GoodProgram, FuncsOK, FuncsTypeOK, Function
<1>2. NewFunction(k) \in Function
  BY <1>1, NewFunctionType
<1> QED BY <1>1, <1>2, AppendProperties

LEMMA LabelsChanged ==
  ASSUME GoodProgram, LabelsOK, NEW f, NEW r, funcs' = [funcs EXCEPT ![f] = r],
         f \in 1 .. Len(funcs) => Labelled(r)
  PROVE  LabelsOK'
<1>1. /\ Len(funcs') = Len(funcs)
      /\ f \in 1 .. Len(funcs) => funcs'[f] = r
      /\ \A g \in 1 .. Len(funcs) : g # f => funcs'[g] = funcs[g]
  BY OneChanged
<1>2. \A g \in 1 .. Len(funcs') : Labelled(funcs'[g])
  BY <1>1 DEF LabelsOK
<1> QED BY <1>2 DEF LabelsOK, Labelled, LabelsFit

LEMMA LabelsStep == GoodProgram /\ LabelsOK /\ Shaped => LabelsOK'
<1> SUFFICES ASSUME GoodProgram, LabelsOK, Shaped PROVE LabelsOK'
  OBVIOUS
<1> DEFINE f == Next1.ctx.currfunc
<1>1. /\ funcs \in Seq(Function) /\ Len(funcs) \in Nat
      /\ todo # <<>> /\ Next1.f \in Nat
  BY NextGood DEF GoodProgram, FuncsOK, FuncsTypeOK, Function, Shaped
<1>2. \A g \in 1 .. Len(funcs) : funcs[g] \in Function /\ Labelled(funcs[g])
  BY <1>1, ElementOfSeq DEF LabelsOK
<1>3. CASE UNCHANGED funcs
  <2>1. \A g \in 1 .. Len(funcs') : Labelled(funcs'[g])
    BY <1>2, <1>3
  <2> QED BY <2>1 DEF LabelsOK, Labelled, LabelsFit
<1>4. CASE LabelStep
  <2>1. f \in 1 .. Len(funcs) /\ funcs' = [funcs EXCEPT ![f] = AddLabel(funcs[f])]
    BY <1>4 DEF LabelStep
  <2>2. Labelled(AddLabel(funcs[f]))
    BY <1>2, <2>1, AddLabelLabelled
  <2> QED BY <2>1, <2>2, LabelsChanged
<1>5. ASSUME NEW item \in {"goto", "call"} \X Nat, WriteStep(item),
             item[1] = "goto" => item[2] \in 1 .. Len(funcs[f].labels)
      PROVE  LabelsOK'
  <2> DEFINE r == [funcs[f] EXCEPT !.text = Append(@, item)]
  <2>1. f \in 1 .. Len(funcs) /\ funcs' = [funcs EXCEPT ![f] = r]
    BY <1>5 DEF WriteStep
  <2>2. Labelled(r)
    BY <1>2, <1>5, <2>1, WriteLabelled
  <2> HIDE DEF r
  <2> QED BY <2>1, <2>2, LabelsChanged
<1>6. CASE GotoStep
  <2>1. PICK i \in 1 .. Len(funcs[f].labels) : WriteStep(<<"goto", funcs[f].labels[i]>>)
    BY <1>6 DEF GotoStep
  <2>2. f \in 1 .. Len(funcs)
    BY <2>1 DEF WriteStep
  <2>3. funcs[f].labels[i] = i /\ i \in Nat
    <3>1. Labelled(funcs[f]) /\ funcs[f] \in Function
      BY <1>2, <2>2
    <3> QED BY <3>1 DEF Labelled, LabelsFit, Function
  <2> DEFINE item == <<"goto", i>>
  <2>4. item \in {"goto", "call"} \X Nat /\ item[2] \in 1 .. Len(funcs[f].labels)
    BY <2>3
  <2>5. WriteStep(item)
    BY <2>1, <2>3
  <2> HIDE DEF item
  <2> QED BY <1>5, <2>4, <2>5
<1>7. ASSUME NEW calls, CallStep(calls) PROVE LabelsOK'
  <2> DEFINE item == <<"call", Next1.f>>
  <2>1. item \in {"goto", "call"} \X Nat /\ item[1] # "goto" /\ WriteStep(item)
    BY <1>1, <1>7 DEF CallStep
  <2> HIDE DEF item
  <2> QED BY <1>5, <2>1
<1>8. ASSUME NEW k \in Nat, NEW c, NEW after, EnterStep(k, c, after) PROVE LabelsOK'
  <2>1. /\ Len(funcs') = Len(funcs) + 1 /\ funcs'[Len(funcs) + 1] = NewFunction(k)
        /\ \A g \in 1 .. Len(funcs) : funcs'[g] = funcs[g]
    BY <1>8, OneMore DEF EnterStep
  <2>2. Labelled(NewFunction(k))
    BY DEF Labelled, LabelsFit, NewFunction
  <2>3. \A g \in 1 .. Len(funcs') : g \in 1 .. Len(funcs) \/ g = Len(funcs) + 1
    BY <1>1, <2>1
  <2>4. \A g \in 1 .. Len(funcs') : Labelled(funcs'[g])
    BY <1>2, <2>1, <2>2, <2>3
  <2> QED BY <2>4 DEF LabelsOK, Labelled, LabelsFit
<1>9. CASE MadeStep
  <2> DEFINE r == [funcs[Next1.f] EXCEPT !.context = Next1.ctx,
                                         !.body = Len(funcs[Next1.f].text)]
  <2>1. funcs' = [funcs EXCEPT ![Next1.f] = r]
    BY <1>9 DEF MadeStep
  <2>2. ASSUME Next1.f \in 1 .. Len(funcs) PROVE Labelled(r)
    <3>1. funcs[Next1.f] \in Function /\ Labelled(funcs[Next1.f])
      BY <1>2, <2>2
    <3>2. r.labels = funcs[Next1.f].labels /\ r.text = funcs[Next1.f].text
      BY <3>1 DEF Function
    <3> HIDE DEF r
    <3> QED BY <3>1, <3>2 DEF Labelled
  <2> HIDE DEF r
  <2> QED BY <2>1, <2>2, LabelsChanged
<1> QED BY <1>3, <1>4, <1>6, <1>7, <1>8, <1>9 DEF Shaped, LocalStep

\* A jump lands on a label that is printed once.
LEMMA LabelsLand == GoodProgram /\ LabelsOK => JumpsLand
<1> SUFFICES ASSUME GoodProgram, LabelsOK, NEW f \in DOMAIN funcs,
                    NEW i \in DOMAIN funcs[f].text, funcs[f].text[i][1] = "goto"
             PROVE  Cardinality({j \in DOMAIN funcs[f].text :
                                   funcs[f].text[j] = <<"label", funcs[f].text[i][2]>>}) = 1
  BY DEF JumpsLand
<1> DEFINE t == funcs[f].text
           l == t[i][2]
<1>1. f \in 1 .. Len(funcs) /\ funcs \in Seq(Function)
  <2>1. funcs \in Seq(Function)
    BY DEF GoodProgram, FuncsOK, FuncsTypeOK, Function
  <2> QED BY <2>1
<1>2. /\ t \in Seq({"label", "goto", "call"} \X Nat) /\ DOMAIN t = 1 .. Len(t)
      /\ Labelled(funcs[f])
  <2>1. funcs[f] \in Function
    BY <1>1, ElementOfSeq
  <2> QED BY <1>1, <2>1 DEF Function, LabelsOK
<1>3. PICK j \in 1 .. Len(t) : t[j] = <<"label", l>>
  <2>1. l \in 1 .. Len(funcs[f].labels)
    BY <1>2 DEF Labelled, LabelsFit
  <2> QED BY <1>2, <2>1 DEF Labelled, LabelsFit
<1>4. \A k \in 1 .. Len(t) : t[k] = <<"label", l>> => k = j
  <2>1. t[j][1] = "label"
    BY <1>3
  <2>2. \A k \in 1 .. Len(t) : t[j] = t[k] => j = k
    BY <1>2, <1>3, <2>1 DEF Labelled, LabelsFit
  <2> HIDE DEF t, l
  <2> QED BY <1>3, <2>2
<1>5. {k \in DOMAIN t : t[k] = <<"label", l>>} = {j}
  <2> HIDE DEF t, l
  <2> QED BY <1>2, <1>3, <1>4
<1>6. Cardinality({j}) = 1
  BY FS_Singleton
<1> QED BY <1>5, <1>6
-----------------------------------------------------------------------------
(* Calls in the text *)

\* Item i of the text of f is a call to g.
Site(f, i, g) ==
  /\ f \in 1 .. Len(funcs) /\ i \in 1 .. Len(funcs[f].text)
  /\ funcs[f].text[i] = <<"call", g>>

\* Writing one item.
LEMMA TextAppended ==
  ASSUME NEW r \in Function, NEW item
  PROVE  LET q == [r EXCEPT !.text = Append(@, item)]
         IN /\ Len(r.text) \in Nat /\ Len(q.text) = Len(r.text) + 1
            /\ q.text[Len(r.text) + 1] = item
            /\ \A i \in 1 .. Len(r.text) : q.text[i] = r.text[i]
<1> DEFINE q == [r EXCEPT !.text = Append(@, item)]
           t == r.text
<1>1. q.text = Append(t, item) /\ t \in Seq({"label", "goto", "call"} \X Nat)
  BY DEF Function
<1> DEFINE P == {"label", "goto", "call"} \X Nat
           S == P \cup {item}
<1>2. t \in Seq(S) /\ item \in S
  <2>1. t \in Seq(P)
    BY <1>1
  <2> HIDE DEF P, t
  <2> QED BY <2>1
<1> HIDE DEF S, t, q
<1>3. /\ Len(t) \in Nat /\ Len(q.text) = Len(t) + 1 /\ q.text[Len(t) + 1] = item
      /\ \A i \in 1 .. Len(t) : q.text[i] = t[i]
  BY <1>1, <1>2, AppendProperties
<1> QED BY <1>3 DEF q, t

\* A step that writes to the text of a function adds that item to the sites, if it
\* is a call, and nothing else.
LEMMA SitesWritten ==
  ASSUME GoodProgram, NEW f \in 1 .. Len(funcs), NEW r, NEW item,
         funcs' = [funcs EXCEPT ![f] = r],
         r.text = Append(funcs[f].text, item)
  PROVE  \A h, i, g : Site(h, i, g)' <=>
           \/ Site(h, i, g)
           \/ h = f /\ i = Len(funcs[f].text) + 1 /\ item = <<"call", g>>
<1>1. /\ Len(funcs') = Len(funcs) /\ funcs'[f] = r /\ funcs[f] \in Function
      /\ \A h \in 1 .. Len(funcs) : h # f => funcs'[h] = funcs[h]
  BY OneChanged
<1> DEFINE t == funcs[f].text
           u == r.text
<1>2. /\ Len(t) \in Nat /\ Len(u) = Len(t) + 1 /\ u[Len(t) + 1] = item
      /\ \A i \in 1 .. Len(t) : u[i] = t[i]
  <2> DEFINE q == [funcs[f] EXCEPT !.text = Append(@, item)]
  <2>1. q.text = u
    BY <1>1 DEF Function
  <2> HIDE DEF u
  <2> QED BY <1>1, <2>1, TextAppended
<1> TAKE h, i, g
<1>3. CASE h = f
  <2>1. Site(h, i, g)' <=> i \in 1 .. Len(u) /\ u[i] = <<"call", g>>
    BY <1>1, <1>3 DEF Site
  <2>2. Site(h, i, g) <=> i \in 1 .. Len(t) /\ t[i] = <<"call", g>>
    BY <1>3 DEF Site
  <2> HIDE DEF t, u
  <2>3. i \in 1 .. Len(u) <=> i \in 1 .. Len(t) \/ i = Len(t) + 1
    BY <1>2
  <2>4. Len(t) + 1 \notin 1 .. Len(t)
    BY <1>2
  <2>5. Site(h, i, g)' <=> Site(h, i, g) \/ (i = Len(t) + 1 /\ item = <<"call", g>>)
    BY <1>2, <2>1, <2>2, <2>3, <2>4
  <2> QED BY <1>3, <2>5 DEF t
<1>4. CASE h # f
  BY <1>1, <1>4 DEF Site
<1> QED BY <1>3, <1>4

\* No other step makes a call.
LEMMA SitesSame ==
  ASSUME GoodProgram, todo # <<>>,
         \/ \E calls : LocalStep(calls)
         \/ \E k \in Nat : \E c, after : EnterStep(k, c, after)
         \/ MadeStep
  PROVE  \A h, i, g : Site(h, i, g)' <=> Site(h, i, g)
<1> DEFINE f == Next1.ctx.currfunc
<1>1. /\ funcs \in Seq(Function) /\ Len(funcs) \in Nat
  BY NextGood DEF GoodProgram, FuncsOK, FuncsTypeOK, Function
<1>2. \A g \in 1 .. Len(funcs) : funcs[g] \in Function
  BY <1>1, ElementOfSeq
<1>3. CASE UNCHANGED funcs
  BY <1>3 DEF Site
<1>4. CASE LabelStep
  <2> DEFINE item == <<"label", Len(funcs[f].labels) + 1>>
             r == AddLabel(funcs[f])
  <2>1. f \in 1 .. Len(funcs) /\ funcs' = [funcs EXCEPT ![f] = r]
    BY <1>4 DEF LabelStep
  <2>2. r.text = Append(funcs[f].text, item)
    BY <1>2, <2>1 DEF AddLabel, Function
  <2>3. \A g : item # <<"call", g>>
    OBVIOUS
  <2> HIDE DEF item, r, f
  <2>4. \A h, i, g : Site(h, i, g)' <=>
          Site(h, i, g) \/ (h = f /\ i = Len(funcs[f].text) + 1 /\ item = <<"call", g>>)
    BY <2>1, <2>2, SitesWritten
  <2> QED BY <2>3, <2>4
<1>5. CASE GotoStep
  <2>1. PICK n \in 1 .. Len(funcs[f].labels) : WriteStep(<<"goto", funcs[f].labels[n]>>)
    BY <1>5 DEF GotoStep
  <2> DEFINE item == <<"goto", funcs[f].labels[n]>>
             r == [funcs[f] EXCEPT !.text = Append(@, item)]
  <2>2. f \in 1 .. Len(funcs) /\ funcs' = [funcs EXCEPT ![f] = r]
    BY <2>1 DEF WriteStep
  <2>3. \A g : item # <<"call", g>>
    OBVIOUS
  <2> HIDE DEF item
  <2>4. r.text = Append(funcs[f].text, item)
    BY <1>2, <2>2 DEF Function
  <2> HIDE DEF r, f
  <2>5. \A h, i, g : Site(h, i, g)' <=>
          Site(h, i, g) \/ (h = f /\ i = Len(funcs[f].text) + 1 /\ item = <<"call", g>>)
    BY <2>2, <2>4, SitesWritten
  <2> QED BY <2>3, <2>5
<1>6. ASSUME NEW k \in Nat, NEW c, NEW after, EnterStep(k, c, after)
      PROVE  \A h, i, g : Site(h, i, g)' <=> Site(h, i, g)
  <2>1. /\ Len(funcs') = Len(funcs) + 1 /\ funcs'[Len(funcs) + 1] = NewFunction(k)
        /\ \A g \in 1 .. Len(funcs) : funcs'[g] = funcs[g]
    BY <1>6, OneMore DEF EnterStep
  <2>2. 1 .. Len(NewFunction(k).text) = {}
    BY DEF NewFunction
  <2>3. \A g \in 1 .. Len(funcs') : g \in 1 .. Len(funcs) \/ g = Len(funcs) + 1
    BY <1>1, <2>1
  <2>4. \A g \in 1 .. Len(funcs) : g \in 1 .. Len(funcs') /\ g # Len(funcs) + 1
    BY <1>1, <2>1
  <2> TAKE h, i, g
  <2>5. CASE h \in 1 .. Len(funcs)
    BY <2>1, <2>4, <2>5 DEF Site
  <2>6. CASE h \notin 1 .. Len(funcs)
    BY <2>1, <2>2, <2>3, <2>6 DEF Site
  <2> QED BY <2>5, <2>6
<1>7. CASE MadeStep
  <2> DEFINE q == Next1.f
             r == [funcs[q] EXCEPT !.context = Next1.ctx, !.body = Len(funcs[q].text)]
  <2>1. funcs' = [funcs EXCEPT ![q] = r]
    BY <1>7 DEF MadeStep
  <2>2. q \in 1 .. Len(funcs) => r.text = funcs[q].text
    BY <1>2 DEF Function
  <2> HIDE DEF q, r
  <2>3. /\ Len(funcs') = Len(funcs)
        /\ q \in 1 .. Len(funcs) => funcs'[q] = r
        /\ \A g \in 1 .. Len(funcs) : g # q => funcs'[g] = funcs[g]
    BY <2>1, OneChanged
  <2>4. \A h \in 1 .. Len(funcs) : funcs'[h].text = funcs[h].text
    BY <2>2, <2>3
  <2> QED BY <2>3, <2>4 DEF Site
<1> QED BY <1>3, <1>4, <1>5, <1>6, <1>7 DEF LocalStep

\* Building a call adds its site.
LEMMA SitesCall ==
  ASSUME GoodProgram, todo # <<>>, NEW calls, CallStep(calls)
  PROVE  /\ Next1.ctx.currfunc \in 1 .. Len(funcs)
         /\ \A h, i, g : Site(h, i, g)' <=>
              \/ Site(h, i, g)
              \/ /\ h = Next1.ctx.currfunc /\ g = Next1.f
                 /\ i = Len(funcs[Next1.ctx.currfunc].text) + 1
<1> DEFINE f == Next1.ctx.currfunc
           item == <<"call", Next1.f>>
           r == [funcs[f] EXCEPT !.text = Append(@, item)]
<1>1. f \in 1 .. Len(funcs) /\ funcs' = [funcs EXCEPT ![f] = r]
  BY DEF CallStep, WriteStep
<1>2. \A g : item = <<"call", g>> <=> g = Next1.f
  OBVIOUS
<1> HIDE DEF item
<1>3. r.text = Append(funcs[f].text, item)
  <2>1. funcs[f] \in Function
    <3>1. funcs \in Seq(Function)
      BY DEF GoodProgram, FuncsOK, FuncsTypeOK, Function
    <3> QED BY <1>1, <3>1, ElementOfSeq
  <2> QED BY <2>1 DEF Function
<1> HIDE DEF r, f
<1>4. \A h, i, g : Site(h, i, g)' <=>
        Site(h, i, g) \/ (h = f /\ i = Len(funcs[f].text) + 1 /\ item = <<"call", g>>)
  BY <1>1, <1>3, SitesWritten
<1> QED BY <1>1, <1>2, <1>4 DEF f
-----------------------------------------------------------------------------
(* The list of functions *)

Listing == {functions[i] : i \in 1 .. Len(functions)}

\* A function is listed once nothing is left to be made in it.
ListedClosed ==
  \A f \in Listing :
    f \in 1 .. Len(funcs) /\ \A k \in 1 .. Len(todo) : todo[k].ctx.currfunc # f

\* A call waits for a function begun after the one it stands in, which is listed or
\* is being made further up the stack.
ArgumentsDue ==
  \A k \in 1 .. Len(todo) : todo[k].op = "arguments" =>
    /\ todo[k].ctx.currfunc < todo[k].f
    /\ \/ todo[k].f \in Listing
       \/ \E j \in 1 .. k - 1 : Making(todo[j]) /\ todo[j].f = todo[k].f

\* What is called is listed.
CalleesListed == \A f, i, g : Site(f, i, g) => g \in Listing

\* It was begun after its caller, and listed before it.
CalleesBefore ==
  \A f, i, g : Site(f, i, g) =>
    /\ f < g
    /\ \A k \in 1 .. Len(functions) :
         functions[k] = f => \E j \in 1 .. k - 1 : functions[j] = g

Ordered == Nested /\ ListedClosed /\ ArgumentsDue /\ CalleesListed /\ CalleesBefore

\* Listing a function.
LEMMA ListingGrows ==
  ASSUME GoodProgram, NEW f, functions' = Append(functions, f)
  PROVE  /\ Len(functions) \in Nat /\ Len(functions') = Len(functions) + 1
         /\ functions'[Len(functions) + 1] = f
         /\ \A k \in 1 .. Len(functions) : functions'[k] = functions[k]
         /\ Listing' = Listing \cup {f}
<1> DEFINE S == Nat \cup {f}
           n == Len(functions)
<1>1. functions \in Seq(S) /\ f \in S /\ n \in Nat
  <2>1. functions \in Seq(Nat)
    BY DEF GoodProgram, FuncsOK, FuncsTypeOK
  <2> QED BY <2>1
<1> HIDE DEF S
<1>2. /\ Len(functions') = n + 1 /\ functions'[n + 1] = f
      /\ \A k \in 1 .. n : functions'[k] = functions[k]
  BY <1>1, AppendProperties
<1>3. Listing' = Listing \cup {f}
  <2>1. Listing' = {functions'[i] : i \in 1 .. n + 1}
    BY <1>2 DEF Listing
  <2>2. Listing = {functions[i] : i \in 1 .. n}
    BY DEF Listing
  <2>3. \A i \in 1 .. n + 1 : i \in 1 .. n \/ i = n + 1
    BY <1>1
  <2>4. 1 .. n \subseteq 1 .. n + 1 /\ n + 1 \in 1 .. n + 1
    BY <1>1
  <2> HIDE DEF n
  <2>5. \A i \in 1 .. n + 1 : functions'[i] \in Listing \cup {f}
    BY <1>2, <2>2, <2>3
  <2>6. \A i \in 1 .. n : functions[i] \in Listing'
    BY <1>2, <2>1, <2>4
  <2>7. f \in Listing'
    BY <1>2, <2>1, <2>4
  <2>8. Listing' \subseteq Listing \cup {f} /\ Listing \cup {f} \subseteq Listing'
    BY <2>1, <2>2, <2>5, <2>6, <2>7
  <2> QED BY <2>8
<1> QED BY <1>1, <1>2, <1>3

LEMMA ListingKept == UNCHANGED functions => Listing' = Listing
BY DEF Listing

\* How many functions there are after a step that begins none.
LEMMA FuncsKept ==
  ASSUME GoodProgram, \/ UNCHANGED funcs \/ LabelStep \/ GotoStep \/ MadeStep
                      \/ \E item : WriteStep(item)
  PROVE  Len(funcs') = Len(funcs)
<1>1. \/ UNCHANGED funcs
      \/ \E f, r : funcs' = [funcs EXCEPT ![f] = r]
  BY DEF LabelStep, GotoStep, MadeStep, WriteStep
<1> QED BY <1>1, OneChanged

\* In which functions the calls are that are on the stack after a step.
LEMMA Currents ==
  ASSUME GoodProgram, Shaped, NEW k \in 1 .. Len(todo')
  PROVE  \/ \E j \in 2 .. Len(todo) : todo'[k].ctx.currfunc = todo[j].ctx.currfunc
         \/ todo'[k].ctx.currfunc = Next1.ctx.currfunc /\ ~MadeStep
         \/ /\ todo'[k].ctx.currfunc = Len(funcs) + 1 /\ Len(funcs') = Len(funcs) + 1
            /\ UNCHANGED functions
<1>1. todo \in Seq(Calls) /\ todo # <<>>
  BY DEF GoodProgram, TodoOK, Shaped
<1>2. ASSUME NEW calls \in Seq(Calls), Do(calls)
      PROVE  \/ \E j \in 2 .. Len(todo) : todo'[k] = todo[j]
             \/ k \in 1 .. Len(calls) /\ todo'[k] = calls[k]
  BY <1>1, <1>2, DoStack
<1>3. ASSUME NEW calls, Do(calls), Within(calls), ~MadeStep
      PROVE  \/ \E j \in 2 .. Len(todo) : todo'[k].ctx.currfunc = todo[j].ctx.currfunc
             \/ todo'[k].ctx.currfunc = Next1.ctx.currfunc /\ ~MadeStep
  <2>1. calls \in Seq(Calls)
    BY <1>3 DEF Within
  <2>2. CASE k \in 1 .. Len(calls) /\ todo'[k] = calls[k]
    BY <1>3, <2>2 DEF Within
  <2> QED BY <1>2, <1>3, <2>1, <2>2
<1>4. ASSUME NEW n \in Nat, NEW c, NEW after, EnterStep(n, c, after)
      PROVE  \/ \E j \in 2 .. Len(todo) : todo'[k].ctx.currfunc = todo[j].ctx.currfunc
             \/ todo'[k].ctx.currfunc = Next1.ctx.currfunc /\ ~MadeStep
             \/ /\ todo'[k].ctx.currfunc = Len(funcs) + 1 /\ Len(funcs') = Len(funcs) + 1
                /\ UNCHANGED functions
  <2> DEFINE calls == <<c>> \o after
  <2>1. /\ calls \in Seq(Calls) /\ calls[1] = c /\ Do(calls)
        /\ c.ctx.currfunc = Len(funcs) + 1 /\ UNCHANGED functions
    BY <1>4, EnterCalls DEF EnterStep
  <2>2. \/ Len(calls) = 1
        \/ Len(calls) = 2 /\ calls[2].ctx = Next1.ctx
    BY <1>4, EnterCalls
  <2>3. Len(funcs') = Len(funcs) + 1 /\ ~MadeStep
    BY <1>4, OneMore DEF EnterStep, MadeStep, FunctionPlaces, Making
  <2> HIDE DEF calls
  <2>4. CASE k \in 1 .. Len(calls) /\ todo'[k] = calls[k]
    <3>1. k = 1 \/ (k = 2 /\ Len(calls) = 2)
      BY <2>2, <2>4
    <3> QED BY <2>1, <2>2, <2>3, <2>4, <3>1
  <2> QED BY <1>2, <2>1, <2>4
<1>5. CASE MadeStep
  <2>1. <<>> \in Seq(Calls) /\ Do(<<>>) /\ 1 .. Len(<<>>) = {}
    BY <1>5 DEF MadeStep
  <2> QED BY <1>2, <2>1
<1> QED BY <1>3, <1>4, <1>5 DEF Shaped, LocalStep, CallStep, MadeStep

\* The call that is built next is to a listed function, begun after the caller.
LEMMA CalleeListed ==
  ASSUME GoodProgram, todo # <<>>, ArgumentsDue, Next1.op = "arguments"
  PROVE  /\ Next1.f \in Listing /\ Next1.ctx.currfunc < Next1.f
         /\ Next1.f \in Nat /\ Next1.ctx.currfunc \in Nat
<1>1. Len(todo) \in Nat \ {0} /\ Next1 = todo[1] /\ 1 \in 1 .. Len(todo)
  BY DEF GoodProgram, TodoOK, Next1
<1>2. 1 .. 1 - 1 = {}
  OBVIOUS
<1>3. Next1.f \in Nat /\ Next1.ctx.currfunc \in Nat
  BY NextGood DEF Context
<1> QED BY <1>1, <1>2, <1>3 DEF ArgumentsDue

\* How the list grows, by kinds of steps.
LEMMA ListingSteps ==
  ASSUME GoodProgram, Nested, ArgumentsDue, Shaped
  PROVE  \/ /\ MadeStep /\ Next1.f = Next1.ctx.currfunc /\ Listing' = Listing \cup {Next1.f}
            /\ Next1.ctx.currfunc \in 1 .. Len(funcs)
         \/ ~MadeStep /\ Listing' = Listing
<1>1. todo # <<>> /\ todo \in Seq(Calls) /\ 1 \in 1 .. Len(todo) /\ Next1 = todo[1]
  BY DEF GoodProgram, TodoOK, Shaped, Next1
<1>2. CASE MadeStep
  <2>1. Next1.op = "functionMade" /\ Next1.f = Next1.ctx.currfunc
    BY <1>1, <1>2 DEF MadeStep, Nested, PlacesNumbered, FunctionPlaces, Making
  <2>2. Next1.ctx.currfunc \in 1 .. Len(funcs)
    BY <1>1, <2>1, NextGood DEF InFunction
  <2>3. Listing' = Listing \cup {Next1.f}
    BY <1>2, ListingGrows DEF MadeStep
  <2> QED BY <1>2, <2>1, <2>2, <2>3
<1>3. ASSUME NEW calls, CallStep(calls) PROVE ~MadeStep /\ Listing' = Listing
  <2>1. Next1.op = "arguments" /\ Next1.f \in Listing
    BY <1>1, <1>3, CalleeListed DEF CallStep
  <2>2. Listing' = Listing \cup {Next1.f} \/ Listing' = Listing
    BY <1>3, ListingGrows, ListingKept DEF CallStep
  <2> QED BY <2>1, <2>2 DEF MadeStep
<1>4. ASSUME ~MadeStep, UNCHANGED functions PROVE ~MadeStep /\ Listing' = Listing
  BY <1>4, ListingKept
<1> QED BY <1>2, <1>3, <1>4 DEF Shaped, LocalStep, EnterStep

LEMMA LenGrows ==
  ASSUME GoodProgram, Shaped
  PROVE  /\ Len(funcs) \in Nat /\ Len(funcs') \in Nat
         /\ Len(funcs') = Len(funcs) \/ Len(funcs') = Len(funcs) + 1
<1>1. Len(funcs) \in Nat
  BY NextGood DEF Shaped
<1>2. ASSUME NEW calls, LocalStep(calls) \/ CallStep(calls) PROVE Len(funcs') = Len(funcs)
  BY <1>2, FuncsKept DEF LocalStep, CallStep
<1>3. ASSUME NEW k \in Nat, NEW c, NEW after, EnterStep(k, c, after)
      PROVE  Len(funcs') = Len(funcs) + 1
  BY <1>3, OneMore DEF EnterStep
<1>4. MadeStep => Len(funcs') = Len(funcs)
  BY FuncsKept
<1> QED BY <1>1, <1>2, <1>3, <1>4 DEF Shaped

LEMMA ListedClosedStep ==
  GoodProgram /\ Nested /\ ListedClosed /\ ArgumentsDue /\ Shaped => ListedClosed'
<1> SUFFICES ASSUME GoodProgram, Nested, ListedClosed, ArgumentsDue, Shaped,
                    NEW f \in Listing'
             PROVE  /\ f \in 1 .. Len(funcs')
                    /\ \A k \in 1 .. Len(todo') : todo'[k].ctx.currfunc # f
  BY DEF ListedClosed, Listing
<1>1. /\ Len(todo) \in Nat \ {0} /\ Next1 = todo[1] /\ todo # <<>> /\ Len(funcs) \in Nat
      /\ \A k \in 2 .. Len(todo) :
           todo[k].ctx.currfunc \in 1 .. Len(funcs) /\ Below(Next1, todo[k])
  BY StackNumbers DEF Shaped
<1>2. /\ Len(funcs') \in Nat
      /\ Len(funcs') = Len(funcs) \/ Len(funcs') = Len(funcs) + 1
  BY LenGrows
<1>3. CASE MadeStep /\ f = Next1.f /\ Next1.f \notin Listing
  <2>1. Next1.f = Next1.ctx.currfunc /\ Next1.ctx.currfunc \in 1 .. Len(funcs)
    BY <1>3, ListingSteps
  <2>2. ASSUME NEW k \in 1 .. Len(todo') PROVE todo'[k].ctx.currfunc # f
    <3>1. UNCHANGED functions => f \in Listing
      BY ListingKept
    <3>2. PICK j \in 2 .. Len(todo) : todo'[k].ctx.currfunc = todo[j].ctx.currfunc
      BY <1>3, <3>1, Currents
    <3>3. todo[j].ctx.currfunc < Next1.ctx.currfunc /\ todo[j].ctx.currfunc \in 1 .. Len(funcs)
      BY <1>1, <1>3 DEF Below, MadeStep, FunctionPlaces, Making
    <3> QED BY <1>1, <1>3, <2>1, <3>2, <3>3
  <2> QED BY <1>1, <1>2, <1>3, <2>1, <2>2
<1>4. CASE f \in Listing
  <2>1. f \in 1 .. Len(funcs) /\ \A k \in 1 .. Len(todo) : todo[k].ctx.currfunc # f
    BY <1>4 DEF ListedClosed
  <2>2. ASSUME NEW k \in 1 .. Len(todo') PROVE todo'[k].ctx.currfunc # f
    <3>1. 1 \in 1 .. Len(todo) /\ f # Len(funcs) + 1 /\ 2 .. Len(todo) \subseteq 1 .. Len(todo)
      BY <1>1, <2>1
    <3> QED BY <1>1, <2>1, <3>1, Currents
  <2> QED BY <1>1, <1>2, <2>1, <2>2
<1> QED BY <1>3, <1>4, ListingSteps

LEMMA ArgumentsDueStep ==
  GoodProgram /\ Nested /\ ArgumentsDue /\ Shaped => ArgumentsDue'
<1> SUFFICES ASSUME GoodProgram, Nested, ArgumentsDue, Shaped PROVE ArgumentsDue'
  OBVIOUS
<1>1. /\ todo \in Seq(Calls) /\ todo # <<>> /\ Len(todo) \in Nat \ {0} /\ Next1 = todo[1]
  BY DEF GoodProgram, TodoOK, Shaped, Next1
<1>2. Listing \subseteq Listing' /\ (MadeStep => Next1.f \in Listing')
  BY ListingSteps
\* A call that waited before the step.
<1>3. ASSUME NEW calls \in Seq(Calls), Do(calls),
             \/ MadeStep \/ ~Making(Next1)
             \/ \E i \in 1 .. Len(calls) :
                  Making(calls[i]) /\ calls[i].f = Next1.f,
             NEW k \in 1 .. Len(todo'), k \notin 1 .. Len(calls), todo'[k].op = "arguments"
      PROVE  /\ todo'[k].ctx.currfunc < todo'[k].f
             /\ \/ todo'[k].f \in Listing'
                \/ \E j \in 1 .. k - 1 :
                     Making(todo'[j]) /\ todo'[j].f = todo'[k].f
  <2> DEFINE m == Len(calls)
             h == k - m + 1
  <2>1. /\ m \in Nat /\ h \in 2 .. Len(todo) /\ todo'[k] = todo[h]
        /\ \A i \in 1 .. m : todo'[i] = calls[i]
        /\ \A i \in 2 .. Len(todo) : todo'[i + m - 1] = todo[i]
    BY <1>1, <1>3, DoStack
  <2>2. h \in 1 .. Len(todo)
    BY <1>1, <2>1
  <2>3. /\ todo[h].ctx.currfunc < todo[h].f
        /\ \/ todo[h].f \in Listing
           \/ \E j \in 1 .. h - 1 : Making(todo[j]) /\ todo[j].f = todo[h].f
    <3> HIDE DEF h, m
    <3> QED BY <1>3, <2>1, <2>2 DEF ArgumentsDue
  <2>4. ASSUME NEW j \in 1 .. h - 1, Making(todo[j]), todo[j].f = todo[h].f
        PROVE  \/ todo'[k].f \in Listing'
               \/ \E i \in 1 .. k - 1 :
                    Making(todo'[i]) /\ todo'[i].f = todo'[k].f
    <3>1. CASE j = 1
      <4>1. Making(Next1) /\ Next1.f = todo'[k].f
        BY <1>1, <2>1, <2>4, <3>1
      <4>2. CASE MadeStep
        BY <1>2, <4>1, <4>2
      <4>3. ASSUME NEW i \in 1 .. m, Making(calls[i]), calls[i].f = Next1.f
            PROVE  \E n \in 1 .. k - 1 :
                     Making(todo'[n]) /\ todo'[n].f = todo'[k].f
        <5>1. i \in 1 .. k - 1
          BY <1>1, <2>1
        <5>2. todo'[i] = calls[i]
          BY <2>1
        <5> QED BY <4>1, <4>3, <5>1, <5>2
      <4> QED BY <1>3, <4>1, <4>2, <4>3
    <3>2. CASE j # 1
      <4> DEFINE i == j + m - 1
      <4>1. i \in 1 .. k - 1 /\ j \in 2 .. Len(todo)
        BY <1>1, <2>1, <3>2
      <4>2. todo'[i] = todo[j]
        BY <2>1, <4>1
      <4> HIDE DEF i, h, m
      <4> QED BY <2>1, <2>4, <4>1, <4>2
    <3> QED BY <3>1, <3>2
  <2> HIDE DEF h, m
  <2> QED BY <1>2, <2>1, <2>3, <2>4
\* Every call that waits after a step within a function waited before it.
<1>4. ASSUME NEW calls, Do(calls), Within(calls) PROVE ArgumentsDue'
  <2>1. /\ calls \in Seq(Calls) /\ Len(calls) \in Nat
        /\ \A k \in 1 .. Len(calls) : calls[k].op # "arguments"
    BY <1>4 DEF Within
  <2>2. Making(Next1) =>
          \E i \in 1 .. Len(calls) : Making(calls[i]) /\ calls[i].f = Next1.f
    BY <1>4, <2>1 DEF Within
  <2>3. \A k \in 1 .. Len(todo') : todo'[k].op = "arguments" => k \notin 1 .. Len(calls)
    BY <1>1, <1>4, <2>1, DoStack
  <2> QED BY <1>3, <1>4, <2>1, <2>2, <2>3 DEF ArgumentsDue, FunctionPlaces, Making, Listing
<1>5. ASSUME NEW n \in Nat, NEW c, NEW after, EnterStep(n, c, after) PROVE ArgumentsDue'
  <2> DEFINE calls == <<c>> \o after
  <2>1. /\ calls \in Seq(Calls) /\ calls[1] = c /\ Do(calls)
        /\ c.op = "functionBlock" /\ c.f = Len(funcs) + 1 /\ ~Making(Next1)
    BY <1>5, EnterCalls DEF EnterStep, Making
  <2>2. \/ Len(calls) = 1
        \/ /\ Len(calls) = 2 /\ calls[2].ctx = Next1.ctx /\ calls[2].f = Len(funcs) + 1
           /\ Next1.op # "program"
    BY <1>5, EnterCalls
  <2> HIDE DEF calls
  <2>3. ASSUME NEW k \in 1 .. Len(calls), todo'[k].op = "arguments"
        PROVE  /\ todo'[k].ctx.currfunc < todo'[k].f
               /\ \E j \in 1 .. k - 1 :
                    Making(todo'[j]) /\ todo'[j].f = todo'[k].f
    <3>1. \A i \in 1 .. Len(calls) : todo'[i] = calls[i]
      BY <1>1, <2>1, DoStack
    <3>2. k = 2 /\ Len(calls) = 2
      BY <2>1, <2>2, <2>3, <3>1
    <3>3. todo'[1] = c /\ todo'[2] = calls[2] /\ 1 \in 1 .. k - 1
      BY <2>1, <3>1, <3>2
    <3>4. Next1.ctx.currfunc \in 1 .. Len(funcs) /\ Len(funcs) \in Nat
      BY <1>1, <2>2, <3>2, NextGood DEF InFunction
    <3>5. Next1.ctx.currfunc < Len(funcs) + 1
      BY <3>4
    <3> QED BY <2>1, <2>2, <3>2, <3>3, <3>5 DEF FunctionPlaces, Making
  <2> QED BY <1>3, <2>1, <2>3 DEF ArgumentsDue, FunctionPlaces, Making, Listing
<1>6. CASE MadeStep
  <2>1. <<>> \in Seq(Calls) /\ Do(<<>>) /\ 1 .. Len(<<>>) = {}
    BY <1>6 DEF MadeStep
  <2> QED BY <1>3, <1>6, <2>1 DEF ArgumentsDue, FunctionPlaces, Making, Listing
<1> QED BY <1>4, <1>5, <1>6 DEF Shaped, LocalStep, CallStep

LEMMA CalleesListedStep ==
  GoodProgram /\ Nested /\ ArgumentsDue /\ CalleesListed /\ Shaped => CalleesListed'
<1> SUFFICES ASSUME GoodProgram, Nested, ArgumentsDue, CalleesListed, Shaped
             PROVE  CalleesListed'
  OBVIOUS
<1>1. Listing \subseteq Listing' /\ todo # <<>>
  BY ListingSteps DEF Shaped
<1>2. ASSUME NEW f, NEW i, NEW g, Site(f, i, g)' PROVE g \in Listing'
  <2>1. CASE Site(f, i, g)
    BY <1>1, <2>1 DEF CalleesListed
  <2>2. ASSUME NEW calls, CallStep(calls), ~Site(f, i, g) PROVE g \in Listing'
    <3>1. g = Next1.f
      BY <1>1, <1>2, <2>2, SitesCall
    <3>2. Next1.f \in Listing
      BY <1>1, <2>2, CalleeListed DEF CallStep
    <3> QED BY <1>1, <3>1, <3>2
  <2>3. CASE \/ \E calls : LocalStep(calls)
             \/ \E k \in Nat : \E c, after : EnterStep(k, c, after)
             \/ MadeStep
    <3>1. Site(f, i, g)
      BY <1>1, <1>2, <2>3, SitesSame
    <3> QED BY <2>1, <3>1
  <2> QED BY <2>1, <2>2, <2>3 DEF Shaped
<1> QED BY <1>2 DEF CalleesListed, Site, Listing

\* What is listed after its callees stays so, and is listed after them when it is.
LEMMA CalleesBeforeStep == GoodProgram /\ Ordered /\ Shaped => CalleesBefore'
<1> SUFFICES ASSUME GoodProgram, Ordered, Shaped PROVE CalleesBefore'
  OBVIOUS
<1>1. /\ Nested /\ ListedClosed /\ ArgumentsDue /\ CalleesListed /\ CalleesBefore
      /\ todo # <<>> /\ 1 \in 1 .. Len(todo) /\ Next1 = todo[1]
  BY DEF Ordered, Shaped, GoodProgram, TodoOK, Next1
\* A call that was there.
<1>2. ASSUME NEW f, NEW i, NEW g, Site(f, i, g)
      PROVE  /\ f < g
             /\ \A k \in 1 .. Len(functions') :
                  functions'[k] = f => \E j \in 1 .. k - 1 : functions'[j] = g
  <2>1. /\ f < g /\ g \in Listing
        /\ \A k \in 1 .. Len(functions) :
             functions[k] = f => \E j \in 1 .. k - 1 : functions[j] = g
    BY <1>1, <1>2 DEF CalleesBefore, CalleesListed
  <2>2. CASE UNCHANGED functions
    BY <2>1, <2>2
  <2>3. ASSUME NEW h, functions' = Append(functions, h)
        PROVE  \A k \in 1 .. Len(functions') :
                 functions'[k] = f => \E j \in 1 .. k - 1 : functions'[j] = g
    <3> SUFFICES ASSUME NEW k \in 1 .. Len(functions'), functions'[k] = f
                 PROVE  \E j \in 1 .. k - 1 : functions'[j] = g
      OBVIOUS
    <3>1. /\ Len(functions) \in Nat /\ Len(functions') = Len(functions) + 1
          /\ \A n \in 1 .. Len(functions) : functions'[n] = functions[n]
      BY <2>3, ListingGrows
    <3>2. CASE k \in 1 .. Len(functions)
      <4>1. PICK j \in 1 .. k - 1 : functions[j] = g
        BY <2>1, <3>1, <3>2
      <4>2. j \in 1 .. Len(functions)
        BY <3>1, <3>2
      <4> QED BY <3>1, <4>1, <4>2
    <3>3. CASE k = Len(functions) + 1
      <4>1. PICK j \in 1 .. Len(functions) : functions[j] = g
        BY <2>1 DEF Listing
      <4>2. j \in 1 .. k - 1 /\ functions'[j] = g
        BY <3>1, <3>3, <4>1
      <4> QED BY <4>2
    <3> QED BY <3>1, <3>2, <3>3
  <2>4. UNCHANGED functions \/ \E h : functions' = Append(functions, h)
    BY DEF Shaped, LocalStep, EnterStep, MadeStep, CallStep
  <2> QED BY <2>1, <2>2, <2>3, <2>4
\* The call built now stands in a function that is not listed.
<1>3. ASSUME NEW calls, CallStep(calls)
      PROVE  /\ Next1.ctx.currfunc < Next1.f
             /\ \A k \in 1 .. Len(functions') : functions'[k] # Next1.ctx.currfunc
  <2>1. /\ Next1.f \in Listing /\ Next1.ctx.currfunc < Next1.f
        /\ Next1.f \in Nat /\ Next1.ctx.currfunc \in Nat
    BY <1>1, <1>3, CalleeListed DEF CallStep
  <2>2. Next1.ctx.currfunc \notin Listing
    BY <1>1 DEF ListedClosed
  <2>3. Listing' = Listing
    BY <1>1, <1>3, ListingSteps DEF CallStep, MadeStep
  <2>4. \A k \in 1 .. Len(functions') : functions'[k] \in Listing'
    BY DEF Listing
  <2> QED BY <2>1, <2>2, <2>3, <2>4
<1>4. ASSUME NEW f, NEW i, NEW g, Site(f, i, g)'
      PROVE  /\ f < g
             /\ \A k \in 1 .. Len(functions') :
                  functions'[k] = f => \E j \in 1 .. k - 1 : functions'[j] = g
  <2>1. ASSUME NEW calls, CallStep(calls), ~Site(f, i, g)
        PROVE  /\ f < g
               /\ \A k \in 1 .. Len(functions') :
                    functions'[k] = f => \E j \in 1 .. k - 1 : functions'[j] = g
    <3>1. f = Next1.ctx.currfunc /\ g = Next1.f
      BY <1>1, <1>4, <2>1, SitesCall
    <3> QED BY <1>3, <2>1, <3>1
  <2>2. CASE \/ \E calls : LocalStep(calls)
             \/ \E k \in Nat : \E c, after : EnterStep(k, c, after)
             \/ MadeStep
    <3>1. Site(f, i, g)
      BY <1>1, <1>4, <2>2, SitesSame
    <3> QED BY <1>2, <3>1
  <2> QED BY <1>2, <2>1, <2>2 DEF Shaped
<1> QED BY <1>4 DEF CalleesBefore, Site

LEMMA OrderedStep == GoodProgram /\ Ordered /\ Shaped => Ordered'
<1> SUFFICES ASSUME GoodProgram, Ordered, Shaped PROVE Ordered'
  OBVIOUS
<1>1. /\ Nested /\ ListedClosed /\ ArgumentsDue /\ CalleesListed
  BY DEF Ordered
<1>2. Nested' /\ ListedClosed' /\ ArgumentsDue' /\ CalleesListed' /\ CalleesBefore'
  BY <1>1, NestedStep, ListedClosedStep, ArgumentsDueStep, CalleesListedStep, CalleesBeforeStep
<1> QED BY <1>2 DEF Ordered

\* The calls of a function, as CalleesOf() collects them.
LEMMA CalleesAreSites ==
  ASSUME GoodProgram, NEW f \in 1 .. Len(funcs), NEW g
  PROVE  g \in CalleesOf(f) <=> \E i : Site(f, i, g)
<1> DEFINE t == funcs[f].text
           P == {"label", "goto", "call"} \X Nat
<1>1. t \in Seq(P)
  <2>1. funcs \in Seq(Function)
    BY DEF GoodProgram, FuncsOK, FuncsTypeOK, Function
  <2>2. funcs[f] \in Function
    BY <2>1, ElementOfSeq
  <2> QED BY <2>2 DEF Function
<1> HIDE DEF P
<1>2. DOMAIN t = 1 .. Len(t) /\ \A i \in 1 .. Len(t) : t[i] \in P
  <2> HIDE DEF t
  <2> QED BY <1>1, ElementOfSeq
<1>3. \A i \in 1 .. Len(t) : t[i] = <<t[i][1], t[i][2]>>
  <2> HIDE DEF t
  <2> QED BY <1>2 DEF P
<1>4. CalleesOf(f) = {t[i][2] : i \in {j \in 1 .. Len(t) : t[j][1] = "call"}}
  BY <1>2 DEF CalleesOf
<1>5. \A i : Site(f, i, g) <=> i \in 1 .. Len(t) /\ t[i] = <<"call", g>>
  BY DEF Site
<1> HIDE DEF t
<1>6. ASSUME g \in CalleesOf(f) PROVE \E i : Site(f, i, g)
  BY <1>3, <1>4, <1>5, <1>6
<1>7. ASSUME NEW i, Site(f, i, g) PROVE g \in CalleesOf(f)
  <2>1. t[i][1] = "call" /\ t[i][2] = g /\ i \in 1 .. Len(t)
    BY <1>5, <1>7
  <2> QED BY <1>4, <2>1
<1> QED BY <1>6, <1>7

LEMMA OrderedCallees == GoodProgram /\ CalleesBefore => CalleesFirst
<1> SUFFICES ASSUME GoodProgram, CalleesBefore, NEW f \in DOMAIN funcs, NEW g \in CalleesOf(f)
             PROVE  /\ f < g
                    /\ \A k \in DOMAIN functions :
                         functions[k] = f => \E j \in 1 .. k - 1 : functions[j] = g
  BY DEF CalleesFirst
<1>1. f \in 1 .. Len(funcs) /\ DOMAIN functions = 1 .. Len(functions)
  <2>1. funcs \in Seq(Function) /\ functions \in Seq(Nat)
    BY DEF GoodProgram, FuncsOK, FuncsTypeOK, Function
  <2> QED BY <2>1
<1>2. PICK i : Site(f, i, g)
  BY <1>1, CalleesAreSites
<1> QED BY <1>1, <1>2 DEF CalleesBefore
-----------------------------------------------------------------------------
(* One call for every function *)

\* The call at k of the stack waits for g.
Due(k, g) == k \in 1 .. Len(todo) /\ todo[k].op = "arguments" /\ todo[k].f = g

\* A function is called from one place, or waits to be; the first one is not called.
CallsOnce ==
  /\ \A f, i, h, j, g : Site(f, i, g) /\ Site(h, j, g) => f = h /\ i = j
  /\ \A k, l, g : Due(k, g) /\ Due(l, g) => k = l
  /\ \A f, i, k, g : ~(Site(f, i, g) /\ Due(k, g))
  /\ \A g \in 2 .. Len(funcs) : (\E k : Due(k, g)) \/ (\E f, i : Site(f, i, g))

\* Where the calls that wait have moved.
LEMMA DuesMoved ==
  ASSUME todo \in Seq(Calls), todo # <<>>, NEW calls \in Seq(Calls), Do(calls)
  PROVE  /\ Len(calls) \in Nat
         /\ \A k \in 1 .. Len(calls) : k \in 1 .. Len(todo') /\ todo'[k] = calls[k]
         /\ \A k, g : Due(k, g)' => k \in Nat /\ k \in 1 .. Len(todo')
         /\ \A k, g : Due(k, g)' /\ k \notin 1 .. Len(calls) =>
              k - Len(calls) + 1 \in 2 .. Len(todo) /\ Due(k - Len(calls) + 1, g)
         /\ \A k, g : Due(k, g) /\ k # 1 => Due(k + Len(calls) - 1, g)'
         /\ \A g : Due(1, g) <=> Next1.op = "arguments" /\ Next1.f = g
<1> DEFINE m == Len(calls)
<1>1. /\ Len(todo) \in Nat \ {0} /\ Next1 = todo[1] /\ m \in Nat /\ Len(todo') \in Nat
      /\ \A k \in 1 .. m : k \in 1 .. Len(todo') /\ todo'[k] = calls[k]
      /\ \A k \in 1 .. Len(todo') :
           \/ k \in 1 .. m
           \/ k - m + 1 \in 2 .. Len(todo) /\ todo'[k] = todo[k - m + 1]
      /\ \A k \in 2 .. Len(todo) :
           k + m - 1 \in 1 .. Len(todo') /\ todo'[k + m - 1] = todo[k]
  <2>1. Len(todo') \in Nat
    <3>1. todo' \in Seq(Calls)
      BY DoStack
    <3> QED BY <3>1
  <2> QED BY <2>1, DoStack
<1> HIDE DEF m
<1>2. \A k, g : Due(k, g)' <=>
        k \in 1 .. Len(todo') /\ todo'[k].op = "arguments" /\ todo'[k].f = g
  BY DEF Due
<1>3. \A k, g : Due(k, g)' => k \in Nat /\ k \in 1 .. Len(todo')
  BY <1>1, <1>2
<1>4. ASSUME NEW k, NEW g, Due(k, g)', k \notin 1 .. m
      PROVE  k - m + 1 \in 2 .. Len(todo) /\ Due(k - m + 1, g)
  <2> DEFINE j == k - m + 1
  <2>a. k \in 1 .. Len(todo')
    BY <1>3, <1>4
  <2>b. j \in 2 .. Len(todo) /\ todo'[k] = todo[j]
    BY <1>1, <1>4, <2>a
  <2>c. \A x \in 2 .. Len(todo) : x \in 1 .. Len(todo)
    BY <1>1
  <2>1. j \in 2 .. Len(todo) /\ todo'[k] = todo[j] /\ j \in 1 .. Len(todo)
    BY <2>b, <2>c, Zenon
  <2> HIDE DEF j
  <2>2. Due(j, g)
    BY <1>2, <1>4, <2>1 DEF Due
  <2> QED BY <2>1, <2>2 DEF j
<1>5. ASSUME NEW k, NEW g, Due(k, g), k # 1
      PROVE  Due(k + m - 1, g)'
  <2> DEFINE j == k + m - 1
  <2>1. k \in 2 .. Len(todo)
    BY <1>1, <1>5 DEF Due
  <2>2. j \in 1 .. Len(todo') /\ todo'[j] = todo[k]
    BY <1>1, <2>1
  <2> HIDE DEF j
  <2>3. j \in 1 .. Len(todo') /\ todo'[j].op = "arguments" /\ todo'[j].f = g
    BY <1>5, <2>2 DEF Due
  <2> QED BY <1>2, <2>3 DEF j
<1>6. \A g : Due(1, g) <=> Next1.op = "arguments" /\ Next1.f = g
  <2>1. 1 \in 1 .. Len(todo)
    BY <1>1
  <2> QED BY <1>1, <2>1 DEF Due
<1> QED BY <1>1, <1>3, <1>4, <1>5, <1>6 DEF m

\* A step that neither begins a function nor builds a call.
LEMMA CallsOnceQuiet ==
  ASSUME GoodProgram, CallsOnce, todo # <<>>,
         \/ \E calls : LocalStep(calls)
         \/ MadeStep
  PROVE  CallsOnce'
<1>1. todo \in Seq(Calls)
  BY DEF GoodProgram, TodoOK
<1>2. \A h, i, g : Site(h, i, g)' <=> Site(h, i, g)
  BY SitesSame
<1>3. Len(funcs') = Len(funcs)
  BY FuncsKept DEF LocalStep
<1>4. PICK calls \in Seq(Calls) :
        /\ Do(calls) /\ \A k \in 1 .. Len(calls) : calls[k].op # "arguments"
  <2>1. CASE MadeStep
    <3>1. <<>> \in Seq(Calls) /\ Do(<<>>) /\ 1 .. Len(<<>>) = {}
      BY <2>1 DEF MadeStep
    <3> QED BY <3>1
  <2> QED BY <2>1 DEF LocalStep, Within
<1>5. Next1.op # "arguments"
  BY DEF LocalStep, MadeStep
<1> DEFINE m == Len(calls)
<1>6. /\ m \in Nat
      /\ \A k, g : Due(k, g)' => k \in Nat
      /\ \A k, g : Due(k, g)' => Due(k - m + 1, g)
      /\ \A k, g : Due(k, g) => Due(k + m - 1, g)'
  <2>1. \A k, g : Due(k, g)' => todo'[k].op = "arguments"
    BY DEF Due
  <2>2. /\ m \in Nat
        /\ \A k \in 1 .. m : todo'[k] = calls[k]
        /\ \A k, g : Due(k, g)' => k \in Nat
        /\ \A k, g : Due(k, g)' /\ k \notin 1 .. m => Due(k - m + 1, g)
        /\ \A k, g : Due(k, g) /\ k # 1 => Due(k + m - 1, g)'
        /\ \A g : ~Due(1, g)
    BY <1>1, <1>4, <1>5, DuesMoved
  <2> HIDE DEF m
  <2>3. \A k, g : Due(k, g)' => k \notin 1 .. m
    BY <1>4, <2>1, <2>2 DEF m
  <2> QED BY <2>2, <2>3
<1> HIDE DEF m
<1>7. \A f, i, h, j, g : Site(f, i, g)' /\ Site(h, j, g)' => f = h /\ i = j
  BY <1>2 DEF CallsOnce
<1>8. ASSUME NEW k, NEW l, NEW g, Due(k, g)', Due(l, g)' PROVE k = l
  <2>1. k \in Nat /\ l \in Nat /\ m \in Nat
    BY <1>6, <1>8
  <2>2. k - m + 1 = l - m + 1
    BY <1>6, <1>8 DEF CallsOnce
  <2> QED BY <2>1, <2>2
<1>9. \A f, i, k, g : ~(Site(f, i, g)' /\ Due(k, g)')
  BY <1>2, <1>6 DEF CallsOnce
<1>10. \A g \in 2 .. Len(funcs') : (\E k : Due(k, g)') \/ (\E f, i : Site(f, i, g)')
  BY <1>2, <1>3, <1>6 DEF CallsOnce
<1> QED BY <1>7, <1>8, <1>9, <1>10 DEF CallsOnce

\* The call that is built waited, and no other did for its function.
LEMMA CallsOnceCall ==
  ASSUME GoodProgram, CallsOnce, todo # <<>>, NEW calls, CallStep(calls)
  PROVE  CallsOnce'
<1> DEFINE c == Next1.ctx.currfunc
           n == Len(funcs[c].text) + 1
           d == Next1.f
           m == Len(calls)
<1>1. todo \in Seq(Calls)
  BY DEF GoodProgram, TodoOK
<1>2. \A h, i, g : Site(h, i, g)' <=> Site(h, i, g) \/ (h = c /\ i = n /\ g = d)
  BY SitesCall
<1>3. Len(funcs') = Len(funcs)
  BY FuncsKept DEF CallStep
<1>4. /\ calls \in Seq(Calls) /\ Do(calls)
      /\ \A k \in 1 .. Len(calls) : calls[k].op # "arguments"
      /\ Next1.op = "arguments"
  BY DEF CallStep, Within
<1> HIDE DEF c, n, m
<1>5. /\ m \in Nat
      /\ \A k, g : Due(k, g)' => k \in Nat
      /\ \A k, g : Due(k, g)' => Due(k - m + 1, g) /\ k - m + 1 # 1
      /\ \A k, g : Due(k, g) => Due(k + m - 1, g)' \/ g = d
      /\ Due(1, d)
  <2>1. \A k, g : Due(k, g)' => todo'[k].op = "arguments"
    BY DEF Due
  <2>2. /\ m \in Nat
        /\ \A k \in 1 .. m : todo'[k] = calls[k]
        /\ \A k, g : Due(k, g)' => k \in Nat
        /\ \A k, g : Due(k, g)' /\ k \notin 1 .. m =>
             k - m + 1 \in 2 .. Len(todo) /\ Due(k - m + 1, g)
        /\ \A k, g : Due(k, g) /\ k # 1 => Due(k + m - 1, g)'
        /\ \A g : Due(1, g) <=> g = d
    BY <1>1, <1>4, DuesMoved DEF m
  <2> HIDE DEF d
  <2>3. \A k, g : Due(k, g)' => k \notin 1 .. m
    BY <1>4, <2>1, <2>2 DEF m
  <2>4. 1 \notin 2 .. Len(todo)
    OBVIOUS
  <2>5. \A k, g : Due(k, g)' => Due(k - m + 1, g) /\ k - m + 1 \in 2 .. Len(todo)
    BY <2>2, <2>3
  <2>6. \A k, g : Due(k, g)' => k - m + 1 # 1
    BY <2>4, <2>5
  <2>7. \A k, g : Due(k, g) => Due(k + m - 1, g)' \/ g = d
    BY <2>2
  <2> QED BY <2>2, <2>5, <2>6, <2>7
<1> HIDE DEF d
<1>6. \A f, i : ~Site(f, i, d)
  BY <1>5 DEF CallsOnce
<1>7. ASSUME NEW k, NEW g, g = d, Due(k, g)' PROVE FALSE
  <2>1. \A l, h : Due(l, h)' => Due(l - m + 1, h) /\ l - m + 1 # 1
    BY <1>5
  <2>2. Due(k - m + 1, g) /\ k - m + 1 # 1
    BY <1>7, <2>1
  <2>3. Due(1, g)
    BY <1>5, <1>7
  <2>4. k - m + 1 = 1
    BY <2>2, <2>3 DEF CallsOnce
  <2> QED BY <2>2, <2>4
<1>8. \A f, i, h, j, g : Site(f, i, g)' /\ Site(h, j, g)' => f = h /\ i = j
  BY <1>2, <1>6 DEF CallsOnce
<1>9. ASSUME NEW k, NEW l, NEW g, Due(k, g)', Due(l, g)' PROVE k = l
  <2>1. k \in Nat /\ l \in Nat /\ m \in Nat
    BY <1>5, <1>9
  <2>2. k - m + 1 = l - m + 1
    BY <1>5, <1>9 DEF CallsOnce
  <2> QED BY <2>1, <2>2
<1>10. \A f, i, k, g : ~(Site(f, i, g)' /\ Due(k, g)')
  BY <1>2, <1>5, <1>7 DEF CallsOnce
<1>11. ASSUME NEW g \in 2 .. Len(funcs')
       PROVE  (\E k : Due(k, g)') \/ (\E f, i : Site(f, i, g)')
  <2>1. CASE g = d
    BY <1>2, <2>1
  <2>2. CASE g # d
    BY <1>2, <1>3, <1>5, <2>2 DEF CallsOnce
  <2> QED BY <2>1, <2>2
<1> QED BY <1>8, <1>9, <1>10, <1>11 DEF CallsOnce

\* The function begun has no call yet; the one it is begun for waits, unless it is
\* the first.
LEMMA CallsOnceEnter ==
  ASSUME GoodProgram, CallsOnce, ListedClosed, CalleesListed, todo # <<>>,
         NEW q \in Nat, NEW c, NEW after, EnterStep(q, c, after)
  PROVE  CallsOnce'
<1> DEFINE n == Len(funcs)
           calls == <<c>> \o after
           m == Len(calls)
<1>1. todo \in Seq(Calls) /\ n \in Nat
  BY NextGood DEF GoodProgram, TodoOK
<1>2. \A h, i, g : Site(h, i, g)' <=> Site(h, i, g)
  BY SitesSame
<1>3. Len(funcs') = n + 1
  BY OneMore DEF EnterStep
<1>4. /\ calls \in Seq(Calls) /\ calls[1] = c /\ c.op = "functionBlock" /\ Do(calls)
      /\ Next1.op # "arguments"
  BY EnterCalls DEF EnterStep
<1>5. \/ m = 1 /\ n = 0
      \/ m = 2 /\ calls[2].op = "arguments" /\ calls[2].f = n + 1
  <2>1. ASSUME Next1.op = "program" PROVE n = 0
    <3>1. Next1 = todo[1] /\ 1 \in 1 .. Len(todo)
      BY <1>1 DEF Next1
    <3> QED BY <2>1, <3>1 DEF GoodProgram, PlacesOK, LimitOK
  <2> HIDE DEF n, m, calls
  <2> QED BY <2>1, EnterCalls DEF n, m, calls
<1>6. \A k, g : Due(k, g) => g \in 1 .. n
  <2>1. \A k \in 1 .. Len(todo) : GoodCall(todo[k], n)
    BY DEF GoodProgram, TodoOK
  <2> QED BY <2>1 DEF Due, GoodCall
<1>7. \A f, i, g : Site(f, i, g) => g \in 1 .. n
  BY DEF CalleesListed, ListedClosed
<1>8. n + 1 \notin 1 .. n
  BY <1>1
<1> HIDE DEF n, calls, m
<1>9. /\ m \in Nat
      /\ \A k \in 1 .. m : k \in 1 .. Len(todo') /\ todo'[k] = calls[k]
      /\ \A k, g : Due(k, g)' => k \in Nat
      /\ \A k, g : Due(k, g)' /\ k \notin 1 .. m => Due(k - m + 1, g)
      /\ \A k, g : Due(k, g) => Due(k + m - 1, g)'
  <2>1. /\ m \in Nat
        /\ \A k \in 1 .. m : k \in 1 .. Len(todo') /\ todo'[k] = calls[k]
        /\ \A k, g : Due(k, g)' => k \in Nat
        /\ \A k, g : Due(k, g)' /\ k \notin 1 .. m => Due(k - m + 1, g)
        /\ \A k, g : Due(k, g) /\ k # 1 => Due(k + m - 1, g)'
        /\ \A g : ~Due(1, g)
    BY <1>1, <1>4, DuesMoved DEF m
  <2> QED BY <2>1
\* What waits afterwards: the call of the new function, and what waited before.
<1>10. ASSUME NEW k, NEW g, Due(k, g)'
       PROVE  \/ k = 2 /\ g = n + 1
              \/ Due(k - m + 1, g)
  <2>1. todo'[k].op = "arguments" /\ todo'[k].f = g
    BY <1>10 DEF Due
  <2>2. CASE k \in 1 .. m
    <3>1. todo'[k] = calls[k]
      BY <1>9, <2>2
    <3>2. k = 1 \/ (k = 2 /\ m = 2)
      BY <1>5, <2>2
    <3>3. k # 1
      BY <1>4, <2>1, <3>1
    <3> QED BY <1>5, <2>1, <3>1, <3>2, <3>3
  <2> QED BY <1>9, <1>10, <2>2
<1>11. \A f, i, h, j, g : Site(f, i, g)' /\ Site(h, j, g)' => f = h /\ i = j
  BY <1>2 DEF CallsOnce
<1>12. ASSUME NEW k, NEW l, NEW g, Due(k, g)', Due(l, g)' PROVE k = l
  <2>1. CASE g = n + 1
    BY <1>6, <1>8, <1>10, <1>12, <2>1
  <2>2. CASE g # n + 1
    <3>1. k \in Nat /\ l \in Nat /\ m \in Nat
      BY <1>9, <1>12
    <3>2. k - m + 1 = l - m + 1
      BY <1>10, <1>12, <2>2 DEF CallsOnce
    <3> QED BY <3>1, <3>2
  <2> QED BY <2>1, <2>2
<1>13. \A f, i, k, g : ~(Site(f, i, g)' /\ Due(k, g)')
  BY <1>2, <1>7, <1>8, <1>10 DEF CallsOnce
<1>14. ASSUME NEW g \in 2 .. Len(funcs')
       PROVE  (\E k : Due(k, g)') \/ (\E f, i : Site(f, i, g)')
  <2>1. CASE g = n + 1
    <3>1. m = 2 /\ 2 \in 1 .. m /\ calls[2].op = "arguments" /\ calls[2].f = g
      BY <1>1, <1>3, <1>5, <2>1
    <3>2. 2 \in 1 .. Len(todo') /\ todo'[2] = calls[2]
      BY <1>9, <3>1
    <3>3. Due(2, g)'
      BY <3>1, <3>2 DEF Due
    <3> QED BY <3>3
  <2>2. CASE g # n + 1
    <3>1. g \in 2 .. n
      BY <1>1, <1>3, <2>2
    <3> QED BY <1>2, <1>9, <3>1 DEF CallsOnce, n
  <2> QED BY <2>1, <2>2
<1> QED BY <1>11, <1>12, <1>13, <1>14 DEF CallsOnce

LEMMA CallsOnceStep == GoodProgram /\ Ordered /\ CallsOnce /\ Shaped => CallsOnce'
<1> SUFFICES ASSUME GoodProgram, Ordered, CallsOnce, Shaped PROVE CallsOnce'
  OBVIOUS
<1>1. ListedClosed /\ CalleesListed /\ todo # <<>>
  BY DEF Ordered, Shaped
<1>2. ASSUME NEW k \in Nat, NEW c, NEW after, EnterStep(k, c, after) PROVE CallsOnce'
  BY <1>1, <1>2, CallsOnceEnter
<1>3. ASSUME NEW calls, CallStep(calls) PROVE CallsOnce'
  BY <1>1, <1>3, CallsOnceCall
<1>4. CASE (\E calls : LocalStep(calls)) \/ MadeStep
  BY <1>1, <1>4, CallsOnceQuiet
<1> QED BY <1>2, <1>3, <1>4 DEF Shaped

\* Sets of which every two members are equal.
LEMMA AtMostOne ==
  ASSUME NEW S, \A s, t \in S : s = t
  PROVE  Cardinality(S) = IF S = {} THEN 0 ELSE 1
<1>1. CASE S = {}
  BY <1>1, FS_EmptySet
<1>2. CASE S # {}
  <2>1. PICK s \in S : TRUE
    BY <1>2
  <2>2. S = {s}
    BY <2>1
  <2>3. Cardinality({s}) = 1
    BY FS_Singleton
  <2> QED BY <1>2, <2>2, <2>3
<1> QED BY <1>1, <1>2

LEMMA OnceMakesTree == GoodProgram /\ CallsOnce => CallTree
<1> SUFFICES ASSUME GoodProgram, CallsOnce, NEW g \in 2 .. Len(funcs)
             PROVE  Cardinality(CallSites(g)) + Cardinality(CallsDue(g)) = 1
  BY DEF CallTree
<1>1. /\ funcs \in Seq(Function) /\ DOMAIN funcs = 1 .. Len(funcs)
      /\ todo \in Seq(Calls) /\ DOMAIN todo = 1 .. Len(todo)
  <2>1. funcs \in Seq(Function) /\ todo \in Seq(Calls)
    BY DEF GoodProgram, FuncsOK, FuncsTypeOK, TodoOK, Function
  <2> QED BY <2>1
<1>2. \A f \in 1 .. Len(funcs) : DOMAIN funcs[f].text = 1 .. Len(funcs[f].text)
  <2> SUFFICES ASSUME NEW f \in 1 .. Len(funcs)
               PROVE  DOMAIN funcs[f].text = 1 .. Len(funcs[f].text)
    OBVIOUS
  <2>1. funcs[f] \in Function
    BY <1>1, ElementOfSeq
  <2>2. funcs[f].text \in Seq({"label", "goto", "call"} \X Nat)
    BY <2>1 DEF Function
  <2> QED BY <2>2
<1> DEFINE Of(f) == {<<f, i>> : i \in {j \in DOMAIN funcs[f].text :
                                        funcs[f].text[j] = <<"call", g>>}}
<1>3. \A s : s \in CallSites(g) <=> \E f \in DOMAIN funcs : s \in Of(f)
  BY Zenon DEF CallSites
<1>4. \A f \in DOMAIN funcs : \A s : s \in Of(f) <=> \E i : s = <<f, i>> /\ Site(f, i, g)
  <2> SUFFICES ASSUME NEW f \in DOMAIN funcs, NEW s
               PROVE  s \in Of(f) <=> \E i : s = <<f, i>> /\ Site(f, i, g)
    OBVIOUS
  <2>1. \A i : Site(f, i, g) <=> i \in {j \in DOMAIN funcs[f].text :
                                          funcs[f].text[j] = <<"call", g>>}
    BY <1>1, <1>2 DEF Site
  <2> QED BY <2>1, Zenon
<1> HIDE DEF Of
<1>5. \A f, i : Site(f, i, g) => f \in DOMAIN funcs
  BY <1>1 DEF Site
<1>6. \A s : s \in CallSites(g) <=> \E f, i : s = <<f, i>> /\ Site(f, i, g)
  BY <1>3, <1>4, <1>5
<1>7. \A k : k \in CallsDue(g) <=> Due(k, g)
  BY <1>1 DEF CallsDue, Due
<1>8. \A s, t \in CallSites(g) : s = t
  <2> SUFFICES ASSUME NEW s \in CallSites(g), NEW t \in CallSites(g) PROVE s = t
    OBVIOUS
  <2>1. PICK f, i : s = <<f, i>> /\ Site(f, i, g)
    BY <1>6
  <2>2. PICK h, j : t = <<h, j>> /\ Site(h, j, g)
    BY <1>6
  <2>3. f = h /\ i = j
    BY <2>1, <2>2 DEF CallsOnce
  <2> QED BY <2>1, <2>2, <2>3
<1>9. \A k, l \in CallsDue(g) : k = l
  BY <1>7 DEF CallsOnce
<1>10. CallSites(g) = {} \/ CallsDue(g) = {}
  <2>1. ASSUME NEW s \in CallSites(g), NEW k \in CallsDue(g) PROVE FALSE
    <3>1. PICK f, i : s = <<f, i>> /\ Site(f, i, g)
      BY <1>6
    <3> QED BY <1>7, <3>1 DEF CallsOnce
  <2> QED BY <2>1
<1>11. CallSites(g) # {} \/ CallsDue(g) # {}
  <2>1. CASE \E k : Due(k, g)
    BY <1>7, <2>1
  <2>2. ASSUME NEW f, NEW i, Site(f, i, g) PROVE CallSites(g) # {}
    <3>1. <<f, i>> \in CallSites(g)
      BY <1>6, <2>2
    <3> QED BY <3>1
  <2> QED BY <2>1, <2>2 DEF CallsOnce
<1>12. /\ Cardinality(CallSites(g)) = IF CallSites(g) = {} THEN 0 ELSE 1
       /\ Cardinality(CallsDue(g)) = IF CallsDue(g) = {} THEN 0 ELSE 1
  BY <1>8, <1>9, AtMostOne
<1> QED BY <1>10, <1>11, <1>12
-----------------------------------------------------------------------------
(* The theorems *)

TextInv == NothingAfter /\ LabelsOK /\ Ordered /\ CallsOnce

LEMMA TextInit == Init => TextInv
<1> SUFFICES ASSUME Init PROVE TextInv
  OBVIOUS
<1> DEFINE c == Call("program", NoContext, 0, 0, 0)
<1>1. /\ todo = <<c>> /\ Len(todo) = 1 /\ todo[1] = c /\ c.op = "program"
      /\ Len(funcs) = 0 /\ Len(functions) = 0
  BY DEF Init, Call
<1> HIDE DEF c
<1>2. 1 .. Len(todo) - 1 = {} /\ 1 .. Len(funcs) = {} /\ 1 .. Len(functions) = {}
  BY <1>1
<1>3. 1 .. Len(todo) = {1} /\ 1 .. 1 - 1 = {} /\ 2 .. Len(funcs) = {}
  BY <1>1
<1>4. NothingAfter /\ LabelsOK
  BY <1>2 DEF NothingAfter, LabelsOK
<1>5. Nested
  BY <1>1, <1>3 DEF Nested, PlacesNumbered, FunctionPlaces, Making
<1>6. Listing = {} /\ \A f, i, g : ~Site(f, i, g)
  BY <1>2 DEF Listing, Site
<1>7. ListedClosed /\ CalleesListed /\ CalleesBefore
  BY <1>6 DEF ListedClosed, CalleesListed, CalleesBefore
<1>8. ArgumentsDue
  BY <1>1, <1>3 DEF ArgumentsDue
<1>9. \A k, g : ~Due(k, g)
  BY <1>1, <1>3 DEF Due
<1>10. CallsOnce
  BY <1>3, <1>6, <1>9 DEF CallsOnce
<1> QED BY <1>4, <1>5, <1>7, <1>8, <1>10 DEF TextInv, Ordered

LEMMA TextStep == GoodProgram /\ TextInv /\ [Next]_vars => TextInv'
<1>1. ASSUME GoodProgram, TextInv, Next PROVE TextInv'
  <2>1. Shaped
    BY <1>1, StepShaped
  <2> QED BY <1>1, <2>1, NothingAfterStep, LabelsStep, OrderedStep, CallsOnceStep DEF TextInv
<1>2. ASSUME TextInv, UNCHANGED vars PROVE TextInv'
  <2>1. todo' = todo /\ funcs' = funcs /\ functions' = functions
    BY <1>2 DEF vars
  <2>2. NothingAfter' /\ LabelsOK'
    BY <1>2, <2>1 DEF TextInv, NothingAfter, LabelsOK
  <2>3. Nested' /\ ListedClosed' /\ ArgumentsDue'
    BY <1>2, <2>1 DEF TextInv, Ordered, Nested, PlacesNumbered, ListedClosed, ArgumentsDue,
       Listing
  <2>4. \A f, i, g : Site(f, i, g)' <=> Site(f, i, g)
    BY <2>1 DEF Site
  <2>5. CalleesListed' /\ CalleesBefore'
    <3>1. Listing' = Listing
      BY <2>1 DEF Listing
    <3>2. CalleesListed'
      BY <1>2, <2>4, <3>1 DEF TextInv, Ordered, CalleesListed
    <3>3. CalleesBefore'
      BY <1>2, <2>1, <2>4 DEF TextInv, Ordered, CalleesBefore
    <3> QED BY <3>2, <3>3
  <2>6. \A k, g : Due(k, g)' <=> Due(k, g)
    BY <2>1 DEF Due
  <2>7. Len(funcs') = Len(funcs) /\ CallsOnce
    BY <1>2, <2>1 DEF TextInv
  <2>8. CallsOnce'
    <3>1. \A f, i, h, j, g : Site(f, i, g)' /\ Site(h, j, g)' => f = h /\ i = j
      BY <2>4, <2>7 DEF CallsOnce
    <3>2. \A k, l, g : Due(k, g)' /\ Due(l, g)' => k = l
      BY <2>6, <2>7 DEF CallsOnce
    <3>3. \A f, i, k, g : ~(Site(f, i, g)' /\ Due(k, g)')
      BY <2>4, <2>6, <2>7 DEF CallsOnce
    <3>4. \A g \in 2 .. Len(funcs') : (\E k : Due(k, g)') \/ (\E f, i : Site(f, i, g)')
      BY <2>4, <2>6, <2>7 DEF CallsOnce
    <3> QED BY <3>1, <3>2, <3>3, <3>4 DEF CallsOnce
  <2> QED BY <2>2, <2>3, <2>5, <2>8 DEF TextInv, Ordered
<1> QED BY <1>1, <1>2

\* What is written, listed and still to be done hangs together as the invariant says,
\* at every call of the generator (func.c, statement.c, expression.c, label.c, block.c).
THEOREM TextHolds == Spec => [](GoodProgram /\ TextInv)
<1>1. Init => GoodProgram /\ TextInv
  BY InitGood, TextInit
<1>2. GoodProgram /\ TextInv /\ [Next]_vars => GoodProgram' /\ TextInv'
  BY StepGood, TextStep
<1> QED BY <1>1, <1>2, PTL DEF Spec

\* Every goto has its label in its function, printed with exactly one statement
\* (label.c, statement.c).
THEOREM JumpsCorrect == Spec => []JumpsLand
<1>1. GoodProgram /\ TextInv => JumpsLand
  BY LabelsLand DEF TextInv
<1> QED BY <1>1, TextHolds, PTL

\* No statement follows a return in its block (block.c, statement.c).
THEOREM ReturnsCorrect == Spec => []ReturnEndsBlock
<1>1. GoodProgram /\ TextInv => ReturnEndsBlock
  <2> SUFFICES ASSUME GoodProgram, NothingAfter, todo # <<>>, Next1.op = "return", Len(todo) > 1
               PROVE  ~(todo[2].op = "statements" /\ todo[2].n > 0)
    BY DEF TextInv, ReturnEndsBlock
  <2>1. Len(todo) \in Nat /\ Next1 = todo[1] /\ 1 \in 1 .. Len(todo) - 1 /\ 1 + 1 = 2
    BY DEF GoodProgram, TodoOK, Next1
  <2>2. EndsBlock(todo[1])
    BY <2>1 DEF EndsBlock
  <2> QED BY <2>1, <2>2 DEF NothingAfter, GoesOn
<1> QED BY <1>1, TextHolds, PTL

\* The list of functions is in an order in which each can be printed after all it
\* calls, and no call goes back: the program written does not recurse (func.c,
\* statement.c, expression.c).
THEOREM CalleesCorrect == Spec => []CalleesFirst
<1>1. GoodProgram /\ TextInv => CalleesFirst
  BY OrderedCallees DEF TextInv, Ordered
<1> QED BY <1>1, TextHolds, PTL

\* Every function but the first has one call, built or waiting to be: no function is
\* made for nothing, none is called twice (func.c, statement.c, expression.c).
THEOREM CallTreeCorrect == Spec => []CallTree
<1>1. GoodProgram /\ TextInv => CallTree
  BY OnceMakesTree DEF TextInv
<1> QED BY <1>1, TextHolds, PTL
=============================================================================
