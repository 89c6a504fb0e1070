--------------------------- MODULE GeneratorProofs ---------------------------
(***************************************************************************)
(* However large its limits, CCG keeps the counters of a scope with the    *)
(* scope, gives no name twice and stops at max_functions functions.        *)
(***************************************************************************)
EXTENDS Generator, SequenceTheorems, FiniteSetTheorems, TLAPS

\* A variable is named by its place in the scope.
NamesAreIndices(ctx) == \A i \in DOMAIN ctx.scope : ctx.scope[i].name = i - 1

\* An integer is no pointer.
IntegersFlat(ctx) ==
  \A i \in DOMAIN ctx.scope : ctx.scope[i].type = "integer" => ctx.scope[i].depth = 0

GoodContext(ctx) ==
  /\ ctx \in Context /\ CountersAgree(ctx) /\ NamesAreIndices(ctx)
  /\ PointersResolve(ctx) /\ IntegersFlat(ctx)

\* The context of one of n functions, with a variable that is no pointer.
InFunction(ctx, n) ==
  /\ ctx.currfunc \in 1 .. n
  /\ ctx.scope # <<>> /\ ctx.scope[1].type = "integer" /\ ctx.scope[1].depth = 0

\* A call that can be made while there are n functions.
GoodCall(call, n) ==
  /\ call \in Calls
  /\ GoodContext(call.ctx)
  /\ call.op # "program" => InFunction(call.ctx, n)
  /\ call.op = "arguments" => call.f \in 1 .. n

TodoOK ==
  /\ todo \in Seq(Calls)
  /\ \A k \in 1 .. Len(todo) : GoodCall(todo[k], Len(funcs))

\* Calls that are never left for later.
OnlyNext == {"program", "functioncall", "ptrassignment", "goto"}

\* The program is made once, at the start; a statement is built as soon as
\* makeStatement() has chosen it, while what made the choice valid still holds.
PlacesOK ==
  \A k \in 1 .. Len(todo) :
    /\ todo[k].op = "program" => k = 1 /\ numfunctions = 0
    /\ todo[k].op = "functioncall" => k = 1 /\ numfunctions < MaxFunctions
    /\ todo[k].op = "ptrassignment" => k = 1 /\ todo[k].ctx.nvars # todo[k].ctx.nintegers
    /\ todo[k].op = "goto" => k = 1 /\ funcs[todo[k].ctx.currfunc].numlabels > 0

GlobalsOK ==
  /\ globalvars \in Seq(Variable)
  /\ \A i \in 1 .. Len(globalvars) :
       globalvars[i].type = "integer" /\ globalvars[i].name = i - 1 /\ globalvars[i].depth = 0
  /\ numfunctions > 0 => globalvars # <<>>

FuncsOK ==
  /\ FuncsTypeOK
  /\ \A f \in 1 .. Len(funcs) :
       /\ GoodContext(funcs[f].context) /\ funcs[f].name = f - 1
       /\ funcs[f].numlabels = Len(funcs[f].labels)

LimitOK == numfunctions = Len(funcs) /\ numfunctions <= MaxFunctions

GoodProgram == TodoOK /\ PlacesOK /\ GlobalsOK /\ FuncsOK /\ LimitOK
-----------------------------------------------------------------------------
(* Contexts *)

LEMMA IntegersFinite ==
  ASSUME NEW s \in Seq(Variable)
  PROVE  IsFiniteSet(IntegersOf(s))
<1>1. IsFiniteSet(1 .. Len(s))
  BY FS_Interval
<1>2. IntegersOf(s) \subseteq 1 .. Len(s)
  BY DEF IntegersOf
<1> QED BY <1>1, <1>2, FS_Subset

LEMMA VariableRecord ==
  ASSUME NEW t \in {"integer", "pointer"}, NEW n \in Nat, NEW w \in Widths,
         NEW d \in Nat, NEW p \in Nat
  PROVE  [type |-> t, name |-> n, width |-> w, depth |-> d, pointed |-> p] \in Variable
BY DEF Variable

LEMMA ContextUpdate ==
  ASSUME NEW ctx \in Context, NEW n \in Nat, NEW k \in Nat, NEW s \in Seq(Variable)
  PROVE  [ctx EXCEPT !.nvars = n, !.nintegers = k, !.scope = s] \in Context
BY DEF Context

LEMMA NoContextGood == GoodContext(NoContext)
<1>1. NoContext.scope = <<>> /\ NoContext.nvars = 0 /\ NoContext.nintegers = 0
  BY DEF NoContext
<1>2. NoContext \in Context
  BY DEF NoContext, Context
<1>3. IntegersOf(<<>>) = {}
  BY DEF IntegersOf
<1>4. CountersAgree(NoContext)
  BY <1>1, <1>3, FS_EmptySet DEF CountersAgree
<1> QED BY <1>1, <1>2, <1>4 DEF GoodContext, NamesAreIndices, PointersResolve, IntegersFlat

\* addVariableToList() and the counters, in a good context, make a good one.
LEMMA DeclareGood ==
  ASSUME NEW ctx, GoodContext(ctx), NEW v \in NewVariables(ctx)
  PROVE  /\ GoodContext(Declare(ctx, v))
         /\ \A m \in Nat : InFunction(ctx, m) => InFunction(Declare(ctx, v), m)
<1> DEFINE s == ctx.scope
           n == Len(s)
           t == Append(s, v)
           d == Declare(ctx, v)
           Points == \E j \in 1 .. n : /\ s[j].name = v.pointed /\ s[j].depth + 1 = v.depth
                                       /\ s[j].width = v.width /\ v.depth <= MaxPointerDepth
<1>1. /\ ctx \in Context /\ s \in Seq(Variable) /\ n \in Nat /\ ctx.nvars = n
      /\ ctx.nintegers = Cardinality(IntegersOf(s)) /\ ctx.nintegers \in Nat
  BY DEF GoodContext, Context, CountersAgree
<1>2. /\ v \in Variable /\ v.name = n /\ (v.type = "pointer" => Points)
      /\ v.type = "integer" => v.depth = 0
  <2>1. CASE \E w \in Widths : v = IntegerVar(ctx.nvars, w)
    BY <1>1, <2>1 DEF IntegerVar, Variable
  <2>2. ASSUME NEW i \in Pointable(ctx), v = PointerVar(ctx.nvars, ctx.scope[i])
        PROVE  v \in Variable /\ v.name = n /\ Points /\ v.type # "integer"
    <3>1. i \in 1 .. n /\ s[i] \in Variable /\ s[i].depth < MaxPointerDepth
      BY <1>1 DEF Pointable
    <3>2. /\ s[i].depth \in Nat /\ s[i].name \in Nat /\ s[i].width \in Widths
          /\ MaxPointerDepth \in Nat
      BY <3>1, GeneratorAssumption DEF Variable
    <3>3. /\ v.name = n /\ v.depth = s[i].depth + 1 /\ v.width = s[i].width
          /\ v.pointed = s[i].name
      BY <1>1, <2>2 DEF PointerVar
    <3>4. v \in Variable
      <4>1. s[i].depth + 1 \in Nat /\ n \in Nat
        BY <1>1, <3>2
      <4>2. v = [type |-> "pointer", name |-> n, width |-> s[i].width,
                 depth |-> s[i].depth + 1, pointed |-> s[i].name]
        BY <1>1, <2>2 DEF PointerVar
      <4> HIDE DEF s, n
      <4> QED BY <3>2, <4>1, <4>2, VariableRecord
    <3>5. v.type = "pointer"
      BY <2>2 DEF PointerVar
    <3> QED BY <3>1, <3>2, <3>3, <3>4, <3>5
  <2> QED BY <2>1, <2>2 DEF NewVariables
<1>3. /\ t \in Seq(Variable) /\ Len(t) = n + 1 /\ t[n + 1] = v
      /\ \A i \in 1 .. n : t[i] = s[i]
  BY <1>1, <1>2, AppendProperties
<1>4. /\ d.scope = t /\ d.nvars = n + 1
      /\ d.nintegers = IF v.type = "integer" THEN ctx.nintegers + 1 ELSE ctx.nintegers
      /\ d \in Context /\ d.currfunc = ctx.currfunc
  <2>1. d.scope = t /\ d.nvars = n + 1 /\ d.currfunc = ctx.currfunc
        /\ d.nintegers = IF v.type = "integer" THEN ctx.nintegers + 1 ELSE ctx.nintegers
    BY <1>1 DEF Declare, Context
  <2>2. /\ ctx.nvars + 1 \in Nat
        /\ (IF v.type = "integer" THEN ctx.nintegers + 1 ELSE ctx.nintegers) \in Nat
        /\ Append(ctx.scope, v) \in Seq(Variable)
    BY <1>1, <1>3 DEF Context
  <2>3. d \in Context
    BY <1>1, <2>2, ContextUpdate DEF Declare
  <2> QED BY <2>1, <2>3
<1> HIDE DEF d, t
<1>5. /\ d.scope = t /\ DOMAIN t = 1 .. n + 1 /\ DOMAIN s = 1 .. n
      /\ 1 .. n + 1 = (1 .. n) \cup {n + 1} /\ n + 1 \notin 1 .. n
  BY <1>1, <1>3, <1>4
<1>6. CountersAgree(d)
  <2>1. IsFiniteSet(IntegersOf(s)) /\ n + 1 \notin IntegersOf(s)
    BY <1>1, <1>5, IntegersFinite DEF IntegersOf
  <2>2. CASE v.type = "integer"
    <3>1. IntegersOf(t) = IntegersOf(s) \cup {n + 1}
      <4> HIDE DEF n, s
      <4> QED BY <1>3, <1>5, <2>2 DEF IntegersOf
    <3>2. Cardinality(IntegersOf(t)) = Cardinality(IntegersOf(s)) + 1
      BY <2>1, <3>1, FS_AddElement
    <3> HIDE DEF s, n
    <3> QED BY <1>1, <1>3, <1>4, <2>2, <3>2 DEF CountersAgree
  <2>3. CASE v.type # "integer"
    <3>1. IntegersOf(t) = IntegersOf(s)
      <4> HIDE DEF n, s
      <4> QED BY <1>3, <1>5, <2>3 DEF IntegersOf
    <3> HIDE DEF s, n
    <3> QED BY <1>1, <1>3, <1>4, <2>3, <3>1 DEF CountersAgree
  <2> QED BY <2>2, <2>3
<1>7. NamesAreIndices(d)
  <2>1. \A i \in 1 .. n : s[i].name = i - 1
    BY <1>1 DEF GoodContext, NamesAreIndices
  <2> QED BY <1>1, <1>2, <1>3, <1>5, <2>1 DEF NamesAreIndices
<1>8. PointersResolve(d)
  <2> SUFFICES ASSUME NEW i \in 1 .. n + 1, t[i].type = "pointer"
               PROVE  /\ t[i].depth <= MaxPointerDepth
                      /\ \E j \in 1 .. i - 1 : /\ t[j].name = t[i].pointed
                                               /\ t[j].depth + 1 = t[i].depth
                                               /\ t[j].width = t[i].width
    <3> HIDE DEF n
    <3> QED BY <1>5 DEF PointersResolve
  <2>1. CASE i = n + 1
    <3>1. t[i] = v /\ Points /\ i - 1 = n
      BY <1>1, <1>2, <1>3, <2>1
    <3>2. PICK j \in 1 .. n : /\ s[j].name = v.pointed /\ s[j].depth + 1 = v.depth
                              /\ s[j].width = v.width /\ v.depth <= MaxPointerDepth
      BY <3>1
    <3>3. t[j] = s[j]
      BY <1>3
    <3> QED BY <3>1, <3>2, <3>3
  <2>2. CASE i \in 1 .. n
    <3>1. t[i] = s[i] /\ \A j \in 1 .. i - 1 : t[j] = s[j]
      <4>1. n \in Nat
        BY <1>1
      <4> HIDE DEF n, s, t
      <4> QED BY <4>1, <1>3, <2>2
    <3>2. /\ s[i].depth <= MaxPointerDepth
          /\ \E j \in 1 .. i - 1 : /\ s[j].name = s[i].pointed
                                   /\ s[j].depth + 1 = s[i].depth
                                   /\ s[j].width = s[i].width
      BY <1>1, <2>2, <3>1 DEF GoodContext, PointersResolve
    <3> QED BY <3>1, <3>2
  <2> QED BY <1>1, <2>1, <2>2
<1>9. ASSUME NEW m \in Nat, InFunction(ctx, m) PROVE InFunction(d, m)
  BY <1>1, <1>3, <1>4, <1>9 DEF InFunction
<1>10. IntegersFlat(d)
  <2>1. \A i \in 1 .. n : s[i].type = "integer" => s[i].depth = 0
    BY <1>1 DEF GoodContext, IntegersFlat
  <2>2. \A i \in 1 .. n + 1 : t[i].type = "integer" => t[i].depth = 0
    <3> HIDE DEF n, s
    <3> QED BY <1>2, <1>3, <1>5, <2>1
  <2> HIDE DEF n, s
  <2> QED BY <1>5, <2>2 DEF IntegersFlat
<1> QED BY <1>4, <1>6, <1>7, <1>8, <1>9, <1>10 DEF GoodContext, d

\* makeFunction() starts a function in the scope of the globals and its parameters.
LEMMA FunctionContextGood ==
  ASSUME NEW g \in Seq(Variable),
         \A i \in 1 .. Len(g) :
           g[i].type = "integer" /\ g[i].name = i - 1 /\ g[i].depth = 0,
         g # <<>>,
         NEW k \in Nat, NEW ps \in [1 .. k -> Widths], NEW f \in Nat
  PROVE  LET ctx == [nvars |-> Len(g) + Len(ps), nintegers |-> Len(g) + Len(ps),
                     scope |-> g \o [i \in DOMAIN ps |-> IntegerVar(Len(g) + i - 1, ps[i])],
                     currfunc |-> f]
         IN GoodContext(ctx) /\ (f \in Nat \ {0} => InFunction(ctx, f))
<1> DEFINE n == Len(g) + k
           e(i) == IntegerVar(Len(g) + i - 1, ps[i])
           params == [i \in 1 .. k |-> e(i)]
           s == g \o params
           ctx == [nvars |-> n, nintegers |-> n, scope |-> s, currfunc |-> f]
<1>1. DOMAIN ps = 1 .. k /\ Len(ps) = k /\ Len(g) \in Nat /\ n \in Nat
  OBVIOUS
<1>2. \A i \in 1 .. k : e(i) \in Variable
  <2> SUFFICES ASSUME NEW i \in 1 .. k PROVE e(i) \in Variable
    OBVIOUS
  <2>1. Len(g) + i - 1 \in Nat /\ ps[i] \in Widths
    BY <1>1
  <2> QED BY <2>1, VariableRecord DEF IntegerVar
<1>3. \A i \in 1 .. k : /\ e(i).type = "integer" /\ e(i).name = Len(g) + i - 1
                         /\ e(i).depth = 0
  BY DEF IntegerVar
<1>4. params \in Seq(Variable) /\ Len(params) = k
  <2> HIDE DEF e
  <2> QED BY <1>2
<1>5. /\ s \in Seq(Variable) /\ Len(s) = n
      /\ \A i \in 1 .. n : s[i] = IF i <= Len(g) THEN g[i] ELSE params[i - Len(g)]
  <2> HIDE DEF params
  <2> QED BY <1>1, <1>4, ConcatProperties
<1>6. \A i \in 1 .. n : s[i].type = "integer" /\ s[i].name = i - 1 /\ s[i].depth = 0
  <2> SUFFICES ASSUME NEW i \in 1 .. n
               PROVE  s[i].type = "integer" /\ s[i].name = i - 1 /\ s[i].depth = 0
    OBVIOUS
  <2>1. CASE i <= Len(g)
    BY <1>1, <1>5, <2>1
  <2>2. CASE i > Len(g)
    <3>1. i - Len(g) \in 1 .. k /\ s[i] = params[i - Len(g)]
      BY <1>1, <1>5, <2>2
    <3>2. s[i] = e(i - Len(g))
      BY <3>1
    <3> HIDE DEF e
    <3> QED BY <1>1, <1>3, <3>1, <3>2
  <2> QED BY <1>1, <2>1, <2>2
<1>7. ctx \in Context
  <2> HIDE DEF s, n
  <2> QED BY <1>1, <1>5 DEF Context
<1> HIDE DEF s, n
<1>8. CountersAgree(ctx)
  <2>1. IntegersOf(s) = 1 .. n
    BY <1>1, <1>5, <1>6 DEF IntegersOf
  <2>2. Cardinality(1 .. n) = n
    BY <1>1, FS_Interval
  <2> QED BY <1>5, <2>1, <2>2 DEF CountersAgree
<1>9. NamesAreIndices(ctx) /\ PointersResolve(ctx) /\ IntegersFlat(ctx)
  BY <1>1, <1>5, <1>6 DEF NamesAreIndices, PointersResolve, IntegersFlat
<1>10. GoodContext(ctx)
  BY <1>7, <1>8, <1>9 DEF GoodContext
<1>11. f \in Nat \ {0} => InFunction(ctx, f)
  <2>1. Len(g) # 0
    OBVIOUS
  <2>2. n # 0 /\ s[1] = g[1] /\ s # <<>>
    <3>1. n # 0 /\ 1 \in 1 .. n /\ 1 <= Len(g)
      BY <1>1, <2>1 DEF n
    <3>2. s[1] = g[1]
      BY <1>5, <3>1
    <3>3. s # <<>>
      <4>1. Len(s) # 0
        BY <1>5, <3>1
      <4> QED BY <4>1
    <3> QED BY <3>1, <3>2, <3>3
  <2> QED BY <1>1, <2>1, <2>2 DEF InFunction
<1> QED BY <1>1, <1>10, <1>11 DEF s, n
-----------------------------------------------------------------------------
(* Calls *)

LEMMA CallRecord ==
  ASSUME NEW op \in Ops, NEW ctx \in Context, NEW nest \in Nat, NEW n \in Nat, NEW f \in Nat
  PROVE  Call(op, ctx, nest, n, f) \in Calls
BY DEF Call, Calls

LEMMA CallUpdate ==
  ASSUME NEW call \in Calls, NEW op \in Ops, NEW ctx \in Context, NEW n \in Nat
  PROVE  /\ [call EXCEPT !.op = op] \in Calls
         /\ [call EXCEPT !.n = n] \in Calls
         /\ [call EXCEPT !.op = op, !.n = n] \in Calls
         /\ [call EXCEPT !.ctx = ctx, !.n = n] \in Calls
BY DEF Calls

\* What a call may leave on the stack when it is made; there are n functions then.
CanFollow(calls, n) ==
  /\ calls \in Seq(Calls)
  /\ \A k \in 1 .. Len(calls) : GoodCall(calls[k], n)
  /\ \A k \in 1 .. Len(calls) : calls[k].op \notin OnlyNext

\* Replacing the next call by such calls keeps the stack good.
LEMMA DoGood ==
  ASSUME TodoOK, PlacesOK, todo # <<>>, Len(funcs) \in Nat, Len(funcs') \in Nat,
         Len(funcs) <= Len(funcs'),
         NEW calls, CanFollow(calls, Len(funcs')), Do(calls)
  PROVE  TodoOK' /\ PlacesOK'
<1>1. /\ todo \in Seq(Calls) /\ Tail(todo) \in Seq(Calls)
      /\ Len(Tail(todo)) = Len(todo) - 1 /\ Len(todo) \in Nat
      /\ \A k \in 1 .. Len(Tail(todo)) : Tail(todo)[k] = todo[k + 1]
  BY HeadTailProperties DEF TodoOK
<1>2. calls \in Seq(Calls) /\ Len(calls) \in Nat
  BY DEF CanFollow
<1>3. /\ todo' \in Seq(Calls) /\ Len(todo') = Len(calls) + Len(todo) - 1
      /\ \A k \in 1 .. Len(todo') :
           todo'[k] = IF k <= Len(calls) THEN calls[k] ELSE Tail(todo)[k - Len(calls)]
  BY <1>1, <1>2, ConcatProperties DEF Do
<1>4. \A k \in 1 .. Len(todo') :
        /\ GoodCall(todo'[k], Len(funcs'))
        /\ todo'[k].op \notin OnlyNext
  <2> SUFFICES ASSUME NEW k \in 1 .. Len(todo')
               PROVE  /\ GoodCall(todo'[k], Len(funcs'))
                      /\ todo'[k].op \notin OnlyNext
    OBVIOUS
  <2>1. CASE k <= Len(calls)
    BY <1>2, <1>3, <2>1 DEF CanFollow
  <2>2. CASE k > Len(calls)
    <3> DEFINE j == k - Len(calls) + 1
    <3>1. j \in 2 .. Len(todo) /\ todo'[k] = todo[j]
      BY <1>1, <1>2, <1>3, <2>2
    <3>2. GoodCall(todo[j], Len(funcs)) /\ todo[j].op \notin OnlyNext
      BY <1>1, <3>1 DEF TodoOK, PlacesOK, OnlyNext
    <3> HIDE DEF j
    <3> QED BY <3>1, <3>2 DEF GoodCall, InFunction
  <2> QED BY <1>2, <2>1, <2>2
<1> QED BY <1>3, <1>4 DEF TodoOK, PlacesOK, OnlyNext

LEMMA NothingFollows == \A n \in Nat : CanFollow(<<>>, n)
BY DEF CanFollow

LEMMA OneFollows ==
  ASSUME NEW n \in Nat, NEW c, GoodCall(c, n), c.op \notin OnlyNext
  PROVE  CanFollow(<<c>>, n)
<1>1. c \in Calls /\ <<c>> \in Seq(Calls) /\ Len(<<c>>) = 1 /\ <<c>>[1] = c
  BY DEF GoodCall
<1> QED BY <1>1 DEF CanFollow

LEMMA BothFollow ==
  ASSUME NEW n \in Nat, NEW c, CanFollow(c, n), NEW d, CanFollow(d, n)
  PROVE  CanFollow(c \o d, n)
<1>1. c \in Seq(Calls) /\ d \in Seq(Calls) /\ Len(c) \in Nat /\ Len(d) \in Nat
  BY DEF CanFollow
<1>2. /\ c \o d \in Seq(Calls) /\ Len(c \o d) = Len(c) + Len(d)
      /\ \A k \in 1 .. Len(c \o d) : (c \o d)[k] = IF k <= Len(c) THEN c[k] ELSE d[k - Len(c)]
  BY <1>1, ConcatProperties
<1>3. \A k \in 1 .. Len(c \o d) :
        GoodCall((c \o d)[k], n) /\ (c \o d)[k].op \notin OnlyNext
  <2> SUFFICES ASSUME NEW k \in 1 .. Len(c \o d)
               PROVE  /\ GoodCall((c \o d)[k], n)
                      /\ (c \o d)[k].op \notin OnlyNext
    OBVIOUS
  <2>1. CASE k <= Len(c)
    BY <1>1, <1>2, <2>1 DEF CanFollow
  <2>2. CASE k > Len(c)
    BY <1>1, <1>2, <2>2 DEF CanFollow
  <2> QED BY <1>1, <1>2, <2>1, <2>2
<1> QED BY <1>2, <1>3 DEF CanFollow

LEMMA TwoFollow ==
  ASSUME NEW n \in Nat,
         NEW c, GoodCall(c, n), c.op \notin OnlyNext,
         NEW d, GoodCall(d, n), d.op \notin OnlyNext
  PROVE  CanFollow(<<c, d>>, n)
<1>1. c \in Calls /\ d \in Calls
  BY DEF GoodCall
<1>2. <<c, d>> \in Seq(Calls) /\ Len(<<c, d>>) = 2 /\ <<c, d>>[1] = c /\ <<c, d>>[2] = d
  BY <1>1
<1> QED BY <1>2 DEF CanFollow

LEMMA ManyFollow ==
  ASSUME NEW n \in Nat, NEW k \in Nat,
         NEW c, GoodCall(c, n), c.op \notin OnlyNext
  PROVE  CanFollow(Times(k, c), n)
<1>1. c \in Calls
  BY DEF GoodCall
<1>2. /\ Times(k, c) \in Seq(Calls) /\ Len(Times(k, c)) = k
      /\ \A i \in 1 .. k : Times(k, c)[i] = c
  BY <1>1 DEF Times
<1> QED BY <1>2 DEF CanFollow

\* The call on top is good, and a call in its context is too.
LEMMA NextGood ==
  ASSUME GoodProgram, todo # <<>>
  PROVE  /\ GoodCall(Next1, Len(funcs)) /\ Next1 \in Calls /\ GoodContext(Next1.ctx)
         /\ Next1.op \in Ops /\ Next1.ctx \in Context /\ Next1.nest \in Nat
         /\ Next1.n \in Nat /\ Next1.f \in Nat
         /\ Len(funcs) \in Nat
         /\ Next1.op # "program" => InFunction(Next1.ctx, Len(funcs))
<1>1. todo \in Seq(Calls) /\ Len(todo) \in Nat \ {0} /\ Next1 = todo[1]
  BY DEF GoodProgram, TodoOK, Next1
<1>2. GoodCall(Next1, Len(funcs))
  BY <1>1 DEF GoodProgram, TodoOK
<1>3. Len(funcs) \in Nat
  BY DEF GoodProgram, FuncsOK, FuncsTypeOK
<1> QED BY <1>2, <1>3 DEF GoodCall, Calls

LEMMA CallGood ==
  ASSUME NEW op \in Ops \ {"arguments"}, NEW ctx, GoodContext(ctx), NEW nest \in Nat,
         NEW n \in Nat, NEW f \in Nat, NEW m \in Nat,
         op # "program" => InFunction(ctx, m)
  PROVE  GoodCall(Call(op, ctx, nest, n, f), m)
<1>1. Call(op, ctx, nest, n, f) \in Calls
  BY CallRecord DEF GoodContext
<1>2. /\ Call(op, ctx, nest, n, f).op = op
      /\ Call(op, ctx, nest, n, f).ctx = ctx
  BY DEF Call
<1> QED BY <1>1, <1>2 DEF GoodCall

\* A step that only makes the next call and leaves the program as it is.
LEMMA QuietStep ==
  ASSUME GoodProgram, todo # <<>>, NEW calls, CanFollow(calls, Len(funcs)), Do(calls),
         UNCHANGED <<globalvars, funcs, numfunctions, functions>>, dead' \in BOOLEAN
  PROVE  GoodProgram'
<1>1. Len(funcs) \in Nat
  BY DEF GoodProgram, FuncsOK, FuncsTypeOK
<1>2. TodoOK' /\ PlacesOK'
  BY <1>1, DoGood DEF GoodProgram
<1>3. GlobalsOK' /\ LimitOK'
  BY DEF GoodProgram, GlobalsOK, LimitOK
<1>4. FuncsOK'
  BY DEF GoodProgram, FuncsOK, FuncsTypeOK
<1> QED BY <1>2, <1>3, <1>4 DEF GoodProgram

LEMMA DeathIsBoolean ==
  ASSUME NEW ctx, NEW type
  PROVE  SelectionFails(ctx, type) \in BOOLEAN /\ PickFails(ctx) \in BOOLEAN
BY DEF SelectionFails, PickFails
-----------------------------------------------------------------------------
(* Functions *)

Function ==
  [name : Nat, params : Nat, numlabels : Nat, labels : Seq(Nat),
   text : Seq({"label", "goto", "call"} \X Nat), body : Nat, context : Context]

\* What a step may make of a function: its name and a good context are kept.
SameFunction(r, f) ==
  /\ r \in Function /\ GoodContext(r.context) /\ r.name = funcs[f].name
  /\ r.numlabels = Len(r.labels)

\* A function is changed, the list of functions stays as long as it is.
LEMMA FunctionChanged ==
  ASSUME FuncsOK, LimitOK, NEW f, NEW r, funcs' = [funcs EXCEPT ![f] = r],
         f \in 1 .. Len(funcs) => SameFunction(r, f),
         functions' \in Seq(Nat), dead' \in BOOLEAN, numfunctions' = numfunctions
  PROVE  FuncsOK' /\ LimitOK' /\ Len(funcs') = Len(funcs) /\ Len(funcs) \in Nat
<1>1. funcs \in Seq(Function) /\ Len(funcs) \in Nat /\ DOMAIN funcs = 1 .. Len(funcs)
  BY DEF FuncsOK, FuncsTypeOK, Function
<1> DEFINE e(g) == IF g = f THEN r ELSE funcs[g]
<1>2. funcs' = [g \in 1 .. Len(funcs) |-> e(g)]
  BY <1>1
<1>3. \A g \in 1 .. Len(funcs) : e(g) \in Function
  BY <1>1, ElementOfSeq DEF SameFunction
<1>4. funcs' \in Seq(Function) /\ Len(funcs') = Len(funcs)
  <2> DEFINE n == Len(funcs)
             F == [g \in 1 .. n |-> e(g)]
  <2>1. n \in Nat /\ \A g \in 1 .. n : e(g) \in Function
    BY <1>1, <1>3
  <2>2. F \in Seq(Function) /\ Len(F) = n
    <3> HIDE DEF e, n
    <3> QED BY <2>1
  <2> QED BY <1>2, <2>2
<1>5. \A g \in 1 .. Len(funcs) :
        /\ GoodContext(funcs'[g].context) /\ funcs'[g].name = g - 1
        /\ funcs'[g].numlabels = Len(funcs'[g].labels)
  BY <1>1, <1>2 DEF FuncsOK, SameFunction
<1>6. FuncsTypeOK'
  BY <1>4 DEF FuncsOK, FuncsTypeOK, Function
<1> QED BY <1>1, <1>4, <1>5, <1>6 DEF FuncsOK, LimitOK

LEMMA WriteKeeps ==
  ASSUME FuncsOK, NEW f \in 1 .. Len(funcs),
         NEW item \in {"label", "goto", "call"} \X Nat
  PROVE  SameFunction([funcs[f] EXCEPT !.text = Append(@, item)], f)
<1>1. /\ funcs[f] \in Function /\ GoodContext(funcs[f].context)
      /\ funcs[f].numlabels = Len(funcs[f].labels)
  <2>1. funcs \in Seq(Function)
    BY DEF FuncsOK, FuncsTypeOK, Function
  <2> QED BY <2>1, ElementOfSeq DEF FuncsOK
<1>2. funcs[f].text \in Seq({"label", "goto", "call"} \X Nat)
  BY <1>1 DEF Function
<1>3. Append(funcs[f].text, item) \in Seq({"label", "goto", "call"} \X Nat)
  BY <1>2
<1> QED BY <1>1, <1>3 DEF SameFunction, Function

LEMMA AddLabelKeeps ==
  ASSUME FuncsOK, NEW f \in 1 .. Len(funcs)
  PROVE  SameFunction(AddLabel(funcs[f]), f)
<1>1. /\ funcs[f] \in Function /\ GoodContext(funcs[f].context)
      /\ funcs[f].numlabels = Len(funcs[f].labels)
  <2>1. funcs \in Seq(Function)
    BY DEF FuncsOK, FuncsTypeOK, Function
  <2> QED BY <2>1, ElementOfSeq DEF FuncsOK
<1> DEFINE l == Len(funcs[f].labels) + 1
<1>2. /\ funcs[f].text \in Seq({"label", "goto", "call"} \X Nat)
      /\ funcs[f].labels \in Seq(Nat) /\ l \in Nat /\ funcs[f].numlabels + 1 \in Nat
  BY <1>1 DEF Function
<1>3. /\ Append(funcs[f].text, <<"label", l>>) \in Seq({"label", "goto", "call"} \X Nat)
      /\ Append(funcs[f].labels, l) \in Seq(Nat)
  <2> HIDE DEF l
  <2> QED BY <1>2
<1> DEFINE r == AddLabel(funcs[f])
<1>4. /\ r.name = funcs[f].name /\ r.context = funcs[f].context
      /\ r.numlabels = Len(r.labels)
  <2>1. /\ r.name = funcs[f].name /\ r.context = funcs[f].context
        /\ r.numlabels = funcs[f].numlabels + 1 /\ r.labels = Append(funcs[f].labels, l)
    BY <1>1 DEF AddLabel, Function
  <2>2. Len(Append(funcs[f].labels, l)) = Len(funcs[f].labels) + 1
    <3> HIDE DEF l
    <3> QED BY <1>2, AppendProperties
  <2> HIDE DEF r, l
  <2> QED BY <1>1, <2>1, <2>2
<1>5. r \in Function
  BY <1>1, <1>2, <1>3 DEF Function, AddLabel
<1> HIDE DEF r
<1> QED BY <1>1, <1>4, <1>5 DEF SameFunction, r

LEMMA NewFunctionType ==
  ASSUME NEW k \in Nat, numfunctions \in Nat
  PROVE  /\ NewFunction(k) \in Function /\ GoodContext(NewFunction(k).context)
         /\ NewFunction(k).name = numfunctions
         /\ NewFunction(k).numlabels = Len(NewFunction(k).labels)
<1>1. NoContext \in Context /\ GoodContext(NoContext)
  BY NoContextGood DEF GoodContext
<1>2. /\ Len(<<>>) = 0 /\ <<>> \in Seq(Nat) /\ <<>> \in Seq({"label", "goto", "call"} \X Nat)
  OBVIOUS
<1> QED BY <1>1, <1>2 DEF NewFunction, Function

\* makeFunction() begins a function while the limit allows one; whatever is to
\* follow it, the call of the new function among it, is good by then.
LEMMA EnterGood ==
  ASSUME GoodProgram, todo # <<>>, numfunctions < MaxFunctions, GlobalsOK',
         NEW ps \in ParameterLists, NEW after, CanFollow(after, Len(funcs) + 1),
         EnterFunction(globalvars', ps, after), UNCHANGED <<functions, dead>>
  PROVE  GoodProgram'
<1> DEFINE g == globalvars'
           f == Len(funcs) + 1
           ctx == [nvars |-> Len(g) + Len(ps), nintegers |-> Len(g) + Len(ps),
                   scope |-> g \o [i \in DOMAIN ps |-> IntegerVar(Len(g) + i - 1, ps[i])],
                   currfunc |-> f]
           c == Call("functionBlock", ctx, 0, 0, f)
<1>1. PICK k \in Nat : ps \in [1 .. k -> Widths]
  <2>1. 0 .. MaxFunctionParameters \subseteq Nat
    BY GeneratorAssumption
  <2> QED BY <2>1 DEF ParameterLists
<1>2. /\ funcs \in Seq(Function) /\ Len(funcs) \in Nat /\ f \in Nat
      /\ numfunctions = Len(funcs) /\ numfunctions \in Nat /\ MaxFunctions \in Nat
      /\ functions \in Seq(Nat) /\ dead \in BOOLEAN
  BY GeneratorAssumption DEF GoodProgram, FuncsOK, FuncsTypeOK, LimitOK, Function
<1>3. GoodContext(ctx) /\ InFunction(ctx, f)
  <2>1. /\ g \in Seq(Variable) /\ g # <<>>
        /\ \A i \in 1 .. Len(g) :
             g[i].type = "integer" /\ g[i].name = i - 1 /\ g[i].depth = 0
    BY <1>2 DEF GlobalsOK, EnterFunction
  <2>2. f \in Nat \ {0}
    BY <1>2
  <2> HIDE DEF f, g
  <2> QED BY <1>1, <1>2, <2>1, <2>2, FunctionContextGood
<1>4. /\ funcs' = Append(funcs, NewFunction(Len(ps))) /\ numfunctions' = numfunctions + 1
      /\ Do(<<c>> \o after)
  BY DEF EnterFunction
<1> HIDE DEF ctx
<1>5. Len(ps) \in Nat /\ NewFunction(Len(ps)) \in Function
      /\ GoodContext(NewFunction(Len(ps)).context) /\ NewFunction(Len(ps)).name = numfunctions
      /\ NewFunction(Len(ps)).numlabels = Len(NewFunction(Len(ps)).labels)
  <2>1. Len(ps) \in Nat
    BY <1>1
  <2> QED BY <1>2, <2>1, NewFunctionType
<1>6. /\ funcs' \in Seq(Function) /\ Len(funcs') = f
      /\ \A h \in 1 .. Len(funcs) : funcs'[h] = funcs[h]
      /\ funcs'[f] = NewFunction(Len(ps))
  BY <1>2, <1>4, <1>5, AppendProperties
<1>7. FuncsOK' /\ LimitOK'
  <2>1. \A h \in 1 .. f :
          /\ GoodContext(funcs'[h].context) /\ funcs'[h].name = h - 1
          /\ funcs'[h].numlabels = Len(funcs'[h].labels)
    <3>1. \A h \in 1 .. Len(funcs) :
            /\ GoodContext(funcs[h].context) /\ funcs[h].name = h - 1
            /\ funcs[h].numlabels = Len(funcs[h].labels)
      BY DEF GoodProgram, FuncsOK
    <3>2. \A h \in 1 .. Len(funcs) :
            /\ GoodContext(funcs'[h].context) /\ funcs'[h].name = h - 1
            /\ funcs'[h].numlabels = Len(funcs'[h].labels)
      BY <1>6, <3>1
    <3>3. /\ GoodContext(funcs'[f].context) /\ funcs'[f].name = f - 1
          /\ funcs'[f].numlabels = Len(funcs'[f].labels)
      BY <1>2, <1>5, <1>6
    <3>4. \A h \in 1 .. f : h \in 1 .. Len(funcs) \/ h = f
      BY <1>2
    <3> HIDE DEF f
    <3> QED BY <3>2, <3>3, <3>4
  <2>2. FuncsTypeOK'
    BY <1>2, <1>4, <1>6 DEF FuncsTypeOK, Function
  <2> QED BY <1>2, <1>4, <1>6, <2>1, <2>2 DEF FuncsOK, LimitOK
<1>8. CanFollow(<<c>> \o after, f)
  <2>1. GoodCall(c, f) /\ c.op = "functionBlock"
    BY <1>2, <1>3, CallGood DEF Ops, Call
  <2>2. CanFollow(<<c>>, f)
    <3> HIDE DEF c, f
    <3> QED BY <1>2, <2>1, OneFollows DEF OnlyNext
  <2> HIDE DEF c, f
  <2> QED BY <1>2, <2>2, BothFollow DEF f
<1>9. TodoOK' /\ PlacesOK'
  <2> HIDE DEF c
  <2> QED BY <1>2, <1>4, <1>6, <1>8, DoGood DEF GoodProgram
<1> QED BY <1>7, <1>9 DEF GoodProgram
-----------------------------------------------------------------------------
(* Steps *)

LEMMA MakeProgramGood == GoodProgram /\ MakeProgram => GoodProgram'
<1> SUFFICES ASSUME GoodProgram, MakeProgram PROVE GoodProgram'
  OBVIOUS
<1>0. PICK k \in GlobalCounts : \E ws \in [1 .. k -> Widths] :
        /\ globalvars' = [i \in 1 .. k |-> IntegerVar(i - 1, ws[i])]
        /\ EnterFunction(globalvars', <<>>, <<>>)
  BY DEF MakeProgram
<1>1. PICK ws \in [1 .. k -> Widths] :
        /\ globalvars' = [i \in 1 .. k |-> IntegerVar(i - 1, ws[i])]
        /\ EnterFunction(globalvars', <<>>, <<>>)
  BY <1>0
<1>2. k \in Nat \ {0}
  BY GeneratorAssumption
<1>3. todo # <<>> /\ Next1.op = "program" /\ UNCHANGED <<functions, dead>>
  BY DEF MakeProgram, At
<1>4. numfunctions = 0 /\ numfunctions < MaxFunctions /\ Len(funcs) \in Nat
  <2>1. Len(todo) \in Nat \ {0} /\ Next1 = todo[1]
    BY <1>3 DEF GoodProgram, TodoOK, Next1
  <2>2. Len(funcs) \in Nat
    BY DEF GoodProgram, FuncsOK, FuncsTypeOK
  <2> QED BY <1>3, <2>1, <2>2, GeneratorAssumption DEF GoodProgram, PlacesOK
<1>5. GlobalsOK'
  <2> DEFINE e(i) == IntegerVar(i - 1, ws[i])
             g == [i \in 1 .. k |-> e(i)]
  <2>1. \A i \in 1 .. k : /\ e(i) \in Variable /\ e(i).type = "integer"
                           /\ e(i).name = i - 1 /\ e(i).depth = 0
    <3> SUFFICES ASSUME NEW i \in 1 .. k
                 PROVE  /\ e(i) \in Variable /\ e(i).type = "integer"
                        /\ e(i).name = i - 1 /\ e(i).depth = 0
      OBVIOUS
    <3>1. i - 1 \in Nat /\ ws[i] \in Widths
      BY <1>2
    <3> QED BY <3>1, VariableRecord DEF IntegerVar
  <2>2. /\ g \in Seq(Variable) /\ Len(g) = k
        /\ \A i \in 1 .. k : g[i].type = "integer" /\ g[i].name = i - 1 /\ g[i].depth = 0
    <3> HIDE DEF e
    <3> QED BY <1>2, <2>1
  <2>3. g # <<>>
    BY <1>2, <2>2
  <2> QED BY <1>1, <2>2, <2>3 DEF GlobalsOK
<1>6. <<>> \in ParameterLists
  <2>1. 0 \in 0 .. MaxFunctionParameters /\ <<>> \in [1 .. 0 -> Widths]
    BY GeneratorAssumption
  <2> QED BY <2>1 DEF ParameterLists
<1>7. CanFollow(<<>>, Len(funcs) + 1)
  BY <1>4, NothingFollows
<1> QED BY <1>1, <1>3, <1>4, <1>5, <1>6, <1>7, EnterGood

\* A function is begun only once the globals are there.
LEMMA GlobalsThere ==
  ASSUME GoodProgram, todo # <<>>, Next1.op # "program"
  PROVE  globalvars # <<>>
<1>1. Len(funcs) > 0 /\ numfunctions = Len(funcs)
  BY NextGood DEF InFunction, GoodProgram, LimitOK
<1> QED BY <1>1 DEF GoodProgram, GlobalsOK

\* The limit is asked for before a function is begun, here ...
LEMMA BuildFunctionCallGood == GoodProgram /\ BuildFunctionCall => GoodProgram'
<1> SUFFICES ASSUME GoodProgram, BuildFunctionCall PROVE GoodProgram'
  OBVIOUS
<1> DEFINE a == Call("arguments", Next1.ctx, Next1.nest + 1, 0, Len(funcs) + 1)
<1>1. /\ todo # <<>> /\ Next1.op = "functioncall" /\ UNCHANGED <<functions, dead>>
      /\ globalvars' = globalvars
  BY DEF BuildFunctionCall, At
<1>2. PICK ps \in ParameterLists : EnterFunction(globalvars', ps, <<a>>)
  BY <1>1 DEF BuildFunctionCall
<1>3. numfunctions < MaxFunctions
  <2>1. Len(todo) \in Nat \ {0} /\ Next1 = todo[1]
    BY <1>1 DEF GoodProgram, TodoOK, Next1
  <2> QED BY <1>1, <2>1 DEF GoodProgram, PlacesOK
<1>4. CanFollow(<<a>>, Len(funcs) + 1)
  <2>1. /\ Next1.ctx \in Context /\ GoodContext(Next1.ctx) /\ Next1.nest + 1 \in Nat
        /\ Len(funcs) \in Nat /\ InFunction(Next1.ctx, Len(funcs) + 1)
    BY <1>1, NextGood DEF InFunction
  <2>2. a \in Calls
    BY <2>1, CallRecord DEF Ops
  <2>3. a.op = "arguments" /\ a.ctx = Next1.ctx /\ a.f = Len(funcs) + 1
    BY DEF Call
  <2> HIDE DEF a
  <2>4. GoodCall(a, Len(funcs) + 1)
    BY <2>1, <2>2, <2>3 DEF GoodCall
  <2> QED BY <2>1, <2>3, <2>4, OneFollows DEF OnlyNext
<1>5. GlobalsOK'
  BY <1>1, GlobalsThere DEF GoodProgram, GlobalsOK
<1> HIDE DEF a
<1> QED BY <1>1, <1>2, <1>3, <1>4, <1>5, EnterGood

\* ... and here.
LEMMA BuildFunctionCallExprGood == GoodProgram /\ BuildFunctionCallExpr => GoodProgram'
<1> SUFFICES ASSUME GoodProgram, BuildFunctionCallExpr PROVE GoodProgram'
  OBVIOUS
<1> DEFINE a == Call("arguments", Next1.ctx, Next1.nest + 2, 1, Len(funcs) + 1)
<1>1. /\ todo # <<>> /\ Next1.op = "expression" /\ ~CallIsInvalid /\ UNCHANGED <<functions, dead>>
      /\ globalvars' = globalvars
  BY DEF BuildFunctionCallExpr, At
<1>2. PICK ps \in ParameterLists : EnterFunction(globalvars', ps, <<a>>)
  BY <1>1 DEF BuildFunctionCallExpr
<1>3. numfunctions < MaxFunctions
  <2>1. numfunctions \in Nat /\ MaxFunctions \in Nat
    BY GeneratorAssumption DEF GoodProgram, FuncsOK, FuncsTypeOK
  <2> QED BY <1>1, <2>1 DEF CallIsInvalid
<1>4. CanFollow(<<a>>, Len(funcs) + 1)
  <2>1. /\ Next1.ctx \in Context /\ GoodContext(Next1.ctx) /\ Next1.nest + 2 \in Nat
        /\ Len(funcs) \in Nat /\ InFunction(Next1.ctx, Len(funcs) + 1)
    BY <1>1, NextGood DEF InFunction
  <2>2. a \in Calls
    BY <2>1, CallRecord DEF Ops
  <2>3. a.op = "arguments" /\ a.ctx = Next1.ctx /\ a.f = Len(funcs) + 1
    BY DEF Call
  <2> HIDE DEF a
  <2>4. GoodCall(a, Len(funcs) + 1)
    BY <2>1, <2>2, <2>3 DEF GoodCall
  <2> QED BY <2>1, <2>3, <2>4, OneFollows DEF OnlyNext
<1>5. GlobalsOK'
  BY <1>1, GlobalsThere DEF GoodProgram, GlobalsOK
<1> HIDE DEF a
<1> QED BY <1>1, <1>2, <1>3, <1>4, <1>5, EnterGood

\* A call that is the next one again, at another place of the same function.
LEMMA AgainFollows ==
  ASSUME GoodProgram, todo # <<>>, Next1.op # "program",
         NEW op \in Ops \ (OnlyNext \cup {"arguments"}), NEW n \in Nat
  PROVE  CanFollow(<<[Next1 EXCEPT !.op = op, !.n = n]>>, Len(funcs))
<1> DEFINE c == [Next1 EXCEPT !.op = op, !.n = n]
<1>1. /\ Next1 \in Calls /\ GoodContext(Next1.ctx) /\ Next1.ctx \in Context
      /\ Len(funcs) \in Nat /\ InFunction(Next1.ctx, Len(funcs))
  BY NextGood
<1>2. c \in Calls
  BY <1>1, CallUpdate
<1>3. c.op = op /\ c.ctx = Next1.ctx
  BY <1>1 DEF Calls
<1> HIDE DEF c
<1>4. GoodCall(c, Len(funcs)) /\ c.op \notin OnlyNext
  BY <1>1, <1>2, <1>3 DEF GoodCall, OnlyNext
<1> QED BY <1>1, <1>4, OneFollows DEF c

LEMMA EnterBlockGood == GoodProgram /\ EnterBlock => GoodProgram'
<1> SUFFICES ASSUME GoodProgram, EnterBlock PROVE GoodProgram'
  OBVIOUS
<1>1. /\ todo # <<>> /\ Next1.op \in {"block", "functionBlock"}
      /\ UNCHANGED <<globalvars, funcs, numfunctions, functions, dead>>
  BY DEF EnterBlock, At
<1>2. PICK k \in NumLocals(Next1.nest), op \in {"locals", "functionLocals"} :
        Do(<<[Next1 EXCEPT !.op = op, !.n = k]>>)
  BY DEF EnterBlock
<1>3. k \in Nat
  BY GeneratorAssumption DEF NumLocals
<1>4. CanFollow(<<[Next1 EXCEPT !.op = op, !.n = k]>>, Len(funcs))
  BY <1>1, <1>3, AgainFollows DEF Ops, OnlyNext
<1>5. dead' \in BOOLEAN
  BY <1>1 DEF GoodProgram, FuncsOK, FuncsTypeOK
<1> QED BY <1>1, <1>2, <1>4, <1>5, QuietStep

LEMMA MakeLocalGood == GoodProgram /\ MakeLocal => GoodProgram'
<1> SUFFICES ASSUME GoodProgram, MakeLocal PROVE GoodProgram'
  OBVIOUS
<1>1. /\ todo # <<>> /\ Next1.n > 0 /\ Next1.op \in {"locals", "functionLocals"}
      /\ dead' = PickFails(Next1.ctx)
      /\ UNCHANGED <<globalvars, funcs, numfunctions, functions>>
  BY DEF MakeLocal, At
<1>2. PICK v \in NewVariables(Next1.ctx) :
        Do(<<[Next1 EXCEPT !.ctx = Declare(@, v), !.n = @ - 1]>>)
  BY DEF MakeLocal
<1> DEFINE ctx == Declare(Next1.ctx, v)
           c == [Next1 EXCEPT !.ctx = Declare(@, v), !.n = @ - 1]
<1>3. /\ Next1 \in Calls /\ GoodContext(Next1.ctx) /\ Next1.n \in Nat
      /\ Len(funcs) \in Nat /\ InFunction(Next1.ctx, Len(funcs))
  BY <1>1, NextGood
<1>4. GoodContext(ctx) /\ ctx \in Context /\ InFunction(ctx, Len(funcs))
  <2>1. GoodContext(ctx) /\ InFunction(ctx, Len(funcs))
    BY <1>3, DeclareGood
  <2> QED BY <2>1 DEF GoodContext
<1>5. c = [Next1 EXCEPT !.ctx = ctx, !.n = Next1.n - 1]
  BY <1>3 DEF Calls
<1>6. c \in Calls
  <2>1. Next1.n - 1 \in Nat
    BY <1>1, <1>3
  <2> HIDE DEF ctx, c
  <2> QED BY <1>3, <1>4, <1>5, <2>1, CallUpdate DEF Ops
<1>7. c.op = Next1.op /\ c.ctx = ctx
  BY <1>3 DEF Calls
<1> HIDE DEF c, ctx
<1>8. CanFollow(<<c>>, Len(funcs))
  <2>1. GoodCall(c, Len(funcs)) /\ c.op \notin OnlyNext
    BY <1>1, <1>4, <1>6, <1>7 DEF GoodCall, OnlyNext
  <2> QED BY <1>3, <2>1, OneFollows
<1>9. Do(<<c>>)
  BY <1>2 DEF c
<1>10. dead' \in BOOLEAN
  BY <1>1, DeathIsBoolean
<1> QED BY <1>1, <1>8, <1>9, <1>10, QuietStep

LEMMA BlockStatementsGood == GoodProgram /\ BlockStatements => GoodProgram'
<1> SUFFICES ASSUME GoodProgram, BlockStatements PROVE GoodProgram'
  OBVIOUS
<1>1. /\ todo # <<>> /\ Next1.op = "locals"
      /\ UNCHANGED <<globalvars, funcs, numfunctions, functions, dead>>
  BY DEF BlockStatements, At
<1>2. /\ GoodContext(Next1.ctx) /\ Next1.nest \in Nat /\ Len(funcs) \in Nat
      /\ InFunction(Next1.ctx, Len(funcs)) /\ dead' \in BOOLEAN
  BY <1>1, NextGood DEF GoodProgram, FuncsOK, FuncsTypeOK
<1>3. CASE Do(<<>>)
  BY <1>1, <1>2, <1>3, NothingFollows, QuietStep
<1>4. ASSUME NEW k \in 0 .. MaxStatementsPerBlock - 1,
             Do(<<Call("statements", Next1.ctx, Next1.nest, k, 0)>>)
      PROVE  GoodProgram'
  <2> DEFINE c == Call("statements", Next1.ctx, Next1.nest, k, 0)
  <2>1. k \in Nat
    BY GeneratorAssumption
  <2>2. GoodCall(c, Len(funcs)) /\ c.op = "statements"
    BY <1>2, <2>1, CallGood DEF Ops, Call
  <2>3. CanFollow(<<c>>, Len(funcs))
    <3> HIDE DEF c
    <3> QED BY <1>2, <2>2, OneFollows DEF OnlyNext
  <2> HIDE DEF c
  <2> QED BY <1>1, <1>2, <1>4, <2>3, QuietStep DEF c
<1> QED BY <1>3, <1>4 DEF BlockStatements

LEMMA NextStatementGood == GoodProgram /\ NextStatement => GoodProgram'
<1> SUFFICES ASSUME GoodProgram, NextStatement PROVE GoodProgram'
  OBVIOUS
<1>1. todo # <<>> /\ Next1.op = "statements"
      /\ UNCHANGED <<globalvars, funcs, numfunctions, functions, dead>>
  BY DEF NextStatement, At
<1>2. /\ GoodContext(Next1.ctx) /\ Next1.ctx \in Context /\ Next1.nest \in Nat
      /\ Next1.n \in Nat /\ Next1 \in Calls /\ InFunction(Next1.ctx, Len(funcs))
      /\ Len(funcs) \in Nat /\ dead' \in BOOLEAN
  BY <1>1, NextGood DEF GoodProgram, FuncsOK, FuncsTypeOK
<1>3. CASE Next1.n = 0
  <2>1. Do(<<>>)
    BY <1>3 DEF NextStatement
  <2> QED BY <1>1, <1>2, <2>1, NothingFollows, QuietStep
<1>4. CASE Next1.n # 0
  <2> DEFINE c == Call("statement", Next1.ctx, Next1.nest, LastOfBlock(Next1.n), 0)
             d == [Next1 EXCEPT !.n = LeftAfter(@)]
  <2>1. LastOfBlock(Next1.n) \in Nat /\ LeftAfter(Next1.n) \in Nat
    BY <1>2, <1>4 DEF LastOfBlock, LeftAfter
  <2>2. GoodCall(c, Len(funcs)) /\ c.op = "statement"
    BY <1>2, <2>1, CallGood DEF Ops, Call
  <2>3. GoodCall(d, Len(funcs)) /\ d.op = "statements"
    <3>1. d = [Next1 EXCEPT !.n = LeftAfter(Next1.n)]
      BY <1>2 DEF Calls
    <3>2. d \in Calls
      BY <1>2, <2>1, <3>1, CallUpdate DEF Ops
    <3>3. d.op = "statements" /\ d.ctx = Next1.ctx
      BY <1>1, <1>2 DEF Calls
    <3> HIDE DEF d
    <3> QED BY <1>2, <3>2, <3>3 DEF GoodCall
  <2>4. Do(<<c, d>>)
    BY <1>4 DEF NextStatement
  <2> HIDE DEF c, d
  <2>5. CanFollow(<<c, d>>, Len(funcs))
    BY <1>2, <2>2, <2>3, TwoFollow DEF OnlyNext
  <2> QED BY <1>1, <1>2, <2>4, <2>5, QuietStep
<1> QED BY <1>3, <1>4

LEMMA SameCallGood ==
  ASSUME GoodProgram, todo # <<>>, Next1.op # "program", NEW op \in Ops \ {"arguments"}
  PROVE  /\ GoodCall([Next1 EXCEPT !.op = op], Len(funcs))
         /\ [Next1 EXCEPT !.op = op].op = op
<1> DEFINE c == [Next1 EXCEPT !.op = op]
<1>1. /\ Next1 \in Calls /\ GoodContext(Next1.ctx) /\ Next1.ctx \in Context
      /\ InFunction(Next1.ctx, Len(funcs))
  BY NextGood
<1>2. c \in Calls
  BY <1>1, CallUpdate
<1>3. c.op = op /\ c.ctx = Next1.ctx
  BY <1>1 DEF Calls
<1> HIDE DEF c
<1>4. GoodCall(c, Len(funcs))
  BY <1>1, <1>2, <1>3 DEF GoodCall
<1> QED BY <1>3, <1>4 DEF c

LEMMA FunctionStatementGood == GoodProgram /\ FunctionStatement => GoodProgram'
<1> SUFFICES ASSUME GoodProgram, FunctionStatement PROVE GoodProgram'
  OBVIOUS
<1> DEFINE c == Call("statement", Next1.ctx, Next1.nest, 1, 0)
           d == [Next1 EXCEPT !.op = "functionMade"]
           rest == IF Next1.f = 0 THEN <<>> ELSE <<d>>
<1>1. /\ todo # <<>> /\ Next1.op = "functionLocals" /\ Do(<<c>> \o rest)
      /\ UNCHANGED <<globalvars, funcs, numfunctions, functions, dead>>
  BY DEF FunctionStatement, At
<1>2. /\ GoodContext(Next1.ctx) /\ Next1.nest \in Nat /\ Len(funcs) \in Nat
      /\ InFunction(Next1.ctx, Len(funcs)) /\ dead' \in BOOLEAN
  BY <1>1, NextGood DEF GoodProgram, FuncsOK, FuncsTypeOK
<1>3. GoodCall(c, Len(funcs)) /\ c.op = "statement"
  BY <1>2, CallGood DEF Ops, Call
<1>4. GoodCall(d, Len(funcs)) /\ d.op = "functionMade"
  BY <1>1, SameCallGood DEF Ops
<1> HIDE DEF c, d
<1>5. CanFollow(<<c>>, Len(funcs)) /\ CanFollow(<<d>>, Len(funcs))
  BY <1>2, <1>3, <1>4, OneFollows DEF OnlyNext
<1>6. CanFollow(rest, Len(funcs))
  BY <1>2, <1>5, NothingFollows
<1> HIDE DEF rest
<1>7. CanFollow(<<c>> \o rest, Len(funcs))
  BY <1>2, <1>5, <1>6, BothFollow
<1> QED BY <1>1, <1>2, <1>7, QuietStep

\* The next call becomes a statement of a valid type; its function may get a label.
LEMMA MakeStatementGood == GoodProgram /\ MakeStatement => GoodProgram'
<1> SUFFICES ASSUME GoodProgram, MakeStatement PROVE GoodProgram'
  OBVIOUS
<1>1. /\ todo # <<>> /\ todo \in Seq(Calls) /\ Next1.op = "statement"
      /\ UNCHANGED <<globalvars, numfunctions, functions, dead>>
  BY DEF MakeStatement, At, GoodProgram, TodoOK
<1>2. PICK type \in StatementTypes :
        /\ ~IsInvalid(type, Next1.ctx, Next1.nest, Next1.n)
        /\ Do(<<[Next1 EXCEPT !.op = type]>>)
        /\ \/ UNCHANGED funcs
           \/ /\ type # "goto"
              /\ funcs' = [funcs EXCEPT ![Next1.ctx.currfunc] = AddLabel(@)]
  BY DEF MakeStatement
<1> DEFINE c == [Next1 EXCEPT !.op = type]
<1>3. /\ GoodCall(c, Len(funcs)) /\ c.op = type /\ c.ctx = Next1.ctx
      /\ Next1.ctx.currfunc \in 1 .. Len(funcs)
  <2>1. GoodCall(c, Len(funcs)) /\ c.op = type
    BY <1>1, SameCallGood DEF Ops, StatementTypes
  <2>2. Next1 \in Calls /\ Next1.ctx.currfunc \in 1 .. Len(funcs)
    BY <1>1, NextGood DEF InFunction
  <2>3. c.ctx = Next1.ctx
    BY <2>2 DEF Calls
  <2> QED BY <2>1, <2>2, <2>3
<1>4. Do(<<c>>)
  BY <1>2
<1> HIDE DEF c
<1>5. FuncsOK' /\ LimitOK' /\ Len(funcs') = Len(funcs) /\ Len(funcs) \in Nat
  <2>1. CASE UNCHANGED funcs
    BY <1>1, <2>1 DEF GoodProgram, FuncsOK, FuncsTypeOK, LimitOK
  <2>2. CASE funcs' = [funcs EXCEPT ![Next1.ctx.currfunc] = AddLabel(@)]
    <3> DEFINE f == Next1.ctx.currfunc
    <3>1. funcs' = [funcs EXCEPT ![f] = AddLabel(funcs[f])]
      BY <2>2
    <3>2. functions' \in Seq(Nat) /\ dead' \in BOOLEAN
      BY <1>1 DEF GoodProgram, FuncsOK, FuncsTypeOK
    <3>3. f \in 1 .. Len(funcs) => SameFunction(AddLabel(funcs[f]), f)
      BY AddLabelKeeps DEF GoodProgram
    <3> HIDE DEF f
    <3> QED BY <1>1, <3>1, <3>2, <3>3, FunctionChanged DEF GoodProgram
  <2> QED BY <1>2, <2>1, <2>2
<1>6. type = "functioncall" => numfunctions < MaxFunctions
  BY <1>2, <1>5, GeneratorAssumption DEF IsInvalid, GoodProgram, LimitOK
<1>7. /\ type # "program"
      /\ type = "ptrassignment" => Next1.ctx.nvars # Next1.ctx.nintegers
      /\ type = "goto" => funcs'[Next1.ctx.currfunc].numlabels > 0
  <2> DEFINE f == Next1.ctx.currfunc
  <2>1. /\ type = "ptrassignment" => Next1.ctx.nvars # Next1.ctx.nintegers
        /\ type = "goto" => ~NoJumps /\ funcs[f].numlabels # 0 /\ UNCHANGED funcs
    BY <1>2 DEF IsInvalid, MakeStatement
  <2>2. funcs[f].numlabels \in Nat
    <3>1. funcs \in Seq(Function)
      BY DEF GoodProgram, FuncsOK, FuncsTypeOK, Function
    <3>2. funcs[f] \in Function
      BY <1>3, <3>1, ElementOfSeq
    <3> QED BY <3>2 DEF Function
  <2> QED BY <2>1, <2>2 DEF StatementTypes
<1>8. /\ Len(todo) \in Nat \ {0} /\ Tail(todo) \in Seq(Calls)
      /\ Len(Tail(todo)) = Len(todo) - 1
      /\ \A k \in 1 .. Len(Tail(todo)) : Tail(todo)[k] = todo[k + 1]
  BY <1>1, HeadTailProperties
<1>9. <<c>> \in Seq(Calls) /\ Len(<<c>>) = 1 /\ <<c>>[1] = c
  BY <1>3 DEF GoodCall
<1>10. /\ todo' \in Seq(Calls) /\ Len(todo') = Len(todo) /\ todo'[1] = c
       /\ \A k \in 2 .. Len(todo) : todo'[k] = todo[k]
  <2>1. /\ todo' \in Seq(Calls) /\ Len(todo') = 1 + Len(Tail(todo))
        /\ \A k \in 1 .. 1 + Len(Tail(todo)) :
             todo'[k] = IF k <= 1 THEN <<c>>[k] ELSE Tail(todo)[k - 1]
    BY <1>4, <1>8, <1>9, ConcatProperties DEF Do
  <2> QED BY <1>8, <1>9, <2>1
<1>11. TodoOK'
  BY <1>1, <1>3, <1>5, <1>8, <1>10 DEF GoodProgram, TodoOK
<1>12. PlacesOK'
  <2>1. \A k \in 2 .. Len(todo) : todo'[k].op \notin OnlyNext
    BY <1>8, <1>10 DEF GoodProgram, PlacesOK, OnlyNext
  <2> QED BY <1>1, <1>3, <1>6, <1>7, <1>8, <1>10, <2>1 DEF PlacesOK, OnlyNext
<1>13. GlobalsOK'
  BY <1>1 DEF GoodProgram, GlobalsOK
<1> QED BY <1>5, <1>11, <1>12, <1>13 DEF GoodProgram

\* The parts of a statement or an expression: blocks and expressions in its scope.
LEMMA PartGood ==
  ASSUME GoodProgram, todo # <<>>, Next1.op # "program", NEW nest \in Nat
  PROVE  /\ GoodCall(Expr(Next1.ctx, nest), Len(funcs))
         /\ GoodCall(Block(Next1.ctx, nest), Len(funcs))
         /\ Expr(Next1.ctx, nest).op = "expression"
         /\ Block(Next1.ctx, nest).op = "block"
<1>1. GoodContext(Next1.ctx) /\ Len(funcs) \in Nat /\ InFunction(Next1.ctx, Len(funcs))
  BY NextGood
<1> QED BY <1>1, CallGood DEF Expr, Block, Call, Ops

\* One or more of them follow.
LEMMA PartsFollow ==
  ASSUME GoodProgram, todo # <<>>, Next1.op # "program", NEW nest \in Nat, NEW k \in Nat
  PROVE  /\ CanFollow(<<Expr(Next1.ctx, nest)>>, Len(funcs))
         /\ CanFollow(<<Block(Next1.ctx, nest)>>, Len(funcs))
         /\ CanFollow(Times(k, Expr(Next1.ctx, nest)), Len(funcs))
         /\ CanFollow(Times(k, Block(Next1.ctx, nest)), Len(funcs))
<1>1. Len(funcs) \in Nat
  BY NextGood
<1> QED BY <1>1, PartGood, OneFollows, ManyFollow DEF OnlyNext

\* These leave nothing to do, or one expression or block.
LEMMA SimpleStatementGood ==
  GoodProgram /\ (BuildFor \/ BuildAssignment \/ BuildPtrAssignment \/ BuildReturn)
    => GoodProgram'
<1>1. ASSUME GoodProgram, BuildFor PROVE GoodProgram'
  <2>1. /\ todo # <<>> /\ Next1.op # "program" /\ UNCHANGED <<globalvars, funcs, numfunctions, functions>>
        /\ Do(<<Block(Next1.ctx, Next1.nest + 1)>>) /\ dead' \in BOOLEAN
    BY <1>1, DeathIsBoolean DEF BuildFor, At
  <2>2. Next1.nest + 1 \in Nat
    BY <1>1, <2>1, NextGood
  <2> QED BY <1>1, <2>1, <2>2, PartsFollow, QuietStep
<1>2. ASSUME GoodProgram, BuildAssignment PROVE GoodProgram'
  <2>1. /\ todo # <<>> /\ Next1.op # "program" /\ UNCHANGED <<globalvars, funcs, numfunctions, functions>>
        /\ Do(<<Expr(Next1.ctx, 0)>>) /\ dead' \in BOOLEAN
    BY <1>2, DeathIsBoolean DEF BuildAssignment, At
  <2> QED BY <1>2, <2>1, PartsFollow, QuietStep
<1>3. ASSUME GoodProgram, BuildPtrAssignment \/ BuildReturn PROVE GoodProgram'
  <2>1. /\ todo # <<>> /\ UNCHANGED <<globalvars, funcs, numfunctions, functions>>
        /\ Do(<<>>)
    BY <1>3 DEF BuildPtrAssignment, BuildReturn, At
  <2>2. dead' \in BOOLEAN
    BY <1>3, DeathIsBoolean DEF BuildPtrAssignment, BuildReturn
  <2>3. CanFollow(<<>>, Len(funcs))
    BY <1>3, <2>1, NextGood, NothingFollows
  <2> QED BY <1>3, <2>1, <2>2, <2>3, QuietStep
<1> QED BY <1>1, <1>2, <1>3

LEMMA BuildIfGood == GoodProgram /\ BuildIf => GoodProgram'
<1> SUFFICES ASSUME GoodProgram, BuildIf PROVE GoodProgram'
  OBVIOUS
<1>1. /\ todo # <<>> /\ Next1.op = "if"
      /\ UNCHANGED <<globalvars, funcs, numfunctions, functions, dead>>
  BY DEF BuildIf, At
<1>2. PICK k \in {1, 2} :
        Do(<<Expr(Next1.ctx, 0)>> \o Times(k, Block(Next1.ctx, Next1.nest + 1)))
  BY DEF BuildIf
<1>3. Next1.nest + 1 \in Nat /\ k \in Nat /\ Len(funcs) \in Nat /\ dead' \in BOOLEAN
  BY <1>1, NextGood DEF GoodProgram, FuncsOK, FuncsTypeOK
<1>4. CanFollow(<<Expr(Next1.ctx, 0)>> \o Times(k, Block(Next1.ctx, Next1.nest + 1)),
                Len(funcs))
  BY <1>1, <1>3, PartsFollow, BothFollow
<1> QED BY <1>1, <1>2, <1>3, <1>4, QuietStep

LEMMA ExpressionGood ==
  GoodProgram /\ (BuildOperand \/ BuildOperation \/ BuildAssignmentExpr) => GoodProgram'
<1>1. ASSUME GoodProgram, BuildOperand PROVE GoodProgram'
  <2>1. /\ todo # <<>> /\ UNCHANGED <<globalvars, funcs, numfunctions, functions>>
        /\ Do(<<>>) /\ dead' \in BOOLEAN
    BY <1>1, DeathIsBoolean DEF BuildOperand, At
  <2>2. CanFollow(<<>>, Len(funcs))
    BY <1>1, <2>1, NextGood, NothingFollows
  <2> QED BY <1>1, <2>1, <2>2, QuietStep
<1>2. ASSUME GoodProgram, BuildOperation PROVE GoodProgram'
  <2>1. todo # <<>> /\ Next1.op # "program" /\ UNCHANGED <<globalvars, funcs, numfunctions, functions, dead>>
    BY <1>2 DEF BuildOperation, At
  <2>2. PICK k \in {2, 3} : Do(Times(k, Expr(Next1.ctx, Next1.nest + 2)))
    BY <1>2 DEF BuildOperation, Part
  <2>3. dead' \in BOOLEAN
    BY <1>2, <2>1 DEF GoodProgram, FuncsOK, FuncsTypeOK
  <2>4. Next1.nest + 2 \in Nat /\ k \in Nat
    BY <1>2, <2>1, NextGood
  <2> QED BY <1>2, <2>1, <2>2, <2>3, <2>4, PartsFollow, QuietStep
<1>3. ASSUME GoodProgram, BuildAssignmentExpr PROVE GoodProgram'
  <2>1. /\ todo # <<>> /\ Next1.op # "program" /\ UNCHANGED <<globalvars, funcs, numfunctions, functions>>
        /\ Do(<<Expr(Next1.ctx, Next1.nest + 2)>>) /\ dead' \in BOOLEAN
    BY <1>3, DeathIsBoolean DEF BuildAssignmentExpr, At, Part
  <2>2. Next1.nest + 2 \in Nat
    BY <1>3, <2>1, NextGood
  <2> QED BY <1>3, <2>1, <2>2, PartsFollow, QuietStep
<1> QED BY <1>1, <1>2, <1>3

\* The steps that change a function without beginning one.
LEMMA ChangeStep ==
  ASSUME GoodProgram, todo # <<>>, NEW calls, CanFollow(calls, Len(funcs)), Do(calls),
         NEW f, NEW r, funcs' = [funcs EXCEPT ![f] = r],
         f \in 1 .. Len(funcs) => SameFunction(r, f),
         functions' \in Seq(Nat), dead' \in BOOLEAN, UNCHANGED <<globalvars, numfunctions>>
  PROVE  GoodProgram'
<1>1. FuncsOK' /\ LimitOK' /\ Len(funcs') = Len(funcs) /\ Len(funcs) \in Nat
  BY FunctionChanged DEF GoodProgram
<1>2. CanFollow(calls, Len(funcs'))
  BY <1>1
<1>3. TodoOK' /\ PlacesOK'
  BY <1>1, <1>2, DoGood DEF GoodProgram
<1>4. GlobalsOK'
  BY DEF GoodProgram, GlobalsOK
<1> QED BY <1>1, <1>3, <1>4 DEF GoodProgram

LEMMA BuildGotoGood == GoodProgram /\ BuildGoto => GoodProgram'
<1> SUFFICES ASSUME GoodProgram, BuildGoto PROVE GoodProgram'
  OBVIOUS
<1> DEFINE f == Next1.ctx.currfunc
<1>1. todo # <<>> /\ UNCHANGED <<globalvars, numfunctions, functions>> /\ Do(<<>>)
  BY DEF BuildGoto, At
<1>2. /\ CanFollow(<<>>, Len(funcs)) /\ functions \in Seq(Nat) /\ dead \in BOOLEAN
      /\ funcs \in Seq(Function)
  BY <1>1, NextGood, NothingFollows DEF GoodProgram, FuncsOK, FuncsTypeOK, Function
<1>3. CASE dead' = TRUE /\ UNCHANGED funcs
  BY <1>1, <1>2, <1>3, QuietStep
<1>4. ASSUME NEW i \in 1 .. funcs[f].numlabels,
             ~(funcs[f].numlabels = 0 \/ funcs[f].numlabels > Len(funcs[f].labels)),
             funcs' = Write(f, <<"goto", funcs[f].labels[i]>>), UNCHANGED dead
      PROVE  GoodProgram'
  <2> DEFINE item == <<"goto", funcs[f].labels[i]>>
             r == [funcs[f] EXCEPT !.text = Append(@, item)]
  <2>1. funcs' = [funcs EXCEPT ![f] = r]
    BY <1>4 DEF Write
  <2>2. f \in 1 .. Len(funcs) => SameFunction(r, f)
    <3> SUFFICES ASSUME f \in 1 .. Len(funcs) PROVE SameFunction(r, f)
      OBVIOUS
    <3>1. funcs[f] \in Function
      BY <1>2, ElementOfSeq
    <3>2. funcs[f].labels \in Seq(Nat) /\ funcs[f].numlabels \in Nat
      BY <3>1 DEF Function
    <3>3. funcs[f].labels[i] \in Nat
      <4>1. i \in 1 .. Len(funcs[f].labels)
        BY <1>4, <3>2
      <4> QED BY <3>2, <4>1, ElementOfSeq
    <3>4. item \in {"label", "goto", "call"} \X Nat
      BY <3>3
    <3> HIDE DEF item, f
    <3> QED BY <3>4, WriteKeeps DEF GoodProgram
  <2> HIDE DEF r
  <2> QED BY <1>1, <1>2, <1>4, <2>1, <2>2, ChangeStep
<1> QED BY <1>3, <1>4 DEF BuildGoto

LEMMA FunctionMadeGood == GoodProgram /\ FunctionMade => GoodProgram'
<1> SUFFICES ASSUME GoodProgram, FunctionMade PROVE GoodProgram'
  OBVIOUS
<1> DEFINE f == Next1.f
           r == [funcs[f] EXCEPT !.context = Next1.ctx, !.body = Len(funcs[f].text)]
<1>1. /\ todo # <<>> /\ UNCHANGED <<globalvars, numfunctions, dead>> /\ Do(<<>>)
      /\ functions' = Append(functions, f)
      /\ funcs' = [funcs EXCEPT ![f].context = Next1.ctx, ![f].body = Len(funcs[f].text)]
  BY DEF FunctionMade, At, Listed
<1>2. /\ CanFollow(<<>>, Len(funcs)) /\ functions \in Seq(Nat) /\ dead \in BOOLEAN
      /\ funcs \in Seq(Function) /\ f \in Nat /\ GoodContext(Next1.ctx)
      /\ Next1.ctx \in Context
  BY <1>1, NextGood, NothingFollows DEF GoodProgram, FuncsOK, FuncsTypeOK, Function
<1>3. funcs' = [funcs EXCEPT ![f] = r]
  BY <1>1
<1>4. f \in 1 .. Len(funcs) => SameFunction(r, f)
  <2> SUFFICES ASSUME f \in 1 .. Len(funcs) PROVE SameFunction(r, f)
    OBVIOUS
  <2>1. funcs[f] \in Function
    BY <1>2, ElementOfSeq
  <2>2. Len(funcs[f].text) \in Nat
    BY <2>1 DEF Function
  <2>3. funcs[f].numlabels = Len(funcs[f].labels)
    BY DEF GoodProgram, FuncsOK
  <2> HIDE DEF f
  <2> QED BY <1>2, <2>1, <2>2, <2>3 DEF SameFunction, Function
<1>5. functions' \in Seq(Nat) /\ dead' \in BOOLEAN
  <2> HIDE DEF f
  <2> QED BY <1>1, <1>2
<1> HIDE DEF r
<1> QED BY <1>1, <1>2, <1>3, <1>4, <1>5, ChangeStep

LEMMA BuildArgumentsGood == GoodProgram /\ BuildArguments => GoodProgram'
<1> SUFFICES ASSUME GoodProgram, BuildArguments PROVE GoodProgram'
  OBVIOUS
<1> DEFINE f == Next1.ctx.currfunc
           item == <<"call", Next1.f>>
           r == [funcs[f] EXCEPT !.text = Append(@, item)]
<1>1. /\ todo # <<>> /\ Next1.op = "arguments" /\ UNCHANGED <<globalvars, numfunctions, dead>>
      /\ Do(Times(funcs[Next1.f].params, Expr(Next1.ctx, Next1.nest)))
      /\ functions' \in {Append(functions, Next1.f), functions}
      /\ funcs' = [funcs EXCEPT ![f] = r]
  BY DEF BuildArguments, At, Listed, Write, Callee
<1>2. /\ functions \in Seq(Nat) /\ dead \in BOOLEAN /\ funcs \in Seq(Function)
      /\ Next1.f \in 1 .. Len(funcs) /\ Next1.f \in Nat /\ Next1.nest \in Nat
  BY <1>1, NextGood DEF GoodProgram, FuncsOK, FuncsTypeOK, Function, GoodCall
<1>3. funcs[Next1.f].params \in Nat
  <2>1. funcs[Next1.f] \in Function
    BY <1>2, ElementOfSeq
  <2> QED BY <2>1 DEF Function
<1>4. CanFollow(Times(funcs[Next1.f].params, Expr(Next1.ctx, Next1.nest)), Len(funcs))
  BY <1>1, <1>2, <1>3, PartsFollow
<1>5. f \in 1 .. Len(funcs) => SameFunction(r, f)
  <2>1. item \in {"label", "goto", "call"} \X Nat
    BY <1>2
  <2> HIDE DEF f, item
  <2> QED BY <2>1, WriteKeeps DEF GoodProgram
<1>6. functions' \in Seq(Nat) /\ dead' \in BOOLEAN
  <2>1. Append(functions, Next1.f) \in Seq(Nat)
    BY <1>2, AppendProperties
  <2> QED BY <1>1, <1>2, <2>1
<1> HIDE DEF r, f
<1> QED BY <1>1, <1>4, <1>5, <1>6, ChangeStep
-----------------------------------------------------------------------------
(* The invariant *)

LEMMA InitGood == Init => GoodProgram
<1> SUFFICES ASSUME Init PROVE GoodProgram
  OBVIOUS
<1> DEFINE c == Call("program", NoContext, 0, 0, 0)
<1>1. /\ todo = <<c>> /\ globalvars = <<>> /\ funcs = <<>> /\ numfunctions = 0
      /\ functions = <<>> /\ dead = FALSE /\ Len(funcs) = 0
  BY DEF Init
<1>2. GoodCall(c, 0) /\ c.op = "program"
  BY NoContextGood, CallGood DEF Ops, Call
<1>3. TodoOK /\ PlacesOK
  <2> HIDE DEF c
  <2>1. todo \in Seq(Calls) /\ Len(todo) = 1 /\ todo[1] = c
    BY <1>1, <1>2 DEF GoodCall
  <2> QED BY <1>1, <1>2, <2>1 DEF TodoOK, PlacesOK
<1>4. GlobalsOK
  BY <1>1, EmptySeq DEF GlobalsOK
<1>5. FuncsOK
  <2>1. FuncsTypeOK
    BY <1>1, EmptySeq DEF FuncsTypeOK
  <2> QED BY <1>1, <2>1 DEF FuncsOK
<1>6. LimitOK
  BY <1>1, GeneratorAssumption DEF LimitOK
<1> QED BY <1>3, <1>4, <1>5, <1>6 DEF GoodProgram

LEMMA StepGood == GoodProgram /\ [Next]_vars => GoodProgram'
<1> SUFFICES ASSUME GoodProgram, [Next]_vars PROVE GoodProgram'
  OBVIOUS
<1>1. CASE BlockStep
  BY <1>1, EnterBlockGood, MakeLocalGood, BlockStatementsGood, NextStatementGood,
     FunctionStatementGood DEF BlockStep
<1>2. CASE StatementStep
  BY <1>2, MakeStatementGood, BuildIfGood, SimpleStatementGood, BuildGotoGood,
     BuildFunctionCallGood DEF StatementStep
<1>3. CASE ExpressionStep
  BY <1>3, ExpressionGood, BuildFunctionCallExprGood, BuildArgumentsGood DEF ExpressionStep
<1>4. CASE MakeProgram \/ FunctionMade
  BY <1>4, MakeProgramGood, FunctionMadeGood
<1>5. CASE UNCHANGED vars
  BY <1>5 DEF vars, GoodProgram, TodoOK, PlacesOK, GlobalsOK, FuncsOK, FuncsTypeOK, LimitOK
<1> QED BY <1>1, <1>2, <1>3, <1>4, <1>5 DEF Next, GenerateStep

\* The stack, the globals and every function built, at every call of the generator,
\* are as the invariant says (program.c, func.c, block.c, statement.c, expression.c).
THEOREM GoodProgramHolds == Spec => []GoodProgram
<1>1. Init => GoodProgram
  BY InitGood
<1>2. GoodProgram /\ [Next]_vars => GoodProgram'
  BY StepGood
<1> QED BY <1>1, <1>2, PTL DEF Spec

\* The variables of the generator keep the types of the C declarations.
THEOREM TypeCorrect == Spec => []TypeOK
<1>1. GoodProgram => TypeOK
  BY DEF GoodProgram, TodoOK, GlobalsOK, FuncsOK, TypeOK, TodoTypeOK, ScopeTypeOK
<1> QED BY <1>1, GoodProgramHolds, PTL

\* The contexts in use are good.
LEMMA ContextsGood == GoodProgram => \A ctx \in Contexts : GoodContext(ctx)
<1> SUFFICES ASSUME GoodProgram, NEW ctx \in Contexts PROVE GoodContext(ctx)
  OBVIOUS
<1>1. DOMAIN todo = 1 .. Len(todo) /\ DOMAIN funcs = 1 .. Len(funcs)
  BY DEF GoodProgram, TodoOK, FuncsOK, FuncsTypeOK
<1>2. CASE \E k \in 1 .. Len(todo) : ctx = todo[k].ctx
  BY <1>2 DEF GoodProgram, TodoOK, GoodCall
<1>3. CASE \E f \in 1 .. Len(funcs) : ctx = funcs[f].context
  BY <1>3 DEF GoodProgram, FuncsOK
<1> QED BY <1>1, <1>2, <1>3 DEF Contexts

\* The counters of every context agree with its scope, so that an index drawn below
\* a counter is in the list that is walked (variable.c, block.c, func.c).
THEOREM CountersCorrect == Spec => []ContextsAgree
<1>1. GoodProgram => ContextsAgree
  BY ContextsGood DEF GoodContext, ContextsAgree
<1> QED BY <1>1, GoodProgramHolds, PTL

\* No two variables of a scope have one name (integer.c, pointer.c, func.c).
THEOREM NamesCorrect == Spec => []NoShadowing
<1>1. ASSUME NEW ctx, GoodContext(ctx) PROVE NamesDiffer(ctx)
  <2>1. DOMAIN ctx.scope = 1 .. Len(ctx.scope)
    BY <1>1 DEF GoodContext, Context
  <2> QED BY <1>1, <2>1 DEF GoodContext, NamesAreIndices, NamesDiffer
<1>2. GoodProgram => NoShadowing
  BY <1>1, ContextsGood DEF NoShadowing
<1> QED BY <1>2, GoodProgramHolds, PTL

\* Every pointer points to a variable declared before it, one level less deep, of
\* its width, within max_pointer_depth (pointer.c).
THEOREM PointersCorrect == Spec => []PointersWellFormed
<1>1. GoodProgram => PointersWellFormed
  BY ContextsGood DEF GoodContext, PointersWellFormed
<1> QED BY <1>1, GoodProgramHolds, PTL

\* The recursion of makeFunction() stops at max_functions functions, all of
\* different names (func.c, statement.c, expression.c).
THEOREM LimitCorrect == Spec => []FunctionsLimited
<1>1. GoodProgram => FunctionsLimited
  <2> SUFFICES ASSUME GoodProgram PROVE FunctionsLimited
    OBVIOUS
  <2>1. DOMAIN funcs = 1 .. Len(funcs) /\ Len(funcs) \in Nat
    BY DEF GoodProgram, FuncsOK, FuncsTypeOK
  <2>2. \A f, g \in 1 .. Len(funcs) : funcs[f].name = funcs[g].name => f = g
    BY <2>1 DEF GoodProgram, FuncsOK
  <2> QED BY <2>1, <2>2 DEF GoodProgram, LimitOK, FunctionsLimited
<1> QED BY <1>1, GoodProgramHolds, PTL
-----------------------------------------------------------------------------
(* The draws *)

\* In the context of a function every draw has a candidate.
LEMMA DrawsSucceed ==
  ASSUME NEW ctx, NEW n \in Nat, GoodContext(ctx), InFunction(ctx, n)
  PROVE  /\ ~SelectionFails(ctx, "any")
         /\ ctx.nvars # ctx.nintegers => ~SelectionFails(ctx, "pointer")
         /\ ~PickFails(ctx)
<1> DEFINE s == ctx.scope
           m == Len(s)
<1>1. /\ ctx \in Context /\ s \in Seq(Variable) /\ m \in Nat \ {0} /\ ctx.nvars = m
      /\ DOMAIN s = 1 .. m /\ ctx.nintegers = Cardinality(IntegersOf(s))
      /\ ctx.nintegers \in Nat
  BY DEF GoodContext, InFunction, Context, CountersAgree
<1>2. IsFiniteSet(1 .. m) /\ Cardinality(1 .. m) = m
  <2>1. m \in Int /\ ~(1 > m) /\ m - 1 + 1 = m
    BY <1>1
  <2> HIDE DEF m
  <2> QED BY <2>1, FS_Interval
<1>3. ~SelectionFails(ctx, "any")
  <2>1. Selectable(ctx, "any") = 1 .. m
    BY <1>1 DEF Selectable
  <2>2. SelectionBound(ctx, "any") = m
    BY <1>1 DEF SelectionBound
  <2> HIDE DEF m
  <2> QED BY <1>1, <1>2, <2>1, <2>2 DEF SelectionFails
<1>4. ASSUME ctx.nvars # ctx.nintegers PROVE ~SelectionFails(ctx, "pointer")
  <2>1. \A i \in 1 .. m : s[i].type \in {"integer", "pointer"}
    <3>1. \A i \in 1 .. m : s[i] \in Variable
      BY <1>1, ElementOfSeq
    <3> QED BY <3>1 DEF Variable
  <2>2. Selectable(ctx, "pointer") = (1 .. m) \ IntegersOf(s)
    BY <1>1, <2>1 DEF Selectable, IntegersOf
  <2>3. IntegersOf(s) \subseteq 1 .. m
    BY <1>1 DEF IntegersOf
  <2>4. (1 .. m) \cap IntegersOf(s) = IntegersOf(s)
    BY <2>3
  <2>5. Cardinality(Selectable(ctx, "pointer")) = m - Cardinality(IntegersOf(s))
    <3>1. Cardinality((1 .. m) \ IntegersOf(s))
            = Cardinality(1 .. m) - Cardinality((1 .. m) \cap IntegersOf(s))
      <4> HIDE DEF m, s
      <4> QED BY <1>2, FS_Difference
    <3> HIDE DEF m, s
    <3> QED BY <1>2, <2>2, <2>4, <3>1
  <2>6. Cardinality(IntegersOf(s)) <= m
    <3> HIDE DEF m, s
    <3> QED BY <1>2, <2>3, FS_Subset
  <2>7. SelectionBound(ctx, "pointer") = ctx.nvars - ctx.nintegers
    BY DEF SelectionBound
  <2> HIDE DEF m, s
  <2> QED BY <1>1, <1>4, <2>5, <2>6, <2>7 DEF SelectionFails
<1>5. ~PickFails(ctx)
  <2>1. 1 \in Pointable(ctx)
    BY <1>1, GeneratorAssumption DEF Pointable, InFunction
  <2> QED BY <1>1, <2>1 DEF PickFails
<1> QED BY <1>3, <1>4, <1>5

\* A pointer can always be assigned itself, if nothing else is wide enough.
LEMMA AssignmentExists ==
  ASSUME NEW ctx, GoodContext(ctx)
  PROVE  \A l \in Selectable(ctx, "pointer") : \E r \in Selectable(ctx, "any") :
           Consistent(ctx.scope[l], ctx.scope[r])
<1> SUFFICES ASSUME NEW l \in Selectable(ctx, "pointer")
             PROVE  \E r \in Selectable(ctx, "any") : Consistent(ctx.scope[l], ctx.scope[r])
  OBVIOUS
<1>1. l \in Selectable(ctx, "any") /\ l \in DOMAIN ctx.scope
  BY DEF Selectable
<1>2. ctx.scope[l] \in Variable
  <2>1. ctx.scope \in Seq(Variable) /\ DOMAIN ctx.scope = 1 .. Len(ctx.scope)
    BY DEF GoodContext, Context
  <2> QED BY <1>1, <2>1, ElementOfSeq
<1>3. Consistent(ctx.scope[l], ctx.scope[l])
  <2>1. ctx.scope[l].width \in Nat
    BY <1>2, GeneratorAssumption DEF Variable
  <2> QED BY <2>1 DEF Consistent
<1> QED BY <1>1, <1>3

\* No step is the generator's death.
LEMMA StepSurvives == GoodProgram /\ ~dead /\ [Next]_vars => ~dead'
<1> SUFFICES ASSUME GoodProgram, ~dead, [Next]_vars, dead' PROVE FALSE
  OBVIOUS
<1>1. CASE MakeLocal \/ BuildFor \/ BuildAssignment \/ BuildReturn \/ BuildOperand
           \/ BuildAssignmentExpr
  <2>1. todo # <<>> /\ Next1.op # "program"
    BY <1>1 DEF MakeLocal, BuildFor, BuildAssignment, BuildReturn, BuildOperand,
       BuildAssignmentExpr, At
  <2>2. ~SelectionFails(Next1.ctx, "any") /\ ~PickFails(Next1.ctx)
    BY <2>1, NextGood, DrawsSucceed
  <2>3. dead' = SelectionFails(Next1.ctx, "any") \/ dead' = PickFails(Next1.ctx)
    BY <1>1 DEF MakeLocal, BuildFor, BuildAssignment, BuildReturn, BuildOperand,
       BuildAssignmentExpr
  <2> QED BY <2>2, <2>3
<1>2. CASE BuildPtrAssignment
  <2>1. todo # <<>> /\ Next1.op = "ptrassignment"
    BY <1>2 DEF BuildPtrAssignment, At
  <2>2. Next1.ctx.nvars # Next1.ctx.nintegers
    <3>1. Len(todo) \in Nat \ {0} /\ Next1 = todo[1]
      BY <2>1 DEF GoodProgram, TodoOK, Next1
    <3> QED BY <2>1, <3>1 DEF GoodProgram, PlacesOK
  <2>3. ~SelectionFails(Next1.ctx, "any") /\ ~SelectionFails(Next1.ctx, "pointer")
    BY <2>1, <2>2, NextGood, DrawsSucceed
  <2>4. ~\E l \in Selectable(Next1.ctx, "pointer") :
          \A r \in Selectable(Next1.ctx, "any") :
            ~Consistent(Next1.ctx.scope[l], Next1.ctx.scope[r])
    BY <2>1, NextGood, AssignmentExists
  <2> QED BY <1>2, <2>3, <2>4 DEF BuildPtrAssignment
<1>3. CASE BuildGoto
  <2> DEFINE fn == funcs[Next1.ctx.currfunc]
  <2>1. todo # <<>> /\ Next1.op = "goto"
    BY <1>3 DEF BuildGoto, At
  <2>2. fn.numlabels > 0
    <3>1. Len(todo) \in Nat \ {0} /\ Next1 = todo[1]
      BY <2>1 DEF GoodProgram, TodoOK, Next1
    <3> QED BY <2>1, <3>1 DEF GoodProgram, PlacesOK
  <2>3. fn.numlabels = Len(fn.labels) /\ fn.numlabels \in Nat
    <3>1. Next1.ctx.currfunc \in 1 .. Len(funcs) /\ funcs \in Seq(Function)
      BY <2>1, NextGood DEF InFunction, GoodProgram, FuncsOK, FuncsTypeOK, Function
    <3>2. fn \in Function
      BY <3>1, ElementOfSeq
    <3> QED BY <3>1, <3>2 DEF GoodProgram, FuncsOK, Function
  <2>4. ~(fn.numlabels = 0 \/ fn.numlabels > Len(fn.labels))
    <3> HIDE DEF fn
    <3> QED BY <2>2, <2>3
  <2> QED BY <1>3, <2>4 DEF BuildGoto
<1>4. CASE EnterBlock \/ BlockStatements \/ NextStatement \/ FunctionStatement
           \/ MakeStatement \/ BuildIf \/ BuildFunctionCall \/ BuildOperation
           \/ BuildFunctionCallExpr \/ BuildArguments \/ MakeProgram \/ FunctionMade
  BY <1>4 DEF EnterBlock, BlockStatements, NextStatement, FunctionStatement, MakeStatement,
     BuildIf, BuildFunctionCall, BuildOperation, BuildFunctionCallExpr, BuildArguments,
     MakeProgram, FunctionMade
<1>5. CASE UNCHANGED vars
  BY <1>5 DEF vars
<1> QED BY <1>1, <1>2, <1>3, <1>4, <1>5
  DEF Next, GenerateStep, BlockStep, StatementStep, ExpressionStep

\* The generator never draws where it has no candidate: no division by zero, no
\* die("unreachable"), no draw repeated for ever, whatever the limits and whatever
\* rand() returns (variable.c, label.c, pointer.c, statement.c).
THEOREM DrawsCorrect == Spec => []NeverDies
<1>1. Init => NeverDies
  BY DEF Init, NeverDies
<1>2. GoodProgram /\ NeverDies /\ [Next]_vars => NeverDies'
  BY StepSurvives DEF NeverDies
<1> QED BY <1>1, <1>2, GoodProgramHolds, PTL DEF Spec
=============================================================================
