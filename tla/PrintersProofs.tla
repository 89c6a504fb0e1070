--------------------------- MODULE PrintersProofs ---------------------------
(***************************************************************************)
(* However long the calls of the printers and however deep their blocks,   *)
(* the text they write declares every variable it names, as CBlock asks.   *)
(*                                                                         *)
(* The invariant looks ahead along the stack of calls: it follows, call by *)
(* call, which blocks will be open when a call is reached, and says that   *)
(* the variables declared in them are those of the context of the call.    *)
(***************************************************************************)
EXTENDS Printers, SequenceTheorems, WellFoundedInduction, TLAPS

\* What the variables of a scope are in the text.
Shown(ctx) == {Object(ctx.scope[i]) : i \in DOMAIN ctx.scope}

ObjectsOf(vs) == {Object(vs[i]) : i \in DOMAIN vs}

\* What is declared in the open blocks b.
Visible(b) == UNION {b[i] : i \in DOMAIN b}

\* A variable is named by its place; a pointer has a level, an integer none.
GoodContext(ctx) ==
  /\ ctx \in Context /\ ctx.nvars = Len(ctx.scope)
  /\ \A i \in 1 .. Len(ctx.scope) :
       /\ ctx.scope[i].name = i - 1 /\ ctx.scope[i].depth <= MaxPointerDepth
       /\ ctx.scope[i].type = "integer" <=> ctx.scope[i].depth = 0

\* The scope of ctx is what the blocks b declare, and the names of the grammar
\* are integers in it.
InScope(ctx, b, names) ==
  /\ GoodContext(ctx) /\ Visible(b) = Shown(ctx)
  /\ \A n \in names : n + 1 \in 1 .. Len(ctx.scope) /\ ctx.scope[n + 1].depth = 0

Calls   == [op : Ops, ctx : Context, nest : Nat, n : Nat]
FileOps == {"globals", "functions"}
\* These end the block they are in.
BlockOps == {"close", "locals", "functionLocals", "body"}

\* The blocks that are open when a call that began in the blocks b has returned;
\* none, when the file is finished.
After(call, b) ==
  IF call.op = "open" THEN Append(b, {})
  ELSE IF call.op \in BlockOps THEN SubSeq(b, 1, Len(b) - 1)
  ELSE IF call.op \in FileOps THEN <<>>
  ELSE b

\* A call that can be made where the blocks b are open.
GoodCall(call, b, names) ==
  /\ call \in Calls /\ b \in Seq(SUBSET Objects)
  /\ call.op \in FileOps => Len(b) = 1
  /\ call.op \notin FileOps => Len(b) > 1
  /\ call.op # "close" => InScope(call.ctx, b, names)

\* A plan of calls: the blocks at the start of each, and at the end of the last.
Plan(p, calls, from, to, names) ==
  /\ p[1] = from /\ p[Len(calls) + 1] = to
  /\ \A k \in 1 .. Len(calls) :
       GoodCall(calls[k], p[k], names) /\ p[k + 1] = After(calls[k], p[k])

Leads(calls, from, to, names) ==
  calls \in Seq(Calls) /\ \E p : Plan(p, calls, from, to, names)

VariablesOK ==
  /\ todo \in Seq(Calls) /\ normalVariableName \subseteq Nat
  /\ line \in Lines /\ blocks \in Seq(SUBSET Objects)

\* Between programs nothing is open; else the calls lead to the end of the file.
Follows ==
  \/ todo = <<>> /\ blocks = <<{}>> /\ normalVariableName = {}
  \/ todo # <<>> /\ Leads(todo, blocks, <<>>, normalVariableName)

PrintersInv == VariablesOK /\ Follows
-----------------------------------------------------------------------------
(* Plans *)

LEMMA NothingLeads == ASSUME NEW b, NEW names PROVE Leads(<<>>, b, b, names)
<1> DEFINE p == [k \in {1} |-> b]
<1>1. Plan(p, <<>>, b, b, names)
  BY DEF Plan
<1> QED BY <1>1 DEF Leads

LEMMA OneLeads ==
  ASSUME NEW b, NEW names, NEW c, GoodCall(c, b, names)
  PROVE  Leads(<<c>>, b, After(c, b), names)
<1> DEFINE p == [k \in {1, 2} |-> IF k = 1 THEN b ELSE After(c, b)]
<1>1. c \in Calls /\ <<c>> \in Seq(Calls) /\ Len(<<c>>) = 1 /\ <<c>>[1] = c
  BY DEF GoodCall
<1>2. p[1] = b /\ p[2] = After(c, b)
  OBVIOUS
<1> HIDE DEF p
<1>3. Plan(p, <<c>>, b, After(c, b), names)
  BY <1>1, <1>2 DEF Plan
<1> QED BY <1>1, <1>3 DEF Leads

\* One plan and then another.
LEMMA BothLead ==
  ASSUME NEW x, NEW y, NEW z, NEW names,
         NEW c, Leads(c, x, y, names), NEW d, Leads(d, y, z, names)
  PROVE  Leads(c \o d, x, z, names)
<1>1. c \in Seq(Calls) /\ d \in Seq(Calls) /\ Len(c) \in Nat /\ Len(d) \in Nat
  BY DEF Leads
<1>2. /\ c \o d \in Seq(Calls) /\ Len(c \o d) = Len(c) + Len(d)
      /\ \A k \in 1 .. Len(c) + Len(d) :
           (c \o d)[k] = IF k <= Len(c) THEN c[k] ELSE d[k - Len(c)]
  BY <1>1, ConcatProperties
<1>3. PICK p : Plan(p, c, x, y, names)
  BY DEF Leads
<1>4. PICK q : Plan(q, d, y, z, names)
  BY DEF Leads
<1> DEFINE m == Len(c)
           n == Len(d)
           s == c \o d
           r == [k \in 1 .. m + n + 1 |-> IF k <= m THEN p[k] ELSE q[k - m]]
<1>5. p[1] = x /\ p[m + 1] = y /\ q[1] = y /\ q[n + 1] = z
  BY <1>3, <1>4 DEF Plan
<1>6. /\ \A k \in 1 .. m : GoodCall(c[k], p[k], names) /\ p[k + 1] = After(c[k], p[k])
      /\ \A k \in 1 .. n : GoodCall(d[k], q[k], names) /\ q[k + 1] = After(d[k], q[k])
  BY <1>3, <1>4 DEF Plan
<1>7. /\ \A k \in 1 .. m + 1 : r[k] = p[k]
      /\ \A k \in 1 .. n + 1 : r[m + k] = q[k]
  <2>1. m \in Nat /\ n \in Nat
    BY <1>1
  <2> HIDE DEF m, n
  <2>2. ASSUME NEW k \in 1 .. m + 1 PROVE r[k] = p[k]
    <3>1. CASE k <= m
      BY <2>1, <3>1
    <3>2. CASE k = m + 1
      <4>1. (m + 1) - m = 1 /\ m + 1 \in 1 .. m + n + 1 /\ ~(m + 1 <= m)
        BY <2>1
      <4>2. r[k] = q[1]
        BY <3>2, <4>1
      <4> QED BY <1>5, <3>2, <4>2
    <3> QED BY <2>1, <3>1, <3>2
  <2>3. ASSUME NEW k \in 1 .. n + 1 PROVE r[m + k] = q[k]
    <3>1. (m + k) - m = k /\ m + k \in 1 .. m + n + 1 /\ ~(m + k <= m)
      BY <2>1
    <3> QED BY <3>1
  <2> QED BY <2>2, <2>3
<1>8. m \in Nat /\ n \in Nat /\ s \in Seq(Calls) /\ Len(s) = m + n
  BY <1>1, <1>2
<1>9. \A k \in 1 .. m + n : s[k] = IF k <= m THEN c[k] ELSE d[k - m]
  BY <1>2
<1> HIDE DEF m, n, s, r
<1>10. ASSUME NEW k \in 1 .. m + n
       PROVE  GoodCall(s[k], r[k], names) /\ r[k + 1] = After(s[k], r[k])
  <2>1. CASE k <= m
    <3>1. s[k] = c[k] /\ r[k] = p[k] /\ r[k + 1] = p[k + 1] /\ k \in 1 .. m
      BY <1>7, <1>8, <1>9, <2>1
    <3> QED BY <1>6, <3>1
  <2>2. CASE k > m
    <3> DEFINE j == k - m
    <3>1. j \in 1 .. n /\ j + 1 \in 1 .. n + 1 /\ m + j = k /\ m + (j + 1) = k + 1 /\ ~(k <= m)
      BY <1>8, <2>2
    <3>2. s[k] = d[j]
      BY <1>9, <3>1
    <3> HIDE DEF j
    <3>3. r[m + j] = q[j] /\ r[m + (j + 1)] = q[j + 1]
      <4>1. j \in 1 .. n + 1 /\ j + 1 \in 1 .. n + 1
        BY <1>8, <3>1
      <4> QED BY <1>7, <4>1
    <3> QED BY <1>6, <3>1, <3>2, <3>3
  <2> QED BY <1>8, <2>1, <2>2
<1>11. r[1] = x /\ r[m + n + 1] = z
  <2>1. 1 \in 1 .. m + 1 /\ n + 1 \in 1 .. n + 1 /\ m + (n + 1) = m + n + 1
    BY <1>8
  <2> QED BY <1>5, <1>7, <2>1
<1>12. Plan(r, s, x, z, names)
  BY <1>8, <1>10, <1>11 DEF Plan
<1> QED BY <1>8, <1>12 DEF Leads, s

\* The first call of a plan, and the plan of the rest.
LEMMA FirstLeads ==
  ASSUME NEW x, NEW z, NEW names, NEW c, c # <<>>, Leads(c, x, z, names)
  PROVE  /\ GoodCall(Head(c), x, names)
         /\ Leads(Tail(c), After(Head(c), x), z, names)
<1>1. c \in Seq(Calls)
  BY DEF Leads
<1> DEFINE n == Len(c)
           t == Tail(c)
<1>2. /\ n \in Nat \ {0} /\ t \in Seq(Calls) /\ Len(t) = n - 1
      /\ \A k \in 1 .. Len(t) : t[k] = c[k + 1]
      /\ Head(c) = c[1]
  BY <1>1, HeadTailProperties
<1>3. PICK p : Plan(p, c, x, z, names)
  BY DEF Leads
<1>4. /\ p[1] = x /\ p[n + 1] = z
      /\ \A k \in 1 .. n : GoodCall(c[k], p[k], names) /\ p[k + 1] = After(c[k], p[k])
  BY <1>3 DEF Plan
<1> DEFINE q == [k \in 1 .. n |-> p[k + 1]]
<1> HIDE DEF n, t
<1>5. 1 \in 1 .. n /\ n \in 1 .. n /\ Len(t) + 1 = n
  BY <1>2
<1>6. q[1] = After(Head(c), x) /\ q[Len(t) + 1] = z
  BY <1>2, <1>4, <1>5
<1>7. ASSUME NEW k \in 1 .. Len(t)
      PROVE  GoodCall(t[k], q[k], names) /\ q[k + 1] = After(t[k], q[k])
  <2>1. k + 1 \in 1 .. n /\ k \in 1 .. n
    BY <1>2
  <2>2. t[k] = c[k + 1] /\ q[k] = p[k + 1] /\ q[k + 1] = p[(k + 1) + 1]
    BY <1>2, <2>1
  <2> QED BY <1>4, <2>1, <2>2
<1> HIDE DEF q
<1>8. Plan(q, t, After(Head(c), x), z, names)
  BY <1>6, <1>7 DEF Plan
<1>9. GoodCall(Head(c), x, names)
  BY <1>2, <1>4, <1>5
<1> QED BY <1>2, <1>8, <1>9 DEF Leads, t

\* Calls that leave the blocks as they find them.
LEMMA QuietLead ==
  ASSUME NEW b, NEW names, NEW c \in Seq(Calls),
         \A k \in 1 .. Len(c) : GoodCall(c[k], b, names) /\ After(c[k], b) = b
  PROVE  Leads(c, b, b, names)
<1> DEFINE p == [k \in 1 .. Len(c) + 1 |-> b]
<1>1. Len(c) \in Nat
  OBVIOUS
<1>2. \A k \in 1 .. Len(c) + 1 : p[k] = b
  OBVIOUS
<1> HIDE DEF p
<1>3. Plan(p, c, b, b, names)
  BY <1>1, <1>2 DEF Plan
<1> QED BY <1>3 DEF Leads

\* A call before a plan.
LEMMA MoreLeads ==
  ASSUME NEW b, NEW z, NEW names, NEW c, GoodCall(c, b, names),
         NEW d, Leads(d, After(c, b), z, names)
  PROVE  Leads(<<c>> \o d, b, z, names)
BY OneLeads, BothLead

LEMMA PairIsConcat ==
  ASSUME NEW c \in Calls, NEW d \in Calls
  PROVE  <<c, d>> = <<c>> \o <<d>>
<1>1. /\ <<c>> \in Seq(Calls) /\ <<d>> \in Seq(Calls) /\ <<c, d>> \in Seq(Calls)
      /\ Len(<<c>>) = 1 /\ Len(<<d>>) = 1 /\ Len(<<c, d>>) = 2
      /\ <<c>>[1] = c /\ <<d>>[1] = d /\ <<c, d>>[1] = c /\ <<c, d>>[2] = d
  OBVIOUS
<1> DEFINE s == <<c>> \o <<d>>
           t == <<c, d>>
<1>2. s \in Seq(Calls) /\ Len(s) = 2 /\ s[1] = c /\ s[2] = d
  BY <1>1, ConcatProperties
<1>3. t \in Seq(Calls) /\ Len(t) = 2 /\ t[1] = c /\ t[2] = d
  BY <1>1
<1> HIDE DEF s, t
<1>4. \A i \in 1 .. Len(s) : s[i] = t[i]
  BY <1>2, <1>3
<1>5. s = t
  BY <1>2, <1>3, <1>4, SeqEqual
<1> QED BY <1>5 DEF s, t

LEMMA TwoLead ==
  ASSUME NEW b, NEW z, NEW names, NEW c, GoodCall(c, b, names),
         NEW d, GoodCall(d, After(c, b), names), z = After(d, After(c, b))
  PROVE  Leads(<<c, d>>, b, z, names)
<1>1. Leads(<<d>>, After(c, b), z, names)
  BY OneLeads
<1>2. Leads(<<c>> \o <<d>>, b, z, names)
  BY <1>1, MoreLeads
<1>3. <<c>> \o <<d>> = <<c, d>>
  BY PairIsConcat DEF GoodCall
<1> QED BY <1>2, <1>3
-----------------------------------------------------------------------------
(* Contexts and what the text shows of them. *)

LEMMA DepthLimit == MaxPointerDepth \in 1 .. 15
BY PrintersAssumption

LEMMA NoContextGood == GoodContext(NoContext) /\ Shown(NoContext) = {}
BY DEF GoodContext, NoContext, Context, Shown

\* What GoodContext says of the variables of a scope.
LEMMA ScopeGood ==
  ASSUME NEW ctx, GoodContext(ctx), NEW i \in DOMAIN ctx.scope
  PROVE  /\ i \in 1 .. Len(ctx.scope) /\ ctx.scope[i] \in Variable
         /\ ctx.scope[i].name = i - 1 /\ ctx.scope[i].name \in Nat
         /\ ctx.scope[i].width \in Widths /\ ctx.scope[i].depth \in 0 .. 15
         /\ ctx.scope[i].depth <= MaxPointerDepth
         /\ ctx.scope[i].type \in {"integer", "pointer"}
         /\ ctx.scope[i].type = "integer" <=> ctx.scope[i].depth = 0
         /\ Object(ctx.scope[i]) \in Objects /\ Object(ctx.scope[i]) \in Shown(ctx)
<1>1. ctx.scope \in Seq(Variable) /\ DOMAIN ctx.scope = 1 .. Len(ctx.scope)
  BY DEF GoodContext, Context
<1>2. /\ i \in 1 .. Len(ctx.scope) /\ ctx.scope[i] \in Variable
      /\ ctx.scope[i].name = i - 1 /\ ctx.scope[i].depth <= MaxPointerDepth
      /\ ctx.scope[i].type = "integer" <=> ctx.scope[i].depth = 0
  BY <1>1 DEF GoodContext
<1> DEFINE v == ctx.scope[i]
<1>3. /\ v.name \in Nat /\ v.width \in Widths /\ v.depth \in Nat
      /\ v.type \in {"integer", "pointer"}
  BY <1>2 DEF Variable
<1>4. v.depth \in 0 .. 15
  <2> DEFINE d == v.depth
  <2>1. d \in Nat /\ d <= MaxPointerDepth
    BY <1>2, <1>3
  <2> HIDE DEF d, v
  <2>2. d \in 0 .. 15
    BY <2>1, DepthLimit
  <2> QED BY <2>2 DEF d
<1>5. Object(v) \in Objects
  BY <1>3 DEF Object, Objects
<1>6. Object(v) \in Shown(ctx)
  BY DEF Shown
<1> QED BY <1>2, <1>3, <1>4, <1>5, <1>6

\* The scope s with t behind it.
LEMMA ShownMore ==
  ASSUME NEW ctx, NEW new, ctx.scope \in Seq(Variable), NEW t \in Seq(Variable),
         new.scope = ctx.scope \o t
  PROVE  Shown(new) = Shown(ctx) \cup ObjectsOf(t)
<1> DEFINE s == ctx.scope
           u == new.scope
           m == Len(s)
           n == Len(t)
<1>1. /\ m \in Nat /\ n \in Nat /\ DOMAIN s = 1 .. m /\ DOMAIN t = 1 .. n
      /\ DOMAIN u = 1 .. m + n
      /\ \A i \in 1 .. m + n : u[i] = IF i <= m THEN s[i] ELSE t[i - m]
  BY ConcatProperties
<1> HIDE DEF s, u, m, n
<1>2. \A i \in 1 .. m : i \in 1 .. m + n /\ u[i] = s[i]
  BY <1>1
<1>3. \A i \in 1 .. n : m + i \in 1 .. m + n /\ u[m + i] = t[i]
  <2> SUFFICES ASSUME NEW i \in 1 .. n PROVE m + i \in 1 .. m + n /\ u[m + i] = t[i]
    OBVIOUS
  <2>1. m + i \in 1 .. m + n /\ ~(m + i <= m) /\ (m + i) - m = i
    BY <1>1
  <2> QED BY <1>1, <2>1
<1>4. \A i \in 1 .. m + n : i \in 1 .. m \/ \E j \in 1 .. n : i = m + j
  <2> SUFFICES ASSUME NEW i \in 1 .. m + n, i \notin 1 .. m
               PROVE  \E j \in 1 .. n : i = m + j
    OBVIOUS
  <2>1. i - m \in 1 .. n /\ i = m + (i - m)
    BY <1>1
  <2> QED BY <2>1
<1>5. Shown(new) = {Object(u[i]) : i \in 1 .. m + n}
  BY <1>1 DEF Shown, u
<1>6. Shown(ctx) = {Object(s[i]) : i \in 1 .. m}
  BY <1>1 DEF Shown, s
<1>7. {Object(u[i]) : i \in 1 .. m + n} =
      {Object(s[i]) : i \in 1 .. m} \cup {Object(t[i]) : i \in 1 .. n}
  <2>1. ASSUME NEW i \in 1 .. m + n
        PROVE  Object(u[i]) \in {Object(s[j]) : j \in 1 .. m} \cup {Object(t[j]) : j \in 1 .. n}
    BY <1>2, <1>3, <1>4
  <2>2. \A i \in 1 .. m : Object(s[i]) \in {Object(u[j]) : j \in 1 .. m + n}
    BY <1>2
  <2>3. \A i \in 1 .. n : Object(t[i]) \in {Object(u[j]) : j \in 1 .. m + n}
    BY <1>3
  <2> QED BY <2>1, <2>2, <2>3
<1> QED BY <1>1, <1>5, <1>6, <1>7 DEF ObjectsOf

LEMMA ContextRecord ==
  ASSUME NEW n \in Nat, NEW k \in Nat, NEW s \in Seq(Variable), NEW f \in Nat
  PROVE  [nvars |-> n, nintegers |-> k, scope |-> s, currfunc |-> f] \in Context
BY DEF Context

\* A variable that makeVariable() may return, and the context that has it.
LEMMA DeclareGood ==
  ASSUME NEW ctx, GoodContext(ctx), NEW v \in NewVariables(ctx)
  PROVE  /\ GoodContext(Declare(ctx, v))
         /\ Declare(ctx, v).scope = Append(ctx.scope, v)
         /\ Shown(Declare(ctx, v)) = Shown(ctx) \cup {Object(v)}
         /\ v.name = Len(ctx.scope) /\ Object(v) \in Objects /\ v.pointed \in Nat
         /\ v.depth > 0 => \E i \in DOMAIN ctx.scope :
              /\ ctx.scope[i].name = v.pointed
              /\ ctx.scope[i].depth = v.depth - 1 /\ ctx.scope[i].width = v.width
<1> DEFINE s == ctx.scope
           n == Len(s)
           t == Append(s, v)
           d == Declare(ctx, v)
           Points == \E i \in DOMAIN s : /\ s[i].name = v.pointed
                                         /\ s[i].depth = v.depth - 1 /\ s[i].width = v.width
<1>1. ctx \in Context /\ s \in Seq(Variable) /\ n \in Nat /\ ctx.nvars = n
      /\ ctx.nintegers \in Nat /\ DOMAIN s = 1 .. n
  BY DEF GoodContext, Context
<1>2. /\ v \in Variable /\ v.name = n /\ v.depth <= MaxPointerDepth
      /\ v.type = "integer" <=> v.depth = 0
      /\ v.depth > 0 => Points
  <2>1. CASE \E w \in Widths : v = IntegerVar(ctx.nvars, w)
    <3>1. PICK w \in Widths : v = IntegerVar(n, w)
      BY <1>1, <2>1
    <3>2. /\ v.name = n /\ v.depth = 0 /\ v.type = "integer" /\ v.width = w
          /\ v.pointed = n /\ v = [type |-> "integer", name |-> n, width |-> w,
                                   depth |-> 0, pointed |-> n]
      BY <3>1 DEF IntegerVar
    <3>3. v \in Variable
      BY <1>1, <3>1, <3>2 DEF Variable
    <3> QED BY <3>2, <3>3, PrintersAssumption
  <2>2. ASSUME NEW i \in Pointable(ctx), v = PointerVar(ctx.nvars, ctx.scope[i])
        PROVE  /\ v \in Variable /\ v.name = n /\ v.depth <= MaxPointerDepth
               /\ v.type # "integer" /\ v.depth # 0 /\ Points
    <3>1. i \in DOMAIN s /\ s[i].depth < MaxPointerDepth
      BY DEF Pointable
    <3>2. s[i].depth \in Nat /\ s[i].name \in Nat /\ s[i].width \in Widths
      <4>1. s[i] \in Variable
        BY <1>1, <3>1
      <4> QED BY <4>1 DEF Variable
    <3>3. /\ v.name = n /\ v.depth = s[i].depth + 1 /\ v.width = s[i].width
          /\ v.pointed = s[i].name /\ v.type = "pointer"
          /\ v = [type |-> "pointer", name |-> n, width |-> s[i].width,
                  depth |-> s[i].depth + 1, pointed |-> s[i].name]
      BY <1>1, <2>2 DEF PointerVar
    <3>4. v \in Variable
      <4>1. s[i].depth + 1 \in Nat /\ n \in Nat
        BY <1>1, <3>2
      <4> DEFINE e == s[i].depth + 1
                 a == s[i].name
                 w == s[i].width
      <4>2. e \in Nat /\ a \in Nat /\ w \in Widths
            /\ v = [type |-> "pointer", name |-> n, width |-> w, depth |-> e, pointed |-> a]
        BY <3>2, <3>3, <4>1
      <4> HIDE DEF e, a, w, n
      <4> QED BY <4>1, <4>2 DEF Variable
    <3>5. s[i].depth = v.depth - 1 /\ v.depth # 0 /\ v.depth <= MaxPointerDepth
      <4> DEFINE e == s[i].depth
                 a == v.depth
      <4>1. e \in Nat /\ a = e + 1 /\ e < MaxPointerDepth
        BY <3>1, <3>2, <3>3
      <4> HIDE DEF e, a
      <4>2. e = a - 1 /\ a # 0 /\ a <= MaxPointerDepth
        BY <4>1, DepthLimit
      <4> QED BY <4>2 DEF e, a
    <3>6. Points
      BY <3>1, <3>3, <3>5
    <3> QED BY <3>3, <3>4, <3>5, <3>6
  <2> QED BY <2>1, <2>2 DEF NewVariables
<1>3. v.width \in Widths /\ v.depth \in Nat /\ v.pointed \in Nat
  BY <1>2 DEF Variable
<1>4. Object(v) \in Objects
  BY <1>1, <1>2, <1>3 DEF Object, Objects
<1>5. /\ t \in Seq(Variable) /\ Len(t) = n + 1 /\ t[n + 1] = v
      /\ \A i \in 1 .. n : t[i] = s[i]
  BY <1>1, <1>2, AppendProperties
<1>6. /\ d.scope = t /\ d.nvars = n + 1 /\ d \in Context
  <2>1. ctx.nvars + 1 = n + 1 /\ n + 1 \in Nat
    BY <1>1
  <2> DEFINE k == IF v.type = "integer" THEN ctx.nintegers + 1 ELSE ctx.nintegers
  <2>2. k \in Nat
    BY <1>1
  <2>3. d = [ctx EXCEPT !.nvars = ctx.nvars + 1, !.nintegers = k, !.scope = t]
    BY <1>1 DEF Declare, Context
  <2> HIDE DEF k, t, d, n
  <2>4. d = [nvars |-> n + 1, nintegers |-> k, scope |-> t, currfunc |-> ctx.currfunc]
    BY <1>1, <2>1, <2>3 DEF Context
  <2>5. ctx.currfunc \in Nat
    BY <1>1 DEF Context
  <2>6. d \in Context
    BY <1>5, <2>1, <2>2, <2>4, <2>5 DEF Context
  <2> QED BY <2>4, <2>6
<1>7. GoodContext(d)
  <2>1. ASSUME NEW i \in 1 .. n + 1
        PROVE  /\ t[i].name = i - 1 /\ t[i].depth <= MaxPointerDepth
               /\ t[i].type = "integer" <=> t[i].depth = 0
    <3>1. CASE i \in 1 .. n
      <4>1. t[i] = s[i]
        BY <1>5, <3>1
      <4> HIDE DEF t
      <4> QED BY <3>1, <4>1 DEF GoodContext
    <3>2. CASE i = n + 1
      <4>1. t[i] = v /\ i - 1 = n
        BY <1>1, <1>5, <3>2
      <4> HIDE DEF t
      <4> QED BY <1>2, <4>1
    <3> QED BY <1>1, <3>1, <3>2
  <2> HIDE DEF d, t
  <2> QED BY <1>5, <1>6, <2>1 DEF GoodContext
<1>8. Shown(d) = Shown(ctx) \cup {Object(v)}
  <2>1. <<v>> \in Seq(Variable) /\ DOMAIN <<v>> = {1} /\ <<v>>[1] = v
    BY <1>2
  <2>2. t = s \o <<v>>
    BY <1>1, <1>2, AppendIsConcat
  <2> HIDE DEF d, t
  <2>3. Shown(d) = Shown(ctx) \cup ObjectsOf(<<v>>)
    BY <1>1, <1>6, <2>1, <2>2, ShownMore
  <2> QED BY <2>1, <2>3 DEF ObjectsOf
<1> QED BY <1>2, <1>3, <1>4, <1>6, <1>7, <1>8

\* The context of a function: that of the file and parameters of widths ps.
Parameters(ctx, ps) == [i \in DOMAIN ps |-> IntegerVar(ctx.nvars + i - 1, ps[i])]
FunctionContext(ctx, ps) ==
  [ctx EXCEPT !.nvars = @ + Len(ps), !.nintegers = @ + Len(ps),
              !.scope = @ \o Parameters(ctx, ps)]

LEMMA FunctionContextGood ==
  ASSUME NEW ctx, GoodContext(ctx), NEW ps, ps \in ParameterLists
  PROVE  LET params == Parameters(ctx, ps)
             new    == FunctionContext(ctx, ps)
         IN
         /\ GoodContext(new) /\ new.scope = ctx.scope \o params
         /\ params \in Seq(Variable)
         /\ Shown(new) = Shown(ctx) \cup ObjectsOf(params)
         /\ ObjectsOf(params) \subseteq Objects
         /\ \A i, j \in DOMAIN params : params[i].name = params[j].name => i = j
<1> DEFINE params == Parameters(ctx, ps)
           new == FunctionContext(ctx, ps)
<1>0. params = Parameters(ctx, ps) /\ new = FunctionContext(ctx, ps)
  OBVIOUS
<1> SUFFICES /\ GoodContext(new) /\ new.scope = ctx.scope \o params
             /\ params \in Seq(Variable)
             /\ Shown(new) = Shown(ctx) \cup ObjectsOf(params)
             /\ ObjectsOf(params) \subseteq Objects
             /\ \A i, j \in DOMAIN params : params[i].name = params[j].name => i = j
  OBVIOUS
<1> HIDE DEF params, new
<1>1. PICK k \in Nat : ps \in [1 .. k -> Widths]
  BY PrintersAssumption DEF ParameterLists
<1> DEFINE s == ctx.scope
           n == Len(s)
           u == s \o params
<1>2. /\ ctx \in Context /\ s \in Seq(Variable) /\ n \in Nat /\ ctx.nvars = n
      /\ ctx.nintegers \in Nat /\ ctx.currfunc \in Nat
  BY DEF GoodContext, Context
<1>3. /\ params \in Seq(Variable) /\ Len(params) = k /\ Len(ps) = k /\ DOMAIN params = 1 .. k
      /\ \A i \in 1 .. k : params[i].name = n + i - 1 /\ params[i].depth = 0
                           /\ params[i].type = "integer" /\ params[i].width \in Widths
  <2>1. DOMAIN ps = 1 .. k /\ Len(ps) = k /\ \A i \in 1 .. k : ps[i] \in Widths
    BY <1>1
  <2>2. params = [i \in 1 .. k |-> IntegerVar(n + i - 1, ps[i])]
    BY <1>0, <1>2, <2>1 DEF Parameters
  <2> HIDE DEF n
  <2>3. ASSUME NEW i \in 1 .. k
        PROVE  IntegerVar(n + i - 1, ps[i]) \in Variable
    <3> DEFINE a == n + i - 1
               w == ps[i]
    <3>1. a \in Nat /\ w \in Widths
      BY <1>2, <2>1
    <3> HIDE DEF a, w
    <3>2. IntegerVar(a, w) \in Variable
      BY <3>1, PrintersAssumption DEF IntegerVar, Variable
    <3> QED BY <3>2 DEF a, w
  <2>4. \A i \in 1 .. k :
          /\ params[i].name = n + i - 1 /\ params[i].depth = 0
          /\ params[i].type = "integer" /\ params[i].width \in Widths
    BY <2>1, <2>2 DEF IntegerVar
  <2>5. params \in [1 .. k -> Variable]
    BY <2>2, <2>3
  <2> QED BY <2>1, <2>4, <2>5
<1>4. /\ u \in Seq(Variable) /\ Len(u) = n + k
      /\ \A i \in 1 .. n + k : u[i] = IF i <= n THEN s[i] ELSE params[i - n]
  BY <1>2, <1>3, ConcatProperties
<1>5. new = [nvars |-> n + k, nintegers |-> ctx.nintegers + k, scope |-> u,
             currfunc |-> ctx.currfunc]
  BY <1>0, <1>2, <1>3 DEF Context, FunctionContext
<1>6. new.scope = u /\ new.nvars = n + k /\ new \in Context
  <2>1. n + k \in Nat /\ ctx.nintegers + k \in Nat
    BY <1>2
  <2> DEFINE a == n + k
             b == ctx.nintegers + k
             c == ctx.currfunc
  <2>2. new = [nvars |-> a, nintegers |-> b, scope |-> u, currfunc |-> c]
    BY <1>5
  <2>3. a \in Nat /\ b \in Nat /\ c \in Nat /\ u \in Seq(Variable)
    BY <1>2, <1>4, <2>1
  <2> HIDE DEF u, a, b, c
  <2>4. new \in Context
    BY <2>2, <2>3, ContextRecord
  <2>5. new.scope = u /\ new.nvars = a
    BY <2>2
  <2> QED BY <2>4, <2>5 DEF a
<1>7. ASSUME NEW i \in 1 .. n + k
      PROVE  /\ u[i].name = i - 1 /\ u[i].depth <= MaxPointerDepth
             /\ u[i].type = "integer" <=> u[i].depth = 0
  <2>1. CASE i <= n
    <3>1. u[i] = s[i] /\ i \in 1 .. n
      BY <1>2, <1>4, <2>1
    <3> HIDE DEF u
    <3> QED BY <3>1 DEF GoodContext
  <2>2. CASE i > n
    <3> DEFINE j == i - n
    <3>1. j \in 1 .. k /\ n + j - 1 = i - 1 /\ ~(i <= n)
      <4> HIDE DEF n
      <4> QED BY <1>2, <2>2
    <3>2. u[i] = params[j]
      BY <1>4, <3>1
    <3>3. 0 <= MaxPointerDepth
      BY DepthLimit
    <3> HIDE DEF j, u
    <3> QED BY <1>3, <3>1, <3>2, <3>3
  <2> HIDE DEF n, u
  <2> QED BY <1>2, <2>1, <2>2
<1>8. GoodContext(new)
  <2> HIDE DEF u, n
  <2> QED BY <1>4, <1>6, <1>7 DEF GoodContext
<1>9. Shown(new) = Shown(ctx) \cup ObjectsOf(params)
  <2>1. ctx.scope \in Seq(Variable) /\ params \in Seq(Variable) /\ new.scope = ctx.scope \o params
    BY <1>2, <1>3, <1>6
  <2> DEFINE t == params
             c == new
  <2>2. t \in Seq(Variable) /\ c.scope = ctx.scope \o t
    BY <2>1
  <2> HIDE DEF u, s, n, t, c
  <2>3. Shown(c) = Shown(ctx) \cup ObjectsOf(t)
    BY <2>1, <2>2, ShownMore
  <2> QED BY <2>3 DEF t, c
<1>10. {Object(params[i]) : i \in DOMAIN params} \subseteq Objects
  <2>1. \A i \in 1 .. k : n + i - 1 \in Nat
    BY <1>2
  <2> HIDE DEF n
  <2>2. ASSUME NEW i \in 1 .. k PROVE Object(params[i]) \in Objects
    BY <1>3, <2>1 DEF Object, Objects
  <2> QED BY <1>3, <2>2
<1>11. \A i, j \in DOMAIN params : params[i].name = params[j].name => i = j
  <2> HIDE DEF n
  <2> QED BY <1>2, <1>3
<1> QED BY <1>3, <1>6, <1>8, <1>9, <1>10, <1>11 DEF ObjectsOf
-----------------------------------------------------------------------------
(* What a name means in the text. *)

\* A set of numbers up to n has a greatest element.
LEMMA Greatest ==
  ASSUME NEW n \in Nat, NEW S, S \subseteq 1 .. n, S # {}
  PROVE  \E x \in S : \A y \in S : y <= x
<1> DEFINE R == OpToRel(<, Nat)
           T == {n - x : x \in S}
<1>1. IsWellFoundedOn(R, Nat)
  BY NatLessThanWellFounded
<1>2. \A a, b \in Nat : a < b => <<a, b>> \in R
  BY DEF OpToRel
<1> HIDE DEF R
<1>3. T \subseteq Nat /\ T # {}
  <2>1. \A x \in S : n - x \in Nat
    OBVIOUS
  <2> QED BY <2>1
<1>4. PICK t \in T : \A y \in T : ~(<<y, t>> \in R)
  BY <1>1, <1>3, WFMin
<1>5. PICK x \in S : t = n - x
  BY <1>4
<1>6. ASSUME NEW y \in S PROVE y <= x
  <2>1. n - y \in T /\ n - y \in Nat /\ n - x \in Nat
    BY <1>3
  <2>2. ~(n - y < n - x)
    BY <1>2, <1>4, <1>5, <2>1
  <2> QED BY <2>2
<1> QED BY <1>6

\* Every name of a scope means its variable.
LEMMA Meant ==
  ASSUME NEW ctx, GoodContext(ctx), blocks \in Seq(SUBSET Objects),
         Visible(blocks) = Shown(ctx), NEW i \in DOMAIN ctx.scope
  PROVE  /\ Text!Known(ctx.scope[i].name)
         /\ Text!The(ctx.scope[i].name) = Object(ctx.scope[i])
<1> DEFINE n == ctx.scope[i].name
           v == Object(ctx.scope[i])
           inner == {b \in DOMAIN blocks : Text!Named(b, n) # {}}
<1>1. v \in Visible(blocks) /\ v.name = n
  BY ScopeGood DEF Object
<1>2. ASSUME NEW b \in DOMAIN blocks, NEW u \in blocks[b], u.name = n PROVE u = v
  <2>1. u \in Shown(ctx)
    BY <1>2 DEF Visible
  <2>2. PICK j \in DOMAIN ctx.scope : u = Object(ctx.scope[j])
    BY <2>1 DEF Shown
  <2>3. ctx.scope[j].name = ctx.scope[i].name
    BY <1>2, <2>2 DEF Object
  <2>4. /\ ctx.scope[j].name = j - 1 /\ j \in 1 .. Len(ctx.scope)
        /\ ctx.scope[i].name = i - 1 /\ i \in 1 .. Len(ctx.scope)
    BY ScopeGood
  <2>5. j - 1 = i - 1
    BY <2>3, <2>4
  <2>6. j = i
    BY <2>4, <2>5
  <2> QED BY <2>2, <2>6
<1> HIDE DEF n, v
<1>3. \A b \in DOMAIN blocks : Text!Named(b, n) \subseteq {v}
  BY <1>2 DEF Text!Named
<1>4. inner # {}
  <2>1. PICK b \in DOMAIN blocks : v \in blocks[b]
    BY <1>1 DEF Visible
  <2>2. v \in Text!Named(b, n)
    BY <1>1, <2>1 DEF Text!Named
  <2> QED BY <2>2
<1>5. Len(blocks) \in Nat /\ DOMAIN blocks = 1 .. Len(blocks)
  OBVIOUS
<1>6. \E b \in inner : \A c \in inner : c <= b
  <2>1. inner \subseteq 1 .. Len(blocks)
    BY <1>5
  <2> HIDE DEF inner
  <2> QED BY <1>4, <1>5, <2>1, Greatest
<1> DEFINE b == CHOOSE b \in inner : \A c \in inner : c <= b
<1>7. b \in inner
  <2> HIDE DEF inner
  <2> QED BY <1>6
<1>8. Text!Meaning(n) = Text!Named(b, n)
  BY <1>4 DEF Text!Meaning
<1>9. Text!Named(b, n) = {v}
  <2> HIDE DEF b
  <2> QED BY <1>3, <1>7
<1>10. Text!Meaning(n) = {v}
  BY <1>8, <1>9
<1>11. Text!Known(n) /\ Text!The(n) = v
  BY <1>10 DEF Text!Known, Text!The
<1> QED BY <1>11 DEF n, v

\* A step of CBlock, or none.
TextStep == Text!Next \/ UNCHANGED <<line, blocks>>

\* A variable of the scope is read through its levels.
LEMMA ValueStep ==
  ASSUME NEW ctx, InScope(ctx, blocks, normalVariableName), blocks \in Seq(SUBSET Objects),
         Len(blocks) > 1, NEW i \in DOMAIN ctx.scope,
         line' = UsableId(ctx.scope[i]), UNCHANGED blocks
  PROVE  line' \in Lines /\ TextStep
<1>1. /\ Text!Known(ctx.scope[i].name)
      /\ Text!The(ctx.scope[i].name) = Object(ctx.scope[i])
  BY Meant DEF InScope
<1>2. ctx.scope[i].name \in Nat /\ ctx.scope[i].depth \in 0 .. 15
  BY ScopeGood DEF InScope
<1>3. /\ line'.op = "value" /\ line'.name = ctx.scope[i].name
      /\ line'.stars = ctx.scope[i].depth
      /\ line' = [op |-> "value", name |-> ctx.scope[i].name, stars |-> ctx.scope[i].depth]
  BY DEF UsableId, MaxDerefd
<1>4. line' \in Lines
  <2> DEFINE l == line'
  <2>1. l \in [op : {"value"}, name : Nat, stars : 0 .. 15]
    BY <1>2, <1>3
  <2> HIDE DEF l
  <2>2. l \in Lines
    BY <2>1 DEF Lines
  <2> QED BY <2>2 DEF l
<1>5. Object(ctx.scope[i]).depth = ctx.scope[i].depth
  BY DEF Object
<1>6. Text!Value
  BY <1>1, <1>3, <1>5 DEF Text!Value
<1> QED BY <1>4, <1>6 DEF TextStep, Text!Next

\* An operand is a constant, or a variable of the scope.
LEMMA OperandStep ==
  ASSUME PrintersInv, InScope(Next1.ctx, blocks, normalVariableName), Len(blocks) > 1,
         NEW l \in Operands, Emit(l)
  PROVE  line' \in Lines /\ TextStep
<1>1. CASE l = line
  BY <1>1 DEF PrintersInv, VariablesOK, Emit, TextStep
<1>2. CASE l # line
  <2>1. PICK v \in Selected("any") : l = UsableId(v)
    BY <1>2 DEF Operands
  <2>2. PICK i \in DOMAIN Next1.ctx.scope : v = Next1.ctx.scope[i]
    BY DEF Selected, Selectable
  <2> QED BY <2>1, <2>2, ValueStep DEF PrintersInv, VariablesOK, Emit
<1> QED BY <1>1, <1>2
-----------------------------------------------------------------------------
(* Steps *)

\* The next call can be made here, and the rest leads to the end of the file.
LEMMA NextGood ==
  ASSUME PrintersInv, todo # <<>>
  PROVE  /\ GoodCall(Next1, blocks, normalVariableName)
         /\ Leads(Tail(todo), After(Next1, blocks), <<>>, normalVariableName)
         /\ Next1 \in Calls /\ Next1.op \in Ops /\ Next1.ctx \in Context
         /\ Next1.nest \in Nat /\ Next1.n \in Nat /\ Len(blocks) \in Nat \ {0}
<1>1. Leads(todo, blocks, <<>>, normalVariableName)
  BY DEF PrintersInv, Follows
<1>2. /\ GoodCall(Next1, blocks, normalVariableName)
      /\ Leads(Tail(todo), After(Next1, blocks), <<>>, normalVariableName)
  BY <1>1, FirstLeads DEF Next1
<1>3. Next1 \in Calls
  BY <1>2 DEF GoodCall
<1>4. Len(blocks) \in Nat \ {0}
  <2>1. Len(blocks) \in Nat /\ (Len(blocks) = 1 \/ Len(blocks) > 1)
    BY <1>2 DEF GoodCall
  <2> QED BY <2>1
<1> QED BY <1>2, <1>3, <1>4 DEF Calls

\* Nothing follows the functions of a file; something follows every other call.
LEMMA FileLast ==
  ASSUME PrintersInv, todo # <<>>
  PROVE  Next1.op \in FileOps <=> Tail(todo) = <<>>
<1>1. /\ GoodCall(Next1, blocks, normalVariableName)
      /\ Leads(Tail(todo), After(Next1, blocks), <<>>, normalVariableName)
  BY NextGood
<1>2. ASSUME Next1.op \in FileOps, Tail(todo) # <<>> PROVE FALSE
  <2>1. After(Next1, blocks) = <<>>
    BY <1>2 DEF After, FileOps, BlockOps
  <2>2. GoodCall(Head(Tail(todo)), <<>>, normalVariableName)
    BY <1>1, <1>2, <2>1, FirstLeads
  <2> DEFINE e == <<>>
  <2>3. ~(Len(e) = 1) /\ ~(Len(e) > 1)
    OBVIOUS
  <2> HIDE DEF e
  <2>4. Len(e) = 1 \/ Len(e) > 1
    BY <2>2 DEF GoodCall, e
  <2> QED BY <2>3, <2>4
<1>3. ASSUME Next1.op \notin FileOps, Tail(todo) = <<>> PROVE FALSE
  <2>1. PICK p : Plan(p, <<>>, After(Next1, blocks), <<>>, normalVariableName)
    BY <1>1, <1>3 DEF Leads
  <2>2. After(Next1, blocks) = <<>>
    <3>1. Len(<<>>) + 1 = 1
      OBVIOUS
    <3> QED BY <2>1, <3>1 DEF Plan
  <2>3. Len(blocks) \in Nat /\ Len(blocks) > 1 /\ blocks \in Seq(SUBSET Objects)
    BY <1>1, <1>3 DEF GoodCall
  <2> DEFINE m == Len(blocks)
  <2>4. /\ Len(Append(blocks, {})) = m + 1
        /\ Len(SubSeq(blocks, 1, m - 1)) = m - 1
    <3>1. Len(Append(blocks, {})) = m + 1
      BY <2>3, AppendProperties
    <3>2. \A i \in 1 .. m - 1 : blocks[i] \in SUBSET Objects
      BY <2>3
    <3>3. Len(SubSeq(blocks, 1, m - 1)) = IF 1 <= m - 1 THEN (m - 1) - 1 + 1 ELSE 0
      <4> HIDE DEF m
      <4>1. m \in Nat /\ m > 1
        BY <2>3 DEF m
      <4>2. 1 \in Int /\ m - 1 \in Int
        BY <4>1
      <4> QED BY <3>2, <4>2, SubSeqProperties
    <3> QED BY <2>3, <3>1, <3>3
  <2>5. Len(After(Next1, blocks)) \in {m, m + 1, m - 1}
    BY <1>3, <2>4 DEF After
  <2>6. Len(After(Next1, blocks)) = 0
    BY <2>2
  <2> HIDE DEF m
  <2>7. m \in Nat /\ m > 1
    BY <2>3 DEF m
  <2> QED BY <2>5, <2>6, <2>7
<1> QED BY <1>2, <1>3

\* The next call is replaced by calls that lead where it would have led.
LEMMA DoFollows ==
  ASSUME PrintersInv, todo # <<>>, NEW calls, Do(calls),
         Next1.op \in FileOps => calls # <<>>,
         Leads(calls, blocks', After(Next1, blocks), normalVariableName),
         UNCHANGED normalVariableName, line' \in Lines, blocks' \in Seq(SUBSET Objects)
  PROVE  PrintersInv'
<1>1. Leads(Tail(todo), After(Next1, blocks), <<>>, normalVariableName)
  BY NextGood
<1>2. todo' = calls \o Tail(todo) /\ Leads(todo', blocks', <<>>, normalVariableName)
  BY <1>1, BothLead DEF Do
<1>3. calls \in Seq(Calls) /\ Tail(todo) \in Seq(Calls)
  BY <1>1 DEF Leads
<1>4. todo' # <<>>
  <2>1. calls # <<>> \/ Tail(todo) # <<>>
    BY FileLast
  <2> QED BY <1>2, <1>3, <2>1, ConcatEqualIffEmpty
<1>5. todo' \in Seq(Calls)
  BY <1>2 DEF Leads
<1>6. Follows'
  <2>1. Leads(todo', blocks', <<>>, normalVariableName')
    BY <1>2
  <2> QED BY <1>4, <2>1 DEF Follows
<1>7. VariablesOK'
  BY <1>5 DEF PrintersInv, VariablesOK
<1> QED BY <1>6, <1>7 DEF PrintersInv
-----------------------------------------------------------------------------
(* Blocks and the calls made in them. *)

\* A block more.
LEMMA Pushed ==
  ASSUME NEW b \in Seq(SUBSET Objects), NEW S \in SUBSET Objects
  PROVE  /\ Append(b, S) \in Seq(SUBSET Objects) /\ Len(Append(b, S)) = Len(b) + 1
         /\ Visible(Append(b, S)) = Visible(b) \cup S
         /\ SubSeq(Append(b, S), 1, Len(Append(b, S)) - 1) = b
<1> DEFINE a == Append(b, S)
           n == Len(b)
<1>1. /\ a \in Seq(SUBSET Objects) /\ Len(a) = n + 1 /\ n \in Nat /\ a[n + 1] = S
      /\ \A i \in 1 .. n : a[i] = b[i]
  BY AppendProperties
<1>2. DOMAIN a = 1 .. n + 1 /\ DOMAIN b = 1 .. n
  BY <1>1
<1>3. (n + 1) - 1 = n /\ n + 1 \in 1 .. n + 1 /\ \A i \in 1 .. n : i \in 1 .. n + 1
  BY <1>1
<1>4. \A i \in 1 .. n + 1 : i \in 1 .. n \/ i = n + 1
  BY <1>1
<1>5. Visible(a) = Visible(b) \cup S
  <2> HIDE DEF a, n
  <2> QED BY <1>1, <1>2, <1>3, <1>4 DEF Visible
<1>6. SubSeq(a, 1, n) = b
  <2>1. SubSeq(b, 1, n) = b
    BY SubSeqFull
  <2> DEFINE t == SubSeq(a, 1, n)
  <2>2. \A i \in 1 .. n : a[i] \in SUBSET Objects
    BY <1>1, <1>3
  <2>3. 1 \in Int /\ n \in Int
    BY <1>1
  <2>4. /\ t \in Seq(SUBSET Objects) /\ Len(t) = IF 1 <= n THEN n - 1 + 1 ELSE 0
        /\ \A i \in 1 .. n - 1 + 1 : t[i] = a[1 + i - 1]
    <3> HIDE DEF a, n
    <3> QED BY <2>2, <2>3, SubSeqProperties
  <2>5. Len(t) = n /\ \A i \in 1 .. n : t[i] = b[i]
    <3>1. n - 1 + 1 = n /\ (IF 1 <= n THEN n - 1 + 1 ELSE 0) = n
          /\ \A i \in 1 .. n : 1 + i - 1 = i
      BY <1>1
    <3> HIDE DEF t, a, n
    <3> QED BY <1>1, <2>4, <3>1
  <2> HIDE DEF t
  <2> QED BY <2>4, <2>5, SeqEqual DEF t
<1> QED BY <1>1, <1>3, <1>5, <1>6

\* The first n of two sequences that agree so far.
LEMMA SamePrefix ==
  ASSUME NEW S, NEW a \in Seq(S), NEW b \in Seq(S), NEW n \in Nat,
         n <= Len(a), n <= Len(b), \A i \in 1 .. n : a[i] = b[i]
  PROVE  SubSeq(a, 1, n) = SubSeq(b, 1, n)
<1> DEFINE s == SubSeq(a, 1, n)
           t == SubSeq(b, 1, n)
<1>1. \A i \in 1 .. n : a[i] \in S /\ b[i] \in S
  OBVIOUS
<1>2. 1 \in Int /\ n \in Int
  OBVIOUS
<1>3. /\ s \in Seq(S) /\ Len(s) = IF 1 <= n THEN n - 1 + 1 ELSE 0
      /\ \A i \in 1 .. n - 1 + 1 : s[i] = a[1 + i - 1]
  BY <1>1, <1>2, SubSeqProperties
<1>4. /\ t \in Seq(S) /\ Len(t) = IF 1 <= n THEN n - 1 + 1 ELSE 0
      /\ \A i \in 1 .. n - 1 + 1 : t[i] = b[1 + i - 1]
  BY <1>1, <1>2, SubSeqProperties
<1>5. /\ n - 1 + 1 = n /\ (IF 1 <= n THEN n - 1 + 1 ELSE 0) = n
      /\ \A i \in 1 .. n : 1 + i - 1 = i
  OBVIOUS
<1> HIDE DEF s, t
<1>6. Len(s) = Len(t) /\ \A i \in 1 .. Len(s) : s[i] = t[i]
  BY <1>3, <1>4, <1>5
<1> QED BY <1>3, <1>4, <1>6, SeqEqual DEF s, t

\* A block less.
LEMMA Popped ==
  ASSUME NEW b \in Seq(SUBSET Objects), Len(b) > 0
  PROVE  SubSeq(b, 1, Len(b) - 1) \in Seq(SUBSET Objects)
<1>1. 1 \in Int /\ Len(b) - 1 \in Int /\ \A i \in 1 .. Len(b) - 1 : b[i] \in SUBSET Objects
  OBVIOUS
<1> QED BY <1>1, SubSeqProperties

\* A declaration in the innermost block.
LEMMA Added ==
  ASSUME NEW b \in Seq(SUBSET Objects), Len(b) > 0, NEW o \in Objects,
         NEW a, a = [b EXCEPT ![Len(b)] = @ \cup {o}]
  PROVE  /\ a \in Seq(SUBSET Objects) /\ Len(a) = Len(b)
         /\ Visible(a) = Visible(b) \cup {o}
         /\ SubSeq(a, 1, Len(a) - 1) = SubSeq(b, 1, Len(b) - 1)
<1> DEFINE n == Len(b)
<1>1. n \in Nat /\ n \in 1 .. n /\ n - 1 \in Nat /\ DOMAIN b = 1 .. n
  OBVIOUS
<1>2. b[n] \cup {o} \in SUBSET Objects
  BY <1>1
<1>3. /\ a \in Seq(SUBSET Objects) /\ Len(a) = n
      /\ \A i \in 1 .. n : a[i] = IF i = n THEN b[n] \cup {o} ELSE b[i]
  BY <1>1, <1>2, ExceptSeq
<1>4. DOMAIN a = 1 .. n
  BY <1>3
<1> HIDE DEF n
<1>5. Visible(a) = Visible(b) \cup {o}
  BY <1>1, <1>3, <1>4 DEF Visible
<1>6. SubSeq(a, 1, n - 1) = SubSeq(b, 1, n - 1)
  <2>1. n - 1 <= n /\ \A i \in 1 .. n - 1 : i \in 1 .. n /\ i # n
    BY <1>1
  <2>2. \A i \in 1 .. n - 1 : a[i] = b[i]
    BY <1>3, <2>1
  <2>3. n - 1 <= Len(a) /\ n - 1 <= Len(b)
    BY <1>3, <2>1 DEF n
  <2> QED BY <1>1, <1>3, <2>2, <2>3, SamePrefix
<1> QED BY <1>3, <1>5, <1>6 DEF n

\* A call in a context that the open blocks declare.
LEMMA CallGood ==
  ASSUME NEW op \in Ops \ FileOps, NEW ctx, NEW b \in Seq(SUBSET Objects), NEW names,
         Len(b) > 1, InScope(ctx, b, names), NEW nest \in Nat, NEW n \in Nat
  PROVE  /\ GoodCall(Call(op, ctx, nest, n), b, names)
         /\ Call(op, ctx, nest, n) \in Calls
         /\ Call(op, ctx, nest, n).op = op
<1>1. ctx \in Context
  BY DEF InScope, GoodContext
<1>2. /\ Call(op, ctx, nest, n).op = op
      /\ Call(op, ctx, nest, n).ctx = ctx
  BY DEF Call
<1>3. Call(op, ctx, nest, n) \in Calls
  BY <1>1 DEF Call, Calls
<1> QED BY <1>2, <1>3 DEF GoodCall

LEMMA CloseGood ==
  ASSUME NEW b \in Seq(SUBSET Objects), NEW names, Len(b) > 1
  PROVE  /\ GoodCall(Close, b, names) /\ Close \in Calls
         /\ After(Close, b) = SubSeq(b, 1, Len(b) - 1)
<1>1. Close.op = "close"
  BY DEF Close, Call
<1>2. Close \in Calls
  BY NoContextGood DEF Close, Call, Calls, GoodContext, Ops
<1>3. GoodCall(Close, b, names)
  BY <1>1, <1>2 DEF GoodCall, FileOps
<1>4. After(Close, b) = SubSeq(b, 1, Len(b) - 1)
  BY <1>1 DEF After, BlockOps
<1> QED BY <1>2, <1>3, <1>4

\* A call is its four parts.
LEMMA CallParts ==
  ASSUME NEW c \in Calls
  PROVE  c = Call(c.op, c.ctx, c.nest, c.n)
BY DEF Calls, Call

\* A call like another, made with another printer, another count or another context.
LEMMA OtherPrinter ==
  ASSUME NEW c \in Calls, NEW op \in Ops
  PROVE  [c EXCEPT !.op = op] = Call(op, c.ctx, c.nest, c.n)
<1> DEFINE x == [c EXCEPT !.op = op]
<1>1. x \in Calls /\ x.op = op /\ x.ctx = c.ctx /\ x.nest = c.nest /\ x.n = c.n
  BY DEF Calls
<1> HIDE DEF x
<1>2. x = Call(op, c.ctx, c.nest, c.n)
  BY <1>1, CallParts
<1> QED BY <1>2 DEF x

LEMMA OtherCount ==
  ASSUME NEW c \in Calls, NEW op \in Ops, NEW n \in Nat
  PROVE  [c EXCEPT !.op = op, !.n = n] = Call(op, c.ctx, c.nest, n)
<1> DEFINE x == [c EXCEPT !.op = op, !.n = n]
<1>1. x \in Calls /\ x.op = op /\ x.ctx = c.ctx /\ x.nest = c.nest /\ x.n = n
  BY DEF Calls
<1> HIDE DEF x
<1>2. x = Call(op, c.ctx, c.nest, n)
  BY <1>1, CallParts
<1> QED BY <1>2 DEF x

LEMMA OtherNest ==
  ASSUME NEW c \in Calls, NEW op \in Ops, NEW nest \in Nat
  PROVE  [c EXCEPT !.op = op, !.nest = nest] = Call(op, c.ctx, nest, c.n)
<1> DEFINE x == [c EXCEPT !.op = op, !.nest = nest]
<1>1. x \in Calls /\ x.op = op /\ x.ctx = c.ctx /\ x.nest = nest /\ x.n = c.n
  BY DEF Calls
<1> HIDE DEF x
<1>2. x = Call(op, c.ctx, nest, c.n)
  BY <1>1, CallParts
<1> QED BY <1>2 DEF x

LEMMA OtherContext ==
  ASSUME NEW c \in Calls, NEW ctx \in Context, NEW n \in Nat
  PROVE  [c EXCEPT !.ctx = ctx, !.n = n] = Call(c.op, ctx, c.nest, n)
<1> DEFINE x == [c EXCEPT !.ctx = ctx, !.n = n]
<1>1. x \in Calls /\ x.op = c.op /\ x.ctx = ctx /\ x.nest = c.nest /\ x.n = n
  BY DEF Calls
<1> HIDE DEF x
<1>2. x = Call(c.op, ctx, c.nest, n)
  BY <1>1, CallParts
<1> QED BY <1>2 DEF x

\* Printers that leave the blocks as they find them.
QuietOps == Ops \ (FileOps \cup BlockOps \cup {"open"})

LEMMA QuietStays ==
  ASSUME NEW c, NEW b, c.op \in QuietOps
  PROVE  After(c, b) = b
BY DEF QuietOps, After

LEMMA ManyLead ==
  ASSUME NEW k \in Nat, NEW c, NEW b, NEW names, GoodCall(c, b, names), c.op \in QuietOps
  PROVE  Leads(Times(k, c), b, b, names)
<1>1. c \in Calls
  BY DEF GoodCall
<1>2. /\ Times(k, c) \in Seq(Calls) /\ Len(Times(k, c)) = k
      /\ \A i \in 1 .. k : Times(k, c)[i] = c
  BY <1>1 DEF Times
<1> QED BY <1>2, QuietLead, QuietStays

\* What the printers print in a block stands in its context.
LEMMA NextInScope ==
  ASSUME PrintersInv, todo # <<>>, Next1.op \notin FileOps, Next1.op # "close"
  PROVE  /\ InScope(Next1.ctx, blocks, normalVariableName) /\ GoodContext(Next1.ctx)
         /\ blocks \in Seq(SUBSET Objects) /\ Len(blocks) > 1 /\ line \in Lines
BY NextGood DEF GoodCall, InScope, PrintersInv, VariablesOK

\* A call that is replaced by quiet calls in its own context.
LEMMA QuietFollows ==
  ASSUME PrintersInv, todo # <<>>, Next1.op \in QuietOps, NEW calls, Do(calls),
         Leads(calls, blocks, blocks, normalVariableName),
         UNCHANGED <<blocks, normalVariableName>>, line' \in Lines
  PROVE  PrintersInv'
<1>1. After(Next1, blocks) = blocks /\ Next1.op \notin FileOps
  BY QuietStays DEF QuietOps
<1>2. blocks' \in Seq(SUBSET Objects)
  BY DEF PrintersInv, VariablesOK
<1> QED BY <1>1, <1>2, DoFollows
-----------------------------------------------------------------------------
(* The file and its declarations *)

\* A declaration is one that CBlock accepts, and the scope grows with the text.
LEMMA PrintDeclStep ==
  ASSUME NEW ctx, NEW names, InScope(ctx, blocks, names), blocks \in Seq(SUBSET Objects),
         Len(blocks) > 0, NEW v \in NewVariables(ctx), PrintDecl(v)
  PROVE  /\ line' \in Lines /\ TextStep
         /\ blocks' \in Seq(SUBSET Objects) /\ Len(blocks') = Len(blocks)
         /\ SubSeq(blocks', 1, Len(blocks') - 1) = SubSeq(blocks, 1, Len(blocks) - 1)
         /\ InScope(Declare(ctx, v), blocks', names)
<1>1. GoodContext(ctx) /\ Visible(blocks) = Shown(ctx)
  BY DEF InScope
<1>2. /\ GoodContext(Declare(ctx, v)) /\ Declare(ctx, v).scope = Append(ctx.scope, v)
      /\ Shown(Declare(ctx, v)) = Shown(ctx) \cup {Object(v)}
      /\ v.name = Len(ctx.scope) /\ Object(v) \in Objects /\ v.pointed \in Nat
      /\ v.depth > 0 => \E i \in DOMAIN ctx.scope :
           /\ ctx.scope[i].name = v.pointed
           /\ ctx.scope[i].depth = v.depth - 1 /\ ctx.scope[i].width = v.width
  BY <1>1, DeclareGood
<1>3. /\ line' = [op |-> "declare", var |-> Object(v), init |-> v.pointed]
      /\ blocks' = [blocks EXCEPT ![Len(blocks)] = @ \cup {Object(v)}]
  BY DEF PrintDecl
<1>4. /\ blocks' \in Seq(SUBSET Objects) /\ Len(blocks') = Len(blocks)
      /\ Visible(blocks') = Visible(blocks) \cup {Object(v)}
      /\ SubSeq(blocks', 1, Len(blocks') - 1) = SubSeq(blocks, 1, Len(blocks) - 1)
  BY <1>2, <1>3, Added
<1>5. line' \in Lines
  <2> DEFINE l == line'
             o == Object(v)
             p == v.pointed
  <2>1. l = [op |-> "declare", var |-> o, init |-> p] /\ o \in Objects /\ p \in Nat
    BY <1>2, <1>3
  <2> HIDE DEF l, o, p
  <2>2. l \in Lines
    BY <2>1 DEF Lines
  <2> QED BY <2>2 DEF l
<1>6. InScope(Declare(ctx, v), blocks', names)
  <2>1. Visible(blocks') = Shown(Declare(ctx, v))
    BY <1>1, <1>2, <1>4
  <2>2. ASSUME NEW n \in names
        PROVE  /\ n + 1 \in 1 .. Len(Declare(ctx, v).scope)
               /\ Declare(ctx, v).scope[n + 1].depth = 0
    <3> DEFINE s == ctx.scope
               t == Declare(ctx, v).scope
    <3>1. s \in Seq(Variable) /\ n + 1 \in 1 .. Len(s) /\ s[n + 1].depth = 0
      BY <1>1 DEF InScope, GoodContext, Context
    <3>2. t = Append(s, v)
      BY <1>2
    <3>3. t \in Seq(Variable) /\ v = t[Len(s) + 1]
      <4>1. t \in Seq(Variable)
        BY <1>2 DEF GoodContext, Context
      <4> HIDE DEF s, t
      <4> QED BY <3>1, <3>2, <4>1
    <3> HIDE DEF s, t
    <3>4. Len(t) = Len(s) + 1 /\ \A i \in 1 .. Len(s) : t[i] = s[i]
      BY <3>1, <3>2
    <3>5. n + 1 \in 1 .. Len(t) /\ t[n + 1] = s[n + 1]
      BY <3>1, <3>4
    <3>6. n + 1 \in 1 .. Len(t) /\ t[n + 1].depth = 0
      BY <3>1, <3>5
    <3> QED BY <3>6 DEF t
  <2> QED BY <1>2, <2>1, <2>2 DEF InScope
<1>7. Text!Declare
  <2>1. line'.op = "declare" /\ line'.var = Object(v) /\ line'.init = v.pointed
    BY <1>3
  <2>2. Text!Named(Len(blocks), Object(v).name) = {}
    <3> SUFFICES ASSUME NEW u \in blocks[Len(blocks)], u.name = v.name PROVE FALSE
      BY DEF Text!Named, Object
    <3>1. u \in Visible(blocks)
      BY DEF Visible
    <3>2. PICK i \in DOMAIN ctx.scope : u = Object(ctx.scope[i])
      BY <1>1, <3>1 DEF Shown
    <3>3. u.name = i - 1 /\ i \in 1 .. Len(ctx.scope) /\ Len(ctx.scope) \in Nat
      <4>1. u.name = ctx.scope[i].name
        BY <3>2 DEF Object
      <4>2. ctx.scope \in Seq(Variable)
        BY <1>1 DEF GoodContext, Context
      <4> QED BY <1>1, <4>1, <4>2, ScopeGood
    <3>4. i - 1 = Len(ctx.scope)
      BY <1>2, <3>3
    <3> QED BY <3>3, <3>4
  <2>3. Object(v).depth = v.depth /\ Object(v).width = v.width
    BY DEF Object
  <2>4. ASSUME v.depth > 0
        PROVE  /\ Text!Known(v.pointed) /\ Text!The(v.pointed).depth = v.depth - 1
               /\ Text!The(v.pointed).width = v.width
    <3>1. PICK i \in DOMAIN ctx.scope :
            /\ ctx.scope[i].name = v.pointed
            /\ ctx.scope[i].depth = v.depth - 1 /\ ctx.scope[i].width = v.width
      BY <1>2, <2>4
    <3>2. /\ Text!Known(v.pointed)
          /\ Text!The(v.pointed) = Object(ctx.scope[i])
      BY <1>1, <3>1, Meant
    <3> QED BY <3>1, <3>2 DEF Object
  <2> QED BY <1>3, <2>1, <2>2, <2>3, <2>4 DEF Text!Declare
<1> QED BY <1>4, <1>5, <1>6, <1>7 DEF TextStep, Text!Next

LEMMA BeginProgramGood == PrintersInv /\ BeginProgram => PrintersInv' /\ TextStep
<1> SUFFICES ASSUME PrintersInv, BeginProgram PROVE PrintersInv' /\ TextStep
  OBVIOUS
<1>1. blocks = <<{}>> /\ normalVariableName = {} /\ VariablesOK
  BY DEF PrintersInv, Follows, BeginProgram
<1>2. PICK k \in GlobalCounts : todo' = <<Call("globals", NoContext, 0, k)>>
  BY DEF BeginProgram
<1> DEFINE c == Call("globals", NoContext, 0, k)
<1>3. UNCHANGED <<line, blocks, normalVariableName>>
  BY DEF BeginProgram, PrintNothing
<1>4. c \in Calls /\ c.op = "globals" /\ c.ctx = NoContext
  <2>1. k \in Nat
    BY PrintersAssumption
  <2> QED BY <2>1, NoContextGood DEF Call, Calls, GoodContext, Ops
<1>5. InScope(NoContext, <<{}>>, {})
  BY NoContextGood DEF InScope, Visible
<1>6. GoodCall(c, <<{}>>, {})
  <2>1. <<{}>> \in Seq(SUBSET Objects) /\ Len(<<{}>>) = 1
    BY <1>1 DEF VariablesOK
  <2> HIDE DEF c
  <2> QED BY <1>4, <1>5, <2>1 DEF GoodCall, FileOps
<1> HIDE DEF c
<1>7. After(c, <<{}>>) = <<>>
  BY <1>4 DEF After, BlockOps, FileOps
<1>8. Leads(<<c>>, <<{}>>, <<>>, {})
  BY <1>6, <1>7, OneLeads
<1>9. todo' = <<c>> /\ todo' \in Seq(Calls) /\ todo' # <<>>
  BY <1>2, <1>4 DEF c
<1>10. Leads(todo', blocks', <<>>, normalVariableName')
  BY <1>1, <1>3, <1>8, <1>9
<1>11. Follows' /\ VariablesOK'
  BY <1>1, <1>3, <1>9, <1>10 DEF Follows, VariablesOK
<1> QED BY <1>3, <1>11 DEF PrintersInv, TextStep

LEMMA PrintGlobalGood == PrintersInv /\ PrintGlobal => PrintersInv' /\ TextStep
<1> SUFFICES ASSUME PrintersInv, PrintGlobal PROVE PrintersInv' /\ TextStep
  OBVIOUS
<1>1. todo # <<>> /\ Next1.op = "globals" /\ Next1.n > 0
  BY DEF PrintGlobal, At
<1> DEFINE ctx == Next1.ctx
<1>2. PICK w \in Widths :
        LET v == IntegerVar(Next1.ctx.nvars, w)
        IN /\ PrintDecl(v)
           /\ normalVariableName' = normalVariableName \cup {v.name}
           /\ Do(<<[Next1 EXCEPT !.ctx = Declare(@, v), !.n = @ - 1]>>)
  BY DEF PrintGlobal
<1> DEFINE v == IntegerVar(Next1.ctx.nvars, w)
           d == Declare(ctx, v)
           c == Call("globals", d, Next1.nest, Next1.n - 1)
<1>3. /\ Next1 \in Calls /\ GoodCall(Next1, blocks, normalVariableName)
      /\ Next1.nest \in Nat /\ Next1.n \in Nat
  BY <1>1, NextGood
<1>4. /\ InScope(ctx, blocks, normalVariableName) /\ GoodContext(ctx) /\ Len(blocks) = 1
      /\ blocks \in Seq(SUBSET Objects) /\ ctx \in Context
  BY <1>1, <1>3 DEF GoodCall, FileOps, InScope, GoodContext
<1>5. v \in NewVariables(ctx)
  BY DEF NewVariables
<1>6. v.depth = 0
  BY DEF IntegerVar
<1> HIDE DEF v
<1>7. PrintDecl(v) /\ normalVariableName' = normalVariableName \cup {v.name}
  BY <1>2 DEF v
<1>8. /\ line' \in Lines /\ TextStep
      /\ blocks' \in Seq(SUBSET Objects) /\ Len(blocks') = Len(blocks)
      /\ InScope(d, blocks', normalVariableName)
  BY <1>4, <1>5, <1>7, PrintDeclStep
<1>9. d.scope = Append(ctx.scope, v) /\ v.name = Len(ctx.scope) /\ d \in Context
  BY <1>4, <1>5, DeclareGood DEF GoodContext
<1>10. InScope(d, blocks', normalVariableName')
  <2> DEFINE s == ctx.scope
             t == d.scope
  <2>1. s \in Seq(Variable) /\ t \in Seq(Variable) /\ t = Append(s, v)
    BY <1>4, <1>9 DEF Context
  <2> HIDE DEF s, t
  <2>2. Len(s) + 1 \in 1 .. Len(t) /\ t[Len(s) + 1] = v
    BY <2>1
  <2>3. v.name + 1 \in 1 .. Len(t) /\ t[v.name + 1].depth = 0
    BY <1>6, <1>9, <2>2 DEF s
  <2>4. v.name + 1 \in 1 .. Len(d.scope) /\ d.scope[v.name + 1].depth = 0
    BY <2>3 DEF t
  <2> HIDE DEF d
  <2> QED BY <1>7, <1>8, <2>4 DEF InScope
<1>11. c \in Calls /\ c.op = "globals" /\ c.ctx = d
  <2>1. Next1.n - 1 \in Nat
    BY <1>1, <1>3
  <2> HIDE DEF d
  <2> QED BY <1>3, <1>9, <2>1 DEF Call, Calls, Ops
<1>12. todo' = <<c>>
  <2>1. Next1.n - 1 \in Nat
    BY <1>1, <1>3
  <2>2. [Next1 EXCEPT !.ctx = Declare(@, v), !.n = @ - 1] = c
    <3>1. [Next1 EXCEPT !.ctx = d, !.n = Next1.n - 1] = Call(Next1.op, d, Next1.nest, Next1.n - 1)
      <4> DEFINE a == Next1
                 m == Next1.n - 1
      <4>1. a \in Calls /\ m \in Nat /\ d \in Context
        BY <1>3, <1>9, <2>1
      <4> HIDE DEF d, a, m
      <4>2. [a EXCEPT !.ctx = d, !.n = m] = Call(a.op, d, a.nest, m)
        BY <4>1, OtherContext
      <4> QED BY <4>2 DEF a, m
    <3> QED BY <1>1, <3>1
  <2>3. Tail(todo) = <<>>
    BY <1>1, FileLast DEF FileOps
  <2> HIDE DEF c
  <2>4. todo' = <<c>> \o Tail(todo)
    BY <1>2, <2>2 DEF Do, v
  <2>5. <<c>> \in Seq(Calls)
    BY <1>11
  <2> QED BY <2>3, <2>4, <2>5, ConcatEmptySeq
<1> HIDE DEF c, d
<1>13. GoodCall(c, blocks', normalVariableName')
  BY <1>4, <1>8, <1>10, <1>11 DEF GoodCall, FileOps
<1>14. Leads(todo', blocks', <<>>, normalVariableName')
  <2>1. After(c, blocks') = <<>>
    BY <1>11 DEF After, FileOps, BlockOps
  <2> QED BY <1>12, <1>13, <2>1, OneLeads
<1>15. todo' # <<>> /\ todo' \in Seq(Calls)
  BY <1>11, <1>12
<1>16. normalVariableName' \subseteq Nat
  <2>1. v.name \in Nat
    BY <1>4, <1>9 DEF Context
  <2> QED BY <1>7, <2>1 DEF PrintersInv, VariablesOK
<1>17. VariablesOK' /\ Follows'
  BY <1>8, <1>14, <1>15, <1>16 DEF VariablesOK, Follows
<1> QED BY <1>8, <1>17 DEF PrintersInv

LEMMA GlobalsPrintedGood == PrintersInv /\ GlobalsPrinted => PrintersInv' /\ TextStep
<1> SUFFICES ASSUME PrintersInv, GlobalsPrinted PROVE PrintersInv' /\ TextStep
  OBVIOUS
<1>1. /\ todo # <<>> /\ Next1.op = "globals" /\ Do(<<[Next1 EXCEPT !.op = "functions"]>>)
      /\ UNCHANGED <<line, blocks, normalVariableName>>
  BY DEF GlobalsPrinted, At, PrintNothing
<1>2. /\ Next1 \in Calls /\ GoodCall(Next1, blocks, normalVariableName)
  BY <1>1, NextGood
<1> DEFINE c == [Next1 EXCEPT !.op = "functions"]
<1>3. c \in Calls /\ c.op = "functions" /\ c.ctx = Next1.ctx
  BY <1>2 DEF Calls, Ops
<1> HIDE DEF c
<1>4. GoodCall(c, blocks, normalVariableName) /\ After(c, blocks) = After(Next1, blocks)
  BY <1>1, <1>2, <1>3 DEF GoodCall, After, FileOps, BlockOps
<1>5. Leads(<<c>>, blocks', After(Next1, blocks), normalVariableName)
  BY <1>1, <1>4, OneLeads
<1>6. Do(<<c>>) /\ <<c>> # <<>>
  BY <1>1 DEF c
<1>7. line' \in Lines /\ blocks' \in Seq(SUBSET Objects)
  BY <1>1 DEF PrintersInv, VariablesOK
<1> QED BY <1>1, <1>5, <1>6, <1>7, DoFollows DEF TextStep

\* printFunctionPrototype() declares the parameters, which bear distinct names.
LEMMA PrintFunctionGood == PrintersInv /\ PrintFunction => PrintersInv' /\ TextStep
<1> SUFFICES ASSUME PrintersInv, PrintFunction PROVE PrintersInv' /\ TextStep
  OBVIOUS
<1>1. todo # <<>> /\ Next1.op = "functions" /\ UNCHANGED normalVariableName
  BY DEF PrintFunction, At
<1>2. /\ Next1 \in Calls /\ GoodCall(Next1, blocks, normalVariableName)
      /\ After(Next1, blocks) = <<>>
  BY <1>1, NextGood DEF After, FileOps, BlockOps
<1> DEFINE ctx == Next1.ctx
<1>3. /\ InScope(ctx, blocks, normalVariableName) /\ GoodContext(ctx) /\ Len(blocks) = 1
      /\ blocks \in Seq(SUBSET Objects) /\ ctx \in Context
  BY <1>1, <1>2 DEF GoodCall, FileOps, InScope, GoodContext
<1>4. PICK ps \in ParameterLists :
        LET params == Parameters(ctx, ps)
        IN /\ line' = [op |-> "define", params |-> {Object(params[i]) : i \in DOMAIN params}]
           /\ blocks' = Append(blocks, line'.params)
           /\ \E k \in NumLocals(0) : Do(<<Call("body", FunctionContext(ctx, ps), 0, k), Next1>>)
  BY DEF PrintFunction, Parameters, FunctionContext
<1> DEFINE params == Parameters(ctx, ps)
           new == FunctionContext(ctx, ps)
           S == ObjectsOf(params)
<1>5. /\ GoodContext(new) /\ new.scope = ctx.scope \o params /\ params \in Seq(Variable)
      /\ Shown(new) = Shown(ctx) \cup S /\ S \subseteq Objects
      /\ \A i, j \in DOMAIN params : params[i].name = params[j].name => i = j
  <2>1. params = Parameters(ctx, ps) /\ new = FunctionContext(ctx, ps)
    OBVIOUS
  <2> HIDE DEF params, new, ctx
  <2> QED BY <1>3, <2>1, FunctionContextGood
<1> HIDE DEF params, new
<1>6. /\ line' = [op |-> "define", params |-> S] /\ blocks' = Append(blocks, S)
      /\ line'.op = "define" /\ line'.params = S
  BY <1>4 DEF params, ObjectsOf
<1>7. PICK k \in NumLocals(0) : Do(<<Call("body", new, 0, k), Next1>>)
  BY <1>4 DEF new
<1>8. \A u, v \in S : u.name = v.name => u = v
  <2> SUFFICES ASSUME NEW i \in DOMAIN params, NEW j \in DOMAIN params,
                      Object(params[i]).name = Object(params[j]).name
               PROVE  Object(params[i]) = Object(params[j])
    BY DEF ObjectsOf
  <2>1. params[i].name = params[j].name
    BY DEF Object
  <2> QED BY <1>5, <2>1
<1> HIDE DEF S
<1>9. line' \in Lines
  <2> DEFINE l == line'
  <2>1. l = [op |-> "define", params |-> S] /\ S \in SUBSET Objects
    BY <1>5, <1>6
  <2> HIDE DEF l
  <2>2. l \in Lines
    BY <2>1 DEF Lines
  <2> QED BY <2>2 DEF l
<1>10. Text!Define
  BY <1>3, <1>6, <1>8 DEF Text!Define
<1>11. /\ blocks' \in Seq(SUBSET Objects) /\ Len(blocks') = 2
       /\ Visible(blocks') = Visible(blocks) \cup S
       /\ SubSeq(blocks', 1, Len(blocks') - 1) = blocks
  <2> DEFINE a == Append(blocks, S)
  <2>1. S \in SUBSET Objects
    BY <1>5
  <2>2. /\ a \in Seq(SUBSET Objects) /\ Len(a) = Len(blocks) + 1
        /\ Visible(a) = Visible(blocks) \cup S /\ SubSeq(a, 1, Len(a) - 1) = blocks
    BY <1>3, <2>1, Pushed
  <2>3. Len(a) = 2
    BY <1>3, <2>2
  <2> HIDE DEF a
  <2>4. blocks' = a
    BY <1>6 DEF a
  <2> QED BY <2>2, <2>3, <2>4
<1>12. InScope(new, blocks', normalVariableName)
  <2>1. Visible(blocks') = Shown(new)
    BY <1>3, <1>5, <1>11 DEF InScope
  <2>2. ASSUME NEW n \in normalVariableName
        PROVE  n + 1 \in 1 .. Len(new.scope) /\ new.scope[n + 1].depth = 0
    <3> DEFINE s == ctx.scope
               t == new.scope
    <3>1. s \in Seq(Variable) /\ n + 1 \in 1 .. Len(s) /\ s[n + 1].depth = 0
      BY <1>3 DEF InScope, Context
    <3>2. t = s \o params
      BY <1>5
    <3> HIDE DEF s, t
    <3>3. /\ Len(t) = Len(s) + Len(params) /\ Len(s) \in Nat /\ Len(params) \in Nat
          /\ \A i \in 1 .. Len(s) + Len(params) :
               t[i] = IF i <= Len(s) THEN s[i] ELSE params[i - Len(s)]
      BY <1>5, <3>1, <3>2, ConcatProperties
    <3> DEFINE a == Len(s)
               b == Len(params)
               m == n + 1
    <3>4. a \in Nat /\ b \in Nat /\ m \in 1 .. a
      BY <3>1, <3>3
    <3> HIDE DEF a, b, m
    <3>5. m \in 1 .. a + b /\ m <= a
      BY <3>4
    <3>6. m \in 1 .. Len(t) /\ t[m] = s[m]
      BY <3>3, <3>5 DEF a, b
    <3>7. m \in 1 .. Len(t) /\ t[m].depth = 0
      BY <3>1, <3>6 DEF m
    <3> QED BY <3>7 DEF t, m
  <2> QED BY <1>5, <2>1, <2>2 DEF InScope
<1> DEFINE body == Call("body", new, 0, k)
<1>13. /\ GoodCall(body, blocks', normalVariableName) /\ After(body, blocks') = blocks
  <2> DEFINE op == "body"
             nest == 0
  <2>1. k \in Nat /\ nest \in Nat
    BY <1>7, PrintersAssumption DEF NumLocals
  <2>2. op \in Ops \ FileOps
    BY DEF Ops, FileOps
  <2>3. Len(blocks') > 1
    BY <1>11
  <2>4. GoodCall(body, blocks', normalVariableName) /\ body.op = "body"
    <3>1. body = Call(op, new, nest, k)
      OBVIOUS
    <3> HIDE DEF body, op, nest
    <3> DEFINE b == blocks'
    <3>a. /\ b \in Seq(SUBSET Objects) /\ Len(b) > 1
          /\ InScope(new, b, normalVariableName)
      BY <1>11, <1>12, <2>3
    <3> HIDE DEF b
    <3>b. /\ GoodCall(Call(op, new, nest, k), b, normalVariableName)
          /\ Call(op, new, nest, k).op = op
      BY <2>1, <2>2, <3>a, CallGood
    <3>2. GoodCall(body, blocks', normalVariableName) /\ body.op = op
      BY <3>1, <3>b, Zenon DEF b
    <3> QED BY <3>2 DEF op
  <2> HIDE DEF body
  <2> QED BY <1>11, <2>4 DEF After, BlockOps
<1> HIDE DEF body
<1>14. Leads(<<body, Next1>>, blocks', After(Next1, blocks), normalVariableName)
  BY <1>2, <1>13, TwoLead
<1>15. Do(<<body, Next1>>) /\ <<body, Next1>> # <<>>
  BY <1>7 DEF body
<1>16. PrintersInv'
  BY <1>1, <1>9, <1>11, <1>14, <1>15, DoFollows
<1> QED BY <1>10, <1>16 DEF TextStep, Text!Next

\* The names of the grammar go with the program they belong to.
LEMMA EndProgramGood == PrintersInv /\ EndProgram => PrintersInv' /\ TextStep
<1> SUFFICES ASSUME PrintersInv, EndProgram PROVE PrintersInv' /\ TextStep
  OBVIOUS
<1>1. /\ todo # <<>> /\ Next1.op = "functions" /\ Do(<<>>)
      /\ line' = [op |-> "end"] /\ blocks' = <<{}>> /\ normalVariableName' = {}
  BY DEF EndProgram, At, NamesCleared
<1>2. todo \in Seq(Calls) /\ Tail(todo) = <<>>
  BY <1>1, FileLast DEF PrintersInv, VariablesOK, FileOps
<1>3. todo' = <<>>
  BY <1>1, <1>2, EmptySeq, ConcatEmptySeq DEF Do
<1>4. line' \in Lines
  <2> DEFINE l == line'
  <2>1. l = [op |-> "end"]
    BY <1>1
  <2> HIDE DEF l
  <2>2. l \in Lines
    BY <2>1 DEF Lines
  <2> QED BY <2>2 DEF l
<1>5. <<{}>> \in Seq(SUBSET Objects) /\ <<>> \in Seq(Calls)
  OBVIOUS
<1>6. VariablesOK' /\ Follows'
  BY <1>1, <1>3, <1>4, <1>5 DEF VariablesOK, Follows
<1>7. Text!End
  <2>1. Len(blocks) = 1
    BY <1>1, NextGood DEF GoodCall, FileOps
  <2> QED BY <1>1, <2>1 DEF Text!End
<1> QED BY <1>6, <1>7 DEF PrintersInv, TextStep, Text!Next
-----------------------------------------------------------------------------
(* Blocks *)

\* A brace that is opened.
LEMMA OpenStep ==
  ASSUME blocks \in Seq(SUBSET Objects), Len(blocks) > 1, OpenBrace
  PROVE  /\ line' \in Lines /\ TextStep /\ blocks' = Append(blocks, {})
         /\ blocks' \in Seq(SUBSET Objects) /\ Len(blocks') > 1
         /\ SubSeq(blocks', 1, Len(blocks') - 1) = blocks
         /\ \A ctx, names : InScope(ctx, blocks, names) => InScope(ctx, blocks', names)
<1>1. line' = [op |-> "open"] /\ blocks' = Append(blocks, {}) /\ line'.op = "open"
  BY DEF OpenBrace
<1>2. line' \in Lines
  <2> DEFINE l == line'
  <2>1. l = [op |-> "open"]
    BY <1>1
  <2> HIDE DEF l
  <2>2. l \in Lines
    BY <2>1 DEF Lines
  <2> QED BY <2>2 DEF l
<1>3. /\ blocks' \in Seq(SUBSET Objects) /\ Len(blocks') = Len(blocks) + 1
      /\ Visible(blocks') = Visible(blocks)
      /\ SubSeq(blocks', 1, Len(blocks') - 1) = blocks
  <2>1. {} \in SUBSET Objects
    OBVIOUS
  <2> QED BY <1>1, <2>1, Pushed
<1>4. Len(blocks') > 1
  BY <1>3
<1>5. Text!Open
  BY <1>1 DEF Text!Open
<1>6. \A ctx, names : InScope(ctx, blocks, names) => InScope(ctx, blocks', names)
  BY <1>3 DEF InScope
<1> QED BY <1>1, <1>2, <1>3, <1>4, <1>5, <1>6 DEF TextStep, Text!Next

\* The locals of a block belong to it: they go when it is closed.
LEMMA PrintBlockGood == PrintersInv /\ PrintBlock => PrintersInv' /\ TextStep
<1> SUFFICES ASSUME PrintersInv, PrintBlock PROVE PrintersInv' /\ TextStep
  OBVIOUS
<1>1. /\ todo # <<>> /\ Next1.op \in {"block", "functionBlock"} /\ OpenBrace
      /\ UNCHANGED normalVariableName
  BY DEF PrintBlock, At
<1> DEFINE op == IF Next1.op = "block" THEN "locals" ELSE "functionLocals"
<1>2. PICK k \in NumLocals(Next1.nest) : Do(<<[Next1 EXCEPT !.op = op, !.n = k]>>)
  BY DEF PrintBlock
<1>3. /\ InScope(Next1.ctx, blocks, normalVariableName) /\ blocks \in Seq(SUBSET Objects)
      /\ Len(blocks) > 1 /\ Next1 \in Calls /\ Next1.nest \in Nat
  BY <1>1, NextInScope, NextGood DEF FileOps
<1>4. k \in Nat /\ op \in Ops \ FileOps /\ op \in BlockOps
  BY <1>2, <1>3, PrintersAssumption DEF NumLocals, Ops, FileOps, BlockOps
<1>5. After(Next1, blocks) = blocks /\ Next1.op \notin FileOps
  BY <1>1 DEF After, BlockOps, FileOps
<1> HIDE DEF op
<1> DEFINE c == Call(op, Next1.ctx, Next1.nest, k)
<1>6. /\ line' \in Lines /\ TextStep
      /\ blocks' \in Seq(SUBSET Objects) /\ Len(blocks') > 1
      /\ SubSeq(blocks', 1, Len(blocks') - 1) = blocks
      /\ InScope(Next1.ctx, blocks', normalVariableName)
  BY <1>1, <1>3, OpenStep
<1>7. Do(<<c>>)
  <2>1. [Next1 EXCEPT !.op = op, !.n = k] = c
    BY <1>3, <1>4, OtherCount
  <2> QED BY <1>2, <2>1
<1>8. /\ GoodCall(c, blocks', normalVariableName) /\ c.op = op
  BY <1>3, <1>4, <1>6, CallGood
<1> HIDE DEF c
<1>9. After(c, blocks') = blocks
  BY <1>4, <1>6, <1>8 DEF After, BlockOps
<1>10. Leads(<<c>>, blocks', After(Next1, blocks), normalVariableName)
  BY <1>5, <1>8, <1>9, OneLeads
<1>11. PrintersInv'
  BY <1>1, <1>5, <1>6, <1>7, <1>10, DoFollows
<1> QED BY <1>6, <1>11

LEMMA PrintLocalGood == PrintersInv /\ PrintLocal => PrintersInv' /\ TextStep
<1> SUFFICES ASSUME PrintersInv, PrintLocal PROVE PrintersInv' /\ TextStep
  OBVIOUS
<1>1. /\ todo # <<>> /\ Next1.op \in {"locals", "functionLocals", "body"} /\ Next1.n > 0
      /\ UNCHANGED normalVariableName
  BY DEF PrintLocal, At
<1>2. PICK v \in NewVariables(Next1.ctx) :
        PrintDecl(v) /\ Do(<<[Next1 EXCEPT !.ctx = Declare(@, v), !.n = @ - 1]>>)
  BY DEF PrintLocal
<1>3. /\ InScope(Next1.ctx, blocks, normalVariableName) /\ blocks \in Seq(SUBSET Objects)
      /\ Len(blocks) > 1 /\ GoodContext(Next1.ctx)
      /\ Next1 \in Calls /\ Next1.nest \in Nat /\ Next1.n \in Nat
  BY <1>1, NextInScope, NextGood DEF FileOps
<1> DEFINE op == Next1.op
           d == Declare(Next1.ctx, v)
           n == Next1.n - 1
           c == Call(op, d, Next1.nest, n)
<1>4. /\ line' \in Lines /\ TextStep
      /\ blocks' \in Seq(SUBSET Objects) /\ Len(blocks') = Len(blocks)
      /\ SubSeq(blocks', 1, Len(blocks') - 1) = SubSeq(blocks, 1, Len(blocks) - 1)
      /\ InScope(d, blocks', normalVariableName)
  <2> HIDE DEF d
  <2>1. Len(blocks) > 0
    BY <1>3
  <2> QED BY <1>2, <1>3, <2>1, PrintDeclStep DEF d
<1>5. d \in Context /\ n \in Nat /\ op \in Ops \ FileOps /\ op \in BlockOps /\ Len(blocks') > 1
  <2>1. GoodContext(d)
    BY <1>4 DEF InScope
  <2>2. n \in Nat
    BY <1>1, <1>3
  <2> HIDE DEF d, n
  <2> QED BY <1>1, <1>3, <1>4, <2>1, <2>2 DEF GoodContext, Ops, FileOps, BlockOps
<1>6. Do(<<c>>)
  <2> DEFINE a == Next1
  <2>1. a \in Calls
    BY <1>3
  <2>2. Do(<<[a EXCEPT !.ctx = d, !.n = n]>>) /\ c = Call(a.op, d, a.nest, n)
    BY <1>2
  <2> HIDE DEF a, d, n, c
  <2>3. [a EXCEPT !.ctx = d, !.n = n] = Call(a.op, d, a.nest, n)
    BY <1>5, <2>1, OtherContext
  <2> QED BY <2>2, <2>3
<1> HIDE DEF d, n, op
<1>7. GoodCall(c, blocks', normalVariableName) /\ c.op = op
  BY <1>3, <1>4, <1>5, CallGood
<1> HIDE DEF c
<1>8. After(c, blocks') = After(Next1, blocks)
  <2>1. Next1.op = op
    BY DEF op
  <2> QED BY <1>4, <1>5, <1>7, <2>1 DEF After, BlockOps
<1>9. Leads(<<c>>, blocks', After(Next1, blocks), normalVariableName)
  BY <1>7, <1>8, OneLeads
<1>10. Next1.op \notin FileOps
  BY <1>1 DEF FileOps
<1>11. PrintersInv'
  BY <1>1, <1>4, <1>6, <1>9, <1>10, DoFollows
<1> QED BY <1>4, <1>11

\* A quiet call in the context of the next one.
LEMMA HereGood ==
  ASSUME PrintersInv, todo # <<>>, Next1.op \notin FileOps, Next1.op # "close",
         NEW op \in QuietOps, NEW nest \in Nat, NEW n \in Nat
  PROVE  /\ GoodCall(Call(op, Next1.ctx, nest, n), blocks, normalVariableName)
         /\ Call(op, Next1.ctx, nest, n).op = op
         /\ \A k \in Nat : Leads(Times(k, Call(op, Next1.ctx, nest, n)), blocks, blocks,
                                 normalVariableName)
         /\ Leads(<<Call(op, Next1.ctx, nest, n)>>, blocks, blocks, normalVariableName)
<1> DEFINE c == Call(op, Next1.ctx, nest, n)
<1>1. op \in Ops \ FileOps
  BY DEF QuietOps
<1>2. GoodCall(c, blocks, normalVariableName) /\ c.op = op
  BY <1>1, NextInScope, CallGood
<1> HIDE DEF c
<1>3. \A k \in Nat : Leads(Times(k, c), blocks, blocks, normalVariableName)
  BY <1>2, ManyLead
<1>4. Leads(<<c>>, blocks, blocks, normalVariableName)
  BY <1>2, OneLeads, QuietStays
<1> QED BY <1>2, <1>3, <1>4 DEF c

\* What is printed between the declarations of a block and its brace.
LEMMA BlockFollows ==
  ASSUME PrintersInv, todo # <<>>, Next1.op \in {"locals", "functionLocals", "body"},
         NEW calls, Leads(calls, blocks, blocks, normalVariableName),
         Do(calls \o <<Close>>), PrintNothing, UNCHANGED normalVariableName
  PROVE  PrintersInv' /\ TextStep
<1>1. /\ blocks \in Seq(SUBSET Objects) /\ Len(blocks) > 1 /\ line \in Lines
      /\ Next1.op \notin FileOps
  BY NextInScope DEF FileOps
<1>2. /\ GoodCall(Close, blocks, normalVariableName)
      /\ After(Close, blocks) = After(Next1, blocks)
  BY <1>1, CloseGood DEF After, BlockOps
<1>3. Leads(<<Close>>, blocks, After(Next1, blocks), normalVariableName)
  BY <1>2, OneLeads
<1>4. UNCHANGED <<line, blocks>>
  BY DEF PrintNothing
<1> DEFINE c == calls \o <<Close>>
<1>5. Leads(c, blocks', After(Next1, blocks), normalVariableName)
  BY <1>3, <1>4, BothLead
<1> HIDE DEF c
<1>6. Do(c)
  BY DEF c
<1>7. PrintersInv'
  BY <1>1, <1>4, <1>5, <1>6, DoFollows
<1> QED BY <1>4, <1>7 DEF TextStep

\* The statements of a block see what was declared in it, and those of the grammar
\* what the body of the function declares.
LEMMA PrintStatementsGood == PrintersInv /\ PrintStatements => PrintersInv' /\ TextStep
<1> SUFFICES ASSUME PrintersInv, PrintStatements PROVE PrintersInv' /\ TextStep
  OBVIOUS
<1>1. /\ todo # <<>> /\ Next1.op \in {"locals", "functionLocals", "body"}
      /\ PrintNothing /\ UNCHANGED normalVariableName
  BY DEF PrintStatements, At
<1>2. Next1.nest \in Nat /\ Next1.op \notin FileOps /\ Next1.op # "close" /\ Next1.ctx \in Context
  BY <1>1, NextGood DEF FileOps
<1>3. "statement" \in QuietOps /\ "Statement" \in QuietOps
  BY DEF QuietOps, Ops, FileOps, BlockOps
<1>4. 0 \in Nat /\ MaxInserted \in Nat
  BY PrintersAssumption
<1> DEFINE s == Stmt(Next1.ctx, Next1.nest)
<1>5. /\ Leads(<<s>>, blocks, blocks, normalVariableName)
      /\ \A k \in Nat : Leads(Times(k, s), blocks, blocks, normalVariableName)
  BY <1>1, <1>2, <1>3, <1>4, HereGood DEF Stmt
<1>6. s \in Calls /\ Close \in Calls
  <2>1. s \in Calls
    BY <1>2 DEF Stmt, Call, Calls, Ops
  <2>2. Close \in Calls
    BY NoContextGood DEF Close, Call, Calls, GoodContext, Ops
  <2> QED BY <2>1, <2>2
<1>7. CASE At("locals")
  <2>1. PICK k \in IF Next1.nest < MaxBlockNesting THEN 0 .. MaxStatementsPerBlock - 1 ELSE {0} :
          Do(Times(k, s) \o <<Close>>)
    BY <1>7 DEF PrintStatements, At
  <2>2. k \in Nat
    BY <2>1
  <2> HIDE DEF s
  <2> QED BY <1>1, <1>5, <2>1, <2>2, BlockFollows
<1>8. CASE At("functionLocals")
  <2>1. Do(<<s, Close>>)
    BY <1>8 DEF PrintStatements, At
  <2> HIDE DEF s
  <2>2. <<s, Close>> = <<s>> \o <<Close>>
    BY <1>6, PairIsConcat
  <2> QED BY <1>1, <1>5, <2>1, <2>2, BlockFollows
<1>9. CASE At("body")
  <2> DEFINE t == Stmt(Next1.ctx, 0)
             u == Call("Statement", Next1.ctx, MaxInserted, 0)
  <2>1. PICK inserted \in {<<>>, <<u>>} : Do(<<t>> \o inserted \o <<Close>>)
    BY <1>9 DEF PrintStatements, At
  <2>2. Leads(<<t>>, blocks, blocks, normalVariableName)
    BY <1>1, <1>2, <1>3, <1>4, HereGood DEF Stmt
  <2>3. Leads(<<u>>, blocks, blocks, normalVariableName)
    BY <1>1, <1>2, <1>3, <1>4, HereGood
  <2> HIDE DEF t, u
  <2>4. Leads(inserted, blocks, blocks, normalVariableName)
    BY <2>1, <2>3, NothingLeads
  <2>5. Leads(<<t>> \o inserted, blocks, blocks, normalVariableName)
    BY <2>2, <2>4, BothLead
  <2> QED BY <1>1, <2>1, <2>5, BlockFollows
<1> QED BY <1>7, <1>8, <1>9 DEF PrintStatements

LEMMA CloseBraceGood == PrintersInv /\ CloseBrace => PrintersInv' /\ TextStep
<1> SUFFICES ASSUME PrintersInv, CloseBrace PROVE PrintersInv' /\ TextStep
  OBVIOUS
<1>1. /\ todo # <<>> /\ Next1.op = "close" /\ Do(<<>>) /\ UNCHANGED normalVariableName
      /\ line' = [op |-> "close"] /\ blocks' = SubSeq(blocks, 1, Len(blocks) - 1)
  BY DEF CloseBrace, At, Brace
<1>2. Len(blocks) > 1 /\ blocks \in Seq(SUBSET Objects)
  BY <1>1, NextGood DEF GoodCall, FileOps
<1>3. blocks' \in Seq(SUBSET Objects)
  <2>1. Len(blocks) > 0
    BY <1>2
  <2> QED BY <1>1, <1>2, <2>1, Popped
<1>4. line' \in Lines
  <2> DEFINE l == line'
  <2>1. l = [op |-> "close"]
    BY <1>1
  <2> HIDE DEF l
  <2>2. l \in Lines
    BY <2>1 DEF Lines
  <2> QED BY <2>2 DEF l
<1>5. After(Next1, blocks) = blocks' /\ Next1.op \notin FileOps
  BY <1>1 DEF After, BlockOps, FileOps
<1>6. Leads(<<>>, blocks', After(Next1, blocks), normalVariableName)
  BY <1>5, NothingLeads
<1>7. PrintersInv'
  BY <1>1, <1>3, <1>4, <1>5, <1>6, DoFollows
<1>8. Text!Close
  BY <1>1, <1>2 DEF Text!Close
<1> QED BY <1>7, <1>8 DEF TextStep, Text!Next
-----------------------------------------------------------------------------
(* Statements and expressions of CCG *)

\* A call that prints an operand, or nothing more than what stands.
LEMMA EmitFollows ==
  ASSUME PrintersInv, todo # <<>>, Next1.op \in QuietOps, NEW calls, Do(calls),
         Leads(calls, blocks, blocks, normalVariableName),
         NEW l \in Operands, Emit(l), UNCHANGED normalVariableName
  PROVE  PrintersInv' /\ TextStep
<1>1. Next1.op \notin FileOps /\ Next1.op # "close"
  BY DEF QuietOps, BlockOps
<1>2. line' \in Lines /\ TextStep
  BY <1>1, NextInScope, OperandStep
<1>3. UNCHANGED blocks
  BY DEF Emit
<1> QED BY <1>2, <1>3, QuietFollows

\* The statements and expressions that a statement or an expression consists of.
LEMMA PartsLead ==
  ASSUME PrintersInv, todo # <<>>, Next1.op \in QuietOps
  PROVE  /\ Next1.nest \in Nat
         /\ \A k, nest \in Nat :
              /\ Leads(Times(k, Expr(Next1.ctx, nest)), blocks, blocks, normalVariableName)
              /\ Leads(Times(k, Block(Next1.ctx, nest)), blocks, blocks, normalVariableName)
         /\ \A nest \in Nat :
              /\ Leads(<<Expr(Next1.ctx, nest)>>, blocks, blocks, normalVariableName)
              /\ Leads(<<Block(Next1.ctx, nest)>>, blocks, blocks, normalVariableName)
<1>1. Next1.op \notin FileOps /\ Next1.op # "close"
  BY DEF QuietOps, BlockOps
<1>2. "expression" \in QuietOps /\ "block" \in QuietOps /\ 0 \in Nat
  BY DEF QuietOps, Ops, FileOps, BlockOps
<1>3. ASSUME NEW k \in Nat, NEW nest \in Nat
      PROVE  /\ Leads(Times(k, Expr(Next1.ctx, nest)), blocks, blocks, normalVariableName)
             /\ Leads(Times(k, Block(Next1.ctx, nest)), blocks, blocks, normalVariableName)
  BY <1>1, <1>2, HereGood DEF Expr, Block
<1>4. ASSUME NEW nest \in Nat
      PROVE  /\ Leads(<<Expr(Next1.ctx, nest)>>, blocks, blocks, normalVariableName)
             /\ Leads(<<Block(Next1.ctx, nest)>>, blocks, blocks, normalVariableName)
  BY <1>1, <1>2, HereGood DEF Expr, Block
<1> QED BY <1>3, <1>4, NextGood

LEMMA LineIsOperand ==
  /\ line \in Operands
  /\ \A v \in Selected("any") : UsableId(v) \in Operands
BY DEF Operands

\* Both sides of a pointer assignment are read through stars to one level.
LEMMA AssignStep ==
  ASSUME NEW ctx, InScope(ctx, blocks, normalVariableName), blocks \in Seq(SUBSET Objects),
         Len(blocks) > 1, NEW i \in DOMAIN ctx.scope, NEW j \in DOMAIN ctx.scope,
         NEW l, l = ctx.scope[i], l.type = "pointer",
         NEW r, r = ctx.scope[j], Consistent(l, r),
         line' = [op |-> "assign", left |-> l.name, lstars |-> Stars(l, r).left,
                  right |-> r.name, rstars |-> Stars(l, r).right,
                  address |-> r.type = "integer"],
         UNCHANGED blocks
  PROVE  line' \in Lines /\ TextStep
<1>1. GoodContext(ctx) /\ Visible(blocks) = Shown(ctx)
  BY DEF InScope
<1>2. /\ l.name \in Nat /\ l.depth \in 0 .. 15
      /\ r.name \in Nat /\ r.depth \in 0 .. 15
      /\ r.type \in {"integer", "pointer"} /\ l.depth # 0
      /\ r.type = "integer" <=> r.depth = 0
  BY <1>1, ScopeGood
<1>3. /\ Text!Known(l.name) /\ Text!The(l.name) = Object(l)
      /\ Text!Known(r.name) /\ Text!The(r.name) = Object(r)
  BY <1>1, Meant
<1> DEFINE p == l.depth
           q == r.depth
           s == Stars(l, r).left
           t == Stars(l, r).right
           a == (r.type = "integer")
           m == l.name
           n == r.name
<1>4. /\ s = IF a THEN p - q - 1 ELSE IF p > q THEN p - q ELSE 0
      /\ t = IF r.type = "pointer" /\ p < q THEN q - p ELSE 0
  BY DEF Stars
<1>5. /\ line'.op = "assign" /\ line'.left = m /\ line'.lstars = s
      /\ line'.right = n /\ line'.rstars = t /\ line'.address = a
      /\ line' = [op |-> "assign", left |-> m, lstars |-> s, right |-> n, rstars |-> t,
                  address |-> a]
  OBVIOUS
<1>6. a \in BOOLEAN /\ (a <=> q = 0) /\ (a <=> ~(r.type = "pointer"))
  BY <1>2
<1>7. p \in 1 .. 15 /\ q \in 0 .. 15 /\ m \in Nat /\ n \in Nat
  BY <1>2
<1> HIDE DEF s, t, a, m, n, p, q
<1>8. /\ s \in 0 .. 15 /\ t \in 0 .. 15 /\ s < p /\ t <= q
      /\ a => q = 0
      /\ p - s = q - t + (IF a THEN 1 ELSE 0)
  <2>1. CASE a
    <3>1. q = 0 /\ s = p - q - 1 /\ t = 0
      BY <1>4, <1>6, <2>1
    <3> QED BY <1>7, <2>1, <3>1
  <2>2. CASE ~a
    <3>1. q # 0 /\ s = (IF p > q THEN p - q ELSE 0) /\ t = (IF p < q THEN q - p ELSE 0)
      BY <1>4, <1>6, <2>2
    <3> QED BY <1>7, <2>2, <3>1
  <2> QED BY <2>1, <2>2
<1>9. line' \in Lines
  <2> DEFINE x == line'
  <2>1. x = [op |-> "assign", left |-> m, lstars |-> s, right |-> n, rstars |-> t,
             address |-> a]
    BY <1>5
  <2> HIDE DEF x
  <2>2. x \in [op : {"assign"}, left : Nat, lstars : 0 .. 15, right : Nat, rstars : 0 .. 15,
               address : BOOLEAN]
    BY <1>6, <1>7, <1>8, <2>1
  <2>3. x \in Lines
    BY <2>2 DEF Lines
  <2> QED BY <2>3 DEF x
<1>10. Text!Assign
  <2>1. /\ Text!Known(m) /\ Text!Known(n)
        /\ Text!The(m).depth = p /\ Text!The(n).depth = q
        /\ Text!The(m).width <= Text!The(n).width
    BY <1>3 DEF m, n, p, q, Object, Consistent
  <2> QED BY <1>5, <1>8, <2>1 DEF Text!Assign
<1> QED BY <1>9, <1>10 DEF TextStep, Text!Next

LEMMA PrintStatementGood == PrintersInv /\ PrintStatement => PrintersInv' /\ TextStep
<1> SUFFICES ASSUME PrintersInv, PrintStatement PROVE PrintersInv' /\ TextStep
  OBVIOUS
<1>1. todo # <<>> /\ Next1.op = "statement" /\ Next1.op \in QuietOps
  BY DEF PrintStatement, At, QuietOps, Ops, FileOps, BlockOps
<1>2. ASSUME NEW l \in Operands, NEW calls, Statement(l, calls),
             Leads(calls, blocks, blocks, normalVariableName)
      PROVE  PrintersInv' /\ TextStep
  BY <1>1, <1>2, EmitFollows DEF Statement
<1>3. /\ Next1.nest \in Nat /\ 0 \in Nat /\ Next1.nest + 1 \in Nat
      /\ MaxFunctionParameters \in Nat
  BY <1>1, PartsLead, PrintersAssumption
<1>4. CASE PrintIf
  <2>1. PICK k \in {1, 2} :
          Statement(line, <<Expr(Next1.ctx, 0)>> \o Times(k, Block(Next1.ctx, Next1.nest + 1)))
    BY <1>4 DEF PrintIf
  <2>2. /\ Leads(<<Expr(Next1.ctx, 0)>>, blocks, blocks, normalVariableName)
        /\ Leads(Times(k, Block(Next1.ctx, Next1.nest + 1)), blocks, blocks, normalVariableName)
    BY <1>1, <1>3, PartsLead
  <2> QED BY <1>2, <2>1, <2>2, BothLead, LineIsOperand
<1>5. CASE PrintFor
  <2>1. Leads(<<Block(Next1.ctx, Next1.nest + 1)>>, blocks, blocks, normalVariableName)
    BY <1>1, <1>3, PartsLead
  <2> QED BY <1>2, <1>5, <2>1, LineIsOperand DEF PrintFor
<1>6. CASE PrintAssignment
  <2>1. Leads(<<Expr(Next1.ctx, 0)>>, blocks, blocks, normalVariableName)
    BY <1>1, <1>3, PartsLead
  <2> QED BY <1>2, <1>6, <2>1, LineIsOperand DEF PrintAssignment
<1>7. CASE PrintPtrAssignment
  <2>1. PICK l \in Selected("pointer"), r \in Selected("any") :
          /\ Consistent(l, r)
          /\ Statement([op |-> "assign", left |-> l.name, lstars |-> Stars(l, r).left,
                        right |-> r.name, rstars |-> Stars(l, r).right,
                        address |-> r.type = "integer"], <<>>)
    BY <1>7 DEF PrintPtrAssignment
  <2>2. PICK i \in DOMAIN Next1.ctx.scope : l = Next1.ctx.scope[i] /\ l.type = "pointer"
    BY DEF Selected, Selectable
  <2>3. PICK j \in DOMAIN Next1.ctx.scope : r = Next1.ctx.scope[j]
    BY DEF Selected, Selectable
  <2>4. /\ InScope(Next1.ctx, blocks, normalVariableName) /\ blocks \in Seq(SUBSET Objects)
        /\ Len(blocks) > 1
    BY <1>1, NextInScope DEF FileOps
  <2>5. /\ line' = [op |-> "assign", left |-> l.name, lstars |-> Stars(l, r).left,
                    right |-> r.name, rstars |-> Stars(l, r).right,
                    address |-> r.type = "integer"]
        /\ Do(<<>>) /\ UNCHANGED <<blocks, normalVariableName>>
    BY <2>1 DEF Statement, Emit
  <2>6. line' \in Lines /\ TextStep
    BY <2>1, <2>2, <2>3, <2>4, <2>5, AssignStep
  <2>7. PrintersInv'
    BY <1>1, <2>5, <2>6, NothingLeads, QuietFollows
  <2> QED BY <2>6, <2>7
<1>8. CASE PrintFunctionCall
  <2>1. PICK k \in 0 .. MaxFunctionParameters :
          Statement(line, Times(k, Expr(Next1.ctx, Next1.nest + 1)))
    BY <1>8 DEF PrintFunctionCall
  <2>2. k \in Nat
    BY <1>3
  <2>3. Leads(Times(k, Expr(Next1.ctx, Next1.nest + 1)), blocks, blocks, normalVariableName)
    BY <1>1, <1>3, <2>2, PartsLead
  <2> QED BY <1>2, <2>1, <2>3, LineIsOperand
<1>9. CASE PrintReturn
  BY <1>2, <1>9, NothingLeads DEF PrintReturn
<1> QED BY <1>4, <1>5, <1>6, <1>7, <1>8, <1>9 DEF PrintStatement

LEMMA PrintExpressionGood == PrintersInv /\ PrintExpression => PrintersInv' /\ TextStep
<1> SUFFICES ASSUME PrintersInv, PrintExpression PROVE PrintersInv' /\ TextStep
  OBVIOUS
<1>1. /\ todo # <<>> /\ Next1.op = "expression" /\ Next1.op \in QuietOps
      /\ UNCHANGED normalVariableName
  BY DEF PrintExpression, At, QuietOps, Ops, FileOps, BlockOps
<1>2. /\ Next1.nest \in Nat /\ Next1.nest + 2 \in Nat /\ MaxFunctionParameters \in Nat
  BY <1>1, PartsLead, PrintersAssumption
<1>3. \A k \in Nat : Leads(Parts(k), blocks, blocks, normalVariableName)
  BY <1>1, <1>2, PartsLead DEF Parts
<1>4. CASE \E l \in Operands : Emit(l) /\ Do(<<>>)
  BY <1>1, <1>4, NothingLeads, EmitFollows
<1>5. CASE \E k \in Nat : Do(Parts(k)) /\ PrintNothing
  <2>1. PICK k \in Nat : Do(Parts(k)) /\ PrintNothing
    BY <1>5
  <2>2. UNCHANGED <<line, blocks>> /\ line' \in Lines
    BY <2>1 DEF PrintNothing, PrintersInv, VariablesOK
  <2>3. PrintersInv'
    BY <1>1, <1>3, <2>1, <2>2, QuietFollows
  <2> QED BY <2>2, <2>3 DEF TextStep
<1>6. CASE \E v \in Selected("any") : Do(Parts(1)) /\ Emit(UsableId(v))
  <2>1. 1 \in Nat
    OBVIOUS
  <2> QED BY <1>1, <1>3, <1>6, <2>1, LineIsOperand, EmitFollows
<1>7. \A k \in {2, 3} \cup 0 .. MaxFunctionParameters : k \in Nat
  BY <1>2
<1> QED BY <1>4, <1>5, <1>6, <1>7 DEF PrintExpression
-----------------------------------------------------------------------------
(* Statements of the grammar *)

\* What the statements of the grammar consist of.
PieceOps == {"name", "operand", "insert", "open", "close", "Sequence", "Assignment"}

Printed(ops) == [i \in DOMAIN ops |-> Piece(ops[i])]

\* Where the call of a statement of the grammar is made.
InGrammar == PrintersInv /\ todo # <<>> /\ Next1.op \in QuietOps

\* Pieces that lead from the blocks x to the blocks y.
PiecesLead(ops, x, y) ==
  ops \in Seq(PieceOps) /\ Leads(Printed(ops), x, y, normalVariableName)

LEMMA PieceGood ==
  ASSUME InGrammar, NEW b \in Seq(SUBSET Objects), Len(b) > 1,
         InScope(Next1.ctx, b, normalVariableName), NEW op \in PieceOps
  PROVE  /\ GoodCall(Piece(op), b, normalVariableName) /\ Piece(op) \in Calls
         /\ After(Piece(op), b) = CASE op = "open"  -> Append(b, {})
                                    [] op = "close" -> SubSeq(b, 1, Len(b) - 1)
                                    [] OTHER        -> b
<1>1. Next1 \in Calls /\ Next1.nest \in Nat /\ Next1.n \in Nat
  BY NextGood DEF InGrammar
<1>2. CASE op = "close"
  BY <1>2, CloseGood DEF Piece
<1>3. CASE op # "close"
  <2>1. op \in Ops \ FileOps
    BY DEF PieceOps, Ops, FileOps, Kinds
  <2>2. Piece(op) = Call(op, Next1.ctx, Next1.nest, Next1.n)
    BY <1>1, <1>3, <2>1, OtherPrinter DEF Piece
  <2>3. /\ GoodCall(Piece(op), b, normalVariableName) /\ Piece(op) \in Calls
        /\ Piece(op).op = op
    <3> DEFINE ctx == Next1.ctx
               nest == Next1.nest
               n == Next1.n
    <3>1. nest \in Nat /\ n \in Nat /\ Piece(op) = Call(op, ctx, nest, n)
          /\ InScope(ctx, b, normalVariableName)
      BY <1>1, <2>2
    <3> HIDE DEF ctx, nest, n
    <3> QED BY <2>1, <3>1, CallGood
  <2>4. op = "open" \/ op \notin BlockOps \cup FileOps \cup {"open"}
    BY <1>3 DEF PieceOps, BlockOps, FileOps
  <2>5. After(Piece(op), b) = IF op = "open" THEN Append(b, {}) ELSE b
    BY <2>3, <2>4 DEF After
  <2> QED BY <1>3, <2>3, <2>5
<1> QED BY <1>2, <1>3

\* Pieces between braces that are not within each other; level[k] is how many
\* braces are open before the k-th.
LEMMA LevelsLead ==
  ASSUME InGrammar, NEW b \in Seq(SUBSET Objects), Len(b) > 1,
         InScope(Next1.ctx, b, normalVariableName),
         NEW ops \in Seq(PieceOps), NEW level,
         level[1] = 0, level[Len(ops) + 1] = 0,
         \A k \in 1 .. Len(ops) :
           /\ ops[k] = "open" => level[k] = 0 /\ level[k + 1] = 1
           /\ ops[k] = "close" => level[k] = 1 /\ level[k + 1] = 0
           /\ ops[k] \notin {"open", "close"} => level[k + 1] = level[k]
  PROVE  PiecesLead(ops, b, b)
<1> DEFINE a == Append(b, {})
           n == Len(ops)
           c == Printed(ops)
           p == [k \in 1 .. n + 1 |-> IF level[k] = 0 THEN b ELSE a]
<1>1. n \in Nat /\ DOMAIN ops = 1 .. n
  OBVIOUS
<1>2. /\ a \in Seq(SUBSET Objects) /\ Len(a) = Len(b) + 1 /\ Visible(a) = Visible(b) \cup {}
      /\ SubSeq(a, 1, Len(a) - 1) = b
  <2>1. {} \in SUBSET Objects
    OBVIOUS
  <2> QED BY <2>1, Pushed
<1>3. Len(a) > 1 /\ InScope(Next1.ctx, a, normalVariableName)
  <2>1. Len(a) > 1
    BY <1>2
  <2> HIDE DEF a
  <2> QED BY <1>2, <2>1 DEF InScope
<1>4. \A k \in 1 .. n + 1 : p[k] = IF level[k] = 0 THEN b ELSE a
  OBVIOUS
<1>5. ASSUME NEW k \in 1 .. n
      PROVE  /\ Piece(ops[k]) \in Calls
             /\ GoodCall(Piece(ops[k]), p[k], normalVariableName)
             /\ p[k + 1] = After(Piece(ops[k]), p[k])
  <2>1. ops[k] \in PieceOps
    OBVIOUS
  <2>2. k \in 1 .. n + 1 /\ k + 1 \in 1 .. n + 1
    BY <1>1
  <2> HIDE DEF a, p, n
  <2>3. /\ GoodCall(Piece(ops[k]), b, normalVariableName) /\ Piece(ops[k]) \in Calls
        /\ After(Piece(ops[k]), b) = CASE ops[k] = "open"  -> Append(b, {})
                                       [] ops[k] = "close" -> SubSeq(b, 1, Len(b) - 1)
                                       [] OTHER            -> b
    BY <2>1, PieceGood
  <2>4. /\ GoodCall(Piece(ops[k]), a, normalVariableName)
        /\ After(Piece(ops[k]), a) = CASE ops[k] = "open"  -> Append(a, {})
                                       [] ops[k] = "close" -> SubSeq(a, 1, Len(a) - 1)
                                       [] OTHER            -> a
    BY <1>2, <1>3, <2>1, PieceGood
  <2>5. /\ ops[k] = "open" => level[k] = 0 /\ level[k + 1] = 1
        /\ ops[k] = "close" => level[k] = 1 /\ level[k + 1] = 0
        /\ ops[k] \notin {"open", "close"} => level[k + 1] = level[k]
    BY DEF n
  <2>6. CASE ops[k] = "open"
    <3>1. p[k] = b /\ p[k + 1] = a
      BY <1>4, <2>2, <2>5, <2>6
    <3>2. After(Piece(ops[k]), b) = a
      BY <2>3, <2>6 DEF a
    <3> QED BY <2>3, <3>1, <3>2
  <2>7. CASE ops[k] = "close"
    <3>1. p[k] = a /\ p[k + 1] = b
      BY <1>4, <2>2, <2>5, <2>7
    <3>2. After(Piece(ops[k]), a) = b
      BY <1>2, <2>4, <2>7
    <3> QED BY <2>3, <2>4, <3>1, <3>2
  <2>8. CASE ops[k] \notin {"open", "close"}
    <3>1. After(Piece(ops[k]), b) = b /\ After(Piece(ops[k]), a) = a
      BY <2>3, <2>4, <2>8
    <3>2. p[k] = p[k + 1] /\ p[k] \in {a, b}
      BY <1>4, <2>2, <2>5, <2>8
    <3> QED BY <2>3, <2>4, <3>1, <3>2
  <2> QED BY <2>6, <2>7, <2>8
<1>6. c \in Seq(Calls) /\ Len(c) = n /\ \A k \in 1 .. n : c[k] = Piece(ops[k])
  <2>1. c = [k \in 1 .. n |-> Piece(ops[k])]
    BY <1>1 DEF Printed
  <2> HIDE DEF c, n, p
  <2>2. c \in [1 .. n -> Calls]
    BY <1>5, <2>1
  <2> QED BY <1>1, <2>1, <2>2
<1>7. p[1] = b /\ p[n + 1] = b
  BY <1>1, <1>4
<1> HIDE DEF c, n, p, a
<1>8. Plan(p, c, b, b, normalVariableName)
  BY <1>5, <1>6, <1>7 DEF Plan
<1> QED BY <1>6, <1>8 DEF PiecesLead, Leads, c

\* Pieces and then others.
LEMMA BothPiecesLead ==
  ASSUME NEW x, NEW y, NEW z, NEW s, PiecesLead(s, x, y), NEW t, PiecesLead(t, y, z)
  PROVE  PiecesLead(s \o t, x, z)
<1>1. s \in Seq(PieceOps) /\ t \in Seq(PieceOps) /\ Len(s) \in Nat /\ Len(t) \in Nat
  BY DEF PiecesLead
<1>2. /\ Printed(s) \in Seq(Calls) /\ Printed(t) \in Seq(Calls)
      /\ Leads(Printed(s), x, y, normalVariableName)
      /\ Leads(Printed(t), y, z, normalVariableName)
  BY DEF PiecesLead, Leads
<1>3. /\ s \o t \in Seq(PieceOps) /\ Len(s \o t) = Len(s) + Len(t)
      /\ \A i \in 1 .. Len(s) + Len(t) : (s \o t)[i] = IF i <= Len(s) THEN s[i] ELSE t[i - Len(s)]
  BY <1>1, ConcatProperties
<1> DEFINE a == Printed(s)
           b == Printed(t)
           m == Len(s)
           n == Len(t)
           u == s \o t
<1>4. /\ a = [i \in 1 .. m |-> Piece(s[i])] /\ b = [i \in 1 .. n |-> Piece(t[i])]
      /\ Printed(u) = [i \in 1 .. m + n |-> Piece(u[i])]
  BY <1>1, <1>3 DEF Printed
<1>5. Len(a) = m /\ Len(b) = n
  BY <1>1, <1>2, <1>4
<1>a. a \in Seq(Calls) /\ b \in Seq(Calls)
  BY <1>2
<1>7. m \in Nat /\ n \in Nat
  BY <1>1
<1>8. \A i \in 1 .. m + n : u[i] = IF i <= m THEN s[i] ELSE t[i - m]
  BY <1>3
<1> HIDE DEF a, b, m, n, u
<1>b. /\ Len(a \o b) = Len(a) + Len(b)
      /\ \A i \in 1 .. Len(a) + Len(b) :
           (a \o b)[i] = IF i <= Len(a) THEN a[i] ELSE b[i - Len(a)]
  BY <1>a, ConcatProperties
<1>c. a \o b \in Seq(Calls)
  BY <1>a, ConcatProperties
<1>6. /\ a \o b \in Seq(Calls) /\ Len(a \o b) = m + n
      /\ \A i \in 1 .. m + n : (a \o b)[i] = IF i <= m THEN a[i] ELSE b[i - m]
  BY <1>5, <1>b, <1>c, Zenon
<1>9. \A i \in 1 .. m + n : (a \o b)[i] = Piece(u[i])
  <2> SUFFICES ASSUME NEW i \in 1 .. m + n PROVE (a \o b)[i] = Piece(u[i])
    OBVIOUS
  <2>1. CASE i <= m
    <3>1. i \in 1 .. m
      BY <1>7, <2>1
    <3>2. a[i] = Piece(s[i])
      BY <1>4, <3>1
    <3> QED BY <1>6, <1>8, <2>1, <3>2
  <2>2. CASE ~(i <= m)
    <3>1. i - m \in 1 .. n
      BY <1>7, <2>2
    <3>2. b[i - m] = Piece(t[i - m])
      BY <1>4, <3>1
    <3> QED BY <1>6, <1>8, <2>2, <3>2
  <2> QED BY <2>1, <2>2
<1>10. Printed(u) = a \o b
  <2> DEFINE d == a \o b
  <2>1. d = [i \in 1 .. m + n |-> d[i]]
    <3>1. d \in Seq(Calls) /\ Len(d) = m + n
      BY <1>6
    <3> HIDE DEF d
    <3>2. d \in [1 .. m + n -> Calls]
      BY <3>1, LenProperties
    <3> QED BY <3>2
  <2> QED BY <1>4, <1>9, <2>1
<1>11. Leads(Printed(u), x, z, normalVariableName)
  <2>1. Leads(a, x, y, normalVariableName) /\ Leads(b, y, z, normalVariableName)
    BY <1>2 DEF a, b
  <2>2. Leads(a \o b, x, z, normalVariableName)
    BY <2>1, BothLead
  <2> QED BY <1>10, <2>2
<1> QED BY <1>3, <1>11 DEF PiecesLead, u

\* The braces of a statement come in pairs.
LEMMA SmallLead ==
  ASSUME InGrammar, NEW b \in Seq(SUBSET Objects), Len(b) > 1,
         InScope(Next1.ctx, b, normalVariableName)
  PROVE  /\ PiecesLead(Braced, b, b) /\ PiecesLead(<<"operand">>, b, b)
         /\ PiecesLead(<<"name", "operand", "insert">>, b, b)
         /\ PiecesLead(<<"operand", "Assignment">>, b, b)
         /\ PiecesLead(<<"name", "open", "name", "insert", "Sequence", "close">>, b, b)
         /\ PiecesLead(<<"name", "open", "name", "insert", "Sequence", "close", "name">>, b, b)
         /\ PiecesLead(<<"operand", "open", "insert", "Assignment", "Sequence", "close">>, b, b)
<1>1. PiecesLead(Braced, b, b)
  <2> DEFINE s == Braced
             level == [k \in 1 .. 5 |-> IF k \in {2, 3, 4} THEN 1 ELSE 0]
  <2>1. s \in Seq(PieceOps) /\ Len(s) = 4
    BY DEF Braced, PieceOps
  <2>2. /\ level[1] = 0 /\ level[4 + 1] = 0
        /\ \A k \in 1 .. 4 :
             /\ s[k] = "open" => level[k] = 0 /\ level[k + 1] = 1
             /\ s[k] = "close" => level[k] = 1 /\ level[k + 1] = 0
             /\ s[k] \notin {"open", "close"} => level[k + 1] = level[k]
    BY DEF Braced
  <2> HIDE DEF s, level
  <2>3. PiecesLead(s, b, b)
    BY <2>1, <2>2, LevelsLead
  <2> QED BY <2>3 DEF s
<1>2. ASSUME NEW s \in Seq(PieceOps), \A k \in 1 .. Len(s) : s[k] \notin {"open", "close"}
      PROVE  PiecesLead(s, b, b)
  <2> DEFINE level == [k \in 1 .. Len(s) + 1 |-> 0]
  <2>1. Len(s) \in Nat
    OBVIOUS
  <2>2. \A k \in 1 .. Len(s) + 1 : level[k] = 0
    OBVIOUS
  <2> HIDE DEF level
  <2>3. level[1] = 0 /\ level[Len(s) + 1] = 0
    BY <2>1, <2>2
  <2>4. \A k \in 1 .. Len(s) : level[k + 1] = level[k]
    BY <2>1, <2>2
  <2> QED BY <1>2, <2>3, <2>4, LevelsLead
<1>3. PiecesLead(<<"operand">>, b, b)
  <2> DEFINE s == <<"operand">>
  <2>1. s \in Seq(PieceOps) /\ \A k \in 1 .. Len(s) : s[k] \notin {"open", "close"}
    BY DEF PieceOps
  <2> HIDE DEF s
  <2>2. PiecesLead(s, b, b)
    BY <1>2, <2>1
  <2> QED BY <2>2 DEF s
<1>4. PiecesLead(<<"name", "operand", "insert">>, b, b)
  <2> DEFINE s == <<"name", "operand", "insert">>
  <2>1. s \in Seq(PieceOps) /\ \A k \in 1 .. Len(s) : s[k] \notin {"open", "close"}
    BY DEF PieceOps
  <2> HIDE DEF s
  <2>2. PiecesLead(s, b, b)
    BY <1>2, <2>1
  <2> QED BY <2>2 DEF s
<1>5. PiecesLead(<<"operand", "Assignment">>, b, b)
  <2> DEFINE s == <<"operand", "Assignment">>
  <2>1. s \in Seq(PieceOps) /\ \A k \in 1 .. Len(s) : s[k] \notin {"open", "close"}
    BY DEF PieceOps
  <2> HIDE DEF s
  <2>2. PiecesLead(s, b, b)
    BY <1>2, <2>1
  <2> QED BY <2>2 DEF s
<1>6. ASSUME NEW s \in Seq(PieceOps), Len(s) \in {6, 7},
             \A k \in 1 .. Len(s) : /\ s[k] = "open" <=> k = 2
                                    /\ s[k] = "close" <=> k = 6
      PROVE  PiecesLead(s, b, b)
  <2> DEFINE level == [k \in 1 .. Len(s) + 1 |-> IF k \in 3 .. 6 THEN 1 ELSE 0]
  <2>1. Len(s) + 1 \in {7, 8} /\ Len(s) \in Nat
    <3>1. Len(s) = 6 \/ Len(s) = 7
      BY <1>6
    <3>2. \A k : k = 6 \/ k = 7 => k + 1 \in {7, 8} /\ k \in Nat
      OBVIOUS
    <3> QED BY <3>1, <3>2
  <2>2. \A k \in 1 .. Len(s) + 1 : level[k] = IF k \in 3 .. 6 THEN 1 ELSE 0
    OBVIOUS
  <2> HIDE DEF level
  <2>3. level[1] = 0 /\ level[Len(s) + 1] = 0
    BY <2>1, <2>2
  <2>4. ASSUME NEW k \in 1 .. Len(s)
        PROVE  /\ s[k] = "open" => level[k] = 0 /\ level[k + 1] = 1
               /\ s[k] = "close" => level[k] = 1 /\ level[k + 1] = 0
               /\ s[k] \notin {"open", "close"} => level[k + 1] = level[k]
    <3>1. k \in 1 .. Len(s) + 1 /\ k + 1 \in 1 .. Len(s) + 1
      BY <2>1
    <3>2. /\ level[k] = IF k \in 3 .. 6 THEN 1 ELSE 0
          /\ level[k + 1] = IF k + 1 \in 3 .. 6 THEN 1 ELSE 0
      BY <2>2, <3>1
    <3>3. s[k] = "open" <=> k = 2
      BY <1>6
    <3>4. s[k] = "close" <=> k = 6
      BY <1>6
    <3>5. k # 2 /\ k # 6 => (k \in 3 .. 6 <=> k + 1 \in 3 .. 6)
      BY <2>1
    <3> QED BY <3>2, <3>3, <3>4, <3>5
  <2> QED BY <2>3, <2>4, LevelsLead
<1>7. PiecesLead(<<"name", "open", "name", "insert", "Sequence", "close">>, b, b)
  <2> DEFINE s == <<"name", "open", "name", "insert", "Sequence", "close">>
  <2>1. /\ s \in Seq(PieceOps) /\ Len(s) = 6
        /\ \A k \in 1 .. 6 : (s[k] = "open" <=> k = 2) /\ (s[k] = "close" <=> k = 6)
    BY DEF PieceOps
  <2> HIDE DEF s
  <2>2. PiecesLead(s, b, b)
    BY <1>6, <2>1
  <2> QED BY <2>2 DEF s
<1>8. PiecesLead(<<"name", "open", "name", "insert", "Sequence", "close", "name">>, b, b)
  <2> DEFINE s == <<"name", "open", "name", "insert", "Sequence", "close", "name">>
  <2>1. /\ s \in Seq(PieceOps) /\ Len(s) = 7
        /\ \A k \in 1 .. 7 : (s[k] = "open" <=> k = 2) /\ (s[k] = "close" <=> k = 6)
    BY DEF PieceOps
  <2> HIDE DEF s
  <2>2. PiecesLead(s, b, b)
    BY <1>6, <2>1
  <2> QED BY <2>2 DEF s
<1>9. PiecesLead(<<"operand", "open", "insert", "Assignment", "Sequence", "close">>, b, b)
  <2> DEFINE s == <<"operand", "open", "insert", "Assignment", "Sequence", "close">>
  <2>1. /\ s \in Seq(PieceOps) /\ Len(s) = 6
        /\ \A k \in 1 .. 6 : (s[k] = "open" <=> k = 2) /\ (s[k] = "close" <=> k = 6)
    BY DEF PieceOps
  <2> HIDE DEF s
  <2>2. PiecesLead(s, b, b)
    BY <1>6, <2>1
  <2> QED BY <2>2 DEF s
<1> QED BY <1>1, <1>3, <1>4, <1>5, <1>7, <1>8, <1>9

\* The cases of a switch: blocks one after another.
CasePieces == [i \in 1 .. 4 * Cases |-> Braced[((i - 1) % 4) + 1]]

LEMMA CasesLead ==
  ASSUME InGrammar, NEW b \in Seq(SUBSET Objects), Len(b) > 1,
         InScope(Next1.ctx, b, normalVariableName)
  PROVE  PiecesLead(CasePieces, b, b)
<1> DEFINE n == 4 * Cases
           s == CasePieces
           level == [k \in 1 .. n + 1 |-> IF (k - 1) % 4 = 0 THEN 0 ELSE 1]
<1>1. Cases \in Nat /\ n \in Nat
  BY PrintersAssumption
<1>2. /\ Braced[1] = "open" /\ Braced[2] = "insert" /\ Braced[3] = "Sequence"
      /\ Braced[4] = "close"
  BY DEF Braced
<1>3. \A k \in 1 .. n + 1 : level[k] = IF (k - 1) % 4 = 0 THEN 0 ELSE 1
  OBVIOUS
<1>4. \A k \in 1 .. n : s[k] = Braced[((k - 1) % 4) + 1]
  BY DEF CasePieces
<1>5. s \in Seq(PieceOps) /\ Len(s) = n
  <2>1. \A k \in 1 .. n : ((k - 1) % 4) + 1 \in {1, 2, 3, 4}
    <3> HIDE DEF n
    <3> QED BY <1>1
  <2>2. \A k \in {1, 2, 3, 4} : Braced[k] \in PieceOps
    BY <1>2 DEF PieceOps
  <2>3. s \in [1 .. n -> PieceOps]
    BY <2>1, <2>2 DEF CasePieces
  <2> HIDE DEF s, n
  <2> QED BY <1>1, <2>3
<1>6. level[1] = 0 /\ level[n + 1] = 0
  <2>1. (1 - 1) % 4 = 0 /\ 1 \in 1 .. n + 1 /\ n + 1 \in 1 .. n + 1
    BY <1>1
  <2>2. ((n + 1) - 1) % 4 = 0
    <3>1. (4 * Cases) % 4 = 0
      BY <1>1
    <3>2. (n + 1) - 1 = 4 * Cases
      BY <1>1
    <3> QED BY <3>1, <3>2
  <2> HIDE DEF level, n
  <2> QED BY <1>3, <2>1, <2>2
<1>7. ASSUME NEW k \in 1 .. n
      PROVE  /\ s[k] = "open" => level[k] = 0 /\ level[k + 1] = 1
             /\ s[k] = "close" => level[k] = 1 /\ level[k + 1] = 0
             /\ s[k] \notin {"open", "close"} => level[k + 1] = level[k]
  <2> DEFINE r == (k - 1) % 4
             m == ((k + 1) - 1) % 4
  <2> HIDE DEF n
  <2>1. r \in 0 .. 3 /\ m = IF r = 3 THEN 0 ELSE r + 1
    BY <1>1
  <2>2. k \in 1 .. n + 1 /\ k + 1 \in 1 .. n + 1
    BY <1>1
  <2> HIDE DEF level, s
  <2>3. /\ level[k] = (IF r = 0 THEN 0 ELSE 1) /\ level[k + 1] = (IF m = 0 THEN 0 ELSE 1)
        /\ s[k] = Braced[r + 1]
    BY <1>3, <1>4, <2>2
  <2> HIDE DEF r, m
  <2>4. CASE r = 0
    <3>1. r + 1 = 1 /\ m = 1
      BY <2>1, <2>4
    <3> QED BY <1>2, <2>3, <2>4, <3>1
  <2>5. CASE r = 1
    <3>1. r + 1 = 2 /\ m = 2
      BY <2>1, <2>5
    <3> QED BY <1>2, <2>3, <2>5, <3>1
  <2>6. CASE r = 2
    <3>1. r + 1 = 3 /\ m = 3
      BY <2>1, <2>6
    <3> QED BY <1>2, <2>3, <2>6, <3>1
  <2>7. CASE r = 3
    <3>1. r + 1 = 4 /\ m = 0
      BY <2>1, <2>7
    <3> QED BY <1>2, <2>3, <2>7, <3>1
  <2> QED BY <2>1, <2>4, <2>5, <2>6, <2>7
<1> HIDE DEF s, n, level
<1>8. PiecesLead(s, b, b)
  BY <1>5, <1>6, <1>7, LevelsLead
<1> QED BY <1>8 DEF s

LEMMA PiecesOfKind ==
  ASSUME InGrammar, NEW kind \in Kinds
  PROVE  PiecesLead(Pieces(kind), blocks, blocks)
<1> DEFINE b == blocks
           a == Append(blocks, {})
<1>1. b \in Seq(SUBSET Objects) /\ Len(b) > 1 /\ InScope(Next1.ctx, b, normalVariableName)
  BY NextInScope DEF InGrammar, QuietOps, BlockOps
<1>2. /\ PiecesLead(Braced, b, b) /\ PiecesLead(<<"operand">>, b, b)
      /\ PiecesLead(<<"name", "operand", "insert">>, b, b)
      /\ PiecesLead(<<"operand", "Assignment">>, b, b)
      /\ PiecesLead(<<"name", "open", "name", "insert", "Sequence", "close">>, b, b)
      /\ PiecesLead(<<"name", "open", "name", "insert", "Sequence", "close", "name">>, b, b)
      /\ PiecesLead(<<"operand", "open", "insert", "Assignment", "Sequence", "close">>, b, b)
  BY <1>1, SmallLead
<1>3. CASE kind \in {"Assignment", "Loop", "DoWhile", "If", "Labeled", "Expression",
                     "Compound", "Jump"}
  BY <1>2, <1>3 DEF Pieces
<1>4. CASE kind = "IfElse"
  <2>1. PiecesLead(<<"operand">> \o Braced \o Braced, b, b)
    <3>1. PiecesLead(<<"operand">> \o Braced, b, b)
      BY <1>2, BothPiecesLead
    <3> QED BY <1>2, <3>1, BothPiecesLead
  <2> QED BY <1>4, <2>1 DEF Pieces
<1>5. CASE kind = "Switch"
  <2> DEFINE head == <<"name", "open">>
             tail == <<"close", "operand">>
  <2>1. /\ a \in Seq(SUBSET Objects) /\ Len(a) = Len(b) + 1 /\ Visible(a) = Visible(b) \cup {}
        /\ SubSeq(a, 1, Len(a) - 1) = b
    <3>1. {} \in SUBSET Objects
      OBVIOUS
    <3> QED BY <1>1, <3>1, Pushed
  <2>2. Len(a) > 1 /\ InScope(Next1.ctx, a, normalVariableName)
    <3>1. Len(a) > 1
      BY <1>1, <2>1
    <3> HIDE DEF a
    <3> QED BY <1>1, <2>1, <3>1 DEF InScope
  <2>3. PiecesLead(head, b, a)
    <3>1. /\ GoodCall(Piece("name"), b, normalVariableName)
          /\ After(Piece("name"), b) = b
      <4>1. "name" \in PieceOps
        BY DEF PieceOps
      <4> QED BY <1>1, <4>1, PieceGood
    <3>2. /\ GoodCall(Piece("open"), b, normalVariableName)
          /\ After(Piece("open"), b) = a
      <4>1. "open" \in PieceOps
        BY DEF PieceOps
      <4> QED BY <1>1, <4>1, PieceGood
    <3>3. Leads(<<Piece("name"), Piece("open")>>, b, a, normalVariableName)
      BY <3>1, <3>2, TwoLead
    <3>4. Printed(head) = <<Piece("name"), Piece("open")>> /\ head \in Seq(PieceOps)
      BY DEF Printed, PieceOps
    <3> QED BY <3>3, <3>4 DEF PiecesLead
  <2>4. PiecesLead(tail, a, b)
    <3>1. /\ GoodCall(Piece("close"), a, normalVariableName)
          /\ After(Piece("close"), a) = b
      <4>1. "close" \in PieceOps
        BY DEF PieceOps
      <4> HIDE DEF a, b
      <4> QED BY <2>1, <2>2, <4>1, PieceGood
    <3>2. /\ GoodCall(Piece("operand"), b, normalVariableName)
          /\ After(Piece("operand"), b) = b
      <4>1. "operand" \in PieceOps
        BY DEF PieceOps
      <4> QED BY <1>1, <4>1, PieceGood
    <3>3. Leads(<<Piece("close"), Piece("operand")>>, a, b, normalVariableName)
      <4> HIDE DEF a, b
      <4> QED BY <3>1, <3>2, TwoLead
    <3>4. Printed(tail) = <<Piece("close"), Piece("operand")>> /\ tail \in Seq(PieceOps)
      BY DEF Printed, PieceOps
    <3> QED BY <3>3, <3>4 DEF PiecesLead
  <2>5. PiecesLead(CasePieces, a, a)
    <3> HIDE DEF a
    <3> QED BY <2>1, <2>2, CasesLead
  <2> HIDE DEF head, tail, a, b
  <2>6. PiecesLead(head \o CasePieces, b, a)
    BY <2>3, <2>5, BothPiecesLead
  <2>7. PiecesLead(head \o CasePieces \o tail, b, b)
    BY <2>4, <2>6, BothPiecesLead
  <2>8. PiecesLead(head \o CasePieces \o tail \o Braced, b, b)
    BY <1>2, <2>7, BothPiecesLead
  <2>9. Pieces(kind) = head \o CasePieces \o tail \o Braced
    BY <1>5 DEF Pieces, CasePieces, head, tail
  <2> QED BY <2>8, <2>9 DEF b
<1> QED BY <1>3, <1>4, <1>5 DEF Kinds

LEMMA PrintKindGood == PrintersInv /\ PrintKind /\ UNCHANGED normalVariableName
                         => PrintersInv' /\ TextStep
<1> SUFFICES ASSUME PrintersInv, PrintKind, UNCHANGED normalVariableName
             PROVE  PrintersInv' /\ TextStep
  OBVIOUS
<1>1. PICK kind \in Kinds : At(kind) /\ Do(Printed(Pieces(kind))) /\ PrintNothing
  BY DEF PrintKind, Printed
<1>2. todo # <<>> /\ Next1.op \in QuietOps
  BY <1>1 DEF At, QuietOps, Ops, Kinds, FileOps, BlockOps
<1>3. Leads(Printed(Pieces(kind)), blocks, blocks, normalVariableName)
  BY <1>2, PiecesOfKind DEF InGrammar, PiecesLead
<1>4. UNCHANGED <<line, blocks>> /\ line' \in Lines
  BY <1>1 DEF PrintNothing, PrintersInv, VariablesOK
<1> QED BY <1>1, <1>2, <1>3, <1>4, QuietFollows DEF TextStep

LEMMA PrintGrammarGood == PrintersInv /\ PrintGrammar => PrintersInv' /\ TextStep
<1> SUFFICES ASSUME PrintersInv, PrintGrammar PROVE PrintersInv' /\ TextStep
  OBVIOUS
<1>1. UNCHANGED normalVariableName
  BY DEF PrintGrammar
<1>2. CASE PrintKind
  BY <1>1, <1>2, PrintKindGood
<1>3. ASSUME todo # <<>>, Next1.op \in QuietOps, NEW calls, Do(calls), PrintNothing,
             Leads(calls, blocks, blocks, normalVariableName)
      PROVE  PrintersInv' /\ TextStep
  <2>1. UNCHANGED <<line, blocks>> /\ line' \in Lines
    BY <1>3 DEF PrintNothing, PrintersInv, VariablesOK
  <2> QED BY <1>1, <1>3, <2>1, QuietFollows DEF TextStep
<1>4. CASE PrintAnyStatement
  <2>1. todo # <<>> /\ Next1.op = "Statement" /\ Next1.op \in QuietOps /\ PrintNothing
    BY <1>4 DEF PrintAnyStatement, At, QuietOps, Ops, FileOps, BlockOps
  <2>2. CASE Do(<<>>)
    BY <1>3, <2>1, <2>2, NothingLeads
  <2>3. CASE Next1.nest > 0 /\ \E kind \in Kinds :
               Do(<<[Next1 EXCEPT !.op = kind, !.nest = @ - 1]>>)
    <3>1. PICK kind \in Kinds : Do(<<[Next1 EXCEPT !.op = kind, !.nest = Next1.nest - 1]>>)
      BY <2>3
    <3> DEFINE a == Next1
               m == Next1.nest - 1
               n == Next1.n
    <3>2. a \in Calls /\ m \in Nat /\ n \in Nat
      BY <2>1, <2>3, NextGood
    <3>3. kind \in QuietOps /\ kind \in Ops
      BY DEF QuietOps, Ops, Kinds, FileOps, BlockOps
    <3>4. Do(<<[a EXCEPT !.op = kind, !.nest = m]>>) /\ n = a.n
      BY <3>1
    <3>5. Leads(<<Call(kind, Next1.ctx, m, n)>>, blocks, blocks, normalVariableName)
      <4>1. Next1.op \notin FileOps /\ Next1.op # "close"
        BY <2>1 DEF FileOps
      <4> HIDE DEF m, n
      <4> QED BY <2>1, <3>2, <3>3, <4>1, HereGood
    <3>6. a.ctx = Next1.ctx
      OBVIOUS
    <3> HIDE DEF a, m, n
    <3>7. [a EXCEPT !.op = kind, !.nest = m] = Call(kind, a.ctx, m, a.n)
      BY <3>2, <3>3, OtherNest
    <3>8. Do(<<Call(kind, Next1.ctx, m, n)>>)
      BY <3>4, <3>6, <3>7
    <3> QED BY <1>3, <2>1, <3>5, <3>8
  <2> QED BY <1>4, <2>2, <2>3 DEF PrintAnyStatement
<1>5. CASE PrintSequence
  <2>1. todo # <<>> /\ Next1.op = "Sequence" /\ Next1.op \in QuietOps /\ PrintNothing
    BY <1>5 DEF PrintSequence, At, QuietOps, Ops, FileOps, BlockOps
  <2>2. PICK k \in 1 .. MaxSequence : Do(Times(k, Piece("Statement")))
    BY <1>5 DEF PrintSequence
  <2> DEFINE a == Next1
             op == "Statement"
  <2>3. a \in Calls /\ a.nest \in Nat /\ a.n \in Nat /\ op \in QuietOps /\ op \in Ops
    BY <2>1, NextGood DEF QuietOps, Ops, FileOps, BlockOps
  <2>4. Piece(op) = [a EXCEPT !.op = op]
    BY DEF Piece
  <2>5. k \in Nat
    BY PrintersAssumption
  <2>6. \A m, n \in Nat : Leads(Times(k, Call(op, a.ctx, m, n)), blocks, blocks, normalVariableName)
    <3>1. Next1.op \notin FileOps /\ Next1.op # "close"
      BY <2>1 DEF FileOps
    <3> HIDE DEF op
    <3> QED BY <2>1, <2>3, <2>5, <3>1, HereGood
  <2> HIDE DEF a, op
  <2>7. Piece(op) = Call(op, a.ctx, a.nest, a.n)
    BY <2>3, <2>4, OtherPrinter
  <2>8. Leads(Times(k, Piece(op)), blocks, blocks, normalVariableName)
    BY <2>3, <2>6, <2>7
  <2>9. Do(Times(k, Piece(op)))
    BY <2>2 DEF op
  <2> QED BY <1>3, <2>1, <2>8, <2>9
<1>6. CASE PrintName
  <2>1. /\ todo # <<>> /\ Next1.op = "name" /\ Next1.op \in QuietOps /\ Do(<<>>)
    BY <1>6 DEF PrintName, At, QuietOps, Ops, FileOps, BlockOps
  <2>2. PICK n \in normalVariableName : Emit([op |-> "value", name |-> n, stars |-> 0])
    BY <1>6 DEF PrintName
  <2>3. /\ InScope(Next1.ctx, blocks, normalVariableName) /\ blocks \in Seq(SUBSET Objects)
        /\ Len(blocks) > 1
    BY <2>1, NextInScope DEF FileOps
  <2> DEFINE i == n + 1
             v == Next1.ctx.scope[i]
  <2>4. i \in DOMAIN Next1.ctx.scope /\ v.depth = 0 /\ n \in Nat
    BY <2>3 DEF InScope, GoodContext, Context, PrintersInv, VariablesOK
  <2>5. v.name = n
    <3>1. v.name = i - 1
      <4> HIDE DEF i
      <4> QED BY <2>3, <2>4, ScopeGood DEF InScope
    <3>2. i - 1 = n
      BY <2>4
    <3> QED BY <3>1, <3>2
  <2>6. line' = UsableId(v) /\ UNCHANGED blocks
    BY <2>2, <2>4, <2>5 DEF Emit, UsableId, MaxDerefd
  <2> HIDE DEF i
  <2>7. line' \in Lines /\ TextStep
    BY <2>3, <2>4, <2>6, ValueStep
  <2>8. PrintersInv'
    BY <1>1, <2>1, <2>6, <2>7, NothingLeads, QuietFollows
  <2> QED BY <2>7, <2>8
<1>7. CASE InsertExpression
  <2>1. todo # <<>> /\ Next1.op = "operand" /\ Next1.op \in QuietOps /\ Do(<<>>)
    BY <1>7 DEF InsertExpression, At, QuietOps, Ops, FileOps, BlockOps
  <2> QED BY <1>1, <1>7, <2>1, NothingLeads, EmitFollows DEF InsertExpression
<1>8. CASE InsertStatement
  <2>1. /\ todo # <<>> /\ Next1.op = "insert" /\ Next1.op \in QuietOps /\ PrintNothing
        /\ Do(<<Call("functionBlock", Next1.ctx, 2, 0)>>)
    BY <1>8 DEF InsertStatement, At, QuietOps, Ops, FileOps, BlockOps
  <2>2. "functionBlock" \in QuietOps /\ 2 \in Nat /\ 0 \in Nat
    BY DEF QuietOps, Ops, FileOps, BlockOps
  <2>3. Next1.op \notin FileOps /\ Next1.op # "close"
    BY <2>1 DEF FileOps
  <2>4. Leads(<<Call("functionBlock", Next1.ctx, 2, 0)>>, blocks, blocks, normalVariableName)
    BY <2>1, <2>2, <2>3, HereGood
  <2> QED BY <1>3, <2>1, <2>4
<1>9. CASE OpenGrammarBrace
  <2>1. todo # <<>> /\ Next1.op = "open" /\ Do(<<>>) /\ OpenBrace
    BY <1>9 DEF OpenGrammarBrace, At
  <2>2. blocks \in Seq(SUBSET Objects) /\ Len(blocks) > 1 /\ Next1.op \notin FileOps
    BY <2>1, NextInScope DEF FileOps
  <2>3. /\ line' \in Lines /\ TextStep /\ blocks' = Append(blocks, {})
        /\ blocks' \in Seq(SUBSET Objects)
    BY <2>1, <2>2, OpenStep
  <2>4. After(Next1, blocks) = blocks'
    BY <2>1, <2>3 DEF After
  <2>5. Leads(<<>>, blocks', After(Next1, blocks), normalVariableName)
    BY <2>4, NothingLeads
  <2>6. PrintersInv'
    BY <1>1, <2>1, <2>2, <2>3, <2>5, DoFollows
  <2> QED BY <2>3, <2>6
<1> QED BY <1>2, <1>4, <1>5, <1>6, <1>7, <1>8, <1>9 DEF PrintGrammar
-----------------------------------------------------------------------------
(* The theorems *)

LEMMA InitGood == Init => PrintersInv /\ Text!Init
<1> SUFFICES ASSUME Init PROVE PrintersInv /\ Text!Init
  OBVIOUS
<1>1. /\ todo = <<>> /\ normalVariableName = {} /\ line = [op |-> "start"] /\ blocks = <<{}>>
  BY DEF Init
<1>2. line \in Lines
  BY <1>1 DEF Lines
<1>3. todo \in Seq(Calls) /\ blocks \in Seq(SUBSET Objects) /\ normalVariableName \subseteq Nat
  BY <1>1
<1>4. PrintersInv
  BY <1>1, <1>2, <1>3 DEF PrintersInv, VariablesOK, Follows
<1>5. Text!Init
  BY <1>1 DEF Text!Init
<1> QED BY <1>4, <1>5

LEMMA StepGood == PrintersInv /\ [Next]_vars => PrintersInv' /\ [Text!Next]_(Text!vars)
<1> SUFFICES ASSUME PrintersInv, [Next]_vars PROVE PrintersInv' /\ TextStep
  BY DEF TextStep, Text!vars
<1>1. CASE UNCHANGED vars
  <2>1. UNCHANGED <<todo, normalVariableName, line, blocks>>
    BY <1>1 DEF vars
  <2>2. VariablesOK' /\ Follows'
    BY <2>1 DEF PrintersInv, VariablesOK, Follows
  <2> QED BY <2>1, <2>2 DEF PrintersInv, TextStep
<1>2. CASE BeginProgram
  BY <1>2, BeginProgramGood
<1>3. CASE PrintGlobal
  BY <1>3, PrintGlobalGood
<1>4. CASE GlobalsPrinted
  BY <1>4, GlobalsPrintedGood
<1>5. CASE PrintFunction
  BY <1>5, PrintFunctionGood
<1>6. CASE EndProgram
  BY <1>6, EndProgramGood
<1>7. CASE PrintBlock
  BY <1>7, PrintBlockGood
<1>8. CASE PrintLocal
  BY <1>8, PrintLocalGood
<1>9. CASE PrintStatements
  BY <1>9, PrintStatementsGood
<1>10. CASE CloseBrace
  BY <1>10, CloseBraceGood
<1>11. CASE PrintStatement
  BY <1>11, PrintStatementGood
<1>12. CASE PrintExpression
  BY <1>12, PrintExpressionGood
<1>13. CASE PrintGrammar
  BY <1>13, PrintGrammarGood
<1> QED
  BY <1>1, <1>2, <1>3, <1>4, <1>5, <1>6, <1>7, <1>8, <1>9, <1>10, <1>11, <1>12, <1>13 DEF Next

\* Whatever has been printed, the calls still to be made lead to the end of the
\* file, and each begins where the text declares what its context holds.
THEOREM PrintersHold == Spec => []PrintersInv
<1>1. Init => PrintersInv
  BY InitGood
<1>2. PrintersInv /\ [Next]_vars => PrintersInv'
  BY StepGood
<1> QED BY <1>1, <1>2, PTL DEF Spec

\* The variables of the printers keep their types: the stars fit into the buffers
\* of genStars() and maxDerefdPointer() (utils.c, pointer.c).
THEOREM PrintersTyped == Spec => []PrintersTypeOK
<1>1. PrintersInv => PrintersTypeOK
  <2> SUFFICES ASSUME PrintersInv PROVE PrintersTypeOK
    OBVIOUS
  <2> QED BY DEF PrintersInv, VariablesOK, PrintersTypeOK, Calls
<1> QED BY <1>1, PrintersHold, PTL

\* At every call of a printer the blocks that are open declare exactly the
\* variables of the context its node was made in (block.c, proto_to_c.cc).
THEOREM ScopeCorrect == Spec => []ScopeAtPlace
<1>1. PrintersInv => ScopeAtPlace
  <2> SUFFICES ASSUME PrintersInv, todo # <<>>, Next1.op # "close"
               PROVE  UNION {blocks[b] : b \in DOMAIN blocks} =
                        {Object(Next1.ctx.scope[i]) : i \in DOMAIN Next1.ctx.scope}
    BY DEF ScopeAtPlace
  <2>1. InScope(Next1.ctx, blocks, normalVariableName)
    BY NextGood DEF GoodCall
  <2> QED BY <2>1 DEF InScope, Visible, Shown
<1> QED BY <1>1, PrintersHold, PTL

\* The printers implement CBlock: every step of theirs reads as a declaration, a
\* brace, a value or an assignment that CBlock accepts, or prints nothing
\* (the operators << of proto_to_c.cc, and the printers of CCG).
THEOREM TextCorrect == Spec => ImplementsCBlock
<1>1. Init => Text!Init
  BY InitGood
<1>2. PrintersInv /\ [Next]_vars => [Text!Next]_(Text!vars)
  BY StepGood
<1> QED BY <1>1, <1>2, PrintersHold, PTL DEF Spec, ImplementsCBlock, Text!Spec
=============================================================================
