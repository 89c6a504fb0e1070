------------------------- MODULE TranslationProofs -------------------------
(***************************************************************************)
(* MainFunctionToString(), for all limits and whatever is inserted: the    *)
(* text is a translation unit, insertions are made in the scope of the     *)
(* function they stand in, and no draw fails in them; where the limits are *)
(* as low as the printers expect, declarations stand between statements    *)
(* and jumps have their labels in what is printed.                         *)
(***************************************************************************)
EXTENDS Translation, GeneratorTextProofs

\* A function in the list is made and keeps the context and the text of its body.
Finished ==
  \A f \in Listing :
    /\ f \in 1 .. Len(funcs)
    /\ InFunction(funcs[f].context, Len(funcs)) /\ funcs[f].context.currfunc = f
    /\ funcs[f].body <= Len(funcs[f].text)
    /\ \A k \in 1 .. Len(todo) : Making(todo[k]) => todo[k].f # f

\* A function that is not in the list is being made; the program is made first.
Unfinished ==
  /\ \A f \in 1 .. Len(funcs) :
       f \in Listing \/ \E k \in 1 .. Len(todo) : Making(todo[k]) /\ todo[k].f = f
  /\ Len(funcs) = 0 => todo # <<>> /\ Next1.op = "program"

\* What the body of a function calls is listed before it.
BodyBefore ==
  \A f, i, g : Site(f, i, g) /\ i <= funcs[f].body =>
    \A k \in 1 .. Len(functions) :
      functions[k] = f => \E j \in 1 .. k - 1 : functions[j] = g

Built ==
  /\ GoodProgram /\ NothingAfter /\ LabelsOK /\ Nested /\ ArgumentsDue /\ CalleesListed
  /\ Finished /\ Unfinished /\ BodyBefore
-----------------------------------------------------------------------------
(* CCG at work *)

\* A function keeps its name, and more may be added to its text, if it is g.
GrowsIn(f, g) ==
  /\ f \in 1 .. Len(funcs') /\ funcs'[f].name = funcs[f].name
  /\ Len(funcs[f].text) \in Nat /\ Len(funcs'[f].text) \in Nat
  /\ Len(funcs[f].text) <= Len(funcs'[f].text)
  /\ \A i \in 1 .. Len(funcs[f].text) : funcs'[f].text[i] = funcs[f].text[i]
  /\ ~MadeStep \/ f # Next1.f =>
       funcs'[f].context = funcs[f].context /\ funcs'[f].body = funcs[f].body
  /\ f # g => funcs'[f].text = funcs[f].text

Grows(f) == GrowsIn(f, Next1.ctx.currfunc)

LEMMA WriteGrows ==
  ASSUME GoodProgram, NEW f \in 1 .. Len(funcs), NEW r, NEW item,
         funcs' = [funcs EXCEPT ![f] = r],
         r.text = Append(funcs[f].text, item), r.name = funcs[f].name,
         r.context = funcs[f].context, r.body = funcs[f].body
  PROVE  \A g \in 1 .. Len(funcs) : GrowsIn(g, f)
<1>1. /\ Len(funcs') = Len(funcs) /\ funcs'[f] = r /\ funcs[f] \in Function
      /\ \A g \in 1 .. Len(funcs) : g # f => funcs'[g] = funcs[g]
  BY OneChanged
<1>2. \A g \in 1 .. Len(funcs) : Len(funcs[g].text) \in Nat
  <2>1. \A g \in 1 .. Len(funcs) : funcs[g] \in Function
    BY ElementOfSeq DEF GoodProgram, FuncsOK, FuncsTypeOK, Function
  <2> QED BY <2>1 DEF Function
<1>3. GrowsIn(f, f)
  <2> DEFINE q == [funcs[f] EXCEPT !.text = Append(@, item)]
  <2>1. q.text = Append(funcs[f].text, item)
    BY <1>1 DEF Function
  <2>2. /\ Len(funcs[f].text) \in Nat /\ Len(q.text) = Len(funcs[f].text) + 1
        /\ \A i \in 1 .. Len(funcs[f].text) : q.text[i] = funcs[f].text[i]
    BY <1>1, TextAppended
  <2> HIDE DEF q
  <2>3. q.text = r.text /\ f \in 1 .. Len(funcs')
    BY <1>1, <2>1
  <2> QED BY <1>1, <2>2, <2>3 DEF GrowsIn
<1>4. ASSUME NEW g \in 1 .. Len(funcs), g # f PROVE GrowsIn(g, f)
  BY <1>1, <1>2, <1>4 DEF GrowsIn
<1> QED BY <1>3, <1>4

LEMMA FunctionsGrow ==
  ASSUME GoodProgram, Shaped
  PROVE  \A f \in 1 .. Len(funcs) : Grows(f)
<1>1. /\ funcs \in Seq(Function) /\ Len(funcs) \in Nat /\ todo # <<>>
  BY NextGood DEF GoodProgram, FuncsOK, FuncsTypeOK, Function, Shaped
<1>2. \A f \in 1 .. Len(funcs) : funcs[f] \in Function /\ Len(funcs[f].text) \in Nat
  <2>1. \A f \in 1 .. Len(funcs) : funcs[f] \in Function
    BY <1>1, ElementOfSeq
  <2> QED BY <2>1 DEF Function
<1>3. CASE UNCHANGED funcs
  BY <1>2, <1>3 DEF Grows, GrowsIn
<1>4. CASE LabelStep
  <2> DEFINE f == Next1.ctx.currfunc
             r == AddLabel(funcs[f])
  <2>1. /\ f \in 1 .. Len(funcs) /\ funcs' = [funcs EXCEPT ![f] = r]
        /\ funcs[f] \in Function
    BY <1>2, <1>4 DEF LabelStep
  <2>2. /\ r.text = Append(funcs[f].text, <<"label", Len(funcs[f].labels) + 1>>)
        /\ r.name = funcs[f].name /\ r.context = funcs[f].context /\ r.body = funcs[f].body
    BY <2>1 DEF AddLabel, Function
  <2> HIDE DEF r
  <2> QED BY <2>1, <2>2, WriteGrows DEF Grows
<1>5. ASSUME NEW item, WriteStep(item)
      PROVE  \A f \in 1 .. Len(funcs) : Grows(f)
  <2> DEFINE f == Next1.ctx.currfunc
             r == [funcs[f] EXCEPT !.text = Append(@, item)]
  <2>1. /\ f \in 1 .. Len(funcs) /\ funcs' = [funcs EXCEPT ![f] = r]
        /\ funcs[f] \in Function
    BY <1>2, <1>5 DEF WriteStep
  <2>2. /\ r.text = Append(funcs[f].text, item)
        /\ r.name = funcs[f].name /\ r.context = funcs[f].context /\ r.body = funcs[f].body
    BY <2>1 DEF Function
  <2> HIDE DEF r
  <2> QED BY <2>1, <2>2, WriteGrows DEF Grows
<1>6. ASSUME NEW k \in Nat, funcs' = Append(funcs, NewFunction(k))
      PROVE  \A f \in 1 .. Len(funcs) : Grows(f)
  <2>1. /\ Len(funcs') = Len(funcs) + 1
        /\ \A f \in 1 .. Len(funcs) : funcs'[f] = funcs[f]
    BY <1>6, OneMore
  <2> QED BY <1>1, <1>2, <2>1 DEF Grows, GrowsIn
<1>7. CASE MadeStep
  <2> DEFINE r == [funcs[Next1.f] EXCEPT !.context = Next1.ctx,
                                         !.body = Len(funcs[Next1.f].text)]
  <2>1. funcs' = [funcs EXCEPT ![Next1.f] = r]
    BY <1>7 DEF MadeStep
  <2>2. ASSUME Next1.f \in 1 .. Len(funcs)
        PROVE  r.text = funcs[Next1.f].text /\ r.name = funcs[Next1.f].name
    BY <1>2, <2>2 DEF Function
  <2> HIDE DEF r
  <2>3. /\ Len(funcs') = Len(funcs)
        /\ Next1.f \in 1 .. Len(funcs) => funcs'[Next1.f] = r
        /\ \A g \in 1 .. Len(funcs) : g # Next1.f => funcs'[g] = funcs[g]
    BY <2>1, OneChanged
  <2> QED BY <1>2, <1>7, <2>2, <2>3 DEF Grows, GrowsIn
<1> QED BY <1>3, <1>4, <1>5, <1>6, <1>7 DEF Shaped, LocalStep, CallStep, EnterStep, GotoStep

\* The list only grows at its end.
LEMMA ListGrows ==
  ASSUME GoodProgram, Shaped
  PROVE  /\ Len(functions) \in Nat /\ Len(functions') \in Nat
         /\ Len(functions) <= Len(functions')
         /\ \A k \in 1 .. Len(functions) : functions'[k] = functions[k]
<1>1. Len(functions) \in Nat
  BY DEF GoodProgram, FuncsOK, FuncsTypeOK
<1>2. CASE UNCHANGED functions
  BY <1>1, <1>2
<1>3. ASSUME NEW f, functions' = Append(functions, f)
      PROVE  /\ Len(functions') = Len(functions) + 1
             /\ \A k \in 1 .. Len(functions) : functions'[k] = functions[k]
  BY <1>3, ListingGrows
<1>4. UNCHANGED functions \/ \E f : functions' = Append(functions, f)
  BY DEF Shaped, LocalStep, EnterStep, MadeStep, CallStep
<1> QED BY <1>1, <1>2, <1>3, <1>4

\* Where functions are being made after a step.
LEMMA MakingAfter ==
  ASSUME GoodProgram, Shaped, NEW k \in 1 .. Len(todo'), Making(todo'[k])
  PROVE  \/ \E j \in 2 .. Len(todo) : todo'[k] = todo[j]
         \/ Making(Next1) /\ todo'[k].f = Next1.f /\ ~MadeStep
         \/ /\ todo'[k].f = Len(funcs) + 1 /\ Len(funcs') = Len(funcs) + 1
            /\ UNCHANGED functions
<1>1. todo \in Seq(Calls) /\ todo # <<>>
  BY DEF GoodProgram, TodoOK, Shaped
<1>2. ASSUME NEW calls \in Seq(Calls), Do(calls)
      PROVE  \/ \E j \in 2 .. Len(todo) : todo'[k] = todo[j]
             \/ k \in 1 .. Len(calls) /\ todo'[k] = calls[k]
  BY <1>1, <1>2, DoStack
<1>3. ASSUME NEW calls, Do(calls), Within(calls), ~MadeStep
      PROVE  \/ \E j \in 2 .. Len(todo) : todo'[k] = todo[j]
             \/ Making(Next1) /\ todo'[k].f = Next1.f
  <2>1. calls \in Seq(Calls)
    BY <1>3 DEF Within
  <2>2. CASE k \in 1 .. Len(calls) /\ todo'[k] = calls[k]
    BY <1>3, <2>2 DEF Within
  <2> QED BY <1>2, <1>3, <2>1, <2>2
<1>4. ASSUME NEW n \in Nat, NEW c, NEW after, EnterStep(n, c, after)
      PROVE  \/ \E j \in 2 .. Len(todo) : todo'[k] = todo[j]
             \/ /\ todo'[k].f = Len(funcs) + 1 /\ Len(funcs') = Len(funcs) + 1
                /\ UNCHANGED functions
  <2> DEFINE calls == <<c>> \o after
  <2>1. /\ calls \in Seq(Calls) /\ calls[1] = c /\ Do(calls)
        /\ c.f = Len(funcs) + 1 /\ UNCHANGED functions
    BY <1>4, EnterCalls DEF EnterStep
  <2>2. Len(calls) = 1 \/ (Len(calls) = 2 /\ calls[2].op = "arguments")
    BY <1>4, EnterCalls
  <2>3. Len(funcs') = Len(funcs) + 1
    BY <1>4, OneMore DEF EnterStep
  <2> HIDE DEF calls
  <2>4. CASE k \in 1 .. Len(calls) /\ todo'[k] = calls[k]
    <3>1. k = 1 \/ (k = 2 /\ calls[2].op = "arguments")
      BY <2>2, <2>4
    <3> QED BY <2>1, <2>3, <2>4, <3>1 DEF Making, FunctionPlaces
  <2> QED BY <1>2, <2>1, <2>4
<1>5. CASE MadeStep
  <2>1. <<>> \in Seq(Calls) /\ Do(<<>>) /\ 1 .. Len(<<>>) = {}
    BY <1>5 DEF MadeStep
  <2> QED BY <1>2, <2>1
<1> QED BY <1>3, <1>4, <1>5 DEF Shaped, LocalStep, CallStep, MadeStep

\* What is being made goes on being made, or has been made by the step.
LEMMA MakingKept ==
  ASSUME GoodProgram, Shaped, NEW k \in 1 .. Len(todo), Making(todo[k])
  PROVE  \/ k = 1 /\ MadeStep
         \/ \E j \in 1 .. Len(todo') : Making(todo'[j]) /\ todo'[j].f = todo[k].f
<1>1. todo \in Seq(Calls) /\ todo # <<>> /\ Len(todo) \in Nat \ {0} /\ Next1 = todo[1]
  BY DEF GoodProgram, TodoOK, Shaped, Next1
<1>2. ASSUME NEW calls \in Seq(Calls), Do(calls), k # 1
      PROVE  \E j \in 1 .. Len(todo') : todo'[j] = todo[k]
  <2>1. k \in 2 .. Len(todo)
    BY <1>1, <1>2
  <2> QED BY <1>1, <1>2, <2>1, DoStack
<1>3. ASSUME NEW calls, Do(calls), Within(calls)
      PROVE  \E j \in 1 .. Len(todo') : Making(todo'[j]) /\ todo'[j].f = todo[k].f
  <2>1. calls \in Seq(Calls) /\ Len(calls) \in Nat
    BY <1>3 DEF Within
  <2>2. CASE k = 1
    <3>1. /\ Len(calls) \in 1 .. Len(calls) /\ Making(calls[Len(calls)])
          /\ calls[Len(calls)].f = todo[k].f
      BY <1>1, <1>3, <2>1, <2>2 DEF Within
    <3> QED BY <1>1, <1>3, <2>1, <3>1, DoStack
  <2>3. CASE k # 1
    BY <1>2, <1>3, <2>1, <2>3
  <2> QED BY <2>2, <2>3
<1>4. ASSUME NEW n \in Nat, NEW c, NEW after, EnterStep(n, c, after)
      PROVE  \E j \in 1 .. Len(todo') : Making(todo'[j]) /\ todo'[j].f = todo[k].f
  <2> DEFINE calls == <<c>> \o after
  <2>1. calls \in Seq(Calls) /\ Do(calls) /\ ~Making(Next1)
    BY <1>4, EnterCalls DEF EnterStep, Making
  <2> HIDE DEF calls
  <2> QED BY <1>1, <1>2, <2>1
<1>5. CASE MadeStep
  <2>1. <<>> \in Seq(Calls) /\ Do(<<>>)
    BY <1>5 DEF MadeStep
  <2> QED BY <1>2, <1>5, <2>1
<1> QED BY <1>3, <1>4, <1>5 DEF Shaped, LocalStep, CallStep

LEMMA FinishedStep ==
  GoodProgram /\ Nested /\ ArgumentsDue /\ Finished /\ Shaped => Finished'
<1> SUFFICES ASSUME GoodProgram, Nested, ArgumentsDue, Finished, Shaped PROVE Finished'
  OBVIOUS
<1>1. /\ Len(todo) \in Nat \ {0} /\ Next1 = todo[1] /\ todo # <<>> /\ Len(funcs) \in Nat
      /\ \A k \in 2 .. Len(todo) :
           todo[k].ctx.currfunc \in 1 .. Len(funcs) /\ Below(Next1, todo[k])
      /\ \A k \in 1 .. Len(todo) : Making(todo[k]) => todo[k].f = todo[k].ctx.currfunc
  BY StackNumbers DEF Shaped, Nested, PlacesNumbered
<1>2. /\ Len(funcs') \in Nat
      /\ Len(funcs') = Len(funcs) \/ Len(funcs') = Len(funcs) + 1
  BY LenGrows
\* The function that is listed by this step.
<1>3. CASE MadeStep
  <2> DEFINE f == Next1.f
  <2>1. /\ f = Next1.ctx.currfunc /\ f \in 1 .. Len(funcs) /\ Listing' = Listing \cup {f}
        /\ Making(Next1) /\ 1 \in 1 .. Len(todo)
    BY <1>1, <1>3, ListingSteps DEF MadeStep, Making, FunctionPlaces
  <2>2. f \notin Listing
    BY <1>1, <2>1 DEF Finished
  <2>3. /\ Len(funcs') = Len(funcs)
        /\ funcs'[f].context = Next1.ctx /\ funcs'[f].body = Len(funcs[f].text)
        /\ funcs'[f].text = funcs[f].text /\ Len(funcs[f].text) \in Nat
    <3> DEFINE r == [funcs[f] EXCEPT !.context = Next1.ctx, !.body = Len(funcs[f].text)]
    <3>1. funcs[f] \in Function
      BY <2>1, ElementOfSeq DEF GoodProgram, FuncsOK, FuncsTypeOK, Function
    <3>2. /\ r.context = Next1.ctx /\ r.body = Len(funcs[f].text) /\ r.text = funcs[f].text
          /\ Len(funcs[f].text) \in Nat
      BY <3>1 DEF Function
    <3>3. funcs' = [funcs EXCEPT ![f] = r]
      BY <1>3 DEF MadeStep
    <3> HIDE DEF r, f
    <3>4. Len(funcs') = Len(funcs) /\ funcs'[f] = r
      BY <2>1, <3>3, OneChanged
    <3> QED BY <3>2, <3>4
  <2>4. InFunction(Next1.ctx, Len(funcs))
    BY <1>1, <1>3, NextGood DEF MadeStep
  <2>5. ASSUME NEW k \in 1 .. Len(todo'), Making(todo'[k]) PROVE todo'[k].f # f
    <3>1. Len(funcs') # Len(funcs) + 1
      BY <1>1, <2>3
    <3>2. PICK j \in 2 .. Len(todo) : todo'[k] = todo[j]
      BY <1>3, <2>5, <3>1, MakingAfter
    <3>3. j \in 1 .. Len(todo) /\ Below(Next1, todo[j]) /\ todo[j].ctx.currfunc \in Nat
      BY <1>1
    <3>4. todo[j].ctx.currfunc < Next1.ctx.currfunc /\ todo[j].f = todo[j].ctx.currfunc
      BY <1>1, <2>1, <2>5, <3>2, <3>3 DEF Below
    <3> QED BY <2>1, <3>2, <3>3, <3>4
  <2>6. ASSUME NEW g \in Listing, g # f
        PROVE  /\ g \in 1 .. Len(funcs')
               /\ InFunction(funcs'[g].context, Len(funcs')) /\ funcs'[g].context.currfunc = g
               /\ funcs'[g].body <= Len(funcs'[g].text)
               /\ \A k \in 1 .. Len(todo') : Making(todo'[k]) => todo'[k].f # g
    <3>1. /\ g \in 1 .. Len(funcs)
          /\ InFunction(funcs[g].context, Len(funcs)) /\ funcs[g].context.currfunc = g
          /\ funcs[g].body <= Len(funcs[g].text)
          /\ \A k \in 1 .. Len(todo) : Making(todo[k]) => todo[k].f # g
      BY DEF Finished
    <3>2. funcs'[g] = funcs[g]
      BY <1>3, <2>6, <3>1 DEF MadeStep
    <3>3. ASSUME NEW k \in 1 .. Len(todo'), Making(todo'[k]) PROVE todo'[k].f # g
      <4>1. Len(funcs') # Len(funcs) + 1
        BY <1>1, <2>3
      <4>2. PICK j \in 2 .. Len(todo) : todo'[k] = todo[j]
        BY <1>3, <3>3, <4>1, MakingAfter
      <4>3. j \in 1 .. Len(todo)
        BY <1>1
      <4> QED BY <3>1, <3>3, <4>2, <4>3
    <3> QED BY <2>3, <3>1, <3>2, <3>3
  <2> HIDE DEF f
  <2>7. Len(funcs[f].text) <= Len(funcs[f].text)
    BY <2>3
  <2> QED BY <2>1, <2>3, <2>4, <2>5, <2>6, <2>7 DEF Finished
<1>4. CASE ~MadeStep
  <2> SUFFICES ASSUME NEW g \in Listing
               PROVE  /\ g \in 1 .. Len(funcs')
                      /\ InFunction(funcs'[g].context, Len(funcs'))
                      /\ funcs'[g].context.currfunc = g
                      /\ funcs'[g].body <= Len(funcs'[g].text)
                      /\ \A k \in 1 .. Len(todo') : Making(todo'[k]) => todo'[k].f # g
    BY <1>4, ListingSteps DEF Finished
  <2>1. /\ g \in 1 .. Len(funcs)
        /\ InFunction(funcs[g].context, Len(funcs)) /\ funcs[g].context.currfunc = g
        /\ funcs[g].body <= Len(funcs[g].text)
        /\ \A k \in 1 .. Len(todo) : Making(todo[k]) => todo[k].f # g
    BY DEF Finished
  <2>2. Grows(g) /\ funcs[g].body \in Nat
    <3>1. funcs[g] \in Function
      BY <2>1, ElementOfSeq DEF GoodProgram, FuncsOK, FuncsTypeOK, Function
    <3> QED BY <2>1, <3>1, FunctionsGrow DEF Function
  <2>3. InFunction(funcs[g].context, Len(funcs'))
    BY <1>1, <1>2, <2>1 DEF InFunction
  <2>4. ASSUME NEW k \in 1 .. Len(todo'), Making(todo'[k]) PROVE todo'[k].f # g
    <3>1. CASE \E j \in 2 .. Len(todo) : todo'[k] = todo[j]
      <4>1. 2 .. Len(todo) \subseteq 1 .. Len(todo)
        BY <1>1
      <4> QED BY <2>1, <2>4, <3>1, <4>1
    <3>2. CASE Making(Next1) /\ todo'[k].f = Next1.f
      <4>1. 1 \in 1 .. Len(todo)
        BY <1>1
      <4> QED BY <1>1, <2>1, <3>2, <4>1
    <3>3. CASE todo'[k].f = Len(funcs) + 1
      BY <1>1, <2>1, <3>3
    <3> QED BY <2>4, <3>1, <3>2, <3>3, MakingAfter
  <2> QED BY <1>4, <2>1, <2>2, <2>3, <2>4 DEF Grows, GrowsIn
<1> QED BY <1>3, <1>4

LEMMA UnfinishedStep ==
  GoodProgram /\ Nested /\ ArgumentsDue /\ Unfinished /\ Next => Unfinished'
<1> SUFFICES ASSUME GoodProgram, Nested, ArgumentsDue, Unfinished, Next PROVE Unfinished'
  OBVIOUS
<1>1. Shaped
  BY StepShaped
<1>2. /\ Len(funcs) \in Nat /\ Len(funcs') \in Nat
      /\ Len(funcs') = Len(funcs) \/ Len(funcs') = Len(funcs) + 1
  BY <1>1, LenGrows
<1>3. Listing \subseteq Listing' /\ (MadeStep => Next1.f \in Listing')
  BY <1>1, ListingSteps
<1>4. ASSUME NEW f \in 1 .. Len(funcs)
      PROVE  f \in Listing' \/ \E k \in 1 .. Len(todo') : Making(todo'[k]) /\ todo'[k].f = f
  <2>1. ASSUME NEW k \in 1 .. Len(todo), Making(todo[k]), todo[k].f = f
        PROVE  f \in Listing' \/ \E j \in 1 .. Len(todo') : Making(todo'[j]) /\ todo'[j].f = f
    <3>1. todo[1] = Next1
      BY DEF Next1
    <3> QED BY <1>1, <1>3, <2>1, <3>1, MakingKept
  <2> QED BY <1>3, <2>1 DEF Unfinished
<1>5. ASSUME Len(funcs') = Len(funcs) + 1
      PROVE  \E k \in 1 .. Len(todo') : Making(todo'[k]) /\ todo'[k].f = Len(funcs) + 1
  <2>1. PICK n \in Nat : \E c, after : EnterStep(n, c, after)
    <3>1. ASSUME NEW calls, LocalStep(calls) \/ CallStep(calls) PROVE Len(funcs') = Len(funcs)
      BY <3>1, FuncsKept DEF LocalStep, CallStep
    <3>2. MadeStep => Len(funcs') = Len(funcs)
      BY FuncsKept
    <3> QED BY <1>1, <1>2, <1>5, <3>1, <3>2 DEF Shaped
  <2>2. PICK c, after : EnterStep(n, c, after)
    BY <2>1
  <2> DEFINE calls == <<c>> \o after
  <2>3. /\ calls \in Seq(Calls) /\ calls[1] = c /\ Do(calls) /\ 1 \in 1 .. Len(calls)
    BY <2>2, EnterCalls DEF EnterStep
  <2> HIDE DEF calls
  <2>4. 1 \in 1 .. Len(todo') /\ todo'[1] = c
    BY <1>1, <2>3, DoStack DEF GoodProgram, TodoOK, Shaped
  <2>5. c.op = "functionBlock" /\ c.f = Len(funcs) + 1 /\ c.f # 0
    BY <1>2, <2>2 DEF EnterStep
  <2> QED BY <2>4, <2>5 DEF Making, FunctionPlaces
<1>6. Len(funcs') # 0
  <2>1. CASE Next1.op = "program"
    <3>1. MakeProgram
      BY <2>1 DEF Next, GenerateStep, BlockStep, StatementStep, ExpressionStep,
         EnterBlock, MakeLocal, BlockStatements, NextStatement, FunctionStatement,
         MakeStatement, BuildIf, BuildFor, BuildAssignment, BuildPtrAssignment,
         BuildReturn, BuildGoto, BuildFunctionCall, BuildOperand, BuildOperation,
         BuildAssignmentExpr, BuildFunctionCallExpr, BuildArguments, FunctionMade, At
    <3>2. funcs' = Append(funcs, NewFunction(Len(<<>>))) /\ Len(<<>>) \in Nat
      BY <3>1 DEF MakeProgram, EnterFunction
    <3>3. Len(funcs') = Len(funcs) + 1
      BY <3>2, OneMore
    <3> QED BY <1>2, <3>3
  <2> QED BY <1>2, <2>1 DEF Unfinished
<1>7. ASSUME NEW f \in 1 .. Len(funcs')
      PROVE  f \in Listing' \/ \E k \in 1 .. Len(todo') : Making(todo'[k]) /\ todo'[k].f = f
  <2>1. f \in 1 .. Len(funcs) \/ (Len(funcs') = Len(funcs) + 1 /\ f = Len(funcs) + 1)
    BY <1>2
  <2> QED BY <1>4, <1>5, <2>1
<1> QED BY <1>6, <1>7 DEF Unfinished

LEMMA BodyBeforeStep ==
  ASSUME GoodProgram, Nested, ArgumentsDue, CalleesListed, Finished, BodyBefore, Shaped
  PROVE  BodyBefore'
<1> SUFFICES ASSUME NEW f, NEW i, NEW g, Site(f, i, g)', i <= funcs'[f].body,
                    NEW k \in 1 .. Len(functions'), functions'[k] = f
             PROVE  \E j \in 1 .. k - 1 : functions'[j] = g
  BY DEF BodyBefore, Site
<1>1. /\ Len(functions) \in Nat /\ Len(functions') \in Nat
      /\ Len(functions) <= Len(functions')
      /\ \A n \in 1 .. Len(functions) : functions'[n] = functions[n]
  BY ListGrows
\* What is called was listed, so that it is before a function that is listed now.
<1>2. ASSUME g \in Listing, k \notin 1 .. Len(functions)
      PROVE  \E j \in 1 .. k - 1 : functions'[j] = g
  <2>1. PICK j \in 1 .. Len(functions) : functions[j] = g
    BY <1>2 DEF Listing
  <2>2. j \in 1 .. k - 1
    BY <1>1, <1>2
  <2> QED BY <1>1, <2>1, <2>2
<1>3. CASE MadeStep /\ f = Next1.f
  <2>1. Site(f, i, g) /\ g \in Listing
    BY <1>3, SitesSame DEF Shaped, CalleesListed
  <2>2. f \notin Listing
    <3>1. 1 \in 1 .. Len(todo) /\ Next1 = todo[1]
      BY StackNumbers DEF Shaped
    <3> QED BY <1>3, <3>1 DEF Finished, MadeStep, Making, FunctionPlaces
  <2>3. k \notin 1 .. Len(functions)
    BY <1>1, <2>2 DEF Listing
  <2> QED BY <1>2, <2>1, <2>3
<1>4. CASE ~(MadeStep /\ f = Next1.f)
  <2>1. f \in Listing
    <3>1. f \in Listing'
      BY DEF Listing
    <3> QED BY <1>4, <3>1, ListingSteps
  <2>2. /\ f \in 1 .. Len(funcs) /\ funcs[f].body <= Len(funcs[f].text) /\ Grows(f)
        /\ funcs[f].body \in Nat
    <3>1. f \in 1 .. Len(funcs) /\ funcs[f].body <= Len(funcs[f].text)
      BY <2>1 DEF Finished
    <3>2. funcs[f] \in Function
      BY <3>1, ElementOfSeq DEF GoodProgram, FuncsOK, FuncsTypeOK, Function
    <3> QED BY <3>1, <3>2, FunctionsGrow DEF Function
  <2>3. funcs'[f].body = funcs[f].body /\ Len(funcs[f].text) \in Nat
    BY <1>4, <2>2 DEF Grows, GrowsIn
  <2>4. i \in Nat /\ i # Len(funcs[f].text) + 1
    BY <2>2, <2>3 DEF Site
  <2>5. Site(f, i, g)
    <3>1. ASSUME NEW calls, CallStep(calls) PROVE Site(f, i, g)
      BY <2>4, <3>1, SitesCall DEF Shaped
    <3> QED BY <3>1, SitesSame DEF Shaped
  <2>6. g \in Listing
    BY <2>5 DEF CalleesListed
  <2>7. CASE k \in 1 .. Len(functions)
    <3>1. PICK j \in 1 .. k - 1 : functions[j] = g
      BY <1>1, <2>3, <2>5, <2>7 DEF BodyBefore
    <3>2. j \in 1 .. Len(functions)
      BY <1>1, <2>7
    <3> QED BY <1>1, <3>1, <3>2
  <2> QED BY <1>2, <2>6, <2>7
<1> QED BY <1>3, <1>4

\* The text holds together while CCG is at work.
LEMMA BuiltStep == Built /\ Next => Built'
<1> SUFFICES ASSUME Built, Next PROVE Built'
  OBVIOUS
<1>1. /\ GoodProgram /\ NothingAfter /\ LabelsOK /\ Nested /\ ArgumentsDue /\ CalleesListed
      /\ Finished /\ Unfinished /\ BodyBefore
  BY DEF Built
<1>2. Shaped
  BY <1>1, StepShaped
<1>3. GoodProgram'
  BY <1>1, StepGood
<1>4. NothingAfter' /\ LabelsOK' /\ Nested' /\ ArgumentsDue' /\ CalleesListed'
  BY <1>1, <1>2, NothingAfterStep, LabelsStep, NestedStep, ArgumentsDueStep, CalleesListedStep
<1>5. Finished' /\ Unfinished' /\ BodyBefore'
  BY <1>1, <1>2, FinishedStep, UnfinishedStep, BodyBeforeStep
<1> QED BY <1>3, <1>4, <1>5 DEF Built
-----------------------------------------------------------------------------
(* The printers *)

FrameType == [op : FrameOps, n : Nat, f : Nat, ctx : Context]

\* What is on the stack above the end of a definition.
Inner == FrameOps \ {"prototypes", "definitions", "endFunction"}

Beginning == Len(frames) = 1 /\ frames[1].op = "prototypes"
Walking   == Len(frames) = 1 /\ frames[1].op = "definitions"
Defining  ==
  /\ Len(frames) > 1
  /\ frames[Len(frames)].op = "definitions" /\ frames[Len(frames) - 1].op = "endFunction"
  /\ \A k \in 1 .. Len(frames) - 2 : frames[k].op \in Inner

\* Calls that are never left for later.
OnTop == {"body", "endLine", "printBlock"}

FramesOK ==
  /\ frames \in Seq(FrameType)
  /\ frames = <<>> \/ Beginning \/ Walking \/ Defining
  /\ \A k \in 2 .. Len(frames) : frames[k].op \notin OnTop

\* The loop over program.functions, and the function being defined.
Loop == frames[Len(frames)]
Now  == frames[Len(frames) - 1].f

\* The functions up to the place of the loop have been printed.
LoopOK ==
  Walking \/ Defining =>
    /\ Loop.n \in 1 .. Len(functions) + 1 /\ 1 \in Listing
    /\ \A k \in 1 .. Loop.n - 1 :
         funcs[functions[k]].name \in funcName \/ (Defining /\ functions[k] = Now)

\* The function being defined was the next of the list; it is not defined yet.
NowOK ==
  Defining =>
    /\ Loop.n - 1 \in 1 .. Len(functions) /\ functions[Loop.n - 1] = Now
    /\ cc = funcs[Now].context /\ funcs[Now].name \notin funcName
    /\ frames[1].op \in {"body", "printBlock"} => frames[1].f = Now

\* CCG is called by these.
Callers == {"prototypes", "definitions", "printBlock", "endLine"}

CalledOK == todo # <<>> => frames # <<>> /\ frames[1].op \in Callers

Placed == FramesOK /\ LoopOK /\ NowOK /\ CalledOK

\* What CCG makes in a listed function is made in the one being defined, in the
\* scope of its body; nothing is before the first definition.
Inserted ==
  /\ Beginning => ListedClosed
  /\ Defining => \A k \in 1 .. Len(todo) :
       todo[k].ctx.currfunc \in Listing =>
         todo[k].ctx.currfunc = Now /\ Extends(todo[k].ctx, funcs[Now].context)
-----------------------------------------------------------------------------
(* Declarations *)

Visible == declared \cup UNION {blocks[i] : i \in DOMAIN blocks}

\* A function whose call waits is declared where it will be called, once it is made.
DueVisible ==
  \A k \in 1 .. Len(todo) :
    todo[k].op = "arguments" /\ todo[k].f \in Listing => funcs[todo[k].f].name \in Visible

\* So are those whose calls are going to be printed.
PrintVisible ==
  frames # <<>> /\ frames[1].op = "printBlock" =>
    \A i, g : Site(Now, i, g) /\ i > frames[1].n => funcs[g].name \in Visible

NamesOK ==
  /\ funcName \subseteq declared
  /\ Defining => funcs[Now].name \in declared
  /\ Walking \/ Defining => 0 \in declared
  /\ \A n \in called : \E g \in Listing : funcs[g].name = n

\* The level of braces after a call of a printer.
After(op, d) == IF op = "open" THEN d + 1 ELSE IF op = "close" THEN d - 1 ELSE d

\* Those that are open will be closed, and the definition ends when one is left.
Levels ==
  IF Defining
  THEN \E p \in [1 .. Len(frames) - 1 -> Nat \ {0}] :
         /\ p[1] = Len(blocks) /\ p[Len(frames) - 1] = 1
         /\ \A k \in 1 .. Len(frames) - 2 : p[k + 1] = After(frames[k].op, p[k])
  ELSE blocks = <<>>

Typed ==
  /\ cc \in Context /\ depth \in Nat
  /\ funcName \subseteq Nat /\ declared \subseteq Nat /\ called \subseteq Nat
  /\ printed \in [1 .. MaxFunctions -> SUBSET (Nat \X Nat)]
  /\ blocks \in Seq(SUBSET Nat)

Declared == DueVisible /\ PrintVisible /\ NamesOK /\ Levels
-----------------------------------------------------------------------------
(* The printers wait *)

\* A function that is made is declared by the same step, and no other is.
LEMMA GenerateKinds ==
  ASSUME Generate
  PROVE  /\ Next /\ UNCHANGED <<frames, cc, depth, funcName, printed, called>>
         /\ \/ ~MadeStep /\ UNCHANGED <<declared, blocks>>
            \/ MadeStep /\ Extern(funcs[Next1.f].name)
<1>1. CASE MakeProgram /\ UNCHANGED <<frames, cc, depth, funcName, output>>
  <2>1. ~MadeStep
    BY <1>1 DEF MakeProgram, MadeStep, At
  <2> QED BY <1>1, <2>1 DEF Next, output
<1>2. CASE /\ BlockStep \/ StatementStep \/ ExpressionStep
           /\ UNCHANGED <<frames, cc, depth, funcName, output>>
  <2>1. Next1.op # "functionMade"
    BY <1>2 DEF BlockStep, StatementStep, ExpressionStep,
       EnterBlock, MakeLocal, BlockStatements, NextStatement, FunctionStatement,
       MakeStatement, BuildIf, BuildFor, BuildAssignment, BuildPtrAssignment,
       BuildReturn, BuildGoto, BuildFunctionCall, BuildOperand, BuildOperation,
       BuildAssignmentExpr, BuildFunctionCallExpr, BuildArguments, At
  <2> QED BY <1>2, <2>1 DEF Next, GenerateStep, output, MadeStep
<1>3. CASE /\ FunctionMade
           /\ Extern(funcs[Next1.f].name)
           /\ UNCHANGED <<frames, cc, depth, funcName, printed, called>>
  <2>1. funcs' = [funcs EXCEPT ![Next1.f] =
                   [funcs[Next1.f] EXCEPT !.context = Next1.ctx,
                                          !.body = Len(funcs[Next1.f].text)]]
    BY <1>3 DEF FunctionMade
  <2>2. MadeStep
    BY <1>3, <2>1 DEF MadeStep, FunctionMade, At, Listed
  <2> QED BY <1>3, <2>2 DEF Next, GenerateStep
<1> QED BY <1>1, <1>2, <1>3 DEF Generate

\* What is known of a listed function after a step of CCG.
LEMMA ListedSteady ==
  ASSUME Built, Next, NEW f \in Listing
  PROVE  /\ f \in 1 .. Len(funcs) /\ f \in Listing' /\ Grows(f)
         /\ funcs'[f].name = funcs[f].name
         /\ funcs'[f].context = funcs[f].context /\ funcs'[f].body = funcs[f].body
<1>1. GoodProgram /\ Nested /\ ArgumentsDue /\ Shaped /\ Finished
  BY StepShaped DEF Built
<1>2. f \in 1 .. Len(funcs) /\ f \in Listing'
  BY <1>1, ListingSteps DEF Finished
<1>3. Grows(f)
  BY <1>1, <1>2, FunctionsGrow
<1>4. ~MadeStep \/ f # Next1.f
  <2>1. 1 \in 1 .. Len(todo) /\ Next1 = todo[1]
    BY <1>1, StackNumbers DEF Shaped
  <2> QED BY <1>1, <2>1 DEF Finished, MadeStep, Making, FunctionPlaces
<1> QED BY <1>2, <1>3, <1>4 DEF Grows, GrowsIn

LEMMA PlacedWaits == Built /\ Placed /\ Generate => Placed'
<1> SUFFICES ASSUME Built, Placed, Generate PROVE Placed'
  OBVIOUS
<1>1. Next /\ frames' = frames /\ cc' = cc /\ funcName' = funcName
  BY GenerateKinds
<1>2. GoodProgram /\ Shaped
  BY <1>1, StepShaped DEF Built
<1>3. FramesOK /\ LoopOK /\ NowOK /\ CalledOK
  BY DEF Placed
<1>4. /\ FramesOK' /\ (Defining' <=> Defining) /\ (Walking' <=> Walking)
      /\ Loop' = Loop /\ Now' = Now
  BY <1>1, <1>3 DEF FramesOK, Beginning, Walking, Defining, Loop, Now
<1>5. /\ Len(functions) \in Nat /\ Len(functions') \in Nat
      /\ Len(functions) <= Len(functions')
      /\ \A k \in 1 .. Len(functions) : functions'[k] = functions[k]
  BY <1>2, ListGrows
<1>6. CalledOK'
  BY <1>1, <1>2, <1>3 DEF CalledOK, Shaped
<1>7. LoopOK'
  <2> SUFFICES ASSUME Walking \/ Defining
               PROVE  /\ Loop.n \in 1 .. Len(functions') + 1 /\ 1 \in Listing'
                      /\ \A k \in 1 .. Loop.n - 1 :
                           \/ funcs'[functions'[k]].name \in funcName
                           \/ Defining /\ functions'[k] = Now
    BY <1>1, <1>4 DEF LoopOK
  <2>1. /\ Loop.n \in 1 .. Len(functions) + 1 /\ 1 \in Listing
        /\ \A k \in 1 .. Loop.n - 1 :
             funcs[functions[k]].name \in funcName \/ (Defining /\ functions[k] = Now)
    BY <1>3 DEF LoopOK
  <2>2. 1 \in Listing'
    BY <1>1, <2>1, ListedSteady
  <2>3. ASSUME NEW k \in 1 .. Loop.n - 1
        PROVE  \/ funcs'[functions'[k]].name \in funcName
               \/ Defining /\ functions'[k] = Now
    <3>1. k \in 1 .. Len(functions)
      BY <1>5, <2>1
    <3>2. functions'[k] = functions[k] /\ functions[k] \in Listing
      BY <1>5, <3>1 DEF Listing
    <3>3. funcs'[functions[k]].name = funcs[functions[k]].name
      BY <1>1, <3>2, ListedSteady
    <3> QED BY <2>1, <3>2, <3>3
  <2> QED BY <1>5, <2>1, <2>2, <2>3
<1>8. NowOK'
  <2> SUFFICES ASSUME Defining
               PROVE  /\ Loop.n - 1 \in 1 .. Len(functions') /\ functions'[Loop.n - 1] = Now
                      /\ cc = funcs'[Now].context /\ funcs'[Now].name \notin funcName
                      /\ frames[1].op \in {"body", "printBlock"} => frames[1].f = Now
    BY <1>1, <1>4 DEF NowOK
  <2>1. /\ Loop.n - 1 \in 1 .. Len(functions) /\ functions[Loop.n - 1] = Now
        /\ cc = funcs[Now].context /\ funcs[Now].name \notin funcName
        /\ frames[1].op \in {"body", "printBlock"} => frames[1].f = Now
    BY <1>3 DEF NowOK
  <2>2. Now \in Listing
    BY <2>1 DEF Listing
  <2>3. funcs'[Now].context = funcs[Now].context /\ funcs'[Now].name = funcs[Now].name
    BY <1>1, <2>2, ListedSteady
  <2>4. Loop.n - 1 \in 1 .. Len(functions')
    BY <1>5, <2>1
  <2> QED BY <1>5, <2>1, <2>3, <2>4
<1> QED BY <1>4, <1>6, <1>7, <1>8 DEF Placed

\* The calls on the stack after a step: in which function, and in which scope.
LEMMA CallsExtend ==
  ASSUME GoodProgram, Shaped, NEW k \in 1 .. Len(todo')
  PROVE  \/ \E j \in 1 .. Len(todo) :
              /\ j # 1 \/ ~MadeStep
              /\ todo'[k].ctx.currfunc = todo[j].ctx.currfunc
              /\ Extends(todo'[k].ctx, todo[j].ctx)
         \/ todo'[k].ctx.currfunc = Len(funcs) + 1 /\ UNCHANGED functions
<1>1. /\ todo \in Seq(Calls) /\ todo # <<>> /\ Next1 = todo[1] /\ 1 \in 1 .. Len(todo)
      /\ 2 .. Len(todo) \subseteq 1 .. Len(todo) /\ 1 \notin 2 .. Len(todo)
  BY DEF GoodProgram, TodoOK, Shaped, Next1
<1>2. \A ctx : Extends(ctx, ctx)
  BY DEF Extends
<1>3. ASSUME NEW calls \in Seq(Calls), Do(calls)
      PROVE  \/ \E j \in 2 .. Len(todo) : todo'[k] = todo[j]
             \/ k \in 1 .. Len(calls) /\ todo'[k] = calls[k]
  BY <1>1, <1>3, DoStack
<1>4. ASSUME NEW j \in 2 .. Len(todo), todo'[k] = todo[j]
      PROVE  \E i \in 1 .. Len(todo) :
               /\ i # 1 \/ ~MadeStep
               /\ todo'[k].ctx.currfunc = todo[i].ctx.currfunc
               /\ Extends(todo'[k].ctx, todo[i].ctx)
  BY <1>1, <1>2, <1>4
<1>5. ASSUME NEW calls, Do(calls), Within(calls), ~MadeStep
      PROVE  \E j \in 1 .. Len(todo) :
               /\ j # 1 \/ ~MadeStep
               /\ todo'[k].ctx.currfunc = todo[j].ctx.currfunc
               /\ Extends(todo'[k].ctx, todo[j].ctx)
  <2>1. calls \in Seq(Calls)
    BY <1>5 DEF Within
  <2>2. CASE k \in 1 .. Len(calls) /\ todo'[k] = calls[k]
    <3>1. todo'[k].ctx.currfunc = Next1.ctx.currfunc /\ Extends(todo'[k].ctx, Next1.ctx)
      BY <1>5, <2>2 DEF Within
    <3> QED BY <1>1, <1>5, <3>1
  <2> QED BY <1>3, <1>4, <1>5, <2>1, <2>2
<1>6. ASSUME NEW n \in Nat, NEW c, NEW after, EnterStep(n, c, after)
      PROVE  \/ \E j \in 1 .. Len(todo) :
                  /\ j # 1 \/ ~MadeStep
                  /\ todo'[k].ctx.currfunc = todo[j].ctx.currfunc
                  /\ Extends(todo'[k].ctx, todo[j].ctx)
             \/ todo'[k].ctx.currfunc = Len(funcs) + 1 /\ UNCHANGED functions
  <2> DEFINE calls == <<c>> \o after
  <2>1. /\ calls \in Seq(Calls) /\ calls[1] = c /\ Do(calls)
        /\ c.ctx.currfunc = Len(funcs) + 1 /\ UNCHANGED functions /\ ~MadeStep
    BY <1>6, EnterCalls DEF EnterStep, MadeStep, FunctionPlaces
  <2>2. Len(calls) = 1 \/ (Len(calls) = 2 /\ calls[2].ctx = Next1.ctx)
    BY <1>6, EnterCalls
  <2> HIDE DEF calls
  <2>3. CASE k \in 1 .. Len(calls) /\ todo'[k] = calls[k]
    <3>1. k = 1 \/ (k = 2 /\ calls[2].ctx = Next1.ctx)
      BY <2>2, <2>3
    <3> QED BY <1>1, <1>2, <2>1, <2>3, <3>1
  <2> QED BY <1>3, <1>4, <2>1, <2>3
<1>7. CASE MadeStep
  <2>1. <<>> \in Seq(Calls) /\ Do(<<>>) /\ 1 .. Len(<<>>) = {}
    BY <1>7 DEF MadeStep
  <2> QED BY <1>3, <1>4, <2>1
<1> QED BY <1>5, <1>6, <1>7 DEF Shaped, LocalStep, CallStep, MadeStep

LEMMA InsertedWaits == Built /\ Placed /\ Inserted /\ Generate => Inserted'
<1> SUFFICES ASSUME Built, Placed, Inserted, Generate PROVE Inserted'
  OBVIOUS
<1>1. Next /\ frames' = frames
  BY GenerateKinds
<1>2. GoodProgram /\ Nested /\ ArgumentsDue /\ Finished /\ Shaped
  BY <1>1, StepShaped DEF Built
<1>3. (Beginning' <=> Beginning) /\ (Defining' <=> Defining) /\ Now' = Now
  BY <1>1 DEF Beginning, Defining, Now
<1>4. Beginning => ListedClosed'
  BY <1>2, ListedClosedStep DEF Inserted
<1>5. ASSUME Defining, NEW k \in 1 .. Len(todo'), todo'[k].ctx.currfunc \in Listing'
      PROVE  todo'[k].ctx.currfunc = Now /\ Extends(todo'[k].ctx, funcs'[Now].context)
  <2>1. /\ Len(todo) \in Nat \ {0} /\ Next1 = todo[1] /\ todo # <<>> /\ Len(funcs) \in Nat
        /\ \A j \in 2 .. Len(todo) :
             todo[j].ctx.currfunc \in 1 .. Len(funcs) /\ Below(Next1, todo[j])
    BY <1>2, StackNumbers DEF Shaped
  <2>2. Now \in Listing
    <3>1. Loop.n - 1 \in 1 .. Len(functions) /\ functions[Loop.n - 1] = Now
      BY <1>5 DEF Placed, NowOK
    <3> QED BY <3>1 DEF Listing
  <2>3. funcs'[Now].context = funcs[Now].context
    BY <1>1, <2>2, ListedSteady
  <2>4. ASSUME NEW j \in 1 .. Len(todo), j # 1 \/ ~MadeStep,
               todo'[k].ctx.currfunc = todo[j].ctx.currfunc,
               Extends(todo'[k].ctx, todo[j].ctx)
        PROVE  todo'[k].ctx.currfunc = Now /\ Extends(todo'[k].ctx, funcs[Now].context)
    <3>1. todo[j].ctx.currfunc \in Listing
      <4>1. CASE MadeStep
        <5>1. Next1.f = Next1.ctx.currfunc /\ Listing' = Listing \cup {Next1.f}
              /\ Making(Next1) /\ Next1.ctx.currfunc \in 1 .. Len(funcs)
          BY <1>2, <4>1, ListingSteps DEF MadeStep, Making, FunctionPlaces
        <5>2. j \in 2 .. Len(todo)
          BY <2>1, <2>4, <4>1
        <5>3. /\ todo[j].ctx.currfunc < Next1.ctx.currfunc
              /\ todo[j].ctx.currfunc \in 1 .. Len(funcs)
          BY <2>1, <5>1, <5>2 DEF Below
        <5>4. todo[j].ctx.currfunc # Next1.f
          BY <2>1, <5>1, <5>3
        <5> QED BY <1>5, <2>4, <5>1, <5>4
      <4>2. CASE ~MadeStep
        BY <1>2, <1>5, <2>4, <4>2, ListingSteps
      <4> QED BY <4>1, <4>2
    <3>2. todo[j].ctx.currfunc = Now /\ Extends(todo[j].ctx, funcs[Now].context)
      BY <1>5, <3>1 DEF Inserted
    <3> QED BY <2>4, <3>2 DEF Extends
  <2>5. ~(todo'[k].ctx.currfunc = Len(funcs) + 1 /\ UNCHANGED functions)
    <3>1. UNCHANGED functions => Listing' = Listing
      BY ListingKept
    <3>2. Len(funcs) + 1 \notin Listing
      BY <1>2, <2>1 DEF Finished
    <3> QED BY <1>5, <3>1, <3>2
  <2> QED BY <1>2, <2>3, <2>4, <2>5, CallsExtend
<1> QED BY <1>3, <1>4, <1>5 DEF Inserted

\* What becomes visible where the text is just now.
LEMMA ExternVisible ==
  ASSUME NEW n, Extern(n), blocks \in Seq(SUBSET Nat), declared \subseteq Nat, n \in Nat
  PROVE  /\ Visible' = Visible \cup {n} /\ declared \subseteq declared'
         /\ declared' \subseteq Nat /\ blocks' \in Seq(SUBSET Nat)
         /\ Len(blocks') = Len(blocks) /\ (blocks = <<>> => blocks' = <<>>)
<1>1. CASE blocks = <<>>
  BY <1>1 DEF Extern, Visible
<1>2. CASE blocks # <<>>
  <2> DEFINE m == Len(blocks)
  <2>1. m \in Nat \ {0} /\ blocks \in [1 .. m -> SUBSET Nat] /\ m \in 1 .. m
    BY <1>2
  <2>2. blocks' = [blocks EXCEPT ![m] = @ \cup {n}] /\ declared' = declared
    BY <1>2 DEF Extern
  <2>3. blocks[m] \in SUBSET Nat /\ blocks[m] \cup {n} \in SUBSET Nat
    BY <2>1
  <2> HIDE DEF m
  <2>4. /\ blocks' \in [1 .. m -> SUBSET Nat] /\ blocks'[m] = blocks[m] \cup {n}
        /\ \A i \in 1 .. m : i # m => blocks'[i] = blocks[i]
    BY <2>1, <2>2, <2>3
  <2>5. blocks' \in Seq(SUBSET Nat) /\ Len(blocks') = m /\ DOMAIN blocks = 1 .. m
    BY <2>1, <2>4
  <2>6. UNION {blocks'[i] : i \in 1 .. m} = (UNION {blocks[i] : i \in 1 .. m}) \cup {n}
    <3>1. \A x : x \in UNION {blocks'[i] : i \in 1 .. m} <=> \E i \in 1 .. m : x \in blocks'[i]
      OBVIOUS
    <3>2. \A x : x \in UNION {blocks[i] : i \in 1 .. m} <=> \E i \in 1 .. m : x \in blocks[i]
      OBVIOUS
    <3>3. \A i \in 1 .. m : \A x : x \in blocks'[i] <=> x \in blocks[i] \/ (i = m /\ x = n)
      BY <2>4
    <3>4. \A x : (\E i \in 1 .. m : x \in blocks'[i]) <=>
                   (\E i \in 1 .. m : x \in blocks[i]) \/ x = n
      BY <2>1, <3>3
    <3> DEFINE A == UNION {blocks'[i] : i \in 1 .. m}
               B == UNION {blocks[i] : i \in 1 .. m}
    <3> SUFFICES A = B \cup {n}
      OBVIOUS
    <3>5. \A x : x \in A <=> x \in B \cup {n}
      <4>1. \A x : x \in B \cup {n} <=> x \in B \/ x = n
        OBVIOUS
      <4> QED BY <3>1, <3>2, <3>4, <4>1
    <3> HIDE DEF A, B
    <3> QED BY <3>5
  <2>7. DOMAIN blocks' = 1 .. m
    BY <2>4
  <2> QED BY <1>2, <2>2, <2>5, <2>6, <2>7 DEF Visible, m
<1> QED BY <1>1, <1>2

\* What CCG does is no news to the printers but for the names it declares.
LEMMA VisibleWaits ==
  ASSUME Built, Typed, Generate
  PROVE  /\ Typed' /\ Visible \subseteq Visible' /\ declared \subseteq declared'
         /\ Len(blocks') = Len(blocks) /\ (blocks = <<>> => blocks' = <<>>)
         /\ MadeStep => Next1.f \in 1 .. Len(funcs) /\ funcs[Next1.f].name \in Visible'
<1>1. /\ Next /\ UNCHANGED <<frames, cc, depth, funcName, printed, called>>
      /\ \/ ~MadeStep /\ UNCHANGED <<declared, blocks>>
         \/ MadeStep /\ Extern(funcs[Next1.f].name)
  BY GenerateKinds
<1>2. CASE ~MadeStep /\ UNCHANGED <<declared, blocks>>
  <2>1. Visible' = Visible
    BY <1>2 DEF Visible
  <2> QED BY <1>1, <1>2, <2>1 DEF Typed
<1>3. CASE MadeStep /\ Extern(funcs[Next1.f].name)
  <2>1. GoodProgram /\ Nested /\ ArgumentsDue /\ Shaped
    BY <1>1, StepShaped DEF Built
  <2>2. Next1.f \in 1 .. Len(funcs)
    BY <1>3, <2>1, ListingSteps
  <2>3. funcs[Next1.f].name \in Nat
    <3>1. funcs[Next1.f] \in Function
      BY <2>1, <2>2, ElementOfSeq DEF GoodProgram, FuncsOK, FuncsTypeOK, Function
    <3> QED BY <3>1 DEF Function
  <2>4. blocks \in Seq(SUBSET Nat) /\ declared \subseteq Nat
    BY DEF Typed
  <2>5. /\ Visible' = Visible \cup {funcs[Next1.f].name} /\ declared \subseteq declared'
        /\ declared' \subseteq Nat /\ blocks' \in Seq(SUBSET Nat)
        /\ Len(blocks') = Len(blocks) /\ (blocks = <<>> => blocks' = <<>>)
    BY <1>3, <2>3, <2>4, ExternVisible
  <2> QED BY <1>1, <2>2, <2>5 DEF Typed
<1> QED BY <1>1, <1>2, <1>3

\* The calls that wait after a step.
LEMMA DuesAfter ==
  ASSUME GoodProgram, Shaped, NEW k \in 1 .. Len(todo'), todo'[k].op = "arguments"
  PROVE  \/ \E j \in 1 .. Len(todo) : todo'[k] = todo[j]
         \/ todo'[k].f = Len(funcs) + 1 /\ ~MadeStep
<1>1. todo \in Seq(Calls) /\ todo # <<>> /\ 2 .. Len(todo) \subseteq 1 .. Len(todo)
  BY DEF GoodProgram, TodoOK, Shaped
<1>2. ASSUME NEW calls \in Seq(Calls), Do(calls)
      PROVE  \/ \E j \in 1 .. Len(todo) : todo'[k] = todo[j]
             \/ k \in 1 .. Len(calls) /\ todo'[k] = calls[k]
  BY <1>1, <1>2, DoStack
<1>3. ASSUME NEW calls, Do(calls), Within(calls)
      PROVE  \E j \in 1 .. Len(todo) : todo'[k] = todo[j]
  <2>1. calls \in Seq(Calls) /\ \A j \in 1 .. Len(calls) : calls[j].op # "arguments"
    BY <1>3 DEF Within
  <2> QED BY <1>2, <1>3, <2>1
<1>4. ASSUME NEW n \in Nat, NEW c, NEW after, EnterStep(n, c, after)
      PROVE  \/ \E j \in 1 .. Len(todo) : todo'[k] = todo[j]
             \/ todo'[k].f = Len(funcs) + 1 /\ ~MadeStep
  <2> DEFINE calls == <<c>> \o after
  <2>1. /\ calls \in Seq(Calls) /\ calls[1] = c /\ Do(calls)
        /\ c.f = Len(funcs) + 1 /\ ~MadeStep
    BY <1>4, EnterCalls DEF EnterStep, MadeStep, FunctionPlaces
  <2>2. Len(calls) = 1 \/ (Len(calls) = 2 /\ calls[2].f = Len(funcs) + 1)
    BY <1>4, EnterCalls
  <2> HIDE DEF calls
  <2>3. CASE k \in 1 .. Len(calls) /\ todo'[k] = calls[k]
    <3>1. k = 1 \/ (k = 2 /\ calls[2].f = Len(funcs) + 1)
      BY <2>2, <2>3
    <3> QED BY <2>1, <2>3, <3>1
  <2> QED BY <1>2, <2>1, <2>3
<1>5. CASE MadeStep
  <2>1. <<>> \in Seq(Calls) /\ Do(<<>>) /\ 1 .. Len(<<>>) = {}
    BY <1>5 DEF MadeStep
  <2> QED BY <1>2, <2>1
<1> QED BY <1>3, <1>4, <1>5 DEF Shaped, LocalStep, CallStep

LEMMA DeclaredWaits ==
  ASSUME Built, Placed, Declared, Typed, Generate
  PROVE  Declared'
<1>1. Next /\ frames' = frames /\ funcName' = funcName /\ called' = called
  BY GenerateKinds
<1>2. GoodProgram /\ Nested /\ ArgumentsDue /\ CalleesListed /\ Finished /\ Shaped
  BY <1>1, StepShaped DEF Built
<1>3. DueVisible /\ PrintVisible /\ NamesOK /\ Levels
  BY DEF Declared
<1>4. /\ Visible \subseteq Visible' /\ declared \subseteq declared'
      /\ Len(blocks') = Len(blocks) /\ (blocks = <<>> => blocks' = <<>>)
      /\ MadeStep => funcs[Next1.f].name \in Visible' /\ Next1.f \in 1 .. Len(funcs)
  BY VisibleWaits
<1>5. /\ (Walking' <=> Walking) /\ (Defining' <=> Defining) /\ Now' = Now
  BY <1>1 DEF Walking, Defining, Now
<1>6. Defining => Now \in Listing
  <2>1. Defining => Loop.n - 1 \in 1 .. Len(functions) /\ functions[Loop.n - 1] = Now
    BY DEF Placed, NowOK
  <2> QED BY <2>1 DEF Listing
<1>7. Len(funcs) \in Nat /\ Len(funcs) + 1 \notin Listing
  BY <1>2, LenGrows DEF Finished
<1>8. DueVisible'
  <2> SUFFICES ASSUME NEW k \in 1 .. Len(todo'), todo'[k].op = "arguments",
                      todo'[k].f \in Listing'
               PROVE  funcs'[todo'[k].f].name \in Visible'
    BY DEF DueVisible
  <2> DEFINE f == todo'[k].f
  <2>1. CASE f \in Listing
    <3>1. PICK j \in 1 .. Len(todo) : todo'[k] = todo[j]
      BY <1>2, <1>7, <2>1, DuesAfter
    <3>2. funcs[f].name \in Visible
      BY <1>3, <2>1, <3>1 DEF DueVisible
    <3>3. funcs'[f].name = funcs[f].name
      BY <1>1, <2>1, ListedSteady
    <3> QED BY <1>4, <3>2, <3>3
  <2>2. CASE f \notin Listing
    <3>1. MadeStep /\ f = Next1.f
      BY <1>2, <2>2, ListingSteps
    <3>2. funcs'[f].name = funcs[f].name
      BY <1>2, <1>4, <3>1, FunctionsGrow DEF Grows, GrowsIn
    <3> QED BY <1>4, <3>1, <3>2
  <2> QED BY <2>1, <2>2
<1>9. PrintVisible'
  <2> SUFFICES ASSUME frames # <<>>, frames[1].op = "printBlock",
                      NEW i, NEW g, Site(Now, i, g)', i > frames[1].n
               PROVE  funcs'[g].name \in Visible'
    BY <1>1, <1>5 DEF PrintVisible
  <2>1. g \in Listing /\ funcs[g].name \in Visible
    <3>1. CASE Site(Now, i, g)
      BY <1>2, <1>3, <3>1 DEF PrintVisible, CalleesListed
    <3>2. ASSUME NEW calls, CallStep(calls), ~Site(Now, i, g)
          PROVE  g \in Listing /\ funcs[g].name \in Visible
      <4>1. g = Next1.f /\ Next1.op = "arguments"
        <5>1. Site(Now, i, g)' <=>
                \/ Site(Now, i, g)
                \/ /\ Now = Next1.ctx.currfunc /\ g = Next1.f
                   /\ i = Len(funcs[Next1.ctx.currfunc].text) + 1
          BY <1>1, <1>2, <1>5, <3>2, SitesCall DEF Shaped
        <5> QED BY <3>2, <5>1 DEF CallStep
      <4>2. Next1.f \in Listing
        BY <1>2, <4>1, CalleeListed DEF Shaped
      <4>3. 1 \in 1 .. Len(todo) /\ Next1 = todo[1]
        BY <1>2, StackNumbers DEF Shaped
      <4> QED BY <1>3, <4>1, <4>2, <4>3 DEF DueVisible
    <3>3. CASE \/ \E calls : LocalStep(calls)
               \/ \E k \in Nat : \E c, after : EnterStep(k, c, after)
               \/ MadeStep
      <4>1. Site(Now, i, g)
        BY <1>2, <1>5, <3>3, SitesSame DEF Shaped
      <4> QED BY <3>1, <4>1
    <3> QED BY <1>2, <3>1, <3>2, <3>3 DEF Shaped
  <2>2. funcs'[g].name = funcs[g].name
    BY <1>1, <2>1, ListedSteady
  <2> QED BY <1>4, <2>1, <2>2
<1>10. NamesOK'
  <2>1. funcName' \subseteq declared'
    BY <1>1, <1>3, <1>4 DEF NamesOK
  <2>2. Defining => funcs'[Now].name \in declared'
    <3>1. Defining => funcs'[Now].name = funcs[Now].name
      BY <1>1, <1>6, ListedSteady
    <3> QED BY <1>3, <1>4, <3>1 DEF NamesOK
  <2>3. Walking \/ Defining => 0 \in declared'
    BY <1>3, <1>4 DEF NamesOK
  <2>4. ASSUME NEW n \in called PROVE \E g \in Listing' : funcs'[g].name = n
    <3>1. PICK g \in Listing : funcs[g].name = n
      BY <1>3 DEF NamesOK
    <3> QED BY <1>1, <3>1, ListedSteady
  <2> QED BY <1>1, <1>5, <2>1, <2>2, <2>3, <2>4 DEF NamesOK
<1>11. Levels'
  BY <1>1, <1>3, <1>4, <1>5 DEF Levels
<1> QED BY <1>8, <1>9, <1>10, <1>11 DEF Declared
-----------------------------------------------------------------------------
(* CCG waits *)

LEMMA CallsKept ==
  ASSUME CalleesListed, BodyBefore, funcs' = funcs, functions' = functions
  PROVE  CalleesListed' /\ BodyBefore'
<1>1. Listing' = Listing
  BY DEF Listing
<1>2. \A f, i, g : Site(f, i, g)' <=> Site(f, i, g)
  BY DEF Site
<1>3. CalleesListed'
  BY <1>1, <1>2 DEF CalleesListed
<1>4. \A f, i, g : Site(f, i, g)' /\ i <= funcs'[f].body =>
        \A k \in 1 .. Len(functions') :
          functions'[k] = f => \E j \in 1 .. k - 1 : functions'[j] = g
  BY <1>2 DEF BodyBefore
<1> QED BY <1>3, <1>4 DEF BodyBefore

LEMMA BuiltKept == Built /\ UNCHANGED vars => Built'
<1> SUFFICES ASSUME Built, UNCHANGED vars PROVE Built'
  OBVIOUS
<1>1. todo' = todo /\ funcs' = funcs /\ functions' = functions
  BY DEF vars
<1>2. GoodProgram'
  BY StepGood DEF Built
<1>3. NothingAfter' /\ LabelsOK'
  BY <1>1 DEF Built, NothingAfter, LabelsOK
<1>4. Nested' /\ ArgumentsDue'
  BY <1>1 DEF Built, Nested, PlacesNumbered, ArgumentsDue, Listing
<1>5. CalleesListed' /\ BodyBefore'
  BY <1>1, CallsKept DEF Built
<1>6. Finished' /\ Unfinished'
  BY <1>1 DEF Built, Finished, Unfinished, Listing, Next1
<1> QED BY <1>2, <1>3, <1>4, <1>5, <1>6 DEF Built

\* All functions are finished when CCG has returned.
LEMMA AllListed ==
  ASSUME Built, todo = <<>>
  PROVE  Listing = 1 .. Len(funcs) /\ 1 \in Listing /\ Len(funcs) \in Nat \ {0}
<1>1. 1 .. Len(todo) = {}
  OBVIOUS
<1>2. \A f \in 1 .. Len(funcs) : f \in Listing
  BY <1>1 DEF Built, Unfinished
<1>3. \A f \in Listing : f \in 1 .. Len(funcs)
  BY DEF Built, Finished
<1>4. Len(funcs) \in Nat
  BY DEF Built, GoodProgram, FuncsOK, FuncsTypeOK
<1>5. Len(funcs) # 0
  BY DEF Built, Unfinished
<1>6. 1 \in 1 .. Len(funcs)
  BY <1>4, <1>5
<1> QED BY <1>2, <1>3, <1>4, <1>5, <1>6

\* CCG is called by a printer.
LEMMA CalledBuilt ==
  ASSUME Built, todo = <<>>, NEW c, Make(c), GoodCall(c, Len(funcs)),
         c.op \in {"block", "functionBlock", "expression"}, c.f = 0
  PROVE  Built' /\ todo' = <<c>> /\ todo' # <<>>
<1>1. /\ todo' = <<c>> /\ Len(todo') = 1 /\ todo'[1] = c /\ todo' # <<>>
      /\ funcs' = funcs /\ functions' = functions /\ numfunctions' = numfunctions
      /\ globalvars' = globalvars
  BY DEF Make
<1>2. c \in Calls /\ todo' \in Seq(Calls) /\ 1 .. Len(todo') = {1} /\ 1 .. 1 - 1 = {}
  BY <1>1 DEF GoodCall
<1>3. GoodProgram'
  <2>1. TodoOK'
    BY <1>1, <1>2 DEF TodoOK
  <2>2. PlacesOK'
    BY <1>1, <1>2 DEF PlacesOK
  <2>3. GlobalsOK' /\ FuncsOK' /\ LimitOK'
    <3>1. GlobalsOK' /\ LimitOK'
      BY <1>1 DEF Built, GoodProgram, GlobalsOK, LimitOK
    <3>2. FuncsOK'
      <4>1. FuncsOK
        BY DEF Built, GoodProgram
      <4>2. dead' = dead
        BY DEF Make
      <4> QED BY <1>1, <4>1, <4>2 DEF FuncsOK, FuncsTypeOK
    <3> QED BY <3>1, <3>2
  <2> QED BY <2>1, <2>2, <2>3 DEF GoodProgram
<1>4. ~Making(c)
  BY DEF Making
<1>5. NothingAfter' /\ LabelsOK'
  <2>1. 1 .. Len(todo') - 1 = {}
    BY <1>1
  <2> QED BY <1>1, <2>1 DEF Built, NothingAfter, LabelsOK
<1>6. Nested' /\ ArgumentsDue'
  BY <1>1, <1>2, <1>4 DEF Nested, PlacesNumbered, ArgumentsDue
<1>7. CalleesListed' /\ BodyBefore'
  BY <1>1, CallsKept DEF Built
<1>8. Finished'
  BY <1>1, <1>2, <1>4 DEF Built, Finished, Listing
<1>9. Unfinished'
  <2>1. Listing' = Listing
    BY <1>1 DEF Listing
  <2> QED BY <1>1, <2>1, AllListed DEF Unfinished
<1> QED BY <1>1, <1>3, <1>5, <1>6, <1>7, <1>8, <1>9 DEF Built
-----------------------------------------------------------------------------
(* The stack of the printers *)

LEMMA FrameStack ==
  ASSUME frames \in Seq(FrameType), frames # <<>>, NEW calls \in Seq(FrameType), Proceed(calls)
  PROVE  /\ frames' \in Seq(FrameType) /\ Len(frames) \in Nat \ {0} /\ Frame1 = frames[1]
         /\ Len(calls) \in Nat /\ Len(frames') = Len(calls) + Len(frames) - 1
         /\ \A k \in 1 .. Len(calls) : frames'[k] = calls[k]
         /\ \A k \in Len(calls) + 1 .. Len(frames') :
              /\ k - Len(calls) + 1 \in 2 .. Len(frames)
              /\ frames'[k] = frames[k - Len(calls) + 1]
<1>1. /\ Tail(frames) \in Seq(FrameType)
      /\ Len(Tail(frames)) = Len(frames) - 1 /\ Len(frames) \in Nat \ {0}
      /\ \A k \in 1 .. Len(Tail(frames)) : Tail(frames)[k] = frames[k + 1]
  BY HeadTailProperties
<1>2. Len(calls) \in Nat /\ Frame1 = frames[1]
  BY DEF Frame1
<1>3. /\ frames' \in Seq(FrameType) /\ Len(frames') = Len(calls) + Len(frames) - 1
      /\ \A k \in 1 .. Len(frames') :
           frames'[k] = IF k <= Len(calls) THEN calls[k] ELSE Tail(frames)[k - Len(calls)]
  BY <1>1, <1>2, ConcatProperties DEF Proceed
<1>4. \A k \in 1 .. Len(calls) : frames'[k] = calls[k]
  BY <1>1, <1>2, <1>3
<1>5. ASSUME NEW k \in Len(calls) + 1 .. Len(frames')
      PROVE  k - Len(calls) + 1 \in 2 .. Len(frames) /\ frames'[k] = frames[k - Len(calls) + 1]
  <2>1. /\ ~(k <= Len(calls)) /\ k \in 1 .. Len(frames')
        /\ k - Len(calls) \in 1 .. Len(Tail(frames))
        /\ k - Len(calls) + 1 \in 2 .. Len(frames)
    BY <1>1, <1>2, <1>3, <1>5
  <2> QED BY <1>1, <1>3, <2>1
<1> QED BY <1>1, <1>2, <1>3, <1>4, <1>5

\* A call of a printer is at the top of the stack.
LEMMA FirstFrame ==
  ASSUME FramesOK, NEW op, Reached(op)
  PROVE  /\ todo = <<>> /\ ~dead /\ frames \in Seq(FrameType) /\ frames # <<>>
         /\ Frame1 = frames[1] /\ frames[1].op = op /\ frames[1] \in FrameType
         /\ Len(frames) \in Nat \ {0}
         /\ op = "prototypes" => Beginning
         /\ op = "definitions" => Walking
         /\ op = "endFunction" => Defining /\ Len(frames) = 2
         /\ op \in Inner => Defining /\ Len(frames) > 2
<1>1. /\ todo = <<>> /\ ~dead /\ frames \in Seq(FrameType) /\ frames # <<>>
      /\ Frame1 = frames[1] /\ frames[1].op = op
  BY DEF Reached, Frame1, FramesOK
<1>2. Len(frames) \in Nat \ {0} /\ 1 \in 1 .. Len(frames)
  BY <1>1
<1>3. frames[1] \in FrameType
  BY <1>1, <1>2, ElementOfSeq
<1>4. Beginning \/ Walking \/ Defining
  BY <1>1 DEF FramesOK
<1>5. ASSUME Defining, Len(frames) # 2 PROVE op \in Inner /\ Len(frames) > 2
  <2>1. Len(frames) > 1
    BY <1>5 DEF Defining
  <2>2. 1 \in 1 .. Len(frames) - 2 /\ Len(frames) > 2
    BY <1>2, <1>5, <2>1
  <2> QED BY <1>1, <1>5, <2>2 DEF Defining
<1>6. ASSUME Defining, Len(frames) = 2 PROVE op = "endFunction"
  BY <1>1, <1>6 DEF Defining
<1>7. Beginning => op = "prototypes"
  BY <1>1 DEF Beginning
<1>8. Walking => op = "definitions"
  BY <1>1 DEF Walking
<1> QED BY <1>1, <1>2, <1>3, <1>4, <1>5, <1>6, <1>7, <1>8 DEF Inner
-----------------------------------------------------------------------------
(* Levels of braces *)

\* The calls lead from one level to another, and never below the first.
Levelled(calls, d, e) ==
  \E q \in [1 .. Len(calls) + 1 -> Nat \ {0}] :
    /\ q[1] = d /\ q[Len(calls) + 1] = e
    /\ \A k \in 1 .. Len(calls) : q[k + 1] = After(calls[k].op, q[k])

\* They may be left for later.
Leads(calls, d, e) ==
  /\ calls \in Seq(FrameType)
  /\ \A k \in 1 .. Len(calls) : calls[k].op \in Inner \ OnTop
  /\ Levelled(calls, d, e)

LEMMA InsertFrame ==
  ASSUME NEW op \in Inner \ OnTop
  PROVE  Insert(op) \in FrameType /\ Insert(op).op = op
BY NoContextGood DEF Insert, Frame, FrameType, Inner, GoodContext

LEMMA FlatLevelled ==
  ASSUME NEW d \in Nat \ {0}, NEW calls \in Seq(FrameType),
         \A k \in 1 .. Len(calls) : calls[k].op \notin {"open", "close"}
  PROVE  Levelled(calls, d, d)
<1> DEFINE q == [k \in 1 .. Len(calls) + 1 |-> d]
<1>1. Len(calls) \in Nat
  OBVIOUS
<1>2. q \in [1 .. Len(calls) + 1 -> Nat \ {0}] /\ \A k \in 1 .. Len(calls) + 1 : q[k] = d
  OBVIOUS
<1> HIDE DEF q
<1>3. /\ 1 \in 1 .. Len(calls) + 1 /\ Len(calls) + 1 \in 1 .. Len(calls) + 1
      /\ \A k \in 1 .. Len(calls) : k \in 1 .. Len(calls) + 1 /\ k + 1 \in 1 .. Len(calls) + 1
  BY <1>1
<1>4. \A k \in 1 .. Len(calls) : q[k + 1] = After(calls[k].op, q[k])
  BY <1>2, <1>3 DEF After
<1>5. q[1] = d /\ q[Len(calls) + 1] = d
  BY <1>2, <1>3
<1> QED BY <1>2, <1>4, <1>5 DEF Levelled

LEMMA FlatLeads ==
  ASSUME NEW d \in Nat \ {0}, NEW calls \in Seq(FrameType),
         \A k \in 1 .. Len(calls) : calls[k].op \in Inner \ (OnTop \cup {"open", "close"})
  PROVE  Leads(calls, d, d)
<1>1. Levelled(calls, d, d)
  BY FlatLevelled
<1> QED BY <1>1 DEF Leads

LEMMA OneLeadsOn ==
  ASSUME NEW d \in Nat \ {0}, NEW op \in Inner \ OnTop, After(op, d) \in Nat \ {0}
  PROVE  Leads(<<Insert(op)>>, d, After(op, d))
<1> DEFINE calls == <<Insert(op)>>
           q == <<d, After(op, d)>>
<1>1. /\ calls \in Seq(FrameType) /\ Len(calls) = 1 /\ calls[1].op = op
  BY InsertFrame
<1>2. q \in [1 .. 2 -> Nat \ {0}] /\ q[1] = d /\ q[2] = After(op, d)
  OBVIOUS
<1> HIDE DEF calls, q
<1>3. Len(calls) + 1 = 2 /\ 1 .. Len(calls) = {1} /\ 1 + 1 = 2
  BY <1>1
<1>4. Levelled(calls, d, After(op, d))
  BY <1>1, <1>2, <1>3 DEF Levelled
<1>5. Leads(calls, d, After(op, d))
  BY <1>1, <1>3, <1>4 DEF Leads
<1> QED BY <1>5 DEF calls

LEMMA BothLead ==
  ASSUME NEW x, NEW y, NEW z, NEW c, Leads(c, x, y), NEW d, Leads(d, y, z)
  PROVE  Leads(c \o d, x, z)
<1>1. c \in Seq(FrameType) /\ d \in Seq(FrameType) /\ Len(c) \in Nat /\ Len(d) \in Nat
  BY DEF Leads
<1> DEFINE m == Len(c)
           n == Len(d)
           s == c \o d
<1>2. /\ s \in Seq(FrameType) /\ Len(s) = m + n
      /\ \A k \in 1 .. m + n : s[k] = IF k <= m THEN c[k] ELSE d[k - m]
  BY <1>1, ConcatProperties
<1>3. PICK p \in [1 .. m + 1 -> Nat \ {0}] :
        /\ p[1] = x /\ p[m + 1] = y
        /\ \A k \in 1 .. m : p[k + 1] = After(c[k].op, p[k])
  BY DEF Leads, Levelled
<1>4. PICK q \in [1 .. n + 1 -> Nat \ {0}] :
        /\ q[1] = y /\ q[n + 1] = z
        /\ \A k \in 1 .. n : q[k + 1] = After(d[k].op, q[k])
  BY DEF Leads, Levelled
<1>5. m \in Nat /\ n \in Nat
  BY <1>1
<1>6. /\ \A k \in 1 .. m : c[k].op \in Inner \ OnTop
      /\ \A k \in 1 .. n : d[k].op \in Inner \ OnTop
  BY DEF Leads
<1> HIDE DEF m, n, s
<1> DEFINE r == [k \in 1 .. m + n + 1 |-> IF k <= m THEN p[k] ELSE q[k - m]]
<1>7. /\ \A k \in 1 .. m + 1 : r[k] = p[k]
      /\ \A k \in 1 .. n + 1 : r[m + k] = q[k]
  <2>1. ASSUME NEW k \in 1 .. m + 1 PROVE r[k] = p[k]
    <3>1. CASE k <= m
      BY <1>5, <3>1
    <3>2. CASE k = m + 1
      <4>1. (m + 1) - m = 1 /\ m + 1 \in 1 .. m + n + 1 /\ ~(m + 1 <= m)
        BY <1>5
      <4>2. r[k] = q[1]
        BY <3>2, <4>1
      <4> QED BY <1>3, <1>4, <3>2, <4>2
    <3> QED BY <1>5, <3>1, <3>2
  <2>2. ASSUME NEW k \in 1 .. n + 1 PROVE r[m + k] = q[k]
    <3>1. (m + k) - m = k /\ m + k \in 1 .. m + n + 1 /\ ~(m + k <= m)
      BY <1>5
    <3> QED BY <3>1
  <2> QED BY <2>1, <2>2
<1>8. r \in [1 .. m + n + 1 -> Nat \ {0}]
  <2> SUFFICES ASSUME NEW k \in 1 .. m + n + 1
               PROVE  (IF k <= m THEN p[k] ELSE q[k - m]) \in Nat \ {0}
    OBVIOUS
  <2>1. k <= m => k \in 1 .. m + 1
    BY <1>5
  <2>2. ~(k <= m) => k - m \in 1 .. n + 1
    BY <1>5
  <2> QED BY <2>1, <2>2
<1> HIDE DEF r
<1>9. ASSUME NEW k \in 1 .. m + n
      PROVE  s[k].op \in Inner \ OnTop /\ r[k + 1] = After(s[k].op, r[k])
  <2>1. CASE k <= m
    <3>1. k \in 1 .. m + 1 /\ k + 1 \in 1 .. m + 1 /\ k \in 1 .. m
      BY <1>5, <2>1
    <3>2. s[k] = c[k] /\ r[k] = p[k] /\ r[k + 1] = p[k + 1]
      BY <1>2, <1>7, <2>1, <3>1
    <3> QED BY <1>3, <1>6, <3>1, <3>2
  <2>2. CASE k > m
    <3> DEFINE j == k - m
    <3>1. /\ j \in 1 .. n /\ j \in 1 .. n + 1 /\ j + 1 \in 1 .. n + 1
          /\ m + j = k /\ m + (j + 1) = k + 1 /\ ~(k <= m)
      BY <1>5, <2>2
    <3>2. s[k] = d[j]
      BY <1>2, <3>1
    <3> HIDE DEF j
    <3>3. r[k] = q[j] /\ r[k + 1] = q[j + 1]
      BY <1>7, <3>1
    <3> QED BY <1>4, <1>6, <3>1, <3>2, <3>3
  <2> QED BY <1>5, <2>1, <2>2
<1>10. r[1] = x /\ r[m + n + 1] = z
  <2>1. 1 \in 1 .. m + 1 /\ n + 1 \in 1 .. n + 1 /\ m + (n + 1) = m + n + 1
    BY <1>5
  <2> QED BY <1>3, <1>4, <1>7, <2>1
<1>11. Levelled(s, x, z)
  BY <1>2, <1>8, <1>9, <1>10 DEF Levelled
<1>12. Leads(s, x, z)
  BY <1>2, <1>9, <1>11 DEF Leads
<1> QED BY <1>12 DEF s

LEMMA BracedLeads == ASSUME NEW d \in Nat \ {0} PROVE Leads(Braced, d, d)
<1> DEFINE q == <<d, d + 1, d + 1, d + 1, d>>
           calls == <<Insert("open"), Insert("insert"), Insert("Sequence"), Insert("close")>>
<1>1. /\ Insert("open") \in FrameType /\ Insert("insert") \in FrameType
      /\ Insert("Sequence") \in FrameType /\ Insert("close") \in FrameType
      /\ Insert("open").op = "open" /\ Insert("insert").op = "insert"
      /\ Insert("Sequence").op = "Sequence" /\ Insert("close").op = "close"
  BY InsertFrame DEF Inner, OnTop, FrameOps, StatementKinds
<1>2. /\ calls \in Seq(FrameType) /\ Len(calls) = 4
      /\ calls[1].op = "open" /\ calls[2].op = "insert" /\ calls[3].op = "Sequence"
      /\ calls[4].op = "close"
  BY <1>1
<1>3. /\ q \in [1 .. 5 -> Nat \ {0}] /\ q[1] = d /\ q[2] = d + 1 /\ q[3] = d + 1
      /\ q[4] = d + 1 /\ q[5] = d
  OBVIOUS
<1>4. Braced = calls
  BY DEF Braced
<1> HIDE DEF q, calls
<1>5. Len(calls) + 1 = 5 /\ 1 .. Len(calls) = {1, 2, 3, 4} /\ (d + 1) - 1 = d
  BY <1>2
<1>6. Levelled(calls, d, d)
  BY <1>2, <1>3, <1>5 DEF Levelled, After
<1>7. \A k \in 1 .. Len(calls) : calls[k].op \in Inner \ OnTop
  BY <1>2, <1>5 DEF Inner, OnTop, FrameOps, StatementKinds
<1> QED BY <1>2, <1>4, <1>6, <1>7 DEF Leads

\* What stands in an if statement without else.
LEMMA IfLeads ==
  ASSUME NEW d \in Nat \ {0}
  PROVE  Leads(<<Insert("inline"), Insert("open"), Insert("insert"), Insert("Assignment"),
                 Insert("Sequence"), Insert("close")>>, d, d)
<1> DEFINE q == <<d, d, d + 1, d + 1, d + 1, d + 1, d>>
           calls == <<Insert("inline"), Insert("open"), Insert("insert"),
                      Insert("Assignment"), Insert("Sequence"), Insert("close")>>
<1>1. /\ Insert("inline") \in FrameType /\ Insert("open") \in FrameType
      /\ Insert("insert") \in FrameType /\ Insert("Assignment") \in FrameType
      /\ Insert("Sequence") \in FrameType /\ Insert("close") \in FrameType
      /\ Insert("inline").op = "inline" /\ Insert("Assignment").op = "Assignment"
      /\ Insert("open").op = "open" /\ Insert("insert").op = "insert"
      /\ Insert("Sequence").op = "Sequence" /\ Insert("close").op = "close"
  BY InsertFrame DEF Inner, OnTop, FrameOps, StatementKinds
<1>2. /\ calls \in Seq(FrameType) /\ Len(calls) = 6
      /\ calls[1].op = "inline" /\ calls[2].op = "open" /\ calls[3].op = "insert"
      /\ calls[4].op = "Assignment" /\ calls[5].op = "Sequence" /\ calls[6].op = "close"
  BY <1>1
<1>3. /\ q \in [1 .. 7 -> Nat \ {0}] /\ q[1] = d /\ q[2] = d /\ q[3] = d + 1
      /\ q[4] = d + 1 /\ q[5] = d + 1 /\ q[6] = d + 1 /\ q[7] = d
  OBVIOUS
<1> HIDE DEF q, calls
<1>4. Len(calls) + 1 = 7 /\ 1 .. Len(calls) = {1, 2, 3, 4, 5, 6} /\ (d + 1) - 1 = d
  BY <1>2
<1>5. Levelled(calls, d, d)
  BY <1>2, <1>3, <1>4 DEF Levelled, After
<1>6. \A k \in 1 .. Len(calls) : calls[k].op \in Inner \ OnTop
  BY <1>2, <1>4 DEF Inner, OnTop, FrameOps, StatementKinds
<1>7. Leads(calls, d, d)
  BY <1>2, <1>5, <1>6 DEF Leads
<1> QED BY <1>7 DEF calls

LEMMA IfElseLeads ==
  ASSUME NEW d \in Nat \ {0}
  PROVE  Leads(<<Insert("inline")>> \o Braced \o Braced, d, d)
<1>1. "inline" \in Inner \ OnTop /\ After("inline", d) = d
  BY DEF Inner, OnTop, FrameOps, After
<1>2. Leads(<<Insert("inline")>>, d, d)
  BY <1>1, OneLeadsOn
<1> HIDE DEF Braced
<1>3. Leads(<<Insert("inline")>> \o Braced, d, d)
  BY <1>2, BracedLeads, BothLead
<1> QED BY <1>3, BracedLeads, BothLead

LEMMA SwitchLeads ==
  ASSUME NEW d \in Nat \ {0}
  PROVE  Leads(<<Insert("open")>> \o Times(Cases, Insert("case")) \o
               <<Insert("close")>> \o <<Insert("inline")>> \o Braced, d, d)
<1>1. /\ "inline" \in Inner \ OnTop /\ After("inline", d) = d
      /\ "open" \in Inner \ OnTop /\ After("open", d) = d + 1
      /\ "close" \in Inner \ OnTop /\ After("close", d + 1) = d
      /\ "case" \in Inner \ (OnTop \cup {"open", "close"}) /\ d + 1 \in Nat \ {0}
  BY DEF Inner, OnTop, FrameOps, After
<1>2. /\ Leads(<<Insert("inline")>>, d, d) /\ Leads(<<Insert("open")>>, d, d + 1)
      /\ Leads(<<Insert("close")>>, d + 1, d)
  BY <1>1, OneLeadsOn
<1> DEFINE cases == Times(Cases, Insert("case"))
<1>3. Leads(cases, d + 1, d + 1)
  <2>1. Insert("case") \in FrameType /\ Insert("case").op = "case" /\ Cases \in Nat
    BY <1>1, InsertFrame, TranslationAssumption
  <2>2. /\ cases \in Seq(FrameType) /\ Len(cases) = Cases
        /\ \A k \in 1 .. Cases : cases[k] = Insert("case")
    BY <2>1 DEF Times
  <2> HIDE DEF cases
  <2> QED BY <1>1, <2>1, <2>2, FlatLeads
<1> HIDE DEF cases
<1>4. Leads(<<Insert("open")>> \o cases, d, d + 1)
  BY <1>2, <1>3, BothLead
<1>5. Leads(<<Insert("open")>> \o cases \o <<Insert("close")>>, d, d)
  BY <1>2, <1>4, BothLead
<1>6. Leads(<<Insert("open")>> \o cases \o <<Insert("close")>> \o <<Insert("inline")>>, d, d)
  BY <1>2, <1>5, BothLead
<1>7. Leads(<<Insert("open")>> \o cases \o <<Insert("close")>> \o <<Insert("inline")>>
            \o Braced, d, d)
  BY <1>6, BracedLeads, BothLead
<1> QED BY <1>7 DEF cases
-----------------------------------------------------------------------------
(* The invariant *)

TInv == Built /\ ~dead /\ Placed /\ Inserted /\ Declared /\ Typed

\* The context of the function being defined.
LEMMA NowContext ==
  ASSUME Built, Placed, Defining
  PROVE  /\ Now \in Listing /\ Now \in 1 .. Len(funcs) /\ Now \in Nat
         /\ cc = funcs[Now].context /\ cc.currfunc = Now
         /\ GoodContext(cc) /\ InFunction(cc, Len(funcs))
         /\ Loop.n - 1 \in 1 .. Len(functions) /\ functions[Loop.n - 1] = Now
         /\ funcs[Now].name \notin funcName
<1>1. /\ Loop.n - 1 \in 1 .. Len(functions) /\ functions[Loop.n - 1] = Now
      /\ cc = funcs[Now].context /\ funcs[Now].name \notin funcName
  BY DEF Placed, NowOK
<1>2. Now \in Listing
  BY <1>1 DEF Listing
<1>3. /\ Now \in 1 .. Len(funcs) /\ InFunction(funcs[Now].context, Len(funcs))
      /\ funcs[Now].context.currfunc = Now
  BY <1>2 DEF Built, Finished
<1>4. GoodContext(funcs[Now].context)
  BY <1>3 DEF Built, GoodProgram, FuncsOK
<1>5. Now \in Nat
  BY <1>3
<1> QED BY <1>1, <1>2, <1>3, <1>4, <1>5

\* A call of a printer above the end of a definition makes way for others.
LEMMA InnerPlaced ==
  ASSUME Built, Placed, todo = <<>>, frames # <<>>, Defining, frames[1].op \in Inner,
         NEW calls \in Seq(FrameType), Proceed(calls),
         \A k \in 1 .. Len(calls) : calls[k].op \in Inner /\ (k > 1 => calls[k].op \notin OnTop),
         Len(calls) > 0 => calls[1].op # "body" /\ (calls[1].op = "printBlock" => calls[1].f = Now),
         UNCHANGED <<funcs, functions, funcName, cc>>,
         todo' # <<>> => Len(calls) > 0 /\ calls[1].op \in Callers
  PROVE  /\ Placed' /\ Defining' /\ ~Walking' /\ ~Beginning' /\ Now' = Now /\ Loop' = Loop
         /\ Len(frames) > 2 /\ frames' # <<>>
         /\ Len(calls) \in Nat /\ Len(frames') = Len(calls) + Len(frames) - 1
         /\ \A k \in 1 .. Len(calls) : frames'[k] = calls[k]
         /\ \A k \in Len(calls) + 1 .. Len(frames') :
              /\ k - Len(calls) + 1 \in 2 .. Len(frames)
              /\ frames'[k] = frames[k - Len(calls) + 1]
         /\ Len(calls) = 0 => frames'[1] = frames[2] /\ frames'[1].op \notin OnTop
<1> DEFINE m == Len(calls)
           n == Len(frames)
<1>1. FramesOK /\ frames \in Seq(FrameType)
  BY DEF Placed, FramesOK
<1>2. /\ frames' \in Seq(FrameType) /\ n \in Nat \ {0} /\ m \in Nat
      /\ Len(frames') = m + n - 1
      /\ \A k \in 1 .. m : frames'[k] = calls[k]
      /\ \A k \in m + 1 .. m + n - 1 :
           k - m + 1 \in 2 .. n /\ frames'[k] = frames[k - m + 1]
  BY <1>1, FrameStack
<1>3. /\ n > 1 /\ frames[n].op = "definitions" /\ frames[n - 1].op = "endFunction"
      /\ \A k \in 1 .. n - 2 : frames[k].op \in Inner
      /\ \A k \in 2 .. n : frames[k].op \notin OnTop
  BY <1>1 DEF Defining, FramesOK
<1>4. n # 2
  BY <1>3 DEF Inner
<1> HIDE DEF m, n
<1>5. n > 2 /\ m + n - 1 > m + 1
  BY <1>2, <1>3, <1>4
<1>6. frames'[m + n - 1] = frames[n] /\ frames'[m + n - 2] = frames[n - 1]
  <2>1. /\ m + n - 1 \in m + 1 .. m + n - 1 /\ m + n - 2 \in m + 1 .. m + n - 1
        /\ (m + n - 1) - m + 1 = n /\ (m + n - 2) - m + 1 = n - 1
    BY <1>2, <1>5
  <2> QED BY <1>2, <2>1
<1>7. ASSUME NEW k \in 1 .. m + n - 1, k <= m + n - 3 PROVE frames'[k].op \in Inner
  <2>1. CASE k <= m
    <3>1. k \in 1 .. m
      BY <1>2, <2>1
    <3> QED BY <1>2, <3>1 DEF m
  <2>2. CASE k > m
    <3>1. k \in m + 1 .. m + n - 1 /\ k - m + 1 \in 1 .. n - 2
      BY <1>2, <1>7, <2>2
    <3> QED BY <1>2, <1>3, <3>1
  <2> QED BY <1>2, <2>1, <2>2
<1>8. ASSUME NEW k \in 2 .. m + n - 1 PROVE frames'[k].op \notin OnTop
  <2>1. CASE k <= m
    <3>1. k \in 1 .. m /\ k > 1
      BY <1>2, <2>1
    <3> QED BY <1>2, <3>1 DEF m
  <2>2. CASE k > m
    <3>1. k \in m + 1 .. m + n - 1 /\ k - m + 1 \in 2 .. n
      BY <1>2, <2>2
    <3> QED BY <1>2, <1>3, <3>1
  <2> QED BY <1>2, <2>1, <2>2
<1>9. Defining' /\ ~Walking' /\ ~Beginning'
  <2>1. Len(frames') > 1 /\ Len(frames') - 1 = m + n - 2 /\ Len(frames') - 2 = m + n - 3
    BY <1>2, <1>5
  <2>2. \A k \in 1 .. m + n - 3 : frames'[k].op \in Inner
    <3>1. \A k \in 1 .. m + n - 3 : k \in 1 .. m + n - 1 /\ k <= m + n - 3
      BY <1>2, <1>5
    <3> QED BY <1>7, <3>1
  <2>3. Defining'
    BY <1>2, <1>3, <1>6, <2>1, <2>2 DEF Defining
  <2> QED BY <1>2, <2>1, <2>3 DEF Walking, Beginning
<1>10. Loop' = Loop /\ Now' = Now
  <2>1. Len(frames') - 1 = m + n - 2
    BY <1>2
  <2> QED BY <1>2, <1>6, <2>1 DEF Loop, Now, n
<1>11. FramesOK'
  BY <1>2, <1>8, <1>9 DEF FramesOK
<1>12. m = 0 => frames'[1] = frames[2] /\ frames'[1].op \notin OnTop
  <2>1. m = 0 => 1 \in m + 1 .. m + n - 1 /\ 1 - m + 1 = 2
    BY <1>2, <1>5
  <2>2. 2 \in 2 .. n
    BY <1>2, <1>5
  <2> QED BY <1>2, <1>3, <2>1, <2>2
<1>13. LoopOK'
  <2>1. Listing' = Listing
    BY DEF Listing
  <2> QED BY <1>9, <1>10, <2>1 DEF Placed, LoopOK
<1>14. NowOK'
  <2>1. frames'[1].op \in {"body", "printBlock"} => frames'[1].f = Now
    <3>1. CASE m = 0
      BY <1>12, <3>1 DEF OnTop
    <3>2. CASE m > 0
      <4>1. frames'[1] = calls[1]
        BY <1>2, <3>2
      <4> QED BY <3>2, <4>1 DEF m
    <3> QED BY <1>2, <3>1, <3>2
  <2> QED BY <1>10, <2>1 DEF Placed, NowOK
<1>15. frames' # <<>>
  <2>1. Len(frames') # 0
    BY <1>2, <1>5
  <2> QED BY <2>1
<1>16. CalledOK'
  <2> SUFFICES ASSUME todo' # <<>> PROVE frames'[1].op \in Callers
    BY <1>15 DEF CalledOK
  <2>1. 1 \in 1 .. m
    BY <1>2 DEF m
  <2>2. frames'[1] = calls[1]
    BY <1>2, <2>1
  <2> QED BY <2>2
<1>17. Placed'
  BY <1>11, <1>13, <1>14, <1>16 DEF Placed
<1> QED BY <1>2, <1>5, <1>9, <1>10, <1>12, <1>15, <1>17 DEF m, n

\* The levels of braces after it.
LEMMA InnerLevels ==
  ASSUME Built, Placed, Levels, todo = <<>>, frames # <<>>, Defining, frames[1].op \in Inner,
         NEW calls \in Seq(FrameType), Proceed(calls),
         \A k \in 1 .. Len(calls) : calls[k].op \in Inner /\ (k > 1 => calls[k].op \notin OnTop),
         Len(calls) > 0 => calls[1].op # "body" /\ (calls[1].op = "printBlock" => calls[1].f = Now),
         UNCHANGED <<funcs, functions, funcName, cc>>,
         todo' # <<>> => Len(calls) > 0 /\ calls[1].op \in Callers,
         Levelled(calls, Len(blocks'), After(frames[1].op, Len(blocks)))
  PROVE  Levels'
<1> DEFINE m == Len(calls)
           n == Len(frames)
<1>1. /\ Defining' /\ n > 2 /\ m \in Nat /\ Len(frames') = m + n - 1
      /\ \A k \in 1 .. m : frames'[k] = calls[k]
      /\ \A k \in m + 1 .. m + n - 1 :
           k - m + 1 \in 2 .. n /\ frames'[k] = frames[k - m + 1]
  BY InnerPlaced
<1>2. PICK p \in [1 .. n - 1 -> Nat \ {0}] :
        /\ p[1] = Len(blocks) /\ p[n - 1] = 1
        /\ \A k \in 1 .. n - 2 : p[k + 1] = After(frames[k].op, p[k])
  BY DEF Levels
<1>3. PICK q \in [1 .. m + 1 -> Nat \ {0}] :
        /\ q[1] = Len(blocks') /\ q[m + 1] = After(frames[1].op, Len(blocks))
        /\ \A k \in 1 .. m : q[k + 1] = After(calls[k].op, q[k])
  BY DEF Levelled
<1>4. n \in Nat /\ m \in Nat /\ n > 2
  BY <1>1 DEF Placed, FramesOK
<1> HIDE DEF m, n
<1>5. q[m + 1] = p[2]
  <2>1. 1 \in 1 .. n - 2 /\ 1 + 1 = 2
    BY <1>1, <1>4
  <2>2. p[1 + 1] = After(frames[1].op, p[1])
    BY <1>2, <2>1
  <2> QED BY <1>2, <1>3, <2>1, <2>2
<1> DEFINE r == [k \in 1 .. m + n - 2 |-> IF k <= m THEN q[k] ELSE p[k - m + 1]]
<1>6. /\ \A k \in 1 .. m + 1 : r[k] = q[k]
      /\ \A k \in m + 1 .. m + n - 2 : r[k] = p[k - m + 1]
  <2>1. \A k \in m + 1 .. m + n - 2 : k \in 1 .. m + n - 2 /\ ~(k <= m)
    BY <1>1
  <2>2. \A k \in m + 1 .. m + n - 2 : r[k] = p[k - m + 1]
    BY <2>1
  <2>3. m + 1 \in m + 1 .. m + n - 2 /\ (m + 1) - m + 1 = 2
    BY <1>1, <1>4
  <2>4. r[m + 1] = q[m + 1]
    BY <1>5, <2>2, <2>3
  <2>5. \A k \in 1 .. m : k \in 1 .. m + n - 2 /\ k <= m
    BY <1>4
  <2>6. \A k \in 1 .. m : r[k] = q[k]
    BY <2>5
  <2>7. \A k \in 1 .. m + 1 : k \in 1 .. m \/ k = m + 1
    BY <1>1
  <2> HIDE DEF r
  <2> QED BY <2>2, <2>4, <2>6, <2>7
<1>7. r \in [1 .. m + n - 2 -> Nat \ {0}]
  <2> SUFFICES ASSUME NEW k \in 1 .. m + n - 2
               PROVE  (IF k <= m THEN q[k] ELSE p[k - m + 1]) \in Nat \ {0}
    OBVIOUS
  <2>1. k <= m => k \in 1 .. m + 1
    BY <1>1
  <2>2. ~(k <= m) => k - m + 1 \in 1 .. n - 1
    BY <1>1, <1>4
  <2> QED BY <1>2, <1>3, <2>1, <2>2
<1> HIDE DEF r
<1>8. ASSUME NEW k \in 1 .. m + n - 3 PROVE r[k + 1] = After(frames'[k].op, r[k])
  <2>1. CASE k <= m
    <3>1. k \in 1 .. m /\ k \in 1 .. m + 1 /\ k + 1 \in 1 .. m + 1
      BY <1>1, <2>1
    <3>2. frames'[k] = calls[k] /\ r[k] = q[k] /\ r[k + 1] = q[k + 1]
      BY <1>1, <1>6, <3>1
    <3> QED BY <1>3, <3>1, <3>2
  <2>2. CASE k > m
    <3> DEFINE j == k - m + 1
    <3>1. /\ j \in 1 .. n - 2 /\ k \in m + 1 .. m + n - 1 /\ k \in m + 1 .. m + n - 2
          /\ k + 1 \in m + 1 .. m + n - 2 /\ (k + 1) - m + 1 = j + 1
      BY <1>1, <1>4, <2>2
    <3>2. frames'[k] = frames[j] /\ r[k] = p[j]
      BY <1>1, <1>6, <3>1
    <3> HIDE DEF j
    <3>3. r[k + 1] = p[j + 1]
      BY <1>6, <3>1
    <3> QED BY <1>2, <3>1, <3>2, <3>3
  <2> QED BY <1>1, <1>4, <2>1, <2>2
<1>9. r[1] = Len(blocks') /\ r[m + n - 2] = 1
  <2>1. /\ 1 \in 1 .. m + 1 /\ m + n - 2 \in m + 1 .. m + n - 2
        /\ (m + n - 2) - m + 1 = n - 1
    BY <1>1, <1>4
  <2>2. r[1] = q[1]
    BY <1>6, <2>1
  <2>3. r[m + n - 2] = p[n - 1]
    BY <1>6, <2>1
  <2> QED BY <1>2, <1>3, <2>2, <2>3
<1>10. Len(frames') - 1 = m + n - 2 /\ Len(frames') - 2 = m + n - 3
  BY <1>1, <1>4
<1> QED BY <1>1, <1>7, <1>8, <1>9, <1>10 DEF Levels

\* The definition goes on; a block that is begun will be printed from where the text ends.
KeptInside ==
  /\ TInv' /\ Defining /\ Defining' /\ Now' = Now /\ frames' # <<>>
  /\ frames'[1].op # "body"
  /\ frames'[1].op = "printBlock" => frames'[1].n = Len(funcs[Now].text)

LEMMA InnerKeeps ==
  ASSUME TInv, todo = <<>>, frames # <<>>, Defining, frames[1].op \in Inner,
         NEW calls \in Seq(FrameType), Proceed(calls),
         \A k \in 1 .. Len(calls) : calls[k].op \in Inner /\ (k > 1 => calls[k].op \notin OnTop),
         Len(calls) > 0 =>
           /\ calls[1].op # "body"
           /\ calls[1].op = "printBlock" =>
                calls[1].f = Now /\ calls[1].n = Len(funcs[Now].text),
         UNCHANGED <<funcs, functions, funcName, cc, declared>>,
         Levelled(calls, Len(blocks'), After(frames[1].op, Len(blocks))),
         Built', ~dead', Typed',
         \/ todo' = <<>>
         \/ \E c : /\ todo' = <<c>> /\ c.ctx = cc /\ c.op # "arguments"
                   /\ Len(calls) > 0 /\ calls[1].op \in Callers,
         \A n \in called' : n \in called \/ \E g \in Listing : funcs[g].name = n
  PROVE  KeptInside
<1>0. funcs' = funcs
  OBVIOUS
<1>1. Built /\ Placed /\ Declared
  BY DEF TInv
<1>2. /\ Placed' /\ Defining' /\ ~Walking' /\ ~Beginning' /\ Now' = Now /\ frames' # <<>>
      /\ Len(calls) \in Nat
      /\ \A k \in 1 .. Len(calls) : frames'[k] = calls[k]
      /\ Len(calls) = 0 => frames'[1] = frames[2] /\ frames'[1].op \notin OnTop
  BY <1>1, InnerPlaced
<1>3. Levels'
  BY <1>1, InnerLevels DEF Declared
<1>4. Listing' = Listing
  BY DEF Listing
<1>5. /\ Now \in Listing /\ cc = funcs[Now].context /\ cc.currfunc = Now
  BY <1>1, NowContext
<1>6. ASSUME NEW k \in 1 .. Len(todo')
      PROVE  todo'[k].ctx = cc /\ todo'[k].op # "arguments"
  <2>1. todo' # <<>>
    BY <1>6
  <2>2. PICK c : todo' = <<c>> /\ c.ctx = cc /\ c.op # "arguments"
    BY <2>1
  <2>3. k = 1 /\ todo'[1] = c
    BY <1>6, <2>2
  <2> QED BY <2>2, <2>3
<1>7. Inserted'
  <2>1. Extends(cc, cc)
    BY DEF Extends
  <2> QED BY <1>2, <1>4, <1>5, <1>6, <2>1 DEF Inserted
<1>8. DueVisible'
  BY <1>6 DEF DueVisible
<1>9. PrintVisible'
  <2> SUFFICES ASSUME frames'[1].op = "printBlock", NEW i, NEW g, Site(Now, i, g)',
                      i > frames'[1].n
               PROVE  FALSE
    BY <1>2 DEF PrintVisible
  <2>1. Len(calls) > 0
    BY <1>2 DEF OnTop
  <2>2. 1 \in 1 .. Len(calls) /\ frames'[1] = calls[1]
    BY <1>2, <2>1
  <2>3. frames'[1].n = Len(funcs[Now].text)
    BY <2>1, <2>2
  <2>4. i \in 1 .. Len(funcs[Now].text)
    BY <1>0, <1>2 DEF Site
  <2>5. Len(funcs[Now].text) \in Nat
    <3>1. Now \in 1 .. Len(funcs)
      BY <1>1, NowContext
    <3>2. funcs[Now] \in Function
      BY <1>1, <3>1, ElementOfSeq DEF Built, GoodProgram, FuncsOK, FuncsTypeOK, Function
    <3> QED BY <3>2 DEF Function
  <2> QED BY <2>3, <2>4, <2>5
<1>10. NamesOK'
  BY <1>1, <1>2, <1>4 DEF Declared, NamesOK
<1>11. Declared'
  BY <1>3, <1>8, <1>9, <1>10 DEF Declared
<1>12. /\ frames'[1].op # "body"
       /\ frames'[1].op = "printBlock" => frames'[1].n = Len(funcs[Now].text)
  <2>1. CASE Len(calls) = 0
    BY <1>2, <2>1 DEF OnTop
  <2>2. CASE Len(calls) > 0
    <3>1. 1 \in 1 .. Len(calls) /\ frames'[1] = calls[1]
      BY <1>2, <2>2
    <3> QED BY <2>2, <3>1
  <2> QED BY <1>2, <2>1, <2>2
<1> QED BY <1>2, <1>7, <1>11, <1>12 DEF TInv, KeptInside
-----------------------------------------------------------------------------
(* The inserted statements *)

\* The variables and the constants of the printers that a plain call leaves alone.
LEMMA PlainKeeps ==
  ASSUME TInv, NEW op \in Inner, NEW calls, DoInsert(op, calls), depth' \in Nat,
         Leads(calls, Len(blocks), After(op, Len(blocks)))
  PROVE  KeptInside
<1>1. /\ Reached(op) /\ Proceed(calls) /\ UNCHANGED <<vars, cc, funcName, output>>
  BY DEF DoInsert
<1>2. /\ todo = <<>> /\ ~dead /\ frames # <<>> /\ frames[1].op = op /\ Defining
  BY <1>1, FirstFrame DEF TInv, Placed
<1>3. /\ UNCHANGED <<funcs, functions, funcName, cc, declared>> /\ todo' = todo /\ dead' = dead
      /\ blocks' = blocks /\ called' = called /\ printed' = printed
  BY <1>1 DEF vars, output
<1>4. Built'
  BY <1>1, BuiltKept DEF TInv
<1>5. Typed'
  BY <1>3 DEF TInv, Typed
<1>6. /\ calls \in Seq(FrameType) /\ \A k \in 1 .. Len(calls) : calls[k].op \in Inner \ OnTop
      /\ Levelled(calls, Len(blocks'), After(frames[1].op, Len(blocks)))
  BY <1>2, <1>3 DEF Leads
<1>7. Len(calls) > 0 => calls[1].op \notin OnTop
  <2>1. Len(calls) \in Nat
    BY <1>6
  <2>2. Len(calls) > 0 => 1 \in 1 .. Len(calls)
    BY <2>1
  <2> QED BY <1>6, <2>2
<1> QED BY <1>1, <1>2, <1>3, <1>4, <1>5, <1>6, <1>7, InnerKeeps DEF OnTop

LEMMA LevelPositive ==
  ASSUME Placed, Levels, Defining
  PROVE  /\ Len(blocks) \in Nat \ {0}
         /\ Len(frames) > 2 => After(frames[1].op, Len(blocks)) \in Nat \ {0}
         /\ Len(frames) = 2 => Len(blocks) = 1
<1>1. PICK p \in [1 .. Len(frames) - 1 -> Nat \ {0}] :
        /\ p[1] = Len(blocks) /\ p[Len(frames) - 1] = 1
        /\ \A k \in 1 .. Len(frames) - 2 : p[k + 1] = After(frames[k].op, p[k])
  BY DEF Levels
<1>2. Len(frames) \in Nat /\ Len(frames) > 1
  BY DEF Placed, FramesOK, Defining
<1>3. 1 \in 1 .. Len(frames) - 1
  BY <1>2
<1>4. ASSUME Len(frames) > 2 PROVE After(frames[1].op, Len(blocks)) \in Nat \ {0}
  <2>1. 1 \in 1 .. Len(frames) - 2 /\ 1 + 1 \in 1 .. Len(frames) - 1
    BY <1>2, <1>4
  <2>2. p[1 + 1] = After(frames[1].op, p[1])
    BY <1>1, <2>1
  <2> QED BY <1>1, <2>1, <2>2
<1>5. ASSUME Len(frames) = 2 PROVE Len(blocks) = 1
  <2>1. Len(frames) - 1 = 1
    BY <1>5
  <2> QED BY <1>1, <2>1
<1> QED BY <1>1, <1>3, <1>4, <1>5

\* A call that is none of a brace, and what it leaves for later.
LEMMA FlatKeeps ==
  ASSUME TInv, NEW op \in Inner \ {"open", "close"}, NEW calls, DoInsert(op, calls),
         depth' \in Nat,
         \A d \in Nat \ {0} : Leads(calls, d, d)
  PROVE  KeptInside
<1>1. Reached(op) /\ op \in Inner
  BY DEF DoInsert
<1>2. Defining
  BY <1>1, FirstFrame DEF TInv, Placed
<1>3. Len(blocks) \in Nat \ {0} /\ After(op, Len(blocks)) = Len(blocks)
  BY <1>2, LevelPositive DEF TInv, Declared, After
<1> QED BY <1>1, <1>3, PlainKeeps

\* Calls that are not about braces.
Flat == Inner \ (OnTop \cup {"open", "close"})

LEMMA NoneLeads == \A d \in Nat \ {0} : Leads(<<>>, d, d)
<1> SUFFICES ASSUME NEW d \in Nat \ {0} PROVE Leads(<<>>, d, d)
  OBVIOUS
<1>1. <<>> \in Seq(FrameType) /\ 1 .. Len(<<>>) = {}
  OBVIOUS
<1> QED BY <1>1, FlatLeads

LEMMA SomeLead ==
  ASSUME NEW a \in Flat
  PROVE  /\ \A d \in Nat \ {0} : Leads(<<Insert(a)>>, d, d)
         /\ \A b \in Flat : \A d \in Nat \ {0} : Leads(<<Insert(a), Insert(b)>>, d, d)
<1>1. \A b \in Flat : Insert(b) \in FrameType /\ Insert(b).op = b
  BY InsertFrame DEF Flat
<1>2. ASSUME NEW d \in Nat \ {0} PROVE Leads(<<Insert(a)>>, d, d)
  <2> DEFINE c == <<Insert(a)>>
  <2>1. c \in Seq(FrameType) /\ Len(c) = 1 /\ c[1].op = a
    BY <1>1
  <2> HIDE DEF c
  <2>2. \A k \in 1 .. Len(c) : c[k].op \in Flat
    BY <2>1
  <2>3. Leads(c, d, d)
    BY <2>1, <2>2, FlatLeads DEF Flat
  <2> QED BY <2>3 DEF c
<1>3. ASSUME NEW b \in Flat, NEW d \in Nat \ {0} PROVE Leads(<<Insert(a), Insert(b)>>, d, d)
  <2> DEFINE c == <<Insert(a), Insert(b)>>
  <2>1. c \in Seq(FrameType) /\ Len(c) = 2 /\ c[1].op = a /\ c[2].op = b
    BY <1>1
  <2> HIDE DEF c
  <2>2. \A k \in 1 .. Len(c) : k = 1 \/ k = 2
    BY <2>1
  <2>3. \A k \in 1 .. Len(c) : c[k].op \in Flat
    BY <2>1, <2>2
  <2>4. Leads(c, d, d)
    BY <2>1, <2>3, FlatLeads DEF Flat
  <2> QED BY <2>4 DEF c
<1> QED BY <1>2, <1>3

\* endLine, and the statements of the grammar.
LEMMA StatementKeeps ==
  ASSUME TInv,
         \/ EndLine \/ Sequence \/ AnyStatement \/ AssignmentStatement \/ ExpressionStatement
         \/ LabeledStatement \/ CompoundStatement \/ JumpStatement \/ LoopStatement
         \/ IfElseStatement \/ IfStatement \/ SwitchStatement \/ CaseOfSwitch
  PROVE  KeptInside
<1>1. depth \in Nat /\ MaxDepth \in Nat
  BY TranslationAssumption DEF TInv, Typed
<1>2. ASSUME NEW op \in Inner \ {"open", "close"}, NEW calls,
             \A d \in Nat \ {0} : Leads(calls, d, d)
      PROVE  /\ Plain(op, calls) => KeptInside
             /\ Deeper(op, calls) => KeptInside
  <2>1. ASSUME Plain(op, calls) PROVE KeptInside
    <3>1. DoInsert(op, calls) /\ depth' \in Nat
      BY <1>1, <2>1 DEF Plain
    <3> QED BY <1>2, <3>1, FlatKeeps
  <2>2. ASSUME Deeper(op, calls) PROVE KeptInside
    <3>1. depth' \in Nat /\ (DoInsert(op, calls) \/ DoInsert(op, <<>>))
      BY <1>1, <2>2 DEF Deeper
    <3> QED BY <1>2, <3>1, FlatKeeps, NoneLeads
  <2> QED BY <2>1, <2>2
<1>3. /\ StatementKinds \cup {"Sequence", "Statement", "inline", "insert"} \subseteq Flat
      /\ Flat \subseteq Inner \ {"open", "close"}
      /\ "endLine" \in Inner \ {"open", "close"} /\ "case" \in Flat
  BY DEF Flat, Inner, OnTop, FrameOps, StatementKinds
<1>4. /\ "Assignment" \in StatementKinds /\ "Expression" \in StatementKinds
      /\ "Labeled" \in StatementKinds /\ "Compound" \in StatementKinds
      /\ "Jump" \in StatementKinds /\ "Loop" \in StatementKinds
      /\ "IfElse" \in StatementKinds /\ "If" \in StatementKinds /\ "Switch" \in StatementKinds
  BY DEF StatementKinds
<1>5. CASE EndLine
  BY <1>2, <1>3, <1>5, NoneLeads DEF EndLine
<1>6. CASE Sequence
  <2>1. /\ \A d \in Nat \ {0} : Leads(<<Insert("Statement")>>, d, d)
        /\ \A d \in Nat \ {0} : Leads(<<Insert("Sequence"), Insert("Statement")>>, d, d)
    BY <1>3, SomeLead
  <2> QED BY <1>2, <1>3, <1>6, <2>1 DEF Sequence
<1>7. CASE AnyStatement
  <2>1. PICK kind \in StatementKinds : Plain("Statement", <<Insert(kind)>>)
    BY <1>7 DEF AnyStatement
  <2>2. \A d \in Nat \ {0} : Leads(<<Insert(kind)>>, d, d)
    BY <1>3, SomeLead
  <2> QED BY <1>2, <1>3, <2>1, <2>2
<1>8. CASE AssignmentStatement
  <2>1. \A d \in Nat \ {0} : Leads(<<Insert("inline"), Insert("insert")>>, d, d)
    BY <1>3, SomeLead
  <2> QED BY <1>2, <1>3, <1>4, <1>8, <2>1 DEF AssignmentStatement
<1>9. CASE ExpressionStatement
  <2>1. \A d \in Nat \ {0} : Leads(<<Insert("inline")>>, d, d)
    BY <1>3, SomeLead
  <2> QED BY <1>2, <1>3, <1>4, <1>9, <2>1 DEF ExpressionStatement
<1>10. CASE LabeledStatement
  <2>1. \A d \in Nat \ {0} : Leads(<<Insert("inline"), Insert("Assignment")>>, d, d)
    BY <1>3, <1>4, SomeLead
  <2> QED BY <1>2, <1>3, <1>4, <1>10, <2>1 DEF LabeledStatement
<1>11. CASE CompoundStatement
  BY <1>2, <1>3, <1>4, <1>11, BracedLeads DEF CompoundStatement
<1>12. CASE JumpStatement
  <2>1. \A d \in Nat \ {0} : Leads(<<Insert("inline")>>, d, d)
    BY <1>3, SomeLead
  <2> QED BY <1>2, <1>3, <1>4, <1>12, <2>1, NoneLeads DEF JumpStatement
<1>13. CASE LoopStatement
  BY <1>2, <1>3, <1>4, <1>13, BracedLeads DEF LoopStatement
<1>14. CASE IfElseStatement
  BY <1>2, <1>3, <1>4, <1>14, IfElseLeads DEF IfElseStatement
<1>15. CASE IfStatement
  BY <1>2, <1>3, <1>4, <1>15, IfLeads DEF IfStatement
<1>16. CASE SwitchStatement
  BY <1>2, <1>3, <1>4, <1>16, SwitchLeads DEF SwitchStatement
<1>17. CASE CaseOfSwitch
  BY <1>2, <1>3, <1>17, BracedLeads DEF CaseOfSwitch
<1> QED BY <1>5, <1>6, <1>7, <1>8, <1>9, <1>10, <1>11, <1>12, <1>13, <1>14, <1>15, <1>16, <1>17

\* CCG is called for what is inserted.
LEMMA InsertionKeeps ==
  ASSUME TInv, InsertStatement \/ InsertExpression
  PROVE  KeptInside
<1>1. PICK op \in {"insert", "inline"} : Reached(op)
  BY DEF InsertStatement, InsertExpression
<1>2. op \in Inner \ {"open", "close"}
  BY DEF Inner, FrameOps
<1>3. /\ Built /\ Placed /\ Declared /\ Typed
      /\ todo = <<>> /\ ~dead /\ frames # <<>> /\ frames[1].op = op /\ Defining
  BY <1>1, <1>2, FirstFrame DEF TInv, Placed
<1>4. /\ Now \in 1 .. Len(funcs) /\ Now \in Nat /\ cc.currfunc = Now
      /\ GoodContext(cc) /\ InFunction(cc, Len(funcs)) /\ cc \in Context
  BY <1>3, NowContext DEF Typed
<1>5. Len(blocks) \in Nat \ {0} /\ After(op, Len(blocks)) = Len(blocks)
  BY <1>2, <1>3, LevelPositive DEF Declared, After
<1>6. NoContext \in Context
  BY NoContextGood DEF GoodContext
<1>7. ASSUME NEW c, Make(c), GoodCall(c, Len(funcs)), c.ctx = cc, c.f = 0,
             c.op \in {"functionBlock", "expression"},
             NEW x \in FrameType, Proceed(<<x>>), x.op \in {"printBlock", "endLine"},
             x.op = "printBlock" => x.f = Now /\ x.n = Len(funcs[Now].text),
             UNCHANGED <<cc, depth, funcName, output>>
      PROVE  KeptInside
  <2> DEFINE calls == <<x>>
  <2>1. Built' /\ todo' = <<c>>
    BY <1>3, <1>7, CalledBuilt
  <2>2. funcs' = funcs /\ functions' = functions /\ dead' = dead
    BY <1>7 DEF Make
  <2>3. /\ cc' = cc /\ depth' = depth /\ funcName' = funcName /\ printed' = printed
        /\ declared' = declared /\ blocks' = blocks /\ called' = called
    BY <1>7 DEF output
  <2>4. Typed'
    BY <1>3, <2>3 DEF Typed
  <2>5. calls \in Seq(FrameType) /\ Len(calls) = 1 /\ calls[1] = x /\ Proceed(calls)
    BY <1>7
  <2> HIDE DEF calls
  <2>6. \A k \in 1 .. Len(calls) : k = 1
    BY <2>5
  <2>7. x.op \in Inner /\ x.op # "body" /\ x.op \notin {"open", "close"} /\ x.op \in Callers
    BY <1>7 DEF Inner, FrameOps, Callers
  <2>8. Levelled(calls, Len(blocks), Len(blocks))
    BY <1>5, <2>5, <2>6, <2>7, FlatLevelled
  <2>9. Levelled(calls, Len(blocks'), After(frames[1].op, Len(blocks)))
    BY <1>3, <1>5, <2>3, <2>8
  <2>10. /\ \A k \in 1 .. Len(calls) :
              calls[k].op \in Inner /\ (k > 1 => calls[k].op \notin OnTop)
         /\ calls[1].op # "body"
         /\ calls[1].op = "printBlock" =>
              calls[1].f = Now /\ calls[1].n = Len(funcs[Now].text)
    BY <1>7, <2>5, <2>6, <2>7
  <2>11. \E d : /\ todo' = <<d>> /\ d.ctx = cc /\ d.op # "arguments"
                /\ Len(calls) > 0 /\ calls[1].op \in Callers
    BY <1>7, <2>1, <2>5, <2>7
  <2>12. UNCHANGED <<funcs, functions, funcName, cc, declared>> /\ ~dead'
    BY <1>3, <2>2, <2>3
  <2>13. frames[1].op \in Inner
    BY <1>2, <1>3
  <2>14. \A n \in called' : n \in called
    BY <2>3
  <2> QED BY <1>3, <2>1, <2>4, <2>5, <2>9, <2>10, <2>11, <2>12, <2>13, <2>14, InnerKeeps
<1>8. CASE InsertStatement
  <2> DEFINE c == Call("functionBlock", cc, 2, 0, 0)
             x == Frame("printBlock", Len(funcs[cc.currfunc].text), cc.currfunc)
  <2>1. c \in Calls /\ c.op = "functionBlock" /\ c.ctx = cc /\ c.f = 0
    BY <1>4, CallRecord DEF Ops, Call
  <2>2. GoodCall(c, Len(funcs))
    BY <1>4, <2>1 DEF GoodCall
  <2>3. Len(funcs[Now].text) \in Nat
    <3>1. funcs[Now] \in Function
      BY <1>3, <1>4, ElementOfSeq DEF Built, GoodProgram, FuncsOK, FuncsTypeOK, Function
    <3> QED BY <3>1 DEF Function
  <2>4. x \in FrameType /\ x.op = "printBlock" /\ x.f = Now /\ x.n = Len(funcs[Now].text)
    BY <1>4, <1>6, <2>3 DEF Frame, FrameType, FrameOps
  <2>5. Make(c) /\ Proceed(<<x>>) /\ UNCHANGED <<cc, depth, funcName, output>>
    BY <1>8 DEF InsertStatement
  <2> HIDE DEF c, x
  <2> QED BY <1>7, <2>1, <2>2, <2>4, <2>5
<1>9. CASE InsertExpression
  <2> DEFINE c == Expr(cc, InsertedNesting)
             x == Insert("endLine")
  <2>1. c \in Calls /\ c.op = "expression" /\ c.ctx = cc /\ c.f = 0
    BY <1>4, CallRecord DEF Ops, Call, Expr, InsertedNesting
  <2>2. GoodCall(c, Len(funcs))
    BY <1>4, <2>1 DEF GoodCall
  <2>3. x \in FrameType /\ x.op = "endLine"
    BY <1>6 DEF Insert, Frame, FrameType, FrameOps
  <2>4. Make(c) /\ Proceed(<<x>>) /\ UNCHANGED <<cc, depth, funcName, output>>
    BY <1>9 DEF InsertExpression
  <2> HIDE DEF c, x
  <2> QED BY <1>7, <2>1, <2>2, <2>3, <2>4
<1> QED BY <1>8, <1>9

LEMMA NoneProceeds ==
  /\ <<>> \in Seq(FrameType) /\ Len(<<>>) = 0 /\ 1 .. Len(<<>>) = {}
  /\ \A d \in Nat \ {0} : Levelled(<<>>, d, d)
<1>1. <<>> \in Seq(FrameType) /\ Len(<<>>) = 0 /\ 1 .. Len(<<>>) = {}
  OBVIOUS
<1> QED BY <1>1, FlatLevelled

\* A call of a printer returns.
LEMMA NoneKeeps ==
  ASSUME TInv, todo = <<>>, frames # <<>>, Defining, frames[1].op \in Inner, Proceed(<<>>),
         UNCHANGED <<funcs, functions, funcName, cc, declared>>,
         Levelled(<<>>, Len(blocks'), After(frames[1].op, Len(blocks))),
         Built', ~dead', Typed', todo' = <<>>,
         \A n \in called' : n \in called \/ \E g \in Listing : funcs[g].name = n
  PROVE  KeptInside
<1> DEFINE calls == <<>>
<1>1. /\ calls \in Seq(FrameType) /\ Len(calls) = 0 /\ Proceed(calls)
      /\ Levelled(calls, Len(blocks'), After(frames[1].op, Len(blocks)))
  OBVIOUS
<1>2. \A k \in 1 .. Len(calls) : FALSE
  BY <1>1
<1> HIDE DEF calls
<1>3. ~(Len(calls) > 0)
  BY <1>1
<1> QED BY <1>1, <1>2, <1>3, InnerKeeps

\* A brace is printed.
LEMMA BraceKeeps ==
  ASSUME TInv, OpenBrace \/ CloseBrace
  PROVE  KeptInside
<1>1. PICK op \in {"open", "close"} : Reached(op)
  BY DEF OpenBrace, CloseBrace
<1>2. op \in Inner
  BY DEF Inner, FrameOps
<1>3. /\ Built /\ Placed /\ Declared /\ Typed
      /\ todo = <<>> /\ ~dead /\ frames # <<>> /\ frames[1].op = op /\ Defining
      /\ Len(frames) > 2
  BY <1>1, <1>2, FirstFrame DEF TInv, Placed
<1>4. /\ Proceed(<<>>) /\ UNCHANGED <<vars, cc, depth, funcName, printed, declared, called>>
  BY DEF OpenBrace, CloseBrace
<1>5. /\ todo' = todo /\ funcs' = funcs /\ functions' = functions /\ dead' = dead
      /\ cc' = cc /\ depth' = depth /\ funcName' = funcName /\ printed' = printed
      /\ declared' = declared /\ called' = called
  BY <1>4 DEF vars
<1>6. Built'
  BY <1>3, <1>4, BuiltKept
<1>7. Len(blocks) \in Nat \ {0} /\ After(op, Len(blocks)) \in Nat \ {0}
  BY <1>3, LevelPositive DEF Declared
<1>8. blocks' \in Seq(SUBSET Nat) /\ Len(blocks') = After(op, Len(blocks))
  <2>1. blocks \in Seq(SUBSET Nat)
    BY <1>3 DEF Typed
  <2>2. CASE OpenBrace
    <3>1. op = "open" /\ blocks' = Append(blocks, {})
      BY <1>3, <2>2 DEF OpenBrace, Reached, Frame1
    <3>2. Append(blocks, {}) \in Seq(SUBSET Nat) /\ Len(Append(blocks, {})) = Len(blocks) + 1
      BY <2>1
    <3> QED BY <3>1, <3>2 DEF After
  <2>3. CASE CloseBrace
    <3>1. op = "close" /\ blocks' = SubSeq(blocks, 1, Len(blocks) - 1)
      BY <1>3, <2>3 DEF CloseBrace, Reached, Frame1
    <3>2. Len(blocks) - 1 \in Nat /\ After(op, Len(blocks)) = Len(blocks) - 1
      BY <1>7, <3>1 DEF After
    <3>3. /\ SubSeq(blocks, 1, Len(blocks) - 1) \in Seq(SUBSET Nat)
          /\ Len(SubSeq(blocks, 1, Len(blocks) - 1)) = Len(blocks) - 1
      <4>1. 1 \in 1 .. Len(blocks) + 1 /\ Len(blocks) - 1 \in 1 - 1 .. Len(blocks)
        BY <1>7
      <4>2. blocks \in Seq(SUBSET Nat) /\ (Len(blocks) - 1) - 1 + 1 = Len(blocks) - 1
        BY <1>7, <2>1
      <4> QED BY <1>7, <4>1, <4>2, SubSeqProperties
    <3> QED BY <3>1, <3>2, <3>3
  <2> QED BY <2>2, <2>3
<1>9. Typed'
  BY <1>3, <1>5, <1>8 DEF Typed
<1>10. Levelled(<<>>, Len(blocks'), After(frames[1].op, Len(blocks)))
  BY <1>3, <1>7, <1>8, NoneProceeds
<1>11. UNCHANGED <<funcs, functions, funcName, cc, declared>> /\ ~dead' /\ todo' = <<>>
  BY <1>3, <1>5
<1>12. \A n \in called' : n \in called
  BY <1>5
<1>13. frames[1].op \in Inner
  BY <1>2, <1>3
<1> QED BY <1>13, <1>3, <1>4, <1>6, <1>9, <1>10, <1>11, <1>12, NoneKeeps

\* The function whose definition is being printed.
LEMMA PrintingNow ==
  ASSUME FramesOK
  PROVE  /\ Defining => InDefinition = {Len(frames) - 1} /\ Printing = Now
         /\ ~Defining => InDefinition = {}
<1>1. frames \in Seq(FrameType) /\ DOMAIN frames = 1 .. Len(frames) /\ Len(frames) \in Nat
  BY DEF FramesOK
<1>2. ASSUME Defining PROVE InDefinition = {Len(frames) - 1}
  <2>1. /\ Len(frames) > 1 /\ frames[Len(frames) - 1].op = "endFunction"
        /\ frames[Len(frames)].op = "definitions"
        /\ \A k \in 1 .. Len(frames) - 2 : frames[k].op \in Inner
    BY <1>2 DEF Defining
  <2>2. Len(frames) - 1 \in 1 .. Len(frames)
    BY <1>1, <2>1
  <2>3. \A k \in 1 .. Len(frames) :
          k = Len(frames) \/ k = Len(frames) - 1 \/ k \in 1 .. Len(frames) - 2
    <3>1. Len(frames) \in Nat
      BY <1>1
    <3> QED BY <3>1
  <2>4. \A k \in 1 .. Len(frames) : frames[k].op = "endFunction" => k = Len(frames) - 1
    BY <2>1, <2>3 DEF Inner
  <2> QED BY <1>1, <2>1, <2>2, <2>4 DEF InDefinition
<1>3. ASSUME Defining PROVE Printing = Now
  <2>1. (CHOOSE k \in InDefinition : TRUE) = Len(frames) - 1
    BY <1>2, <1>3
  <2> QED BY <2>1 DEF Printing, Now
<1>4. ASSUME ~Defining PROVE InDefinition = {}
  <2>1. CASE frames = <<>>
    BY <1>1, <2>1 DEF InDefinition
  <2>2. CASE Beginning \/ Walking
    BY <1>1, <2>2 DEF Beginning, Walking, InDefinition
  <2> QED BY <1>4, <2>1, <2>2 DEF FramesOK
<1> QED BY <1>2, <1>3, <1>4

\* Text of the function being defined is printed: its calls are to listed functions.
LEMMA PrintTyped ==
  ASSUME Built, Typed, NEW f \in Listing, NEW from \in Nat, NEW to \in Nat,
         to <= Len(funcs[f].text), PrintText(f, f, from + 1, to)
  PROVE  /\ printed' \in [1 .. MaxFunctions -> SUBSET (Nat \X Nat)]
         /\ called' \subseteq Nat
         /\ \A n \in called' : n \in called \/ \E g \in Listing : \E i \in from + 1 .. to :
              funcs[g].name = n /\ Site(f, i, g)
<1>1. f \in 1 .. Len(funcs) /\ Len(funcs) \in Nat /\ f \in Nat
  <2>1. f \in 1 .. Len(funcs)
    BY DEF Built, Finished
  <2>2. Len(funcs) \in Nat
    BY DEF Built, GoodProgram, FuncsOK, FuncsTypeOK
  <2> QED BY <2>1, <2>2
<1>2. printed' \in [1 .. MaxFunctions -> SUBSET (Nat \X Nat)]
  <2>1. printed \in [1 .. MaxFunctions -> SUBSET (Nat \X Nat)]
    BY DEF Typed
  <2>2. {<<f, i>> : i \in from + 1 .. to} \subseteq Nat \X Nat
    BY <1>1
  <2>3. printed' = [printed EXCEPT ![f] = @ \cup {<<f, i>> : i \in from + 1 .. to}]
    BY DEF PrintText
  <2> QED BY <2>1, <2>2, <2>3
<1>3. ASSUME NEW n \in called', n \notin called
      PROVE  \E g \in Listing : \E i \in from + 1 .. to : funcs[g].name = n /\ Site(f, i, g)
  <2>1. PICK i \in from + 1 .. to :
          /\ funcs[f].text[i][1] = "call" /\ n = funcs[funcs[f].text[i][2]].name
    BY <1>3 DEF PrintText
  <2> DEFINE g == funcs[f].text[i][2]
  <2>2. funcs[f] \in Function
    BY <1>1, ElementOfSeq DEF Built, GoodProgram, FuncsOK, FuncsTypeOK, Function
  <2>3. /\ funcs[f].text \in Seq({"label", "goto", "call"} \X Nat)
        /\ Len(funcs[f].text) \in Nat
    BY <2>2 DEF Function
  <2>4. i \in 1 .. Len(funcs[f].text)
    BY <2>3
  <2>5. funcs[f].text[i] \in {"label", "goto", "call"} \X Nat
    BY <2>3, <2>4, ElementOfSeq
  <2>6. funcs[f].text[i] = <<"call", g>>
    BY <2>1, <2>5
  <2>7. Site(f, i, g)
    BY <1>1, <2>4, <2>6 DEF Site
  <2>8. g \in Listing
    BY <2>7 DEF Built, CalleesListed
  <2> HIDE DEF g
  <2> QED BY <2>1, <2>7, <2>8 DEF g
<1>4. called' \subseteq Nat
  <2>1. \A g \in Listing : funcs[g].name \in Nat
    <3>1. \A g \in Listing : g \in 1 .. Len(funcs)
      BY DEF Built, Finished
    <3>2. \A g \in 1 .. Len(funcs) : funcs[g] \in Function
      BY ElementOfSeq DEF Built, GoodProgram, FuncsOK, FuncsTypeOK, Function
    <3> QED BY <3>1, <3>2 DEF Function
  <2>2. called \subseteq Nat
    BY DEF Typed
  <2>3. \A n \in called' : n \in Nat
    BY <1>3, <2>1, <2>2
  <2> QED BY <2>3
<1> QED BY <1>2, <1>3, <1>4

LEMMA PrintBlockKeeps ==
  ASSUME TInv, PrintBlock
  PROVE  KeptInside
<1>1. Reached("printBlock") /\ "printBlock" \in Inner
  BY DEF PrintBlock, Inner, FrameOps
<1>2. /\ Built /\ Placed /\ Declared /\ Typed /\ FramesOK
      /\ todo = <<>> /\ ~dead /\ frames # <<>> /\ frames[1].op = "printBlock" /\ Defining
      /\ Frame1 = frames[1] /\ frames[1] \in FrameType
  BY <1>1, FirstFrame DEF TInv, Placed
<1>3. Printing = Now /\ frames[1].f = Now /\ Now \in Listing /\ Now \in 1 .. Len(funcs)
  BY <1>2, PrintingNow, NowContext DEF Placed, NowOK
<1>4. /\ Proceed(<<>>) /\ UNCHANGED <<vars, cc, depth, funcName, declared, blocks>>
      /\ PrintText(Now, Now, frames[1].n + 1, Len(funcs[Now].text))
  BY <1>2, <1>3 DEF PrintBlock
<1>5. /\ todo' = todo /\ funcs' = funcs /\ functions' = functions /\ dead' = dead
      /\ cc' = cc /\ depth' = depth /\ funcName' = funcName /\ blocks' = blocks
      /\ declared' = declared
  BY <1>4 DEF vars
<1>6. Built'
  BY <1>2, <1>4, BuiltKept
<1>7. frames[1].n \in Nat /\ Len(funcs[Now].text) \in Nat
  <2>1. funcs[Now] \in Function
    BY <1>2, <1>3, ElementOfSeq DEF Built, GoodProgram, FuncsOK, FuncsTypeOK, Function
  <2> QED BY <1>2, <2>1 DEF FrameType, Function
<1>8. /\ printed' \in [1 .. MaxFunctions -> SUBSET (Nat \X Nat)]
      /\ called' \subseteq Nat
      /\ \A n \in called' : n \in called \/ \E g \in Listing : funcs[g].name = n
  BY <1>2, <1>3, <1>4, <1>7, PrintTyped
<1>9. Typed'
  BY <1>2, <1>5, <1>8 DEF Typed
<1>10. Levelled(<<>>, Len(blocks'), After(frames[1].op, Len(blocks)))
  BY <1>2, <1>5, NoneProceeds, LevelPositive DEF Declared, After
<1>11. UNCHANGED <<funcs, functions, funcName, cc, declared>> /\ ~dead' /\ todo' = <<>>
  BY <1>2, <1>5
<1>12. frames[1].op \in Inner
  BY <1>1, <1>2
<1> QED BY <1>2, <1>4, <1>6, <1>8, <1>9, <1>10, <1>11, <1>12, NoneKeeps
-----------------------------------------------------------------------------
(* The loop over program.functions *)

\* The stack when nothing is being defined: one call.
LEMMA WalkingPlaced ==
  ASSUME NEW c \in FrameType, frames' = <<c>>, c.op = "definitions",
         c.n \in 1 .. Len(functions') + 1, 1 \in Listing', CalledOK',
         \A k \in 1 .. c.n - 1 : funcs'[functions'[k]].name \in funcName'
  PROVE  Placed' /\ Walking' /\ ~Defining' /\ ~Beginning' /\ Loop' = c
<1>1. frames' \in Seq(FrameType) /\ Len(frames') = 1 /\ frames'[1] = c /\ frames' # <<>>
  OBVIOUS
<1>2. Walking' /\ ~Defining' /\ ~Beginning' /\ Loop' = c
  BY <1>1 DEF Walking, Defining, Beginning, Loop
<1>3. 2 .. Len(frames') = {}
  BY <1>1
<1>4. FramesOK'
  BY <1>1, <1>2, <1>3 DEF FramesOK
<1>5. LoopOK' /\ NowOK'
  BY <1>2 DEF LoopOK, NowOK
<1> QED BY <1>2, <1>4, <1>5 DEF Placed

LEMMA FrameMade ==
  ASSUME NEW op \in FrameOps, NEW n \in Nat, NEW f \in Nat
  PROVE  /\ Frame(op, n, f) \in FrameType /\ Frame(op, n, f).op = op
         /\ Frame(op, n, f).n = n /\ Frame(op, n, f).f = f
<1>1. NoContext \in Context
  BY NoContextGood DEF GoodContext
<1> QED BY <1>1 DEF Frame, FrameType

LEMMA OneFrame ==
  ASSUME frames \in Seq(FrameType), Len(frames) = 1, NEW x \in FrameType, Proceed(<<x>>)
  PROVE  frames' = <<x>>
<1>0. frames # <<>>
  <2>1. frames = <<>> => Len(frames) = 0
    OBVIOUS
  <2> QED BY <2>1
<1>1. frames # <<>> /\ <<x>> \in Seq(FrameType)
  BY <1>0
<1>2. Tail(frames) \in Seq(FrameType) /\ Len(Tail(frames)) = 0
  BY <1>1, HeadTailProperties
<1>3. Tail(frames) = <<>>
  BY <1>2, EmptySeq
<1> QED BY <1>1, <1>3, ConcatEmptySeq DEF Proceed

\* The context of a function that has no parameters.
LEMMA GlobalsContext ==
  ASSUME NEW g \in Seq(Variable), g # <<>>,
         \A i \in 1 .. Len(g) :
           g[i].type = "integer" /\ g[i].name = i - 1 /\ g[i].depth = 0,
         NEW ctx, ctx = [nvars |-> Len(g), nintegers |-> Len(g), scope |-> g, currfunc |-> 1]
  PROVE  GoodContext(ctx) /\ InFunction(ctx, 1)
<1>1. \E ps \in [1 .. 0 -> Widths] : ps = <<>>
  <2>1. <<>> \in [1 .. 0 -> Widths]
    OBVIOUS
  <2> QED BY <2>1
<1>2. PICK ps \in [1 .. 0 -> Widths] : ps = <<>>
  BY <1>1
<1> DEFINE s == g \o [i \in DOMAIN ps |-> IntegerVar(Len(g) + i - 1, ps[i])]
           c == [nvars |-> Len(g) + Len(ps), nintegers |-> Len(g) + Len(ps),
                 scope |-> s, currfunc |-> 1]
<1>3. GoodContext(c) /\ InFunction(c, 1)
  <2>1. 0 \in Nat /\ 1 \in Nat /\ 1 \in Nat \ {0}
    OBVIOUS
  <2> QED BY <2>1, FunctionContextGood
<1>4. s = g
  <2>1. [i \in DOMAIN ps |-> IntegerVar(Len(g) + i - 1, ps[i])] = <<>>
    BY <1>2
  <2> QED BY <2>1, ConcatEmptySeq
<1>5. Len(g) + Len(ps) = Len(g)
  BY <1>2
<1> HIDE DEF s
<1>6. c = ctx
  BY <1>4, <1>5
<1> HIDE DEF c
<1> QED BY <1>3, <1>6

LEMMA PrototypesKeep ==
  ASSUME TInv, Prototypes
  PROVE  TInv' /\ Walking'
<1>1. Reached("prototypes")
  BY DEF Prototypes
<1>2. /\ Built /\ Placed /\ Inserted /\ Declared /\ Typed /\ FramesOK
      /\ todo = <<>> /\ ~dead /\ frames # <<>> /\ Beginning /\ frames \in Seq(FrameType)
  BY <1>1, FirstFrame DEF TInv, Placed
<1>3. ~Defining /\ blocks = <<>>
  BY <1>2 DEF Beginning, Defining, Declared, Levels
<1>4. Listing = 1 .. Len(funcs) /\ 1 \in Listing /\ Len(funcs) \in Nat \ {0}
  BY <1>2, AllListed
\* cc is the context of a function without parameters.
<1>5. cc' \in Context /\ GoodContext(cc') /\ InFunction(cc', Len(funcs))
  <2>1. /\ globalvars \in Seq(Variable) /\ globalvars # <<>> /\ Len(globalvars) \in Nat
        /\ \A i \in 1 .. Len(globalvars) :
             /\ globalvars[i].type = "integer" /\ globalvars[i].name = i - 1
             /\ globalvars[i].depth = 0
    <3>1. numfunctions > 0
      BY <1>2, <1>4 DEF Built, GoodProgram, LimitOK
    <3> QED BY <1>2, <3>1 DEF Built, GoodProgram, GlobalsOK
  <2>2. cc' = [nvars |-> Len(globalvars), nintegers |-> Len(globalvars),
               scope |-> globalvars, currfunc |-> 1]
    BY DEF Prototypes
  <2>3. GoodContext(cc') /\ InFunction(cc', 1)
    BY <2>1, <2>2, GlobalsContext
  <2> QED BY <1>4, <2>3 DEF GoodContext, InFunction
<1> DEFINE c == Block(cc', ThrowawayNesting)
           x == [Frame("definitions", 1, 0) EXCEPT !.ctx = cc']
<1>6. /\ Make(c) /\ Proceed(<<x>>)
      /\ declared' = declared \cup {funcs[functions[k]].name : k \in DOMAIN functions}
      /\ UNCHANGED <<depth, funcName, printed, blocks, called>>
  BY DEF Prototypes
<1>7. c \in Calls /\ c.op = "block" /\ c.f = 0 /\ c.ctx = cc' /\ GoodCall(c, Len(funcs))
  <2>1. c \in Calls /\ c.op = "block" /\ c.f = 0 /\ c.ctx = cc'
    BY <1>5, CallRecord DEF Ops, Call, Block, ThrowawayNesting
  <2> QED BY <1>5, <2>1 DEF GoodCall
<1>8. x \in FrameType /\ x.op = "definitions" /\ x.n = 1
  <2> DEFINE w == Frame("definitions", 1, 0)
  <2>1. w \in FrameType /\ w.op = "definitions" /\ w.n = 1
    BY FrameMade DEF FrameOps
  <2> HIDE DEF w
  <2>2. /\ [w EXCEPT !.ctx = cc'] \in FrameType /\ [w EXCEPT !.ctx = cc'].op = "definitions"
        /\ [w EXCEPT !.ctx = cc'].n = 1
    BY <1>5, <2>1 DEF FrameType
  <2> QED BY <2>2 DEF w
<1> HIDE DEF c, x
<1>9. Built' /\ todo' = <<c>>
  BY <1>2, <1>6, <1>7, CalledBuilt
<1>10. /\ funcs' = funcs /\ functions' = functions /\ dead' = dead /\ Listing' = Listing
       /\ depth' = depth /\ funcName' = funcName /\ printed' = printed /\ blocks' = blocks
       /\ called' = called
  BY <1>6 DEF Make, Listing
<1>11. frames' = <<x>>
  BY <1>2, <1>6, <1>8, OneFrame DEF Beginning
<1>12. Placed' /\ Walking' /\ ~Defining' /\ ~Beginning'
  <2>1. x.n \in 1 .. Len(functions') + 1 /\ 1 .. x.n - 1 = {}
    <3>1. Len(functions) \in Nat
      BY <1>2 DEF Built, GoodProgram, FuncsOK, FuncsTypeOK
    <3> QED BY <1>8, <1>10, <3>1
  <2>2. CalledOK'
    <3>1. frames' # <<>> /\ frames'[1] = x
      BY <1>11
    <3> QED BY <1>8, <3>1 DEF CalledOK, Callers
  <2> QED BY <1>4, <1>8, <1>10, <1>11, <2>1, <2>2, WalkingPlaced
<1>13. Inserted'
  BY <1>12 DEF Inserted
<1>14. /\ \A f \in Listing : funcs[f].name \in declared' /\ funcs[f].name \in Nat
       /\ declared' \subseteq Nat /\ declared \subseteq declared'
  <2>1. \A f \in Listing : \E k \in DOMAIN functions : functions[k] = f
    BY <1>2 DEF Listing, Built, GoodProgram, FuncsOK, FuncsTypeOK
  <2>2. \A k \in DOMAIN functions : functions[k] \in Listing
    BY <1>2 DEF Listing, Built, GoodProgram, FuncsOK, FuncsTypeOK
  <2>3. \A f \in Listing : funcs[f].name \in Nat
    <3>1. \A f \in Listing : funcs[f] \in Function
      BY <1>2, <1>4, ElementOfSeq DEF Built, GoodProgram, FuncsOK, FuncsTypeOK, Function
    <3> QED BY <3>1 DEF Function
  <2>4. declared \subseteq Nat
    BY <1>2 DEF Typed
  <2>5. \A f \in Listing : funcs[f].name \in declared'
    BY <1>6, <2>1
  <2>6. \A n \in declared' : n \in Nat
    BY <1>6, <2>2, <2>3, <2>4
  <2> QED BY <1>6, <2>3, <2>5, <2>6
<1>15. funcs[1].name = 0
  BY <1>2, <1>4 DEF Built, GoodProgram, FuncsOK
<1>16. NamesOK'
  <2>1. funcName' \subseteq declared'
    BY <1>2, <1>10, <1>14 DEF Declared, NamesOK
  <2>2. 0 \in declared'
    BY <1>4, <1>14, <1>15
  <2> QED BY <1>2, <1>10, <1>12, <2>1, <2>2 DEF Declared, NamesOK
<1>17. DueVisible'
  <2>1. \A k \in 1 .. Len(todo') : todo'[k].op # "arguments"
    BY <1>7, <1>9
  <2> QED BY <2>1 DEF DueVisible
<1>18. PrintVisible'
  <2>1. frames'[1].op # "printBlock"
    BY <1>8, <1>11
  <2> QED BY <2>1 DEF PrintVisible
<1>19. Levels'
  BY <1>3, <1>10, <1>12 DEF Levels
<1>20. Typed'
  BY <1>2, <1>5, <1>10, <1>14 DEF Typed
<1> QED BY <1>2, <1>9, <1>10, <1>12, <1>13, <1>16, <1>17, <1>18, <1>19, <1>20 DEF TInv, Declared

LEMMA SkipKeeps ==
  ASSUME TInv, SkipFunction
  PROVE  TInv' /\ Walking'
<1>1. Reached("definitions")
  BY DEF SkipFunction
<1>2. /\ Built /\ Placed /\ Declared /\ Typed /\ Walking
      /\ todo = <<>> /\ ~dead /\ frames # <<>> /\ frames \in Seq(FrameType)
      /\ frames[1] \in FrameType /\ Frame1 = frames[1] /\ frames[1].op = "definitions"
  BY <1>1, FirstFrame DEF TInv, Placed
<1>3. /\ Len(frames) = 1 /\ Loop = frames[1] /\ ~Defining
  BY <1>2 DEF Walking, Loop, Defining
<1>4. /\ Proceed(<<NextDefinition>>) /\ UNCHANGED <<vars, cc, depth, funcName, output>>
      /\ frames[1].n <= Len(functions) /\ funcs[functions[frames[1].n]].name \in funcName
  BY <1>2 DEF SkipFunction
<1>5. /\ todo' = todo /\ funcs' = funcs /\ functions' = functions /\ dead' = dead
      /\ cc' = cc /\ depth' = depth /\ funcName' = funcName /\ printed' = printed
      /\ declared' = declared /\ blocks' = blocks /\ called' = called /\ Listing' = Listing
  BY <1>4 DEF vars, output, Listing
<1> DEFINE x == NextDefinition
<1>6. x \in FrameType /\ x.op = "definitions" /\ x.n = frames[1].n + 1
  BY <1>2 DEF NextDefinition, FrameType
<1> HIDE DEF x
<1>7. frames' = <<x>>
  BY <1>2, <1>3, <1>4, <1>6, OneFrame DEF x
<1>8. /\ frames[1].n \in 1 .. Len(functions) + 1 /\ Len(functions) \in Nat /\ 1 \in Listing
      /\ \A k \in 1 .. frames[1].n - 1 : funcs[functions[k]].name \in funcName
  <2>1. Len(functions) \in Nat
    BY <1>2 DEF Built, GoodProgram, FuncsOK, FuncsTypeOK
  <2> QED BY <1>2, <1>3, <2>1 DEF Placed, LoopOK
<1>9. Placed' /\ Walking' /\ ~Defining' /\ ~Beginning'
  <2>1. x.n \in 1 .. Len(functions') + 1
    BY <1>4, <1>5, <1>6, <1>8
  <2>2. \A k \in 1 .. x.n - 1 : k \in 1 .. frames[1].n - 1 \/ k = frames[1].n
    BY <1>6, <1>8
  <2>3. \A k \in 1 .. x.n - 1 : funcs'[functions'[k]].name \in funcName'
    BY <1>4, <1>5, <1>8, <2>2
  <2>4. CalledOK'
    BY <1>2, <1>5 DEF CalledOK
  <2> QED BY <1>5, <1>6, <1>7, <1>8, <2>1, <2>3, <2>4, WalkingPlaced
<1>10. Built'
  BY <1>2, <1>4, BuiltKept
<1>11. Inserted'
  BY <1>9 DEF Inserted
<1>12. Declared'
  <2>1. DueVisible'
    BY <1>2, <1>5 DEF DueVisible
  <2>2. PrintVisible'
    <3>1. frames'[1].op # "printBlock"
      BY <1>6, <1>7
    <3> QED BY <3>1 DEF PrintVisible
  <2>3. NamesOK'
    BY <1>2, <1>3, <1>5, <1>9 DEF Declared, NamesOK
  <2>4. Levels'
    BY <1>2, <1>3, <1>5, <1>9 DEF Declared, Levels
  <2> QED BY <2>1, <2>2, <2>3, <2>4 DEF Declared
<1>13. Typed'
  BY <1>2, <1>5 DEF Typed
<1> QED BY <1>2, <1>5, <1>9, <1>10, <1>11, <1>12, <1>13 DEF TInv

LEMMA WalkingFirst ==
  ASSUME TInv, Reached("definitions")
  PROVE  /\ Built /\ Placed /\ Declared /\ Typed /\ Walking /\ ~Defining
         /\ todo = <<>> /\ ~dead /\ frames # <<>> /\ frames \in Seq(FrameType)
         /\ frames[1] \in FrameType /\ Frame1 = frames[1] /\ frames[1].op = "definitions"
         /\ Len(frames) = 1 /\ blocks = <<>>
         /\ frames[1].n \in 1 .. Len(functions) + 1 /\ Len(functions) \in Nat /\ 1 \in Listing
         /\ \A k \in 1 .. frames[1].n - 1 : funcs[functions[k]].name \in funcName
<1>1. /\ Built /\ Placed /\ Declared /\ Typed /\ Walking
      /\ todo = <<>> /\ ~dead /\ frames # <<>> /\ frames \in Seq(FrameType)
      /\ frames[1] \in FrameType /\ Frame1 = frames[1] /\ frames[1].op = "definitions"
  BY FirstFrame DEF TInv, Placed
<1>2. Len(frames) = 1 /\ Loop = frames[1] /\ ~Defining
  BY <1>1 DEF Walking, Loop, Defining
<1>3. Len(functions) \in Nat
  BY <1>1 DEF Built, GoodProgram, FuncsOK, FuncsTypeOK
<1>4. /\ frames[1].n \in 1 .. Len(functions) + 1 /\ 1 \in Listing
      /\ \A k \in 1 .. frames[1].n - 1 : funcs[functions[k]].name \in funcName
  BY <1>1, <1>2 DEF Placed, LoopOK
<1>5. blocks = <<>>
  BY <1>1, <1>2 DEF Declared, Levels
<1> QED BY <1>1, <1>2, <1>3, <1>4, <1>5

LEMMA FramePopped ==
  ASSUME frames \in Seq(FrameType), frames # <<>>, Proceed(<<>>)
  PROVE  /\ frames' \in Seq(FrameType) /\ Len(frames') = Len(frames) - 1
         /\ \A k \in 1 .. Len(frames) - 1 : frames'[k] = frames[k + 1]
<1>1. /\ Tail(frames) \in Seq(FrameType) /\ Len(Tail(frames)) = Len(frames) - 1
      /\ \A k \in 1 .. Len(Tail(frames)) : Tail(frames)[k] = frames[k + 1]
  BY HeadTailProperties
<1>2. frames' = Tail(frames)
  BY <1>1, ConcatEmptySeq DEF Proceed
<1> QED BY <1>1, <1>2

LEMMA NextOne ==
  ASSUME frames[1] \in FrameType, Frame1 = frames[1]
  PROVE  /\ NextDefinition \in FrameType /\ NextDefinition.op = frames[1].op
         /\ NextDefinition.n = frames[1].n + 1
BY DEF NextDefinition, FrameType

LEMMA DefineKeeps ==
  ASSUME TInv, DefineFunction
  PROVE  TInv' /\ Defining' /\ Now' = functions[frames[1].n]
<1> DEFINE n == frames[1].n
           f == functions[n]
           x == Frame("body", 0, f)
           y == Frame("endFunction", 0, f)
           z == NextDefinition
<1>1. Reached("definitions")
  BY DEF DefineFunction
<1>2. /\ Built /\ Placed /\ Declared /\ Typed /\ Walking /\ ~Defining
      /\ todo = <<>> /\ ~dead /\ frames # <<>> /\ frames \in Seq(FrameType)
      /\ frames[1] \in FrameType /\ Frame1 = frames[1] /\ frames[1].op = "definitions"
      /\ Len(frames) = 1 /\ blocks = <<>>
      /\ n \in 1 .. Len(functions) + 1 /\ Len(functions) \in Nat /\ 1 \in Listing
      /\ \A k \in 1 .. n - 1 : funcs[functions[k]].name \in funcName
  BY <1>1, WalkingFirst
<1>3. /\ n <= Len(functions) /\ funcs[f].name \notin funcName
      /\ cc' = funcs[f].context /\ blocks' = <<{}>>
      /\ declared' = declared \cup {funcs[f].name}
      /\ Proceed(<<x, y, z>>)
      /\ UNCHANGED <<vars, depth, funcName, printed, called>>
  BY <1>2 DEF DefineFunction, BodyContext
<1>4. /\ todo' = todo /\ funcs' = funcs /\ functions' = functions /\ dead' = dead
      /\ depth' = depth /\ funcName' = funcName /\ printed' = printed
      /\ called' = called /\ Listing' = Listing
  BY <1>3 DEF vars, Listing
<1>5. n \in 1 .. Len(functions) /\ f \in Listing /\ f \in 1 .. Len(funcs) /\ f \in Nat
  <2>1. n \in 1 .. Len(functions)
    BY <1>2, <1>3
  <2>2. f \in Listing
    BY <2>1 DEF Listing
  <2>3. f \in 1 .. Len(funcs)
    BY <1>2, <2>2 DEF Built, Finished
  <2> QED BY <2>1, <2>2, <2>3
<1>6. funcs[f].name \in Nat /\ funcs[f].context \in Context
  <2>1. funcs[f] \in Function
    BY <1>2, <1>5, ElementOfSeq DEF Built, GoodProgram, FuncsOK, FuncsTypeOK, Function
  <2> QED BY <2>1 DEF Function
<1>7. /\ x \in FrameType /\ x.op = "body" /\ x.f = f
      /\ y \in FrameType /\ y.op = "endFunction" /\ y.f = f
      /\ z \in FrameType /\ z.op = "definitions" /\ z.n = n + 1
  <2>1. "body" \in FrameOps /\ "endFunction" \in FrameOps /\ 0 \in Nat
    BY DEF FrameOps
  <2>2. z \in FrameType /\ z.op = "definitions" /\ z.n = n + 1
    BY <1>2, NextOne
  <2>3. x \in FrameType /\ x.op = "body" /\ x.f = f
    BY <1>5, <2>1, FrameMade
  <2>4. y \in FrameType /\ y.op = "endFunction" /\ y.f = f
    BY <1>5, <2>1, FrameMade
  <2> QED BY <2>2, <2>3, <2>4
<1> HIDE DEF x, y, z, f, n
<1>8. /\ frames' \in Seq(FrameType) /\ Len(frames') = 3 /\ frames' # <<>>
      /\ frames'[1] = x /\ frames'[2] = y /\ frames'[3] = z
  <2> DEFINE calls == <<x, y, z>>
  <2>1. /\ calls \in Seq(FrameType) /\ Len(calls) = 3 /\ Proceed(calls)
        /\ calls[1] = x /\ calls[2] = y /\ calls[3] = z
    BY <1>3, <1>7
  <2> HIDE DEF calls
  <2>2. /\ frames' \in Seq(FrameType) /\ Len(frames') = 3
        /\ \A k \in 1 .. 3 : frames'[k] = calls[k]
    BY <1>2, <2>1, FrameStack
  <2>3. Len(frames') # 0
    BY <2>2
  <2>4. frames' # <<>>
    BY <2>3
  <2> QED BY <2>1, <2>2, <2>4
<1>9. /\ Defining' /\ ~Walking' /\ ~Beginning' /\ Loop' = z /\ Now' = f
  BY <1>7, <1>8 DEF Defining, Walking, Beginning, Loop, Now, Inner, FrameOps
<1>10. Placed'
  <2>1. FramesOK'
    <3>1. \A k \in 2 .. Len(frames') : k = 2 \/ k = 3
      BY <1>8
    <3> QED BY <1>7, <1>8, <1>9, <3>1 DEF FramesOK, OnTop
  <2>2. z.n \in 1 .. Len(functions) + 1 /\ z.n - 1 = n /\ n \in Nat
    BY <1>2, <1>5, <1>7
  <2>3. LoopOK'
    <3>1. \A k \in 1 .. z.n - 1 : k \in 1 .. n - 1 \/ k = n
      BY <2>2
    <3>2. \A k \in 1 .. z.n - 1 :
            funcs'[functions'[k]].name \in funcName' \/ (Defining' /\ functions'[k] = f)
      BY <1>2, <1>4, <1>9, <3>1 DEF f
    <3>3. z.n \in 1 .. Len(functions') + 1 /\ 1 \in Listing'
      BY <1>2, <1>4, <2>2
    <3> QED BY <1>9, <3>2, <3>3 DEF LoopOK
  <2>4. NowOK'
    <3>1. /\ z.n - 1 \in 1 .. Len(functions') /\ functions'[z.n - 1] = f
          /\ cc' = funcs'[f].context /\ funcs'[f].name \notin funcName'
      BY <1>3, <1>4, <1>5, <2>2 DEF f
    <3>2. frames'[1].f = f
      BY <1>7, <1>8
    <3> QED BY <1>9, <3>1, <3>2 DEF NowOK
  <2>5. CalledOK'
    BY <1>2, <1>4 DEF CalledOK
  <2> QED BY <2>1, <2>3, <2>4, <2>5 DEF Placed
<1>11. Built'
  BY <1>2, <1>3, BuiltKept
<1>12. \A k \in 1 .. Len(todo') : FALSE
  BY <1>2, <1>4
<1>13. Inserted' /\ DueVisible'
  BY <1>9, <1>12 DEF Inserted, DueVisible
<1>14. PrintVisible'
  BY <1>7, <1>8 DEF PrintVisible
<1>15. NamesOK'
  BY <1>2, <1>3, <1>4, <1>9 DEF Declared, NamesOK
<1>16. Levels'
  <2> DEFINE p == [k \in 1 .. 2 |-> 1]
  <2>1. p \in [1 .. 2 -> Nat \ {0}] /\ p[1] = 1 /\ p[2] = 1
    OBVIOUS
  <2> HIDE DEF p
  <2>2. Len(blocks') = 1 /\ Len(frames') - 1 = 2 /\ 1 .. Len(frames') - 2 = {1} /\ 1 + 1 = 2
    BY <1>3, <1>8
  <2>3. After(frames'[1].op, 1) = 1
    BY <1>7, <1>8 DEF After
  <2> QED BY <1>9, <2>1, <2>2, <2>3 DEF Levels
<1>17. Typed'
  <2>1. blocks' \in Seq(SUBSET Nat)
    <3>1. {} \in SUBSET Nat
      OBVIOUS
    <3> QED BY <1>3, <3>1
  <2> QED BY <1>2, <1>3, <1>4, <1>6, <2>1 DEF Typed
<1>18. Now' = functions[frames[1].n]
  BY <1>9 DEF f, n
<1> QED
  BY <1>2, <1>4, <1>9, <1>10, <1>11, <1>13, <1>14, <1>15, <1>16, <1>17, <1>18 DEF TInv, Declared

LEMMA PrintBodyKeeps ==
  ASSUME TInv, PrintBody
  PROVE  KeptInside
<1>1. Reached("body") /\ "body" \in Inner
  BY DEF PrintBody, Inner, FrameOps
<1>2. /\ Built /\ Placed /\ Declared /\ Typed /\ FramesOK
      /\ todo = <<>> /\ ~dead /\ frames # <<>> /\ frames[1].op = "body" /\ Defining
      /\ Frame1 = frames[1] /\ frames[1] \in FrameType
  BY <1>1, FirstFrame DEF TInv, Placed
<1>3. frames[1].f = Now /\ Now \in Listing /\ Now \in 1 .. Len(funcs)
  BY <1>2, NowContext DEF Placed, NowOK
<1>4. /\ UNCHANGED <<vars, cc, depth, funcName, declared, blocks>>
      /\ PrintText(Now, Now, 1, funcs[Now].body)
  BY <1>2, <1>3 DEF PrintBody
<1>5. /\ todo' = todo /\ funcs' = funcs /\ functions' = functions /\ dead' = dead
      /\ cc' = cc /\ depth' = depth /\ funcName' = funcName /\ blocks' = blocks
      /\ declared' = declared
  BY <1>4 DEF vars
<1>6. Built'
  BY <1>2, <1>4, BuiltKept
<1>7. funcs[Now].body \in Nat /\ funcs[Now].body <= Len(funcs[Now].text)
  <2>1. funcs[Now] \in Function
    BY <1>2, <1>3, ElementOfSeq DEF Built, GoodProgram, FuncsOK, FuncsTypeOK, Function
  <2> QED BY <1>2, <1>3, <2>1 DEF Function, Built, Finished
<1>8. /\ printed' \in [1 .. MaxFunctions -> SUBSET (Nat \X Nat)]
      /\ called' \subseteq Nat
      /\ \A n \in called' : n \in called \/ \E g \in Listing : funcs[g].name = n
  <2>1. PrintText(Now, Now, 0 + 1, funcs[Now].body) /\ 0 \in Nat
    BY <1>4
  <2> QED BY <1>2, <1>3, <1>7, <2>1, PrintTyped
<1>9. Typed'
  BY <1>2, <1>5, <1>8 DEF Typed
<1>10. Len(blocks) \in Nat \ {0} /\ After(frames[1].op, Len(blocks)) = Len(blocks)
  BY <1>2, LevelPositive DEF Declared, After
<1>11. UNCHANGED <<funcs, functions, funcName, cc, declared>> /\ ~dead' /\ todo' = <<>>
  BY <1>2, <1>5
<1>12. frames[1].op \in Inner
  BY <1>1, <1>2
<1>13. PICK calls : Proceed(calls) /\ Leads(calls, Len(blocks), Len(blocks))
  <2>1. CASE Proceed(<<>>)
    BY <1>10, <2>1, NoneLeads
  <2>2. ASSUME NEW kind \in StatementKinds,
               Proceed(<<Insert(kind)>> \o
                       (IF kind \in GivesBack THEN <<Insert("depth")>> ELSE <<>>))
        PROVE  \E calls : Proceed(calls) /\ Leads(calls, Len(blocks), Len(blocks))
    <3>1. kind \in Flat /\ "depth" \in Flat
      BY DEF Flat, Inner, OnTop, FrameOps, StatementKinds
    <3>2. /\ Leads(<<Insert(kind)>>, Len(blocks), Len(blocks))
          /\ Leads(<<Insert("depth")>>, Len(blocks), Len(blocks))
          /\ Leads(<<>>, Len(blocks), Len(blocks))
      BY <1>10, <3>1, SomeLead, NoneLeads
    <3>3. Leads(IF kind \in GivesBack THEN <<Insert("depth")>> ELSE <<>>,
                Len(blocks), Len(blocks))
      BY <3>2
    <3> DEFINE later == IF kind \in GivesBack THEN <<Insert("depth")>> ELSE <<>>
    <3> HIDE DEF later
    <3>4. Leads(<<Insert(kind)>> \o later, Len(blocks), Len(blocks))
      BY <3>2, <3>3, BothLead DEF later
    <3> QED BY <2>2, <3>4 DEF later
  <2> QED BY <2>1, <2>2 DEF PrintBody
<1>14. /\ calls \in Seq(FrameType) /\ \A k \in 1 .. Len(calls) : calls[k].op \in Inner \ OnTop
       /\ Levelled(calls, Len(blocks'), After(frames[1].op, Len(blocks)))
  BY <1>5, <1>10, <1>13 DEF Leads
<1>15. Len(calls) > 0 => calls[1].op \notin OnTop
  <2>1. Len(calls) \in Nat
    BY <1>14
  <2>2. Len(calls) > 0 => 1 \in 1 .. Len(calls)
    BY <2>1
  <2> QED BY <1>14, <2>2
<1> QED BY <1>2, <1>6, <1>8, <1>9, <1>11, <1>12, <1>13, <1>14, <1>15, InnerKeeps DEF OnTop

LEMMA GiveBackKeeps ==
  ASSUME TInv, GiveBackDepth
  PROVE  KeptInside
<1>1. DoInsert("depth", <<>>) /\ depth' = 0
  BY DEF GiveBackDepth, DoInsert, BudgetRestored
<1>2. "depth" \in Inner \ {"open", "close"}
  BY DEF Inner, FrameOps
<1> QED BY <1>1, <1>2, FlatKeeps, NoneLeads

LEMMA EndKeeps ==
  ASSUME TInv, EndFunction
  PROVE  TInv' /\ Walking'
<1>1. Reached("endFunction")
  BY DEF EndFunction
<1>2. /\ Built /\ Placed /\ Declared /\ Typed /\ FramesOK
      /\ todo = <<>> /\ ~dead /\ frames # <<>> /\ Defining /\ Len(frames) = 2
      /\ Frame1 = frames[1] /\ frames \in Seq(FrameType) /\ frames[1].op = "endFunction"
  BY <1>1, FirstFrame DEF TInv, Placed
<1>3. Now = frames[1].f /\ Loop = frames[2]
  BY <1>2 DEF Now, Loop
<1>4. /\ Proceed(<<>>) /\ blocks' = <<>> /\ funcName' = funcName \cup {funcs[Now].name}
      /\ UNCHANGED <<vars, cc, depth, printed, declared, called>>
  BY <1>2, <1>3 DEF EndFunction
<1>5. /\ todo' = todo /\ funcs' = funcs /\ functions' = functions /\ dead' = dead
      /\ cc' = cc /\ depth' = depth /\ printed' = printed
      /\ declared' = declared /\ called' = called /\ Listing' = Listing
  BY <1>4 DEF vars, Listing
<1> DEFINE x == frames[2]
<1>6. x \in FrameType /\ x.op = "definitions" /\ frames' = <<x>>
  <2>1. 2 \in 1 .. Len(frames)
    BY <1>2
  <2>2. x \in FrameType /\ x.op = "definitions"
    BY <1>2, <2>1, ElementOfSeq DEF Defining
  <2>4. /\ frames' \in Seq(FrameType) /\ Len(frames') = 1
        /\ \A k \in 1 .. 1 : frames'[k] = frames[k + 1]
    <3>1. /\ frames' \in Seq(FrameType) /\ Len(frames') = Len(frames) - 1
          /\ \A k \in 1 .. Len(frames) - 1 : frames'[k] = frames[k + 1]
      BY <1>2, <1>4, FramePopped
    <3>2. Len(frames) - 1 = 1
      BY <1>2
    <3> QED BY <3>1, <3>2
  <2>5. 1 \in 1 .. 1 /\ 1 + 1 = 2
    OBVIOUS
  <2>6. frames'[1] = x
    BY <2>4, <2>5
  <2> QED BY <2>2, <2>4, <2>6
<1>7. /\ x.n \in 1 .. Len(functions) + 1 /\ 1 \in Listing
      /\ \A k \in 1 .. x.n - 1 : funcs[functions[k]].name \in funcName \/ functions[k] = Now
  BY <1>2, <1>3 DEF Placed, LoopOK
<1> HIDE DEF x
<1>8. Placed' /\ Walking' /\ ~Defining' /\ ~Beginning'
  <2>1. \A k \in 1 .. x.n - 1 : funcs'[functions'[k]].name \in funcName'
    BY <1>4, <1>5, <1>7
  <2>2. CalledOK'
    BY <1>2, <1>5 DEF CalledOK
  <2>3. x.n \in 1 .. Len(functions') + 1 /\ 1 \in Listing'
    BY <1>5, <1>7
  <2> QED BY <1>6, <2>1, <2>2, <2>3, WalkingPlaced
<1>9. Built'
  BY <1>2, <1>4, BuiltKept
<1>10. \A k \in 1 .. Len(todo') : FALSE
  BY <1>2, <1>5
<1>11. Inserted' /\ DueVisible'
  BY <1>8, <1>10 DEF Inserted, DueVisible
<1>12. PrintVisible'
  <2>1. frames'[1].op # "printBlock"
    BY <1>6
  <2> QED BY <2>1 DEF PrintVisible
<1>13. NamesOK'
  <2>1. /\ funcName \subseteq declared /\ funcs[Now].name \in declared /\ 0 \in declared
        /\ \A n \in called : \E g \in Listing : funcs[g].name = n
    BY <1>2 DEF Declared, NamesOK
  <2>2. funcName' \subseteq declared'
    BY <1>4, <1>5, <2>1
  <2> QED BY <1>5, <1>8, <2>1, <2>2 DEF NamesOK
<1>14. Levels'
  BY <1>4, <1>8 DEF Levels
<1>15. Typed'
  <2>1. funcs[Now].name \in Nat
    <3>1. Now \in 1 .. Len(funcs)
      BY <1>2, NowContext
    <3>2. funcs[Now] \in Function
      BY <1>2, <3>1, ElementOfSeq DEF Built, GoodProgram, FuncsOK, FuncsTypeOK, Function
    <3> QED BY <3>2 DEF Function
  <2>2. blocks' \in Seq(SUBSET Nat)
    BY <1>4
  <2> QED BY <1>2, <1>4, <1>5, <2>1, <2>2 DEF Typed
<1> QED BY <1>2, <1>5, <1>8, <1>9, <1>11, <1>12, <1>13, <1>14, <1>15 DEF TInv, Declared

LEMMA MainKeeps ==
  ASSUME TInv, PrintMain
  PROVE  TInv' /\ frames' = <<>>
<1>1. Reached("definitions")
  BY DEF PrintMain
<1>2. /\ Built /\ Placed /\ Declared /\ Typed /\ ~Defining
      /\ todo = <<>> /\ ~dead /\ frames # <<>> /\ frames \in Seq(FrameType)
      /\ frames[1] \in FrameType /\ Frame1 = frames[1]
      /\ Len(frames) = 1 /\ blocks = <<>> /\ 1 \in Listing
  BY <1>1, WalkingFirst
<1>3. /\ Proceed(<<>>) /\ cc' = frames[1].ctx /\ called' = called \cup {0}
      /\ UNCHANGED <<vars, depth, funcName, printed, declared, blocks>>
  BY <1>2 DEF PrintMain
<1>4. /\ todo' = todo /\ funcs' = funcs /\ functions' = functions /\ dead' = dead
      /\ depth' = depth /\ funcName' = funcName /\ printed' = printed /\ declared' = declared
      /\ blocks' = blocks /\ Listing' = Listing
  BY <1>3 DEF vars, Listing
<1>5. frames' = <<>> /\ Len(frames') = 0
  <2>1. frames' \in Seq(FrameType) /\ Len(frames') = Len(frames) - 1
    BY <1>2, <1>3, FramePopped
  <2>2. Len(frames') = 0
    BY <1>2, <2>1
  <2> QED BY <2>1, <2>2, EmptySeq
<1>6. ~Defining' /\ ~Walking' /\ ~Beginning'
  BY <1>5 DEF Defining, Walking, Beginning
<1>7. Placed'
  <2>1. FramesOK'
    <3>1. 2 .. Len(frames') = {} /\ frames' \in Seq(FrameType)
      BY <1>5
    <3> QED BY <1>5, <3>1 DEF FramesOK
  <2>2. CalledOK'
    BY <1>2, <1>4 DEF CalledOK
  <2> QED BY <1>6, <2>1, <2>2 DEF Placed, LoopOK, NowOK
<1>8. Built'
  BY <1>2, <1>3, BuiltKept
<1>9. \A k \in 1 .. Len(todo') : FALSE
  BY <1>2, <1>4
<1>10. Inserted' /\ DueVisible' /\ PrintVisible'
  BY <1>5, <1>6, <1>9 DEF Inserted, DueVisible, PrintVisible
<1>11. NamesOK'
  <2>1. /\ funcName \subseteq declared
        /\ \A n \in called : \E g \in Listing : funcs[g].name = n
    BY <1>2 DEF Declared, NamesOK
  <2>2. funcs[1].name = 0
    <3>1. 1 \in 1 .. Len(funcs)
      BY <1>2 DEF Built, Finished
    <3> QED BY <1>2, <3>1 DEF Built, GoodProgram, FuncsOK
  <2>3. \A n \in called' : \E g \in Listing' : funcs'[g].name = n
    BY <1>2, <1>3, <1>4, <2>1, <2>2
  <2> QED BY <1>4, <1>6, <2>1, <2>3 DEF NamesOK
<1>12. Levels'
  BY <1>2, <1>4, <1>6 DEF Levels
<1>13. Typed'
  <2>1. cc' \in Context
    BY <1>2, <1>3 DEF FrameType
  <2> QED BY <1>2, <1>3, <1>4, <2>1 DEF Typed
<1> QED BY <1>2, <1>4, <1>5, <1>7, <1>8, <1>10, <1>11, <1>12, <1>13 DEF TInv, Declared
-----------------------------------------------------------------------------
(* The invariant holds *)

LEMMA InitInvariant == TInit => TInv
<1> SUFFICES ASSUME TInit PROVE TInv
  OBVIOUS
<1>1. Init
  BY DEF TInit
<1> DEFINE c == Call("program", NoContext, 0, 0, 0)
           x == Frame("prototypes", 0, 0)
<1>2. /\ todo = <<c>> /\ Len(todo) = 1 /\ todo # <<>> /\ Next1 = c /\ c.op = "program"
      /\ c.f = 0 /\ todo[1] = c /\ Len(funcs) = 0 /\ Len(functions) = 0 /\ ~dead
  BY <1>1 DEF Init, Call, Next1
<1>3. x \in FrameType /\ x.op = "prototypes"
  <2>1. "prototypes" \in FrameOps /\ 0 \in Nat
    BY DEF FrameOps
  <2> QED BY <2>1, FrameMade
<1>4. /\ frames = <<x>> /\ cc = NoContext /\ funcName = {} /\ depth \in 0 .. MaxDepth
      /\ printed = [f \in 1 .. MaxFunctions |-> {}]
      /\ declared = {} /\ blocks = <<>> /\ called = {}
  BY DEF TInit
<1> HIDE DEF c, x
<1>5. GoodProgram /\ TextInv
  BY <1>1, InitGood, TextInit
<1>6. 1 .. Len(funcs) = {} /\ 1 .. Len(functions) = {} /\ \A k \in 1 .. Len(todo) : k = 1
  BY <1>2
<1>7. Listing = {} /\ \A f, i, g : ~Site(f, i, g)
  BY <1>6 DEF Listing, Site
<1>8. Built
  <2>1. Finished /\ BodyBefore
    BY <1>7 DEF Finished, BodyBefore
  <2>2. Unfinished
    BY <1>2, <1>6 DEF Unfinished
  <2> QED BY <1>5, <2>1, <2>2 DEF Built, TextInv, Ordered
<1>9. frames \in Seq(FrameType) /\ Len(frames) = 1 /\ frames[1] = x /\ frames # <<>>
  BY <1>3, <1>4
<1>10. Beginning /\ ~Walking /\ ~Defining
  BY <1>3, <1>9 DEF Beginning, Walking, Defining
<1>11. Placed
  <2>1. 2 .. Len(frames) = {}
    BY <1>9
  <2>2. FramesOK
    BY <1>9, <1>10, <2>1 DEF FramesOK
  <2>3. CalledOK
    BY <1>3, <1>9 DEF CalledOK, Callers
  <2> QED BY <1>10, <2>2, <2>3 DEF Placed, LoopOK, NowOK
<1>12. Inserted
  BY <1>5, <1>10 DEF Inserted, TextInv, Ordered
<1>13. Declared
  <2>1. DueVisible
    BY <1>7 DEF DueVisible
  <2>2. PrintVisible
    BY <1>3, <1>9 DEF PrintVisible
  <2>3. NamesOK
    BY <1>4, <1>10 DEF NamesOK
  <2>4. Levels
    BY <1>4, <1>10 DEF Levels
  <2> QED BY <2>1, <2>2, <2>3, <2>4 DEF Declared
<1>14. Typed
  <2>1. cc \in Context
    BY <1>4, NoContextGood DEF GoodContext
  <2>2. depth \in Nat
    BY <1>4, TranslationAssumption
  <2>3. blocks \in Seq(SUBSET Nat)
    BY <1>4
  <2>4. printed \in [1 .. MaxFunctions -> SUBSET (Nat \X Nat)]
    BY <1>4
  <2> QED BY <1>4, <2>1, <2>2, <2>3, <2>4 DEF Typed
<1> QED BY <1>2, <1>8, <1>11, <1>12, <1>13, <1>14 DEF TInv

\* CCG at work.
LEMMA GenerateKeeps ==
  ASSUME TInv, Generate
  PROVE  TInv'
<1>1. Built /\ ~dead /\ Placed /\ Inserted /\ Declared /\ Typed /\ Next
  BY GenerateKinds DEF TInv
<1>2. Built'
  BY <1>1, BuiltStep
<1>3. ~dead'
  BY <1>1, StepSurvives DEF Built
<1>4. Placed' /\ Inserted' /\ Declared'
  BY <1>1, PlacedWaits, InsertedWaits, DeclaredWaits
<1>5. Typed'
  BY <1>1, VisibleWaits
<1> QED BY <1>2, <1>3, <1>4, <1>5 DEF TInv

\* What a step of a printer may be.
LEMMA PrinterKinds ==
  ASSUME TInv, TNext
  PROVE  \/ Generate \/ Prototypes \/ SkipFunction \/ DefineFunction \/ EndFunction \/ PrintMain
         \/ (PrintBody \/ PrintBlock) /\ KeptInside
         \/ (OpenBrace \/ CloseBrace) /\ KeptInside
         \/ /\ KeptInside
            /\ UNCHANGED <<funcs, funcName, declared, blocks, called>>
<1>1. CASE GiveBackDepth
  BY <1>1, GiveBackKeeps DEF GiveBackDepth, output, vars
<1>2. CASE PrintBody \/ PrintBlock
  BY <1>2, PrintBodyKeeps, PrintBlockKeeps
<1>3. CASE OpenBrace \/ CloseBrace
  BY <1>3, BraceKeeps
<1>4. CASE InsertStatement \/ InsertExpression
  BY <1>4, InsertionKeeps DEF InsertStatement, InsertExpression, output, Make
<1>5. CASE \/ EndLine \/ Sequence \/ AnyStatement \/ AssignmentStatement \/ ExpressionStatement
           \/ LabeledStatement \/ CompoundStatement \/ JumpStatement \/ LoopStatement
           \/ IfElseStatement \/ IfStatement \/ SwitchStatement \/ CaseOfSwitch
  <2>1. KeptInside
    BY <1>5, StatementKeeps
  <2>2. ASSUME NEW op, NEW calls, DoInsert(op, calls)
        PROVE  UNCHANGED <<funcs, funcName, declared, blocks, called>>
    BY <2>2 DEF DoInsert, output, vars
  <2>3. \E op, calls : DoInsert(op, calls)
    BY <1>5 DEF EndLine, Sequence, AnyStatement, AssignmentStatement, ExpressionStatement,
       LabeledStatement, CompoundStatement, JumpStatement, LoopStatement, IfElseStatement,
       IfStatement, SwitchStatement, CaseOfSwitch, Plain, Deeper
  <2> QED BY <2>1, <2>2, <2>3
<1> QED BY <1>1, <1>2, <1>3, <1>4, <1>5 DEF TNext, Definitions, Inserting

LEMMA TStep == TInv /\ [TNext]_tvars => TInv'
<1>1. ASSUME TInv, TNext PROVE TInv'
  BY <1>1, PrinterKinds, GenerateKeeps, PrototypesKeep, SkipKeeps, DefineKeeps, EndKeeps,
     MainKeeps DEF KeptInside
<1>2. ASSUME TInv, UNCHANGED tvars PROVE TInv'
  <2>1. /\ UNCHANGED vars
        /\ frames' = frames /\ cc' = cc /\ depth' = depth /\ funcName' = funcName
        /\ printed' = printed /\ declared' = declared /\ blocks' = blocks /\ called' = called
    BY <1>2 DEF tvars, output
  <2>2. /\ todo' = todo /\ funcs' = funcs /\ functions' = functions /\ dead' = dead
        /\ Listing' = Listing
    BY <2>1 DEF vars, Listing
  <2>3. Built' /\ ~dead'
    BY <1>2, <2>1, <2>2, BuiltKept DEF TInv
  <2>4. /\ (Beginning' <=> Beginning) /\ (Walking' <=> Walking) /\ (Defining' <=> Defining)
        /\ Now' = Now /\ Loop' = Loop
    BY <2>1 DEF Beginning, Walking, Defining, Now, Loop
  <2>5. Placed'
    <3>1. FramesOK'
      BY <1>2, <2>1, <2>4 DEF TInv, Placed, FramesOK
    <3>2. LoopOK'
      BY <1>2, <2>1, <2>2, <2>4 DEF TInv, Placed, LoopOK
    <3>3. NowOK' /\ CalledOK'
      BY <1>2, <2>1, <2>2, <2>4 DEF TInv, Placed, NowOK, CalledOK
    <3> QED BY <3>1, <3>2, <3>3 DEF Placed
  <2>6. Inserted'
    BY <1>2, <2>2, <2>4 DEF TInv, Inserted, ListedClosed
  <2>7. Declared'
    <3>1. Visible' = Visible
      BY <2>1 DEF Visible
    <3>2. \A f, i, g : Site(f, i, g)' <=> Site(f, i, g)
      BY <2>2 DEF Site
    <3>3. DueVisible'
      BY <1>2, <2>2, <3>1 DEF TInv, Declared, DueVisible
    <3>4. \A i, g : Site(Now, i, g)' <=> Site(Now, i, g)
      BY <2>4, <3>2
    <3>5. PrintVisible'
      BY <1>2, <2>1, <2>2, <3>1, <3>4 DEF TInv, Declared, PrintVisible
    <3>6. NamesOK'
      BY <1>2, <2>1, <2>2, <2>4 DEF TInv, Declared, NamesOK
    <3>7. Levels'
      BY <1>2, <2>1, <2>4 DEF TInv, Declared, Levels
    <3> QED BY <3>3, <3>5, <3>6, <3>7 DEF Declared
  <2>8. Typed'
    BY <1>2, <2>1 DEF TInv, Typed
  <2> QED BY <2>3, <2>5, <2>6, <2>7, <2>8 DEF TInv
<1> QED BY <1>1, <1>2

\* CCG and the printers keep to the invariant (MainFunctionToString, proto_to_c.cc).
THEOREM TranslationHolds == TSpec => []TInv
BY InitInvariant, TStep, PTL DEF TSpec

\* No remainder by zero, no die() and no endless draw while a program is put together,
\* neither in what CCG makes first nor in what is made for the insertions, in contexts
\* that its own builders have not made (proto_to_c.cc).
THEOREM InsertedDrawsCorrect == TSpec => []NeverDies
<1>1. TInv => NeverDies
  BY DEF TInv, NeverDies
<1> QED BY <1>1, TranslationHolds, PTL

\* The variables of MainFunctionToString() keep their types.
THEOREM TranslationTyped == TSpec => []TranslationTypeOK
<1>1. TInv => TypeOK
  BY DEF TInv, Built, GoodProgram, TodoOK, GlobalsOK, FuncsOK, TypeOK, TodoTypeOK, ScopeTypeOK
<1>2. TInv => frames \in Seq([op : FrameOps, n : Nat, f : Nat, ctx : Context])
  BY DEF TInv, Placed, FramesOK, FrameType
<1>3. TInv => TranslationTypeOK
  BY <1>1, <1>2 DEF TInv, Typed, TranslationTypeOK
<1> QED BY <1>3, TranslationHolds, PTL

LEMMA ExtendsPrefix ==
  ASSUME NEW s \in Seq(Variable), NEW t \in Seq(Variable),
         \A i \in 1 .. Len(s) : i \in 1 .. Len(t) /\ t[i] = s[i]
  PROVE  Len(s) <= Len(t) /\ SubSeq(t, 1, Len(s)) = s
<1>1. Len(s) \in Nat /\ Len(t) \in Nat
  OBVIOUS
<1>2. Len(s) <= Len(t)
  <2>1. Len(s) > 0 => Len(s) \in 1 .. Len(s)
    BY <1>1
  <2>2. Len(s) > 0 => Len(s) \in 1 .. Len(t)
    BY <2>1
  <2> QED BY <1>1, <2>2
<1> DEFINE u == SubSeq(t, 1, Len(s))
<1>3. \A i \in 1 .. Len(s) : t[i] \in Variable
  BY <1>1, ElementOfSeq
<1>4. /\ u \in Seq(Variable) /\ Len(u) = IF 1 <= Len(s) THEN Len(s) - 1 + 1 ELSE 0
      /\ \A i \in 1 .. Len(s) - 1 + 1 : u[i] = t[1 + i - 1]
  <2>1. 1 \in Int /\ Len(s) \in Int
    BY <1>1
  <2> QED BY <1>3, <2>1, SubSeqProperties
<1> HIDE DEF u
<1>5. Len(u) = Len(s)
  BY <1>1, <1>4
<1>6. \A i \in 1 .. Len(u) : u[i] = s[i]
  <2> SUFFICES ASSUME NEW i \in 1 .. Len(s) PROVE u[i] = s[i]
    BY <1>5
  <2>1. i \in 1 .. Len(s) - 1 + 1 /\ 1 + i - 1 = i
    BY <1>1
  <2> QED BY <1>4, <2>1
<1>7. u = s
  BY <1>4, <1>5, <1>6, SeqEqual
<1> QED BY <1>2, <1>7 DEF u

\* What CCG makes for the function being printed is made in the scope of its body, with
\* the counters of the context agreeing (cc in proto_to_c.cc).
THEOREM InsertionsInScope == TSpec => []InsertedInScope
<1>1. TInv => InsertedInScope
  <2> SUFFICES ASSUME TInv, InDefinition # {}, NEW k \in DOMAIN todo,
                      todo[k].ctx.currfunc = Printing
               PROVE  /\ CountersAgree(todo[k].ctx)
                      /\ Len(funcs[Printing].context.scope) <= Len(todo[k].ctx.scope)
                      /\ SubSeq(todo[k].ctx.scope, 1, Len(funcs[Printing].context.scope))
                           = funcs[Printing].context.scope
    BY DEF InsertedInScope
  <2>1. Defining /\ Printing = Now
    BY PrintingNow DEF TInv, Placed
  <2>2. k \in 1 .. Len(todo) /\ GoodContext(todo[k].ctx)
    BY DEF TInv, Built, GoodProgram, TodoOK, GoodCall
  <2>3. Now \in Listing /\ GoodContext(funcs[Now].context)
    BY <2>1, NowContext DEF TInv
  <2>4. Extends(todo[k].ctx, funcs[Now].context)
    BY <2>1, <2>2, <2>3 DEF TInv, Inserted
  <2>5. todo[k].ctx.scope \in Seq(Variable) /\ funcs[Now].context.scope \in Seq(Variable)
    BY <2>2, <2>3 DEF GoodContext, Context
  <2> QED BY <2>1, <2>2, <2>4, <2>5, ExtendsPrefix DEF GoodContext, Extends
<1> QED BY <1>1, TranslationHolds, PTL
-----------------------------------------------------------------------------
(* The text is a translation unit *)

\* Names with a definition.
Defs == funcName \cup {funcs[frames[k].f].name : k \in InDefinition}

DefsNow ==
  /\ Defining => Defs = funcName \cup {funcs[Now].name}
  /\ ~Defining => Defs = funcName

LEMMA DefsAre == FramesOK => DefsNow
<1> SUFFICES ASSUME FramesOK PROVE DefsNow
  OBVIOUS
<1>1. ASSUME Defining PROVE Defs = funcName \cup {funcs[Now].name}
  <2>1. InDefinition = {Len(frames) - 1}
    BY <1>1, PrintingNow
  <2> QED BY <2>1 DEF Defs, Now
<1>2. ASSUME ~Defining PROVE Defs = funcName
  <2>1. InDefinition = {}
    BY <1>2, PrintingNow
  <2> QED BY <2>1 DEF Defs
<1> QED BY <1>1, <1>2 DEF DefsNow

\* A function has a name of the unit.
LEMMA NamesOfUnit ==
  ASSUME Built, NEW f \in 1 .. Len(funcs)
  PROVE  funcs[f].name \in 0 .. MaxFunctions - 1
<1>2. Len(funcs) \in Nat /\ Len(funcs) <= MaxFunctions /\ MaxFunctions \in Nat
  BY GeneratorAssumption DEF Built, GoodProgram, LimitOK, FuncsOK, FuncsTypeOK
<1>3. funcs[f].name = f - 1
  BY DEF Built, GoodProgram, FuncsOK
<1> QED BY <1>2, <1>3

\* What CUnit does not see.
UnitStutter ==
  (frames' = <<>> <=> frames = <<>>) /\ Defs' = Defs /\ UNCHANGED <<declared, blocks, called>>

UnitStep == Unit!Next \/ UnitStutter

LEMMA StepOfUnit == UnitStep => [Unit!Next]_(Unit!vars)
<1>1. ASSUME UnitStutter PROVE UNCHANGED Unit!vars
  <2>1. (frames = <<>>)' = (frames = <<>>)
    BY <1>1 DEF UnitStutter
  <2> QED BY <1>1, <2>1 DEF UnitStutter, Unit!vars, Defs
<1> QED BY <1>1 DEF UnitStep

LEMMA DefsKept ==
  ASSUME TInv, TInv', UNCHANGED funcName,
         Defining' <=> Defining, Now' = Now, Defining => funcs'[Now].name = funcs[Now].name
  PROVE  Defs' = Defs
<1>1. FramesOK /\ FramesOK'
  BY DEF TInv, Placed
<1>2. DefsNow
  BY <1>1, DefsAre
<1>3. FramesOK' => DefsNow'
  BY DefsAre, PTL
<1> QED BY <1>1, <1>2, <1>3 DEF DefsNow

LEMMA DefsSame ==
  ASSUME TInv, TInv', UNCHANGED funcName, ~Defining, ~Defining'
  PROVE  Defs' = Defs
<1>1. FramesOK /\ FramesOK'
  BY DEF TInv, Placed
<1>2. FramesOK' => DefsNow'
  BY DefsAre, PTL
<1> QED BY <1>1, <1>2, DefsAre DEF DefsNow

LEMMA WalkingOn == Walking' => ~Defining' /\ frames' # <<>>
<1>1. Len(frames') = 1 => frames' # <<>>
  OBVIOUS
<1> QED BY <1>1 DEF Walking, Defining

LEMMA GenerateUnit ==
  ASSUME TInv, TInv', Generate
  PROVE  UnitStep
<1>1. /\ Built /\ Placed /\ Declared /\ Typed /\ FramesOK
  BY DEF TInv, Placed
<1>2. /\ Next /\ UNCHANGED <<frames, cc, depth, funcName, printed, called>>
      /\ \/ ~MadeStep /\ UNCHANGED <<declared, blocks>>
         \/ MadeStep /\ Extern(funcs[Next1.f].name)
  BY GenerateKinds
<1>3. todo # <<>> /\ frames # <<>>
  BY <1>1, <1>2, StepShaped DEF Built, Shaped, Placed, CalledOK
<1>4. Defs' = Defs
  <2>1. Defining => funcs'[Now].name = funcs[Now].name
    <3>1. ASSUME Defining PROVE Now \in Listing
      BY <1>1, <3>1, NowContext
    <3> QED BY <1>1, <1>2, <3>1, ListedSteady
  <2>2. (Defining' <=> Defining) /\ Now' = Now
    BY <1>2 DEF Defining, Now
  <2> QED BY <1>2, <2>1, <2>2, DefsKept
<1>5. CASE ~MadeStep /\ UNCHANGED <<declared, blocks>>
  BY <1>2, <1>4, <1>5 DEF UnitStep, UnitStutter
<1>6. CASE MadeStep /\ Extern(funcs[Next1.f].name)
  <2> DEFINE n == funcs[Next1.f].name
  <2>1. n \in 0 .. MaxFunctions - 1
    <3>1. Next1.f \in 1 .. Len(funcs)
      BY <1>1, <1>6, VisibleWaits
    <3> QED BY <1>1, <3>1, NamesOfUnit
  <2>2. (frames = <<>>)' = (frames = <<>>) /\ called' = called /\ Extern(n)
    BY <1>2, <1>6
  <2> HIDE DEF n
  <2>3. CASE blocks = <<>>
    <3>1. Unit!DeclareGlobally({n})
      BY <1>3, <1>4, <2>2, <2>3 DEF Extern, Unit!DeclareGlobally, Defs
    <3>2. {n} \in SUBSET (0 .. MaxFunctions - 1)
      BY <2>1
    <3> QED BY <3>1, <3>2 DEF UnitStep, Unit!Next
  <2>4. CASE blocks # <<>>
    <3>1. Unit!DeclareLocally(n)
      BY <1>4, <2>2, <2>4 DEF Extern, Unit!DeclareLocally, Defs
    <3> QED BY <2>1, <3>1 DEF UnitStep, Unit!Next
  <2> QED BY <2>3, <2>4
<1> QED BY <1>2, <1>5, <1>6

LEMMA PrototypesUnit ==
  ASSUME TInv, TInv', Prototypes
  PROVE  UnitStep
<1>1. Reached("prototypes")
  BY DEF Prototypes
<1>2. /\ Built /\ Declared /\ FramesOK /\ FramesOK' /\ frames # <<>> /\ Beginning
  BY <1>1, FirstFrame DEF TInv, Placed
<1>3. ~Defining /\ blocks = <<>>
  BY <1>2 DEF Beginning, Defining, Declared, Levels
<1>4. ~Defining' /\ frames' # <<>>
  BY PrototypesKeep, WalkingOn
<1> DEFINE ns == {funcs[functions[k]].name : k \in DOMAIN functions}
<1>5. declared' = declared \cup ns /\ UNCHANGED <<funcName, blocks, called>>
  BY DEF Prototypes
<1>6. ns \in SUBSET (0 .. MaxFunctions - 1)
  <2>1. \A k \in DOMAIN functions : functions[k] \in 1 .. Len(funcs)
    BY <1>2 DEF Listing, Built, Finished, GoodProgram, FuncsOK, FuncsTypeOK
  <2>2. \A k \in DOMAIN functions : funcs[functions[k]].name \in 0 .. MaxFunctions - 1
    BY <1>2, <2>1, NamesOfUnit
  <2> QED BY <2>2
<1> HIDE DEF ns
<1>7. Defs' = Defs
  BY <1>3, <1>4, <1>5, DefsSame
<1>8. Unit!DeclareGlobally(ns)
  BY <1>2, <1>3, <1>4, <1>5, <1>7 DEF Unit!DeclareGlobally, Defs
<1> QED BY <1>6, <1>8 DEF UnitStep, Unit!Next

LEMMA SkipUnit ==
  ASSUME TInv, TInv', SkipFunction
  PROVE  UnitStep
<1>1. Reached("definitions") /\ UNCHANGED <<funcName, declared, blocks, called>>
  BY DEF SkipFunction, output
<1>2. ~Defining /\ frames # <<>>
  BY <1>1, WalkingFirst
<1>3. ~Defining' /\ frames' # <<>>
  BY SkipKeeps, WalkingOn
<1>4. Defs' = Defs
  BY <1>1, <1>2, <1>3, DefsSame
<1> QED BY <1>1, <1>2, <1>3, <1>4 DEF UnitStep, UnitStutter

LEMMA DefineUnit ==
  ASSUME TInv, TInv', DefineFunction
  PROVE  UnitStep
<1>1. Reached("definitions")
  BY DEF DefineFunction
<1>2. /\ Built /\ ~Defining /\ frames # <<>> /\ Frame1 = frames[1] /\ blocks = <<>>
      /\ frames[1].n \in 1 .. Len(functions) + 1 /\ Len(functions) \in Nat
      /\ FramesOK /\ FramesOK'
  BY <1>1, WalkingFirst DEF TInv, Placed
<1> DEFINE f == functions[frames[1].n]
           n == funcs[f].name
<1>3. /\ frames[1].n <= Len(functions) /\ n \notin funcName
      /\ blocks' = <<{}>> /\ declared' = declared \cup {n}
      /\ UNCHANGED <<vars, depth, funcName, printed, called>>
  BY <1>2 DEF DefineFunction
<1>4. Defining' /\ Now' = f /\ frames' # <<>>
  BY DefineKeeps DEF Defining
<1>5. f \in 1 .. Len(funcs)
  <2>1. frames[1].n \in 1 .. Len(functions)
    BY <1>2, <1>3
  <2>2. f \in Listing
    BY <2>1 DEF Listing
  <2> QED BY <1>2, <2>2 DEF Built, Finished
<1>6. n \in 0 .. MaxFunctions - 1
  BY <1>2, <1>5, NamesOfUnit
<1>7. funcs'[f].name = n
  BY <1>3 DEF vars
<1> HIDE DEF f, n
<1>8. Defs = funcName
  BY <1>2, DefsAre DEF DefsNow
<1>9. Defs' = funcName \cup {n}
  <2>1. FramesOK' => DefsNow'
    BY DefsAre, PTL
  <2>2. Defs' = funcName' \cup {funcs'[Now'].name}
    BY <1>2, <1>4, <2>1 DEF DefsNow
  <2> QED BY <1>3, <1>4, <1>7, <2>2
<1>10. PICK m \in 0 .. MaxFunctions - 1 : m = n
  BY <1>6
<1>11. Unit!Define(m)
  BY <1>2, <1>3, <1>4, <1>8, <1>9, <1>10 DEF Unit!Define, Defs
<1> QED BY <1>11 DEF UnitStep, Unit!Next

\* Inside a definition the names that are defined stay.
LEMMA InsideDefs ==
  ASSUME TInv, KeptInside, UNCHANGED <<funcs, funcName>>
  PROVE  /\ Defs' = Defs /\ frames # <<>> /\ frames' # <<>> /\ blocks # <<>>
         /\ Built /\ Placed /\ Declared /\ Typed /\ Defining
<1>1. Built /\ Placed /\ Declared /\ Typed /\ TInv' /\ Defining /\ Defining' /\ Now' = Now
  BY DEF TInv, KeptInside
<1>2. Defs' = Defs
  BY <1>1, DefsKept
<1>3. Len(frames) > 1 /\ Len(blocks) \in Nat \ {0}
  BY <1>1, LevelPositive DEF Defining, Declared
<1>4. /\ Len(frames) > 1 => frames # <<>>
      /\ Len(blocks) \in Nat \ {0} => blocks # <<>>
  OBVIOUS
<1> QED BY <1>1, <1>2, <1>3, <1>4 DEF KeptInside

\* Text with calls of visible functions.
LEMMA UseUnit ==
  ASSUME TInv, KeptInside, UNCHANGED <<funcs, funcName, declared, blocks>>,
         called \subseteq called',
         \A n \in called' : n \in called \/ \E g \in Listing : funcs[g].name = n /\ n \in Visible
  PROVE  UnitStep
<1>1. Defs' = Defs /\ frames # <<>> /\ frames' # <<>> /\ blocks # <<>> /\ Built
  BY InsideDefs
<1>2. PICK ns : ns = called' \ called
  OBVIOUS
<1>3. \A n \in ns : n \in 0 .. MaxFunctions - 1 /\ n \in Unit!Visible
  <2>1. \A n \in ns : \E g \in 1 .. Len(funcs) : funcs[g].name = n /\ n \in Visible
    BY <1>1, <1>2 DEF Built, Finished
  <2>2. Unit!Visible = Visible
    BY DEF Unit!Visible, Visible
  <2> QED BY <1>1, <2>1, <2>2, NamesOfUnit
<1>4. called' = called \cup ns
  BY <1>2
<1>5. (frames = <<>>)' = (frames = <<>>)
  BY <1>1
<1>6. Unit!Use(ns)
  BY <1>1, <1>3, <1>4, <1>5 DEF Unit!Use, Defs
<1>7. ns \in SUBSET (0 .. MaxFunctions - 1)
  BY <1>3
<1> QED BY <1>6, <1>7 DEF UnitStep, Unit!Next

LEMMA PrintBodyUnit ==
  ASSUME TInv, PrintBody, KeptInside
  PROVE  UnitStep
<1>1. Reached("body") /\ "body" \in Inner
  BY DEF PrintBody, Inner, FrameOps
<1>2. /\ Built /\ Placed /\ Declared /\ Typed /\ FramesOK
      /\ frames # <<>> /\ frames[1].op = "body" /\ Defining /\ Frame1 = frames[1]
  BY <1>1, FirstFrame DEF TInv, Placed
<1>3. /\ frames[1].f = Now /\ Now \in Listing /\ Now \in 1 .. Len(funcs)
      /\ Loop.n - 1 \in 1 .. Len(functions) /\ functions[Loop.n - 1] = Now
  BY <1>2, NowContext DEF Placed, NowOK
<1>4. /\ UNCHANGED <<vars, cc, depth, funcName, declared, blocks>>
      /\ PrintText(Now, Now, 1, funcs[Now].body)
  BY <1>2, <1>3 DEF PrintBody
<1>5. funcs[Now].body \in Nat /\ funcs[Now].body <= Len(funcs[Now].text)
  <2>1. funcs[Now] \in Function
    BY <1>2, <1>3, ElementOfSeq DEF Built, GoodProgram, FuncsOK, FuncsTypeOK, Function
  <2> QED BY <1>2, <1>3, <2>1 DEF Function, Built, Finished
<1>6. \A n \in called' : n \in called \/ \E g \in Listing : \E i \in 0 + 1 .. funcs[Now].body :
        funcs[g].name = n /\ Site(Now, i, g)
  <2>1. PrintText(Now, Now, 0 + 1, funcs[Now].body) /\ 0 \in Nat
    BY <1>4
  <2> QED BY <1>2, <1>3, <1>5, <2>1, PrintTyped
<1>7. ASSUME NEW g, NEW i \in 0 + 1 .. funcs[Now].body, Site(Now, i, g)
      PROVE  funcs[g].name \in Visible
  <2>1. i <= funcs[Now].body
    BY <1>5
  <2>2. PICK j \in 1 .. (Loop.n - 1) - 1 : functions[j] = g
    BY <1>2, <1>3, <1>7, <2>1 DEF Built, BodyBefore
  <2>3. j \in 1 .. Loop.n - 1
    <3>1. Loop.n - 1 \in Nat
      BY <1>3
    <3> QED BY <3>1
  <2>4. funcs[g].name \in funcName \/ g = Now
    BY <1>2, <2>2, <2>3 DEF Placed, LoopOK
  <2> QED BY <1>2, <2>4 DEF Declared, NamesOK, Visible
<1>8. called \subseteq called'
  BY <1>4 DEF PrintText
<1>9. UNCHANGED <<funcs, funcName, declared, blocks>>
  BY <1>4 DEF vars
<1>10. \A n \in called' : n \in called \/ \E g \in Listing : funcs[g].name = n /\ n \in Visible
  BY <1>6, <1>7
<1> QED BY <1>8, <1>9, <1>10, UseUnit

LEMMA PrintBlockUnit ==
  ASSUME TInv, PrintBlock, KeptInside
  PROVE  UnitStep
<1>1. Reached("printBlock") /\ "printBlock" \in Inner
  BY DEF PrintBlock, Inner, FrameOps
<1>2. /\ Built /\ Placed /\ Declared /\ Typed /\ FramesOK
      /\ frames # <<>> /\ frames[1].op = "printBlock" /\ Defining
      /\ Frame1 = frames[1] /\ frames[1] \in FrameType
  BY <1>1, FirstFrame DEF TInv, Placed
<1>3. Printing = Now /\ frames[1].f = Now /\ Now \in Listing /\ Now \in 1 .. Len(funcs)
  BY <1>2, PrintingNow, NowContext DEF Placed, NowOK
<1>4. /\ UNCHANGED <<vars, cc, depth, funcName, declared, blocks>>
      /\ PrintText(Now, Now, frames[1].n + 1, Len(funcs[Now].text))
  BY <1>2, <1>3 DEF PrintBlock
<1>5. frames[1].n \in Nat /\ Len(funcs[Now].text) \in Nat
  <2>1. funcs[Now] \in Function
    BY <1>2, <1>3, ElementOfSeq DEF Built, GoodProgram, FuncsOK, FuncsTypeOK, Function
  <2> QED BY <1>2, <2>1 DEF FrameType, Function
<1>6. \A n \in called' : n \in called \/ \E g \in Listing :
        \E i \in frames[1].n + 1 .. Len(funcs[Now].text) : funcs[g].name = n /\ Site(Now, i, g)
  BY <1>2, <1>3, <1>4, <1>5, PrintTyped
<1>7. ASSUME NEW g, NEW i \in frames[1].n + 1 .. Len(funcs[Now].text), Site(Now, i, g)
      PROVE  funcs[g].name \in Visible
  <2>1. i > frames[1].n
    BY <1>5
  <2> QED BY <1>2, <1>7, <2>1 DEF Declared, PrintVisible
<1>8. called \subseteq called'
  BY <1>4 DEF PrintText
<1>9. UNCHANGED <<funcs, funcName, declared, blocks>>
  BY <1>4 DEF vars
<1>10. \A n \in called' : n \in called \/ \E g \in Listing : funcs[g].name = n /\ n \in Visible
  BY <1>6, <1>7
<1> QED BY <1>8, <1>9, <1>10, UseUnit

LEMMA BraceUnit ==
  ASSUME TInv, OpenBrace \/ CloseBrace, KeptInside
  PROVE  UnitStep
<1>1. UNCHANGED <<vars, funcName, declared, called>>
  BY DEF OpenBrace, CloseBrace
<1>2. UNCHANGED <<funcs, funcName>>
  BY <1>1 DEF vars
<1>3. Defs' = Defs /\ frames # <<>> /\ frames' # <<>> /\ blocks # <<>>
  BY <1>2, InsideDefs
<1>4. (frames = <<>>)' = (frames = <<>>)
  BY <1>3
<1>5. CASE OpenBrace
  <2>1. Unit!OpenBlock
    BY <1>1, <1>3, <1>4, <1>5 DEF OpenBrace, Unit!OpenBlock, Defs
  <2> QED BY <2>1 DEF UnitStep, Unit!Next
<1>6. CASE CloseBrace
  <2>1. Unit!CloseBlock
    BY <1>1, <1>3, <1>4, <1>6 DEF CloseBrace, Unit!CloseBlock, Defs
  <2> QED BY <2>1 DEF UnitStep, Unit!Next
<1> QED BY <1>5, <1>6

LEMMA EndUnit ==
  ASSUME TInv, TInv', EndFunction
  PROVE  UnitStep
<1>1. Reached("endFunction")
  BY DEF EndFunction
<1>2. /\ Declared /\ Placed /\ Defining /\ Len(frames) = 2 /\ frames # <<>>
      /\ Frame1 = frames[1] /\ FramesOK /\ FramesOK' /\ blocks \in Seq(SUBSET Nat)
  BY <1>1, FirstFrame DEF TInv, Placed, Typed
<1>3. Now = frames[1].f
  BY <1>2 DEF Now
<1>4. /\ blocks' = <<>> /\ funcName' = funcName \cup {funcs[Now].name}
      /\ UNCHANGED <<declared, called>>
  BY <1>2, <1>3 DEF EndFunction
<1>5. ~Defining' /\ frames' # <<>>
  BY EndKeeps, WalkingOn
<1>6. Defs' = Defs
  <2>1. FramesOK' => DefsNow'
    BY DefsAre, PTL
  <2> QED BY <1>2, <1>4, <1>5, <2>1, DefsAre DEF DefsNow
<1>7. Len(blocks) = 1
  BY <1>2, LevelPositive DEF Declared
<1>8. blocks # <<>> /\ SubSeq(blocks, 1, Len(blocks) - 1) = <<>>
  <2>1. blocks = <<>> => Len(blocks) = 0
    OBVIOUS
  <2>2. SubSeq(blocks, 1, 0) = <<>>
    <3> DEFINE u == SubSeq(blocks, 1, 0)
    <3>1. \A i \in 1 .. 0 : blocks[i] \in SUBSET Nat
      OBVIOUS
    <3>2. u \in Seq(SUBSET Nat) /\ Len(u) = IF 1 <= 0 THEN 0 - 1 + 1 ELSE 0
      <4>1. 1 \in Int /\ 0 \in Int
        OBVIOUS
      <4> QED BY <3>1, <4>1, SubSeqProperties
    <3> HIDE DEF u
    <3>3. u = <<>>
      BY <3>2, EmptySeq
    <3> QED BY <3>3 DEF u
  <2> QED BY <1>7, <2>1, <2>2
<1>9. (frames = <<>>)' = (frames = <<>>)
  BY <1>2, <1>5
<1>10. Unit!CloseBlock
  BY <1>4, <1>6, <1>8, <1>9 DEF Unit!CloseBlock, Defs
<1> QED BY <1>10 DEF UnitStep, Unit!Next

LEMMA MainUnit ==
  ASSUME TInv, TInv', PrintMain
  PROVE  UnitStep
<1>1. Reached("definitions")
  BY DEF PrintMain
<1>2. /\ Built /\ Declared /\ Walking /\ ~Defining /\ frames # <<>>
      /\ Frame1 = frames[1] /\ blocks = <<>> /\ 1 \in Listing
      /\ frames[1].n \in 1 .. Len(functions) + 1 /\ Len(functions) \in Nat
      /\ \A k \in 1 .. frames[1].n - 1 : funcs[functions[k]].name \in funcName
  BY <1>1, WalkingFirst
<1>3. /\ called' = called \cup {0} /\ frames[1].n > Len(functions)
      /\ UNCHANGED <<funcName, declared, blocks>>
  BY <1>2 DEF PrintMain
<1>4. frames' = <<>>
  BY MainKeeps
<1>5. Defs = funcName /\ Defs' = Defs
  <2>1. ~Defining'
    BY <1>4 DEF Defining
  <2> QED BY <1>2, <1>3, <2>1, DefsSame, DefsAre DEF TInv, Placed, DefsNow
\* Whatever is called is in the list, and all of the list has been printed.
<1>6. \A g \in Listing : funcs[g].name \in funcName
  <2>1. \A k \in 1 .. Len(functions) : k \in 1 .. frames[1].n - 1
    BY <1>2, <1>3
  <2>2. \A k \in 1 .. Len(functions) : funcs[functions[k]].name \in funcName
    BY <1>2, <2>1
  <2>3. \A g \in Listing : \E k \in 1 .. Len(functions) : functions[k] = g
    BY DEF Listing
  <2> QED BY <2>2, <2>3
<1>7. funcs[1].name = 0 /\ 0 \in 0 .. MaxFunctions - 1
  <2>1. 1 \in 1 .. Len(funcs)
    BY <1>2 DEF Built, Finished
  <2>2. funcs[1].name = 0
    BY <1>2, <2>1 DEF Built, GoodProgram, FuncsOK
  <2> QED BY <1>2, <2>1, <2>2, NamesOfUnit
<1>8. called' \subseteq funcName /\ 0 \in declared
  BY <1>2, <1>3, <1>6, <1>7 DEF Declared, NamesOK
<1>9. (frames = <<>>) = FALSE /\ (frames = <<>>)' = TRUE
  BY <1>2, <1>4
<1>10. Unit!End(0)
  BY <1>2, <1>3, <1>5, <1>8, <1>9 DEF Unit!End, Defs
<1> QED BY <1>7, <1>10 DEF UnitStep, Unit!Next

LEMMA UnitInit == TInit => Unit!Init
<1> SUFFICES ASSUME TInit PROVE Unit!Init
  OBVIOUS
<1>1. TInv
  BY InitInvariant
<1>2. /\ frames = <<Frame("prototypes", 0, 0)>> /\ funcName = {}
      /\ declared = {} /\ blocks = <<>> /\ called = {}
  BY DEF TInit
<1>3. frames # <<>> /\ Len(frames) = 1
  BY <1>2
<1>4. Defs = {}
  <2>1. ~Defining
    BY <1>3 DEF Defining
  <2> QED BY <1>1, <1>2, <2>1, DefsAre DEF TInv, Placed, DefsNow
<1>5. (frames = <<>>) = FALSE
  BY <1>3
<1> QED BY <1>2, <1>4, <1>5 DEF Unit!Init, Defs

\* The program of a round is a translation unit: the prototypes, the declarations in the
\* middle of a function and the definitions of functions invented by an insertion come in
\* an order CUnit allows, and what main() and the text call is defined when it ends
\* (MainFunctionToString and makeFunction, proto_to_c.cc and program.c).
THEOREM UnitCorrect == TSpec => ImplementsUnit
<1>1. TInit => Unit!Init
  BY UnitInit
<1>2. TInv /\ [TNext]_tvars => UnitStep
  <2>1. ASSUME TInv, TNext PROVE UnitStep
    <3>1. TInv'
      BY <2>1, TStep
    <3>2. CASE \/ Generate \/ Prototypes \/ SkipFunction \/ DefineFunction \/ EndFunction
               \/ PrintMain
      BY <2>1, <3>1, <3>2, GenerateUnit, PrototypesUnit, SkipUnit, DefineUnit, EndUnit, MainUnit
    <3>3. CASE KeptInside /\ (PrintBody \/ PrintBlock \/ OpenBrace \/ CloseBrace)
      BY <2>1, <3>3, PrintBodyUnit, PrintBlockUnit, BraceUnit
    <3>4. CASE KeptInside /\ UNCHANGED <<funcs, funcName, declared, blocks, called>>
      BY <2>1, <3>4, InsideDefs DEF UnitStep, UnitStutter
    <3> QED BY <2>1, <3>2, <3>3, <3>4, PrinterKinds
  <2>2. ASSUME TInv, UNCHANGED tvars PROVE UnitStep
    <3>1. UNCHANGED <<frames, funcs, funcName, declared, blocks, called>>
      BY <2>2 DEF tvars, vars, output
    <3>2. Defs' = Defs
      BY <3>1 DEF Defs, InDefinition
    <3> QED BY <3>1, <3>2 DEF UnitStep, UnitStutter
  <2> QED BY <2>1, <2>2
<1>3. TInv /\ [TNext]_tvars => [Unit!Next]_(Unit!vars)
  BY <1>2, StepOfUnit
<1> QED BY <1>1, <1>3, TranslationHolds, PTL DEF TSpec, ImplementsUnit, Unit!Spec
-----------------------------------------------------------------------------
(* What CCG makes outside of the blocks that are inserted *)

\* Before the definitions: the block that nobody prints has no statements.
BlockOnly ==
  Walking /\ todo # <<>> =>
    \E c \in Calls : todo = <<c>> /\ c.op \in {"block", "locals"} /\ c.nest = ThrowawayNesting

\* In a line that has been begun: an operand.
OperandOnly ==
  frames # <<>> /\ frames[1].op = "endLine" /\ todo # <<>> =>
    \E c \in Calls : todo = <<c>> /\ c.op = "expression" /\ c.nest = InsertedNesting

LEMMA OneDone ==
  ASSUME NEW c \in Calls, todo = <<c>>
  PROVE  /\ todo # <<>> /\ Next1 = c /\ Tail(todo) = <<>>
         /\ Do(<<>>) => todo' = <<>>
         /\ \A d : Do(<<d>>) => todo' = <<d>>
<1>1. todo # <<>> /\ Next1 = c /\ Tail(todo) = <<>>
  BY DEF Next1
<1>2. ASSUME NEW d PROVE <<d>> \o <<>> = <<d>> /\ <<>> \o <<>> = <<>>
  OBVIOUS
<1> QED BY <1>1, <1>2 DEF Do

LEMMA OperandStep ==
  ASSUME MaxExpressionNesting <= InsertedNesting, NEW c \in Calls, todo = <<c>>,
         c.op = "expression", c.nest = InsertedNesting, Next
  PROVE  todo' = <<>> /\ UNCHANGED <<funcs, functions>>
<1>1. Next1 = c /\ (Do(<<>>) => todo' = <<>>)
  BY OneDone
<1>2. ~Shallow
  <2>1. MaxExpressionNesting \in Nat
    BY GeneratorAssumption
  <2> QED BY <1>1, <2>1 DEF Shallow, InsertedNesting
<1>3. BuildOperand
  <2>1. ~BlockStep /\ ~StatementStep /\ ~FunctionMade /\ ~MakeProgram
    BY <1>1 DEF BlockStep, StatementStep, FunctionMade, MakeProgram,
       EnterBlock, MakeLocal, BlockStatements, NextStatement, FunctionStatement,
       MakeStatement, BuildIf, BuildFor, BuildAssignment, BuildPtrAssignment,
       BuildReturn, BuildGoto, BuildFunctionCall, At
  <2>2. ExpressionStep
    BY <2>1 DEF Next, GenerateStep
  <2> QED BY <1>1, <1>2, <2>2 DEF ExpressionStep, BuildOperation, BuildAssignmentExpr,
          BuildFunctionCallExpr, BuildArguments, At
<1> QED BY <1>1, <1>3 DEF BuildOperand

LEMMA BlockOnlyStep ==
  ASSUME MaxBlockNesting <= ThrowawayNesting, NEW c \in Calls, todo = <<c>>,
         c.op \in {"block", "locals"}, c.nest = ThrowawayNesting, Next, TodoTypeOK'
  PROVE  /\ UNCHANGED <<funcs, functions>>
         /\ \/ todo' = <<>>
            \/ \E d \in Calls : todo' = <<d>> /\ d.op = "locals" /\ d.nest = ThrowawayNesting
<1>1. Next1 = c /\ (Do(<<>>) => todo' = <<>>) /\ \A d : Do(<<d>>) => todo' = <<d>>
  BY OneDone
<1>2. EnterBlock \/ MakeLocal \/ BlockStatements
  <2>1. ~StatementStep /\ ~ExpressionStep /\ ~FunctionMade /\ ~MakeProgram
    BY <1>1 DEF StatementStep, ExpressionStep, FunctionMade, MakeProgram,
       MakeStatement, BuildIf, BuildFor, BuildAssignment, BuildPtrAssignment,
       BuildReturn, BuildGoto, BuildFunctionCall, BuildOperand, BuildOperation,
       BuildAssignmentExpr, BuildFunctionCallExpr, BuildArguments, At
  <2>2. BlockStep
    BY <2>1 DEF Next, GenerateStep
  <2> QED BY <1>1, <2>2 DEF BlockStep, NextStatement, FunctionStatement, At
<1>3. ASSUME NEW d, todo' = <<d>>
      PROVE  d \in Calls
  <2>1. Len(todo') = 1 /\ todo'[1] = d
    BY <1>3
  <2> QED BY <2>1, ElementOfSeq DEF TodoTypeOK
<1>4. CASE EnterBlock
  <2>1. PICK k : Do(<<[c EXCEPT !.op = "locals", !.n = k]>>)
    BY <1>1, <1>4 DEF EnterBlock, At
  <2> DEFINE d == [c EXCEPT !.op = "locals", !.n = k]
  <2>2. d.op = "locals" /\ d.nest = c.nest
    BY DEF Calls
  <2> HIDE DEF d
  <2>3. todo' = <<d>> /\ d \in Calls
    BY <1>1, <1>3, <2>1 DEF d
  <2> QED BY <1>4, <2>2, <2>3 DEF EnterBlock
<1>5. CASE MakeLocal
  <2>1. PICK v : Do(<<[c EXCEPT !.ctx = Declare(@, v), !.n = @ - 1]>>)
    BY <1>1, <1>5 DEF MakeLocal
  <2> DEFINE d == [c EXCEPT !.ctx = Declare(@, v), !.n = @ - 1]
  <2>2. d.op = c.op /\ d.nest = c.nest
    BY DEF Calls
  <2>3. c.op = "locals"
    BY <1>1, <1>5 DEF MakeLocal, At
  <2> HIDE DEF d
  <2>4. todo' = <<d>> /\ d \in Calls
    BY <1>1, <1>3, <2>1 DEF d
  <2> QED BY <1>5, <2>2, <2>3, <2>4 DEF MakeLocal
<1>6. CASE BlockStatements
  <2>1. ~(Next1.nest < MaxBlockNesting)
    <3>1. MaxBlockNesting \in Nat
      BY GeneratorAssumption
    <3> QED BY <1>1, <3>1 DEF ThrowawayNesting
  <2> QED BY <1>1, <1>6, <2>1 DEF BlockStatements
<1> QED BY <1>2, <1>4, <1>5, <1>6

\* The printers call CCG from three places.
LEMMA MakingKinds ==
  ASSUME TNext
  PROVE  \/ Generate \/ Prototypes \/ InsertStatement \/ InsertExpression
         \/ todo = <<>> /\ todo' = <<>>
<1>1. CASE Definitions
  BY <1>1 DEF Definitions, SkipFunction, DefineFunction, PrintBody, GiveBackDepth, EndFunction,
     PrintMain, Reached, vars
<1>2. ASSUME NEW op, NEW calls, DoInsert(op, calls)
      PROVE  todo = <<>> /\ todo' = <<>>
  BY <1>2 DEF DoInsert, Reached, vars
<1>3. CASE \/ EndLine \/ Sequence \/ AnyStatement \/ AssignmentStatement \/ ExpressionStatement
           \/ LabeledStatement \/ CompoundStatement \/ JumpStatement \/ LoopStatement
           \/ IfElseStatement \/ IfStatement \/ SwitchStatement \/ CaseOfSwitch
  <2>1. \E op, calls : DoInsert(op, calls)
    BY <1>3 DEF EndLine, Sequence, AnyStatement, AssignmentStatement, ExpressionStatement,
       LabeledStatement, CompoundStatement, JumpStatement, LoopStatement, IfElseStatement,
       IfStatement, SwitchStatement, CaseOfSwitch, Plain, Deeper
  <2> QED BY <1>2, <2>1
<1>4. CASE OpenBrace \/ CloseBrace \/ PrintBlock
  BY <1>4 DEF OpenBrace, CloseBrace, PrintBlock, Reached, vars
<1> QED BY <1>1, <1>3, <1>4 DEF TNext, Inserting

LEMMA InsertionTop ==
  ASSUME TInv, InsertStatement \/ InsertExpression
  PROVE  /\ ~Walking' /\ frames' # <<>>
         /\ InsertStatement => frames'[1].op = "printBlock"
         /\ InsertExpression => frames'[1].op = "endLine"
<1>1. KeptInside
  BY InsertionKeeps
<1>2. ~Walking' /\ frames' # <<>>
  BY <1>1 DEF KeptInside, Walking, Defining
<1>3. PICK op \in {"insert", "inline"} : Reached(op)
  BY DEF InsertStatement, InsertExpression
<1>4. frames \in Seq(FrameType) /\ frames # <<>>
  BY <1>3, FirstFrame DEF TInv, Placed
<1>5. ASSUME NEW x, Proceed(<<x>>) PROVE frames'[1] = x
  <2>1. Tail(frames) \in Seq(FrameType)
    BY <1>4
  <2> QED BY <1>5, <2>1 DEF Proceed
<1>6. ASSUME InsertStatement PROVE frames'[1].op = "printBlock"
  <2>1. frames'[1] = Frame("printBlock", Len(funcs[cc.currfunc].text), cc.currfunc)
    BY <1>5, <1>6 DEF InsertStatement
  <2> QED BY <2>1 DEF Frame
<1>7. ASSUME InsertExpression PROVE frames'[1].op = "endLine"
  <2>1. frames'[1] = Insert("endLine")
    BY <1>5, <1>7 DEF InsertExpression
  <2> QED BY <2>1 DEF Insert, Frame
<1> QED BY <1>2, <1>6, <1>7

LEMMA OperandOnlyStep ==
  ASSUME MaxExpressionNesting <= InsertedNesting, TInv, OperandOnly, [TNext]_tvars
  PROVE  OperandOnly'
<1>1. CASE UNCHANGED tvars
  BY <1>1 DEF tvars, vars, OperandOnly
<1>2. CASE Generate
  <2>1. Next /\ frames' = frames
    BY <1>2, GenerateKinds
  <2>2. todo # <<>>
    BY <2>1, StepShaped DEF TInv, Built, Shaped
  <2> SUFFICES ASSUME frames # <<>>, frames[1].op = "endLine" PROVE todo' = <<>>
    BY <2>1 DEF OperandOnly
  <2>3. PICK c \in Calls : todo = <<c>> /\ c.op = "expression" /\ c.nest = InsertedNesting
    BY <2>2 DEF OperandOnly
  <2> QED BY <2>1, <2>3, OperandStep
<1>3. CASE Prototypes
  <2>1. Walking'
    BY <1>3, PrototypesKeep
  <2> QED BY <2>1 DEF Walking, OperandOnly
<1>4. CASE InsertStatement
  BY <1>4, InsertionTop DEF OperandOnly
<1>5. CASE InsertExpression
  <2> DEFINE c == Expr(cc, InsertedNesting)
  <2>1. todo' = <<c>>
    BY <1>5 DEF InsertExpression, Make
  <2>2. cc \in Context
    BY DEF TInv, Typed
  <2>3. c \in Calls /\ c.op = "expression" /\ c.nest = InsertedNesting
    BY <2>2, CallRecord DEF Ops, Call, Expr, InsertedNesting
  <2> HIDE DEF c
  <2> QED BY <2>1, <2>3 DEF OperandOnly
<1>6. CASE todo' = <<>>
  BY <1>6 DEF OperandOnly
<1> QED BY <1>1, <1>2, <1>3, <1>4, <1>5, <1>6, MakingKinds

LEMMA BlockKept ==
  ASSUME MaxBlockNesting <= ThrowawayNesting, TInv, BlockOnly, [TNext]_tvars
  PROVE  BlockOnly'
<1>1. CASE UNCHANGED tvars
  BY <1>1 DEF tvars, vars, BlockOnly, Walking
<1>2. CASE Generate
  <2>1. Next /\ frames' = frames
    BY <1>2, GenerateKinds
  <2>2. todo # <<>> /\ TodoTypeOK'
    BY <2>1, StepShaped, StepGood DEF TInv, Built, Shaped, GoodProgram, TodoOK, TodoTypeOK
  <2> SUFFICES ASSUME Walking
               PROVE  todo' = <<>> \/ \E c \in Calls :
                        todo' = <<c>> /\ c.op \in {"block", "locals"} /\ c.nest = ThrowawayNesting
    BY <2>1 DEF BlockOnly, Walking
  <2>3. PICK c \in Calls :
          todo = <<c>> /\ c.op \in {"block", "locals"} /\ c.nest = ThrowawayNesting
    BY <2>2 DEF BlockOnly
  <2> QED BY <2>1, <2>2, <2>3, BlockOnlyStep
<1>3. CASE Prototypes
  <2> DEFINE c == Block(cc', ThrowawayNesting)
  <2>1. todo' = <<c>>
    BY <1>3 DEF Prototypes, Make
  <2>2. cc' \in Context
    BY <1>3, PrototypesKeep DEF TInv, Typed
  <2>3. c \in Calls /\ c.op = "block" /\ c.nest = ThrowawayNesting
    BY <2>2, CallRecord DEF Ops, Call, Block, ThrowawayNesting
  <2> HIDE DEF c
  <2> QED BY <2>1, <2>3 DEF BlockOnly
<1>4. CASE InsertStatement \/ InsertExpression
  BY <1>4, InsertionTop DEF BlockOnly
<1>5. CASE todo' = <<>>
  BY <1>5 DEF BlockOnly
<1> QED BY <1>1, <1>2, <1>3, <1>4, <1>5, MakingKinds

LEMMA OnlyInit == TInit => BlockOnly /\ OperandOnly
<1> SUFFICES ASSUME TInit PROVE BlockOnly /\ OperandOnly
  OBVIOUS
<1>1. frames = <<Frame("prototypes", 0, 0)>> /\ Frame("prototypes", 0, 0).op = "prototypes"
  BY DEF TInit, Frame
<1>2. frames[1].op = "prototypes"
  BY <1>1
<1> QED BY <1>2 DEF BlockOnly, OperandOnly, Walking

\* makeFunction() prints no declaration in the middle of an expression, as long as the
\* nesting insertExpression() asks for is one at which only operands are made
\* (insertExpression, proto_to_c.cc; makeExpression, expression.c).
THEOREM ExternsCorrect ==
  ASSUME MaxExpressionNesting <= InsertedNesting
  PROVE  TSpec => []ExternAtLineStart
<1>1. TInv /\ OperandOnly => ExternAtLineStart
  <2> SUFFICES ASSUME TInv, OperandOnly, todo # <<>>, Next1.op = "functionMade",
                      NEW k \in DOMAIN frames, frames[k].op = "endLine"
               PROVE  FALSE
    BY DEF ExternAtLineStart
  <2>1. FramesOK /\ DOMAIN frames = 1 .. Len(frames) /\ Len(frames) \in Nat
    BY DEF TInv, Placed, FramesOK
  <2>2. k = 1 \/ k \in 2 .. Len(frames)
    BY <2>1
  <2>3. k = 1 /\ frames # <<>>
    BY <2>1, <2>2 DEF FramesOK, OnTop
  <2>4. PICK c \in Calls : todo = <<c>> /\ c.op = "expression"
    BY <2>3 DEF OperandOnly
  <2> QED BY <2>4, OneDone
<1>2. TInit => OperandOnly
  BY OnlyInit
<1>3. TInv /\ OperandOnly /\ [TNext]_tvars => OperandOnly'
  BY OperandOnlyStep
<1> QED BY <1>1, <1>2, <1>3, TranslationHolds, PTL DEF TSpec
-----------------------------------------------------------------------------
(* What is printed of a function *)

First(f, n) == {<<f, i>> : i \in 1 .. n}

\* Of the one being defined: nothing, then all of its text but what CCG is adding.
PrintedNow ==
  Defining =>
    /\ frames[1].op = "body" => funcs[Now].body = Len(funcs[Now].text) /\ printed[Now] = {}
    /\ frames[1].op = "printBlock" =>
         frames[1].n <= Len(funcs[Now].text) /\ printed[Now] = First(Now, frames[1].n)
    /\ frames[1].op \notin {"body", "printBlock"} =>
         printed[Now] = First(Now, Len(funcs[Now].text))

\* A function still to be defined has been given no text since it was made.
NotYet ==
  \A f \in Listing : funcs[f].name \notin funcName /\ ~(Defining /\ f = Now) =>
    funcs[f].body = Len(funcs[f].text) /\ printed[f] = {}

Unprinted == \A f \in 1 .. MaxFunctions : f \notin Listing => printed[f] = {}

AllPrinted == PrintedNow /\ NotYet /\ Unprinted

\* A definition goes on, and what there is of the function has been printed.
LEMMA InsidePrinted ==
  ASSUME TInv, KeptInside, AllPrinted, UNCHANGED <<funcs, functions, funcName>>,
         \A f \in 1 .. MaxFunctions : f # Now => printed'[f] = printed[f],
         printed'[Now] = First(Now, Len(funcs[Now].text))
  PROVE  AllPrinted'
<1>1. /\ Defining /\ Defining' /\ Now' = Now /\ frames'[1].op # "body"
      /\ frames'[1].op = "printBlock" => frames'[1].n = Len(funcs[Now].text)
      /\ Built /\ Placed
  BY DEF KeptInside, TInv
<1>2. Now \in Listing /\ Now \in 1 .. Len(funcs) /\ Listing' = Listing
  BY <1>1, NowContext DEF Listing
<1>3. Len(funcs[Now].text) \in Nat
  <2>1. funcs[Now] \in Function
    BY <1>1, <1>2, ElementOfSeq DEF Built, GoodProgram, FuncsOK, FuncsTypeOK, Function
  <2> QED BY <2>1 DEF Function
<1>4. funcs' = funcs /\ funcName' = funcName
  OBVIOUS
<1>5. \A f \in Listing : f \in 1 .. MaxFunctions
  <2>1. \A f \in Listing : f \in 1 .. Len(funcs)
    BY <1>1 DEF Built, Finished
  <2>2. Len(funcs) \in Nat /\ Len(funcs) <= MaxFunctions /\ MaxFunctions \in Nat
    BY <1>1, GeneratorAssumption DEF Built, GoodProgram, LimitOK, FuncsOK, FuncsTypeOK
  <2> QED BY <2>1, <2>2
<1>6. PrintedNow'
  <2>1. printed'[Now'] = First(Now', Len(funcs'[Now'].text))
    BY <1>1, <1>4
  <2>2. Len(funcs'[Now'].text) <= Len(funcs'[Now'].text)
    BY <1>1, <1>3, <1>4
  <2>3. frames'[1].op = "printBlock" => frames'[1].n = Len(funcs'[Now'].text)
    BY <1>1, <1>4
  <2> QED BY <1>1, <2>1, <2>2, <2>3 DEF PrintedNow
<1>7. NotYet'
  BY <1>1, <1>2, <1>4, <1>5 DEF AllPrinted, NotYet
<1>8. Unprinted'
  BY <1>2 DEF AllPrinted, Unprinted
<1> QED BY <1>6, <1>7, <1>8 DEF AllPrinted

\* A step that prints nothing of the function, and begins no definition.
LEMMA StillPrinted ==
  ASSUME TInv, KeptInside, AllPrinted, frames[1].op \notin {"body", "printBlock"},
         UNCHANGED <<funcs, functions, funcName, printed>>
  PROVE  AllPrinted'
<1>1. Defining
  BY DEF KeptInside
<1>2. printed'[Now] = First(Now, Len(funcs[Now].text))
  BY <1>1 DEF AllPrinted, PrintedNow
<1> QED BY <1>2, InsidePrinted

LEMMA FrameNumber ==
  ASSUME frames \in Seq(FrameType), frames # <<>>
  PROVE  frames[1].n \in Nat
<1>1. frames[1] \in FrameType
  OBVIOUS
<1> QED BY <1>1 DEF FrameType

\* CCG adds to the text of the function being defined only.
LEMMA GeneratePrinted ==
  ASSUME MaxExpressionNesting <= InsertedNesting, MaxBlockNesting <= ThrowawayNesting,
         TInv, BlockOnly, OperandOnly, AllPrinted, Generate
  PROVE  AllPrinted'
<1>1. /\ Next /\ frames' = frames /\ printed' = printed /\ funcName' = funcName
      /\ Built /\ Placed /\ Inserted
  BY GenerateKinds DEF TInv
<1>2. GoodProgram /\ Nested /\ ArgumentsDue /\ Finished /\ Shaped /\ todo # <<>>
  BY <1>1, StepShaped DEF Built, Shaped
<1>3. /\ (Defining' <=> Defining) /\ Now' = Now
  BY <1>1 DEF Defining, Now
<1>4. ASSUME NEW f \in Listing
      PROVE  /\ f \in 1 .. Len(funcs) /\ f \in Listing'
             /\ funcs'[f].name = funcs[f].name /\ funcs'[f].body = funcs[f].body
             /\ f # Next1.ctx.currfunc => funcs'[f].text = funcs[f].text
             /\ Len(funcs[f].text) \in Nat /\ Len(funcs'[f].text) \in Nat
             /\ Len(funcs[f].text) <= Len(funcs'[f].text)
  BY <1>1, <1>4, ListedSteady DEF Grows, GrowsIn
<1>5. 1 \in 1 .. Len(todo) /\ Next1 = todo[1]
  BY <1>2, StackNumbers
<1>6. frames # <<>> /\ frames[1].op \in Callers
  BY <1>1, <1>2 DEF Placed, CalledOK
<1>7. ASSUME NEW f \in Listing, ~(Defining /\ f = Now)
      PROVE  funcs'[f].text = funcs[f].text
  <2>1. Beginning \/ Walking \/ Defining
    BY <1>1, <1>6 DEF Placed, FramesOK
  <2>2. CASE Beginning
    <3>1. f # Next1.ctx.currfunc
      BY <1>1, <1>5, <2>2 DEF Inserted, ListedClosed
    <3> QED BY <1>4, <3>1
  <2>3. CASE Walking
    <3>1. PICK c \in Calls :
            todo = <<c>> /\ c.op \in {"block", "locals"} /\ c.nest = ThrowawayNesting
      BY <1>2, <2>3 DEF BlockOnly
    <3>2. TodoTypeOK'
      BY <1>1, <1>2, StepGood DEF GoodProgram, TodoOK, TodoTypeOK
    <3> QED BY <1>1, <3>1, <3>2, BlockOnlyStep
  <2>4. CASE Defining
    <3>1. f # Next1.ctx.currfunc
      BY <1>1, <1>5, <1>7, <2>4 DEF Inserted
    <3> QED BY <1>4, <3>1
  <2> QED BY <2>1, <2>2, <2>3, <2>4
<1>8. PrintedNow'
  <2> SUFFICES ASSUME Defining PROVE PrintedNow'
    BY <1>3 DEF PrintedNow
  <2>1. Now \in Listing
    BY <1>1, NowContext
  <2>2. frames[1].op \in {"printBlock", "endLine"}
    <3>1. Len(frames) \in Nat
      BY <1>1 DEF Placed, FramesOK
    <3>2. CASE Len(frames) = 2
      BY <1>6, <3>2 DEF Defining, Callers
    <3>3. CASE Len(frames) # 2
      <4>1. 1 \in 1 .. Len(frames) - 2
        <5> DEFINE n == Len(frames)
        <5>1. n > 1 /\ n \in Nat /\ n # 2
          BY <3>1, <3>3 DEF Defining
        <5> HIDE DEF n
        <5>2. 1 \in 1 .. n - 2
          BY <5>1
        <5> QED BY <5>2 DEF n
      <4> QED BY <1>6, <4>1 DEF Defining, Callers, Inner
    <3> QED BY <3>2, <3>3
  <2>3. CASE frames[1].op = "printBlock"
    <3>1. frames[1].n <= Len(funcs[Now].text) /\ printed[Now] = First(Now, frames[1].n)
      BY <2>3 DEF AllPrinted, PrintedNow
    <3>2. frames[1].n \in Nat
      BY <1>1, <1>6, FrameNumber DEF Placed, FramesOK
    <3>3. /\ Len(funcs[Now].text) \in Nat /\ Len(funcs'[Now].text) \in Nat
          /\ Len(funcs[Now].text) <= Len(funcs'[Now].text)
      BY <1>4, <2>1
    <3>4. frames[1].n <= Len(funcs'[Now].text)
      BY <3>1, <3>2, <3>3
    <3> QED BY <1>1, <1>3, <2>3, <3>1, <3>4 DEF PrintedNow
  <2>4. CASE frames[1].op = "endLine"
    <3>1. PICK c \in Calls : todo = <<c>> /\ c.op = "expression" /\ c.nest = InsertedNesting
      BY <1>2, <1>6, <2>4 DEF OperandOnly
    <3>2. funcs' = funcs
      BY <1>1, <3>1, OperandStep
    <3>3. printed[Now] = First(Now, Len(funcs[Now].text))
      BY <2>4 DEF AllPrinted, PrintedNow
    <3> QED BY <1>1, <1>3, <2>4, <3>2, <3>3 DEF PrintedNow
  <2> QED BY <2>2, <2>3, <2>4
<1>9. \/ /\ MadeStep /\ Next1.f = Next1.ctx.currfunc /\ Listing' = Listing \cup {Next1.f}
         /\ Next1.ctx.currfunc \in 1 .. Len(funcs)
      \/ ~MadeStep /\ Listing' = Listing
  BY <1>2, ListingSteps
<1>10. NotYet'
  <2> SUFFICES ASSUME NEW f \in Listing', funcs'[f].name \notin funcName', ~(Defining /\ f = Now)
               PROVE  funcs'[f].body = Len(funcs'[f].text) /\ printed'[f] = {}
    BY <1>3 DEF NotYet
  <2>1. CASE f \in Listing
    <3>1. funcs[f].body = Len(funcs[f].text) /\ printed[f] = {}
      BY <1>1, <1>4, <2>1 DEF AllPrinted, NotYet
    <3> QED BY <1>1, <1>4, <1>7, <2>1, <3>1
  <2>2. CASE f \notin Listing
    <3>1. MadeStep /\ f = Next1.f /\ f \in 1 .. Len(funcs)
      BY <1>9, <2>2
    <3>2. funcs' = [funcs EXCEPT ![f] =
                     [funcs[f] EXCEPT !.context = Next1.ctx, !.body = Len(funcs[f].text)]]
      BY <3>1 DEF MadeStep
    <3>3. funcs[f] \in Function /\ funcs \in Seq(Function)
      BY <1>2, <3>1, ElementOfSeq DEF GoodProgram, FuncsOK, FuncsTypeOK, Function
    <3> DEFINE r == [funcs[f] EXCEPT !.context = Next1.ctx, !.body = Len(funcs[f].text)]
    <3>4. r.text = funcs[f].text /\ r.body = Len(funcs[f].text)
      BY <3>3 DEF Function
    <3> HIDE DEF r
    <3>5. funcs'[f] = r
      BY <1>2, <3>1, <3>2, OneChanged DEF r
    <3>6. f \in 1 .. MaxFunctions
      <4>1. Len(funcs) \in Nat /\ Len(funcs) <= MaxFunctions /\ MaxFunctions \in Nat
        BY <1>2, GeneratorAssumption DEF GoodProgram, LimitOK, FuncsOK, FuncsTypeOK
      <4> QED BY <3>1, <4>1
    <3>7. printed[f] = {}
      BY <2>2, <3>6 DEF AllPrinted, Unprinted
    <3> QED BY <1>1, <3>4, <3>5, <3>7
  <2> QED BY <2>1, <2>2
<1>11. Unprinted'
  BY <1>1, <1>9 DEF AllPrinted, Unprinted
<1> QED BY <1>8, <1>10, <1>11 DEF AllPrinted

\* Most calls of the printers print nothing of the function.
LEMMA SilentKinds ==
  ASSUME TInv, TNext
  PROVE  \/ Generate \/ Prototypes \/ SkipFunction \/ DefineFunction \/ EndFunction \/ PrintMain
         \/ PrintBody \/ PrintBlock
         \/ /\ KeptInside /\ frames[1].op \notin {"body", "printBlock"}
            /\ UNCHANGED <<funcs, functions, funcName, printed>>
<1> DEFINE Silent == \E op : /\ Reached(op) /\ op \notin {"body", "printBlock"}
                             /\ UNCHANGED <<funcs, functions, funcName, printed>>
<1>1. ASSUME Silent, KeptInside
      PROVE  /\ KeptInside /\ frames[1].op \notin {"body", "printBlock"}
             /\ UNCHANGED <<funcs, functions, funcName, printed>>
  <2>1. PICK op : /\ Reached(op) /\ op \notin {"body", "printBlock"}
                  /\ UNCHANGED <<funcs, functions, funcName, printed>>
    BY <1>1
  <2>2. frames[1].op = op
    BY <2>1, FirstFrame DEF TInv, Placed
  <2> QED BY <1>1, <2>1, <2>2
<1>2. CASE GiveBackDepth \/ OpenBrace \/ CloseBrace
  <2>1. KeptInside
    BY <1>2, GiveBackKeeps, BraceKeeps
  <2>2. Silent
    <3>1. CASE GiveBackDepth
      <4>1. Reached("depth") /\ UNCHANGED <<funcs, functions, funcName, printed>>
        BY <3>1 DEF GiveBackDepth, vars, output
      <4> QED BY <4>1
    <3>2. CASE OpenBrace
      <4>1. Reached("open") /\ UNCHANGED <<funcs, functions, funcName, printed>>
        BY <3>2 DEF OpenBrace, vars
      <4> QED BY <4>1
    <3>3. CASE CloseBrace
      <4>1. Reached("close") /\ UNCHANGED <<funcs, functions, funcName, printed>>
        BY <3>3 DEF CloseBrace, vars
      <4> QED BY <4>1
    <3> QED BY <1>2, <3>1, <3>2, <3>3
  <2> HIDE DEF Silent
  <2> QED BY <1>1, <2>1, <2>2
<1>3. CASE InsertStatement \/ InsertExpression
  <2>1. KeptInside
    BY <1>3, InsertionKeeps
  <2>2. UNCHANGED <<funcs, functions, funcName, printed>>
    BY <1>3 DEF InsertStatement, InsertExpression, Make, output
  <2>3. Reached("insert") \/ Reached("inline")
    BY <1>3 DEF InsertStatement, InsertExpression
  <2>4. Silent
    BY <2>2, <2>3
  <2> HIDE DEF Silent
  <2> QED BY <1>1, <2>1, <2>4
<1>4. CASE \/ EndLine \/ Sequence \/ AnyStatement \/ AssignmentStatement \/ ExpressionStatement
           \/ LabeledStatement \/ CompoundStatement \/ JumpStatement \/ LoopStatement
           \/ IfElseStatement \/ IfStatement \/ SwitchStatement \/ CaseOfSwitch
  <2>1. KeptInside
    BY <1>4, StatementKeeps
  <2>2. PICK op : op \notin {"body", "printBlock"} /\ \E calls : DoInsert(op, calls)
    <3>1. ASSUME NEW op, op \notin {"body", "printBlock"}, NEW calls,
                 Plain(op, calls) \/ Deeper(op, calls)
          PROVE  \E o : o \notin {"body", "printBlock"} /\ \E c : DoInsert(o, c)
      BY <3>1 DEF Plain, Deeper
    <3>2. CASE EndLine \/ Sequence \/ AnyStatement \/ CaseOfSwitch
      BY <3>1, <3>2 DEF EndLine, Sequence, AnyStatement, CaseOfSwitch
    <3>3. CASE AssignmentStatement \/ ExpressionStatement \/ LabeledStatement \/ CompoundStatement
      BY <3>1, <3>3 DEF AssignmentStatement, ExpressionStatement, LabeledStatement,
         CompoundStatement
    <3>4. CASE JumpStatement \/ LoopStatement \/ IfElseStatement \/ IfStatement \/ SwitchStatement
      BY <3>1, <3>4 DEF JumpStatement, LoopStatement, IfElseStatement, IfStatement,
         SwitchStatement
    <3> QED BY <1>4, <3>2, <3>3, <3>4
  <2>3. Reached(op) /\ UNCHANGED <<funcs, functions, funcName, printed>>
    BY <2>2 DEF DoInsert, vars, output
  <2>4. Silent
    BY <2>2, <2>3
  <2> HIDE DEF Silent
  <2> QED BY <1>1, <2>1, <2>4
<1> HIDE DEF Silent
<1> QED BY <1>2, <1>3, <1>4 DEF TNext, Definitions, Inserting

\* Between two definitions, and before the first.
LEMMA WalkingPrinted ==
  ASSUME TInv, AllPrinted, ~Defining, ~Defining',
         UNCHANGED <<funcs, functions, funcName, printed>>
  PROVE  AllPrinted'
<1>1. Listing' = Listing
  BY DEF Listing
<1> QED BY <1>1 DEF AllPrinted, PrintedNow, NotYet, Unprinted

LEMMA DefinePrinted ==
  ASSUME TInv, AllPrinted, DefineFunction
  PROVE  AllPrinted'
<1>1. Reached("definitions")
  BY DEF DefineFunction
<1>2. /\ Built /\ ~Defining /\ frames # <<>> /\ Frame1 = frames[1] /\ frames \in Seq(FrameType)
      /\ frames[1].n \in 1 .. Len(functions) + 1 /\ Len(functions) \in Nat
  BY <1>1, WalkingFirst
<1> DEFINE f == functions[frames[1].n]
           x == Frame("body", 0, f)
<1>3. /\ frames[1].n <= Len(functions) /\ funcs[f].name \notin funcName
      /\ UNCHANGED <<vars, depth, funcName, printed, called>>
      /\ \E y, z : Proceed(<<x, y, z>>)
  BY <1>2 DEF DefineFunction
<1>4. Defining' /\ Now' = f
  BY DefineKeeps
<1>5. f \in Listing
  <2>1. frames[1].n \in 1 .. Len(functions)
    BY <1>2, <1>3
  <2> QED BY <2>1 DEF Listing
<1> HIDE DEF f
<1>6. frames'[1].op = "body"
  <2>1. Tail(frames) \in Seq(FrameType)
    BY <1>2
  <2>2. frames'[1] = x
    BY <1>3, <2>1 DEF Proceed
  <2> QED BY <2>2 DEF Frame
<1>7. funcs' = funcs /\ Listing' = Listing /\ funcName' = funcName /\ printed' = printed
  BY <1>3 DEF vars, Listing
<1>8. funcs[f].body = Len(funcs[f].text) /\ printed[f] = {}
  BY <1>2, <1>3, <1>5 DEF AllPrinted, NotYet
<1>9. PrintedNow'
  BY <1>4, <1>6, <1>7, <1>8 DEF PrintedNow
<1>10. NotYet' /\ Unprinted'
  BY <1>2, <1>7 DEF AllPrinted, NotYet, Unprinted
<1> QED BY <1>9, <1>10 DEF AllPrinted

LEMMA EndPrinted ==
  ASSUME TInv, AllPrinted, EndFunction
  PROVE  AllPrinted'
<1>1. Reached("endFunction")
  BY DEF EndFunction
<1>2. Defining /\ Len(frames) = 2 /\ Frame1 = frames[1]
  BY <1>1, FirstFrame DEF TInv, Placed
<1>3. Now = frames[1].f
  BY <1>2 DEF Now
<1>4. /\ funcName' = funcName \cup {funcs[Now].name} /\ UNCHANGED <<vars, printed>>
  BY <1>2, <1>3 DEF EndFunction
<1>5. ~Defining'
  BY EndKeeps, WalkingOn
<1>6. funcs' = funcs /\ Listing' = Listing /\ printed' = printed
  BY <1>4 DEF vars, Listing
<1>7. NotYet'
  BY <1>4, <1>6 DEF AllPrinted, NotYet
<1> QED BY <1>5, <1>6, <1>7 DEF AllPrinted, PrintedNow, Unprinted

LEMMA NowLow ==
  ASSUME Built, Placed, Defining
  PROVE  Now \in 1 .. MaxFunctions
<1>1. Now \in 1 .. Len(funcs)
  BY NowContext
<1>2. Len(funcs) \in Nat /\ Len(funcs) <= MaxFunctions /\ MaxFunctions \in Nat
  BY GeneratorAssumption DEF Built, GoodProgram, LimitOK, FuncsOK, FuncsTypeOK
<1> QED BY <1>1, <1>2

LEMMA PrintBodyPrinted ==
  ASSUME TInv, AllPrinted, PrintBody
  PROVE  AllPrinted'
<1>1. Reached("body") /\ "body" \in Inner
  BY DEF PrintBody, Inner, FrameOps
<1>2. /\ Built /\ Placed /\ Typed /\ frames[1].op = "body" /\ Defining /\ Frame1 = frames[1]
  BY <1>1, FirstFrame DEF TInv, Placed
<1>3. frames[1].f = Now
  BY <1>2 DEF Placed, NowOK
<1>4. /\ UNCHANGED <<vars, cc, depth, funcName, declared, blocks>>
      /\ PrintText(Now, Now, 1, funcs[Now].body)
  BY <1>2, <1>3 DEF PrintBody
<1>5. KeptInside
  BY PrintBodyKeeps
<1>6. Now \in 1 .. MaxFunctions
  BY <1>2, NowLow
<1>7. funcs[Now].body = Len(funcs[Now].text) /\ printed[Now] = {}
  BY <1>2 DEF AllPrinted, PrintedNow
<1>8. printed' = [printed EXCEPT ![Now] = @ \cup First(Now, Len(funcs[Now].text))]
  BY <1>4, <1>7 DEF PrintText, First
<1>9. /\ printed'[Now] = First(Now, Len(funcs[Now].text))
      /\ \A f \in 1 .. MaxFunctions : f # Now => printed'[f] = printed[f]
  BY <1>2, <1>6, <1>7, <1>8 DEF Typed
<1>10. UNCHANGED <<funcs, functions, funcName>>
  BY <1>4 DEF vars
<1> QED BY <1>5, <1>9, <1>10, InsidePrinted

LEMMA PrintBlockPrinted ==
  ASSUME TInv, AllPrinted, PrintBlock
  PROVE  AllPrinted'
<1>1. Reached("printBlock") /\ "printBlock" \in Inner
  BY DEF PrintBlock, Inner, FrameOps
<1>2. /\ Built /\ Placed /\ Typed /\ FramesOK /\ frames[1].op = "printBlock" /\ Defining
      /\ Frame1 = frames[1] /\ frames \in Seq(FrameType) /\ frames # <<>>
  BY <1>1, FirstFrame DEF TInv, Placed
<1>3. Printing = Now /\ frames[1].f = Now
  BY <1>2, PrintingNow DEF Placed, NowOK
<1>4. /\ UNCHANGED <<vars, cc, depth, funcName, declared, blocks>>
      /\ PrintText(Now, Now, frames[1].n + 1, Len(funcs[Now].text))
  BY <1>2, <1>3 DEF PrintBlock
<1>5. KeptInside
  BY PrintBlockKeeps
<1>6. Now \in 1 .. MaxFunctions
  BY <1>2, NowLow
<1> DEFINE n == frames[1].n
           m == Len(funcs[Now].text)
<1>7. n <= m /\ printed[Now] = First(Now, n)
  BY <1>2 DEF AllPrinted, PrintedNow
<1>8. n \in Nat /\ m \in Nat
  <2>1. Now \in 1 .. Len(funcs)
    BY <1>2, NowContext
  <2>2. funcs[Now] \in Function
    BY <1>2, <2>1, ElementOfSeq DEF Built, GoodProgram, FuncsOK, FuncsTypeOK, Function
  <2> QED BY <1>2, <2>2, FrameNumber DEF Function
<1>9. printed' = [printed EXCEPT ![Now] = @ \cup {<<Now, i>> : i \in n + 1 .. m}]
  BY <1>4 DEF PrintText
<1> HIDE DEF n, m
<1>10. 1 .. m = (1 .. n) \cup (n + 1 .. m)
  BY <1>7, <1>8
<1>11. First(Now, n) \cup {<<Now, i>> : i \in n + 1 .. m} = First(Now, m)
  BY <1>10 DEF First
<1>12. /\ printed'[Now] = First(Now, m)
       /\ \A f \in 1 .. MaxFunctions : f # Now => printed'[f] = printed[f]
  BY <1>2, <1>6, <1>7, <1>9, <1>11 DEF Typed
<1>13. UNCHANGED <<funcs, functions, funcName>>
  BY <1>4 DEF vars
<1> QED BY <1>5, <1>12, <1>13, InsidePrinted DEF m

LEMMA PrintedStep ==
  ASSUME MaxExpressionNesting <= InsertedNesting, MaxBlockNesting <= ThrowawayNesting,
         TInv, BlockOnly, OperandOnly, AllPrinted, [TNext]_tvars
  PROVE  AllPrinted'
<1>1. CASE Prototypes
  <2>1. Reached("prototypes") /\ UNCHANGED <<funcs, functions, funcName, printed>>
    BY <1>1 DEF Prototypes, Make
  <2>2. ~Defining
    BY <2>1, FirstFrame DEF TInv, Placed, Beginning, Defining
  <2>3. ~Defining'
    BY <1>1, PrototypesKeep, WalkingOn
  <2> QED BY <2>1, <2>2, <2>3, WalkingPrinted
<1>2. CASE SkipFunction \/ PrintMain
  <2>1. Reached("definitions") /\ UNCHANGED <<funcs, functions, funcName, printed>>
    BY <1>2 DEF SkipFunction, PrintMain, vars, output
  <2>2. ~Defining
    BY <2>1, WalkingFirst
  <2>3. ~Defining'
    <3>1. CASE SkipFunction
      BY <3>1, SkipKeeps, WalkingOn
    <3>2. CASE PrintMain
      BY <3>2, MainKeeps DEF Defining
    <3> QED BY <1>2, <3>1, <3>2
  <2> QED BY <2>1, <2>2, <2>3, WalkingPrinted
<1>3. CASE UNCHANGED tvars
  <2>1. UNCHANGED <<frames, funcs, functions, funcName, printed>>
    BY <1>3 DEF tvars, vars, output
  <2>2. (Defining' <=> Defining) /\ Now' = Now /\ Listing' = Listing
    BY <2>1 DEF Defining, Now, Listing
  <2> QED BY <2>1, <2>2 DEF AllPrinted, PrintedNow, NotYet, Unprinted
<1> QED
  BY <1>1, <1>2, <1>3, SilentKinds, GeneratePrinted, DefinePrinted, EndPrinted,
     PrintBodyPrinted, PrintBlockPrinted, StillPrinted

LEMMA PrintedInit == TInit => AllPrinted
<1> SUFFICES ASSUME TInit PROVE AllPrinted
  OBVIOUS
<1>1. Len(frames) = 1 /\ functions = <<>> /\ printed = [f \in 1 .. MaxFunctions |-> {}]
  BY DEF TInit, Init
<1>2. ~Defining
  BY <1>1 DEF Defining
<1>3. Listing = {}
  BY <1>1 DEF Listing
<1> QED BY <1>1, <1>2, <1>3 DEF AllPrinted, PrintedNow, NotYet, Unprinted

\* When the definition of a function ends, all of its text has been printed, whoever had
\* CCG write it: so every jump has its label printed with it, and none is left without one
\* by the block that nobody prints or by an expression in a line that has been begun
\* (selectLabel, label.c; insertStatement and insertExpression, proto_to_c.cc).
THEOREM JumpsPrintedCorrect ==
  ASSUME MaxExpressionNesting <= InsertedNesting, MaxBlockNesting <= ThrowawayNesting
  PROVE  TSpec => []JumpsPrinted
<1>1. TInv /\ AllPrinted => JumpsPrinted
  <2> SUFFICES ASSUME TInv, AllPrinted, NEW k \in InDefinition, k = 1,
                      NEW jump \in printed[frames[k].f], funcs[jump[1]].text[jump[2]][1] = "goto"
               PROVE  \E target \in printed[frames[k].f] :
                        /\ target[1] = jump[1]
                        /\ funcs[target[1]].text[target[2]]
                             = <<"label", funcs[jump[1]].text[jump[2]][2]>>
    BY DEF JumpsPrinted
  <2>1. Built /\ Placed /\ FramesOK
    BY DEF TInv, Placed
  <2>2. frames[1].op = "endFunction"
    BY DEF InDefinition
  <2>3. Defining /\ frames[k].f = Now
    <3>1. Defining
      BY <2>1, PrintingNow
    <3>2. InDefinition = {Len(frames) - 1}
      BY <2>1, <3>1, PrintingNow
    <3> QED BY <3>1, <3>2 DEF Now
  <2>4. printed[Now] = First(Now, Len(funcs[Now].text))
    BY <2>2, <2>3 DEF AllPrinted, PrintedNow
  <2>5. PICK i \in 1 .. Len(funcs[Now].text) : jump = <<Now, i>>
    BY <2>3, <2>4 DEF First
  <2>6. Labelled(funcs[Now])
    BY <2>1, <2>3, NowContext DEF Built, LabelsOK
  <2> DEFINE t == funcs[Now].text
  <2>7. t[i][1] = "goto"
    BY <2>5
  <2>8. PICK j \in 1 .. Len(t) : t[j] = <<"label", t[i][2]>>
    BY <2>5, <2>6, <2>7 DEF Labelled, LabelsFit
  <2>9. <<Now, j>> \in printed[Now]
    BY <2>4, <2>8 DEF First
  <2> QED BY <2>3, <2>5, <2>8, <2>9
<1>2. TInit => BlockOnly /\ OperandOnly /\ AllPrinted
  BY OnlyInit, PrintedInit
<1>3. TInv /\ OperandOnly /\ [TNext]_tvars => OperandOnly'
  BY OperandOnlyStep
<1>4. TInv /\ BlockOnly /\ [TNext]_tvars => BlockOnly'
  BY BlockKept
<1>5. TInv /\ BlockOnly /\ OperandOnly /\ AllPrinted /\ [TNext]_tvars => AllPrinted'
  BY PrintedStep
<1> QED BY <1>1, <1>2, <1>3, <1>4, <1>5, TranslationHolds, PTL DEF TSpec
=============================================================================
