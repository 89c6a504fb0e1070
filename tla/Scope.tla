-------------------------------- MODULE Scope --------------------------------
(***************************************************************************)
(* Variables and scopes of CCG, shared by the models of its builders       *)
(* (Generator) and of its printers (Printers): what a variable is, how a    *)
(* Context grows, what may be drawn from it, and when a draw has no         *)
(* candidate (src/lib/ccg: variable.c, pointer.c, integer.c).               *)
(***************************************************************************)
EXTENDS Integers, Sequences, FiniteSets

CONSTANTS
  Widths,                 \* the widths of the integer types (8, 16, 32, 64)
  MaxLocalvars,           \* cmdline.max_localvars (4)
  MaxFunctionParameters,  \* cmdline.max_function_parameters (4)
  MaxStatementsPerBlock,  \* cmdline.max_statements_per_block (7)
  MaxExpressionNesting,   \* cmdline.max_expression_nesting (8)
  MaxBlockNesting,        \* cmdline.max_block_nesting (7)
  MaxPointerDepth         \* cmdline.max_pointer_depth (2)

-----------------------------------------------------------------------------
(* Variables, and the context a statement is built in. *)

IntegerVar(name, w) ==
  [type |-> "integer", name |-> name, width |-> w, depth |-> 0, pointed |-> name]

\* pointerDepth() and ultimateType() walk to the integer; both are fixed for good.
PointerVar(name, v) ==
  [type |-> "pointer", name |-> name, width |-> v.width, depth |-> v.depth + 1,
   pointed |-> v.name]

Variable ==
  [type : {"integer", "pointer"}, name : Nat, width : Widths, depth : Nat,
   pointed : Nat]

Context ==
  [nvars : Nat, nintegers : Nat, scope : Seq(Variable), currfunc : Nat]

NoContext == [nvars |-> 0, nintegers |-> 0, scope |-> <<>>, currfunc |-> 0]

\* The integers of a scope.
IntegersOf(scope) == {i \in DOMAIN scope : scope[i].type = "integer"}

\* Fault: a pointer is counted among the integers.
DeclareUncounted(ctx, v) ==
  [ctx EXCEPT !.nvars = @ + 1, !.nintegers = @ + 1, !.scope = Append(@, v)]
\* Fault: the counter that names the variables stays behind.
DeclareUnnamed(ctx, v) ==
  [ctx EXCEPT !.nintegers = IF v.type = "integer" THEN @ + 1 ELSE @,
              !.scope = Append(@, v)]
\* addVariableToList() and the two counters.
Declare(ctx, v) ==
  [ctx EXCEPT !.nvars = @ + 1,
              !.nintegers = IF v.type = "integer" THEN @ + 1 ELSE @,
              !.scope = Append(@, v)]

\* Fault: the bound is drawn too late.
PointableTooDeep(ctx) ==
  {i \in DOMAIN ctx.scope : i <= ctx.nvars /\ ctx.scope[i].depth <= MaxPointerDepth}
\* pickPointableVariable() draws until the depth allows one more level.
Pointable(ctx) ==
  {i \in DOMAIN ctx.scope : i <= ctx.nvars /\ ctx.scope[i].depth < MaxPointerDepth}

\* It divides by nvars, follows what it drew, and may never be content.
PickFails(ctx) ==
  \/ ctx.nvars = 0 \/ ctx.nvars > Len(ctx.scope)
  \/ Pointable(ctx) = {}

\* What makeVariable(ctx, _randomvartype) may return.
NewVariables(ctx) ==
  {IntegerVar(ctx.nvars, w) : w \in Widths} \cup
  {PointerVar(ctx.nvars, ctx.scope[i]) : i \in Pointable(ctx)}

\* selectVariable() draws an index below a counter of the context ...
SelectionBound(ctx, type) ==
  CASE type = "any"     -> ctx.nvars
    [] type = "integer" -> ctx.nintegers
    [] type = "pointer" -> ctx.nvars - ctx.nintegers

\* ... and walks to the variable of that index among those of the type.
Selectable(ctx, type) ==
  {i \in DOMAIN ctx.scope : type = "any" \/ ctx.scope[i].type = type}

\* The remainder by zero, or die("unreachable") past the end of the scope.
SelectionFails(ctx, type) ==
  \/ SelectionBound(ctx, type) <= 0
  \/ SelectionBound(ctx, type) > Cardinality(Selectable(ctx, type))
-----------------------------------------------------------------------------
(* The two sides of a pointer assignment. *)

\* Fault: an equal width is not enough.
ConsistentNarrower(lhs, rhs) == lhs.width < rhs.width
\* PTRASSIGNMENT_IS_CONSISTENT
Consistent(lhs, rhs) == lhs.width <= rhs.width

\* Fault: the address of an integer is not counted as one level.
StarsNoAddress(l, r) ==
  [left  |-> IF l.depth > r.depth THEN l.depth - r.depth ELSE 0,
   right |-> IF r.type = "pointer" /\ l.depth < r.depth THEN r.depth - l.depth ELSE 0]
\* Fault: the difference of the depths is taken without looking which is larger.
StarsUnchecked(l, r) ==
  [left  |-> IF r.type = "integer" THEN l.depth - r.depth - 1 ELSE l.depth - r.depth,
   right |-> IF r.type = "pointer" THEN r.depth - l.depth ELSE 0]
\* printPtrAssignmentStatement(): the stars before either side; an integer is
\* printed with its address.
Stars(l, r) ==
  [left  |-> IF r.type = "integer" THEN l.depth - r.depth - 1
             ELSE IF l.depth > r.depth THEN l.depth - r.depth ELSE 0,
   right |-> IF r.type = "pointer" /\ l.depth < r.depth THEN r.depth - l.depth ELSE 0]

-----------------------------------------------------------------------------
(* How many there are. *)

\* What the parameters of a function may be.
ParameterLists == UNION {[1 .. k -> Widths] : k \in 0 .. MaxFunctionParameters}

\* makeBlock() and makeBlockForFunction() draw the number of local variables.
NumLocals(nest) ==
  {k + (IF nest = 0 THEN 1 ELSE 0) : k \in 0 .. MaxLocalvars - 1}

Times(k, call) == [i \in 1 .. k |-> call]

-----------------------------------------------------------------------------
(* What a context is to be. *)

\* The counters of a context count its scope: random indices are drawn below
\* nvars and nintegers, but looked up by walking the list.
CountersAgree(ctx) ==
  /\ ctx.nvars = Len(ctx.scope)
  /\ ctx.nintegers = Cardinality(IntegersOf(ctx.scope))

\* A name is built from nvars alone, so two variables of one scope, of whatever
\* function, block or parameter list, must have been made at different counts.
NamesDiffer(ctx) ==
  \A i, j \in DOMAIN ctx.scope : ctx.scope[i].name = ctx.scope[j].name => i = j

\* A pointer is initialised with the address of a variable declared before it,
\* one level less deep and of the same width, within the permitted depth.
PointersResolve(ctx) ==
  \A i \in DOMAIN ctx.scope :
    LET p == ctx.scope[i]
    IN p.type = "pointer" =>
         /\ p.depth <= MaxPointerDepth
         /\ \E j \in 1 .. i - 1 :
              /\ ctx.scope[j].name = p.pointed
              /\ ctx.scope[j].depth + 1 = p.depth
              /\ ctx.scope[j].width = p.width
=============================================================================
