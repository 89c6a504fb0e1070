-------------------------------- MODULE Loops --------------------------------
(***************************************************************************)
(* The loops of a generated program: the heads that proto_to_c.cc prints   *)
(* for while, do-while and for, and CCG for its for (statement.c), from     *)
(* what random_generate() and rand() return, and what such a loop does to   *)
(* its variable when its body leaves the variable alone.                   *)
(***************************************************************************)
EXTENDS Integers

CONSTANTS
  DrawBits,   \* the width of unsigned long long (64)
  IntBits,    \* the width of int (32)
  VarBits,    \* the width of a loop's variable (8, 16, 32, 64)
  CcgTests    \* the test values of CCG (30 .. 89)

ASSUME LoopsAssumption ==
  /\ IntBits \in Nat /\ DrawBits \in Nat /\ VarBits \in Nat
  /\ 6 <= IntBits /\ IntBits <= DrawBits /\ 8 <= VarBits
  /\ CcgTests \subseteq 30 .. 89
-----------------------------------------------------------------------------
(* Draws. *)

Unsigned(x) == x % 2^DrawBits

\* Fault: the result stays unsigned.
ToIntUnsigned(x) == x % 2^IntBits
\* A conversion to int keeps the low bits.
ToInt(x) ==
  LET low == x % 2^IntBits
  IN IF low < 2^(IntBits - 1) THEN low ELSE low - 2^IntBits

\* random_generate(): both bounds become unsigned; the library draws up to their
\* difference, and adds the lower bound.
RandomGenerate(min, max) ==
  {ToInt(Unsigned(Unsigned(min) + k)) : k \in 0 .. Unsigned(Unsigned(max) - Unsigned(min))}
-----------------------------------------------------------------------------
(* Heads: the value assigned before the loop, what is added in a turn, and the *)
(* condition.  Where the condition is v-- or v++, the test is "nonzero".       *)

LoopHead(loop, init, test, bound, step, unsigned) ==
  [loop |-> loop, init |-> init, test |-> test, bound |-> bound, step |-> step,
   unsigned |-> unsigned]

\* Fault: the other operator.
UpsNegative == {-k : k \in RandomGenerate(2, 5)}
\* The operand of += ...
Ups == RandomGenerate(2, 5)
\* ... and of -=.
Downs == {-k : k \in RandomGenerate(2, 5)}

\* What a head may be once its value is drawn.
CountedDown(loop, v, u) ==
  IF loop = "For" THEN {LoopHead(loop, v, "above", 2, s, u) : s \in {-1} \cup Downs}
  ELSE {LoopHead(loop, v, "nonzero", 0, -1, u)} \cup
       {LoopHead(loop, v, "above", 2, s, u) : s \in Downs}

CountedUp(loop, v, u) ==
  IF loop = "For" THEN {LoopHead(loop, v, "below", 100, 1, u)} \cup
                       {LoopHead(loop, v, "above", 100, s, u) : s \in Ups}
  ELSE {LoopHead(loop, v, "nonzero", 0, 1, u)} \cup
       {LoopHead(loop, v, "below", 100, s, u) : s \in Ups}

HeadsFrom(loop, v, u) ==
  IF v > 0 THEN CountedDown(loop, v, u)
  ELSE IF v < 0 THEN CountedUp(loop, v, u)
  ELSE {LoopHead(loop, 0, "never", 0, 0, u)}

GrammarLoops == {"While", "DoWhile", "For"}

Heads ==
  [loop \in GrammarLoops |->
     UNION {HeadsFrom(loop, v, u) : v \in RandomGenerate(-10, 10), u \in BOOLEAN}]

\* buildFor(): an unsigned variable starts from 1 .. 30, any other from either side.
CcgHeads ==
  {LoopHead("CCG", v, "below", t + 1, 1, FALSE) : v \in -30 .. 30 \ {0}, t \in CcgTests}
  \cup
  {LoopHead("CCG", v, "below", t + 1, 1, TRUE) : v \in 1 .. 30, t \in CcgTests}

AllHeads == (UNION {Heads[l] : l \in GrammarLoops}) \cup CcgHeads
-----------------------------------------------------------------------------
(* Running a loop. *)

\* An unsigned variable wraps; a signed one must stay in its range.
Stored(h, v) == IF h.unsigned THEN v % 2^VarBits ELSE v
Fits(h, v)   == h.unsigned \/ v \in -2^(VarBits - 1) .. 2^(VarBits - 1) - 1

Continues(h, v) ==
  CASE h.test = "nonzero" -> v # 0
    [] h.test = "above"   -> v > h.bound
    [] h.test = "below"   -> v < h.bound
    [] h.test = "never"   -> FALSE

\* The value that is tested first: the body of a do-while comes before.
Start(h) ==
  LET v == Stored(h, h.init)
  IN IF h.loop = "DoWhile" /\ h.test # "nonzero" THEN Stored(h, v + h.step) ELSE v

\* The value tested in turn n, if the loop is still going on then.
Value(h, n) == Stored(h, Start(h) + n * h.step)

\* The turns in which the condition is false; after as many turns as there are
\* values the loop has come back to one of them.
Stops(h) == {n \in 0 .. 2^VarBits : ~Continues(h, Value(h, n))}

Ends(h) == Stops(h) # {}

\* No value up to the one that ends the loop overflows.
StaysInRange(h) ==
  LET stops == Stops(h)
  IN \A n \in 0 .. 2^VarBits :
       (\A m \in stops : n <= m) => Fits(h, Start(h) + n * h.step)

EndingHeads  == {h \in AllHeads : Ends(h)}
InRangeHeads == {h \in AllHeads : StaysInRange(h)}
=============================================================================
