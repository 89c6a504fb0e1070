--------------------------- MODULE MutationProofs ---------------------------
(***************************************************************************)
(* Proofs about the child that makes the program of a round (Mutation) and *)
(* about the loops of the programs (Loops): what random_generate() returns,*)
(* which loops end, and that the program taken is the farthest although    *)
(* its distance is a float.                                                *)
(*                                                                         *)
(* The powers of two and the sums over the kinds of statements need an     *)
(* induction.  It is done with sets: a set that holds 0 and with a number  *)
(* the next one holds them all (Induction), which follows from the library *)
(* theorem that a set with a well-founded order has a least element.       *)
(***************************************************************************)
EXTENDS Mutation, FiniteSetTheorems, WellFoundedInduction, TLAPS
-----------------------------------------------------------------------------
(* Numbers. *)

\* A set of naturals has a least element.
LEMMA Least ==
  ASSUME NEW T, T \subseteq Nat, T # {}
  PROVE  \E x \in T : \A y \in T : x <= y
<1> DEFINE R == OpToRel(<, Nat)
<1>1. IsWellFoundedOn(R, Nat)
  BY NatLessThanWellFounded
<1>2. \A a, b \in Nat : a < b => <<a, b>> \in R
  BY DEF OpToRel
<1> HIDE DEF R
<1>3. PICK x \in T : \A y \in T : ~(<<y, x>> \in R)
  BY <1>1, WFMin
<1>4. \A y \in T : ~(y < x)
  BY <1>2, <1>3
<1>5. \A y \in T : x <= y
  BY <1>4
<1> QED BY <1>5

\* Induction.
LEMMA Induction ==
  ASSUME NEW S, 0 \in S, \A n \in Nat : n \in S => n + 1 \in S
  PROVE  Nat \subseteq S
<1> SUFFICES ASSUME Nat \ S # {} PROVE FALSE
  OBVIOUS
<1>1. PICK x \in Nat \ S : \A y \in Nat \ S : x <= y
  BY Least
<1>2. x - 1 \in Nat /\ (x - 1) + 1 = x
  BY <1>1
<1>3. x - 1 \in S
  BY <1>1, <1>2
<1> QED BY <1>1, <1>2, <1>3

\* The power of two counts the subsets.
LEMMA PowerCounts ==
  ASSUME NEW n \in Nat
  PROVE  2^n \in Nat /\ 2^n > 0 /\ Cardinality(SUBSET (1 .. n)) = 2^n
<1> DEFINE S == 1 .. n
<1>1. IsFiniteSet(S) /\ Cardinality(S) = n
  BY FS_Interval
<1> HIDE DEF S
<1>2. IsFiniteSet(SUBSET S) /\ Cardinality(SUBSET S) = 2^n
  BY <1>1, FS_SUBSET
<1>3. Cardinality(SUBSET S) \in Nat /\ Cardinality(SUBSET S) # 0
  BY <1>2, FS_CardinalityType, FS_EmptySet
<1> QED BY <1>2, <1>3 DEF S

LEMMA PowerNext ==
  ASSUME NEW n \in Nat
  PROVE  2^(n + 1) = 2 * 2^n
<1> DEFINE S == SUBSET (1 .. n)
           T == SUBSET (1 .. n + 1)
           A == {t \in T : n + 1 \in t}
           f == [s \in S |-> s \cup {n + 1}]
<1>1. IsFiniteSet(S) /\ Cardinality(S) = 2^n /\ 2^n \in Nat
  <2>1. IsFiniteSet(1 .. n)
    BY FS_Interval
  <2>2. IsFiniteSet(S)
    BY <2>1, FS_SUBSET
  <2> QED BY <2>2, PowerCounts
<1>2. Cardinality(T) = 2^(n + 1)
  BY PowerCounts, n + 1 \in Nat
<1>3. f \in Bijection(S, A)
  <2>1. f \in [S -> A]
    OBVIOUS
  <2>2. \A s, r \in S : f[s] = f[r] => s = r
    OBVIOUS
  <2>3. ASSUME NEW t \in A PROVE \E s \in S : f[s] = t
    <3>1. t \ {n + 1} \in S
      OBVIOUS
    <3>2. f[t \ {n + 1}] = t
      BY <3>1
    <3> QED BY <3>1, <3>2
  <2> QED BY <2>1, <2>2, <2>3 DEF Bijection, Injection, Surjection, IsInjective
<1>4. IsFiniteSet(A) /\ Cardinality(A) = 2^n
  <2> HIDE DEF S, A, f
  <2>1. ExistsBijection(S, A)
    BY <1>3 DEF ExistsBijection
  <2> QED BY <1>1, <2>1, FS_Bijection
<1>5. S \cup A = T /\ S \cap A = {}
  <2>1. \A t \in T : n + 1 \notin t => t \in S
    OBVIOUS
  <2> QED BY <2>1
<1>6. Cardinality(S \cup A) = 2^n + 2^n - Cardinality(S \cap A)
  <2> HIDE DEF S, A
  <2> QED BY <1>1, <1>4, FS_Union
<1>7. Cardinality({}) = 0
  BY FS_EmptySet
<1>8. Cardinality(T) = 2^n + 2^n - 0
  <2> HIDE DEF S, A, T
  <2> QED BY <1>5, <1>6, <1>7
<1>9. \A p \in Nat : p + p - 0 = 2 * p
  OBVIOUS
<1> QED BY <1>1, <1>2, <1>8, <1>9

\* The numbers modulo d, in the cases that come up.
LEMMA ModIs ==
  ASSUME NEW d \in Nat, d > 0, NEW x \in Int, NEW q \in Int, NEW r \in 0 .. d - 1,
         x = q * d + r
  PROVE  x % d = r
<1>1. PICK p \in Int, s \in 0 .. d - 1 : x = p * d + s /\ x % d = s
  <2>1. x = (x \div d) * d + (x % d) /\ x \div d \in Int /\ x % d \in 0 .. d - 1
    OBVIOUS
  <2> QED BY <2>1
<1>2. CASE p = q
  BY <1>1, <1>2
<1>3. CASE p > q
  <2>1. p * d >= (q + 1) * d /\ (q + 1) * d = q * d + d
    BY <1>3
  <2> QED BY <1>1, <2>1
<1>4. CASE q > p
  <2>1. q * d >= (p + 1) * d /\ (p + 1) * d = p * d + d
    BY <1>4
  <2> QED BY <1>1, <2>1
<1> QED BY <1>2, <1>3, <1>4

LEMMA ModCongruent ==
  ASSUME NEW d \in Nat, d > 0, NEW x \in Int, NEW j \in Int
  PROVE  (x + j * d) % d = x % d
<1> DEFINE q == x \div d
           r == x % d
<1>1. x = q * d + r /\ q \in Int /\ r \in 0 .. d - 1
  OBVIOUS
<1> HIDE DEF q, r
<1>2. x + j * d = (q + j) * d + r /\ q + j \in Int /\ x + j * d \in Int
  BY <1>1
<1>3. (x + j * d) % d = r
  <2> DEFINE y == x + j * d
             p == q + j
  <2>1. y \in Int /\ p \in Int /\ y = p * d + r
    BY <1>2
  <2> HIDE DEF y, p
  <2>2. y % d = r
    BY <1>1, <2>1, ModIs
  <2> QED BY <2>2 DEF y
<1> QED BY <1>3 DEF r

LEMMA PowerSum ==
  ASSUME NEW a \in Nat, NEW b \in Nat
  PROVE  2^(a + b) = 2^a * 2^b
<1> DEFINE S == {c \in Nat : 2^(a + c) = 2^a * 2^c}
<1>1. 0 \in S
  <2>1. 2^0 = 1
    OBVIOUS
  <2>2. a + 0 = a
    OBVIOUS
  <2>3. 2^a * 2^0 = 2^a
    BY <2>1, PowerCounts
  <2> QED BY <2>2, <2>3
<1>2. ASSUME NEW c \in Nat, c \in S PROVE c + 1 \in S
  <2>1. 2^(a + c) = 2^a * 2^c
    BY <1>2
  <2>2. 2^((a + c) + 1) = 2 * 2^(a + c)
    BY PowerNext, a + c \in Nat
  <2>3. 2^(c + 1) = 2 * 2^c
    BY PowerNext
  <2>4. (a + c) + 1 = a + (c + 1)
    OBVIOUS
  <2>5. 2^a \in Nat /\ 2^c \in Nat
    BY PowerCounts
  <2>6. \A x, y \in Nat : 2 * (x * y) = x * (2 * y)
    OBVIOUS
  <2>7. 2^(a + (c + 1)) = 2^a * (2 * 2^c)
    BY <2>1, <2>2, <2>4, <2>5, <2>6
  <2> QED BY <2>3, <2>7
<1> HIDE DEF S
<1>3. Nat \subseteq S
  BY <1>1, <1>2, Induction
<1> QED BY <1>3 DEF S

\* A power divides the greater ones.
LEMMA PowerDivides ==
  ASSUME NEW a \in Nat, NEW b \in Nat, a <= b
  PROVE  \E q \in Nat : q > 0 /\ 2^b = q * 2^a
<1> DEFINE c == b - a
<1>1. c \in Nat /\ a + c = b
  OBVIOUS
<1> HIDE DEF c
<1>2. 2^b = 2^a * 2^c
  BY <1>1, PowerSum
<1>3. 2^c \in Nat /\ 2^c > 0 /\ 2^a \in Nat
  BY <1>1, PowerCounts
<1>4. 2^a * 2^c = 2^c * 2^a
  BY <1>3
<1> QED BY <1>2, <1>3, <1>4

LEMMA PowerGrows ==
  ASSUME NEW a \in Nat, NEW b \in Nat, a <= b
  PROVE  2^a <= 2^b
<1>1. PICK q \in Nat : q > 0 /\ 2^b = q * 2^a
  BY PowerDivides
<1>2. \A p \in Nat : q * p >= p
  BY <1>1
<1> QED BY <1>1, <1>2, PowerCounts
-----------------------------------------------------------------------------
(* The draws. *)

\* random_generate() draws between its bounds, both of them included: the unsigned
\* difference of the bounds is the signed one, and what goes past the top of the
\* unsigned type comes back as the negative values of int.
LEMMA DrawsExact ==
  ASSUME NEW min \in Int, NEW max \in Int, min <= max,
         -2^(IntBits - 1) <= min, max < 2^(IntBits - 1)
  PROVE  RandomGenerate(min, max) = min .. max
<1> DEFINE W == 2^DrawBits
           H == 2^(IntBits - 1)
           I == 2^IntBits
<1>1. /\ IntBits - 1 \in Nat /\ IntBits \in Nat /\ DrawBits \in Nat
      /\ (IntBits - 1) + 1 = IntBits /\ IntBits <= DrawBits
  BY LoopsAssumption
<1>2. I = 2 * H /\ H \in Nat /\ H > 0 /\ I \in Nat /\ W \in Nat
  BY <1>1, PowerNext, PowerCounts
<1>3. PICK q \in Nat : q > 0 /\ W = q * I
  BY <1>1, PowerDivides
<1> HIDE DEF W, H, I
<1>4. W >= I
  BY <1>2, <1>3
<1>5. -H <= min /\ max < H
  BY DEF H
<1>6. \A x \in Int : Unsigned(x) = x % W
  BY DEF Unsigned, W
<1>7. \A x \in -W .. W - 1 : Unsigned(x) = IF x < 0 THEN x + W ELSE x
  <2> TAKE x \in -W .. W - 1
  <2>1. CASE x < 0
    <3>1. x = (-1) * W + (x + W) /\ x + W \in 0 .. W - 1 /\ x \in Int /\ W > 0
      BY <1>2, <2>1
    <3>2. x % W = x + W
      BY <1>2, <3>1, ModIs
    <3> QED BY <1>6, <2>1, <3>1, <3>2
  <2>2. CASE ~(x < 0)
    <3>1. x = 0 * W + x /\ x \in 0 .. W - 1 /\ x \in Int /\ W > 0
      BY <1>2, <2>2
    <3>2. x % W = x
      BY <1>2, <3>1, ModIs
    <3> QED BY <1>6, <2>2, <3>1, <3>2
  <2> QED BY <2>1, <2>2
<1>8. Unsigned(Unsigned(max) - Unsigned(min)) = max - min
  <2>1. min \in -W .. W - 1 /\ max \in -W .. W - 1
    BY <1>2, <1>4, <1>5
  <2>2. /\ Unsigned(min) = IF min < 0 THEN min + W ELSE min
        /\ Unsigned(max) = IF max < 0 THEN max + W ELSE max
    BY <1>7, <2>1
  <2> DEFINE x == Unsigned(max) - Unsigned(min)
  <2>3. /\ x \in -W .. W - 1
        /\ x = max - min \/ x = max - min - W
        /\ x < 0 <=> x = max - min - W
    BY <1>2, <1>4, <1>5, <2>1, <2>2
  <2> HIDE DEF x
  <2>4. Unsigned(x) = IF x < 0 THEN x + W ELSE x
    BY <1>7, <2>3
  <2>5. Unsigned(x) = max - min
    BY <1>2, <2>3, <2>4
  <2> QED BY <2>5 DEF x
<1>9. ASSUME NEW k \in 0 .. max - min
      PROVE  ToInt(Unsigned(Unsigned(min) + k)) = min + k
  <2> DEFINE v == min + k
             y == Unsigned(Unsigned(min) + k)
  <2>1. v \in Int /\ -H <= v /\ v < H
    BY <1>2, <1>5
  <2>2. PICK j \in Int : Unsigned(min) = min + j * W
    <3>1. min \in -W .. W - 1
      BY <1>2, <1>4, <1>5
    <3>2. min + 1 * W = min + W /\ min + 0 * W = min
      BY <1>2
    <3> QED BY <1>7, <3>1, <3>2
  <2>3. Unsigned(min) + k = v + j * W
    BY <1>2, <2>2
  <2>4. y = v % W
    <3>1. (v + j * W) % W = v % W
      BY <1>2, <1>4, <2>1, ModCongruent
    <3>2. v + j * W \in Int
      BY <1>2, <2>1
    <3> QED BY <1>6, <2>3, <3>1, <3>2
  <2>5. v \in -W .. W - 1
    BY <1>2, <1>4, <2>1
  <2>6. y = IF v < 0 THEN v + W ELSE v
    BY <1>6, <1>7, <2>1, <2>4, <2>5
  <2> HIDE DEF v, y
  <2>7. y % I = v % I
    <3>1. CASE v < 0
      <4>1. (v + q * I) % I = v % I
        BY <1>2, <1>3, <2>1, ModCongruent
      <4> QED BY <1>3, <2>6, <3>1, <4>1
    <3>2. CASE ~(v < 0)
      BY <2>6, <3>2
    <3> QED BY <3>1, <3>2
  <2>8. ToInt(y) = v
    <3>1. ToInt(y) = IF y % I < H THEN y % I ELSE (y % I) - I
      BY DEF ToInt, I, H
    <3>2. CASE v < 0
      <4>1. v = (-1) * I + (v + I) /\ v + I \in 0 .. I - 1
        BY <1>2, <2>1, <3>2
      <4>2. v % I = v + I
        BY <1>2, <2>1, <4>1, ModIs
      <4> QED BY <1>2, <2>1, <2>7, <3>1, <3>2, <4>2
    <3>3. CASE ~(v < 0)
      <4>1. v = 0 * I + v /\ v \in 0 .. I - 1
        BY <1>2, <2>1, <3>3
      <4>2. v % I = v
        BY <1>2, <2>1, <4>1, ModIs
      <4> QED BY <1>2, <2>1, <2>7, <3>1, <3>3, <4>2
    <3> QED BY <3>2, <3>3
  <2> QED BY <2>8 DEF v, y
<1>10. RandomGenerate(min, max) = {min + k : k \in 0 .. max - min}
  BY <1>8, <1>9 DEF RandomGenerate
<1>11. {min + k : k \in 0 .. max - min} = min .. max
  <2>1. ASSUME NEW x \in min .. max PROVE \E k \in 0 .. max - min : x = min + k
    <3>1. x - min \in 0 .. max - min /\ x = min + (x - min)
      OBVIOUS
    <3> QED BY <3>1
  <2> QED BY <2>1
<1> QED BY <1>10, <1>11

\* The values that the heads of loops are made from.
LEMMA HeadDraws ==
  RandomGenerate(-10, 10) = -10 .. 10 /\ RandomGenerate(2, 5) = 2 .. 5
<1>1. 2^5 = 32 /\ 5 \in Nat /\ IntBits - 1 \in Nat /\ 5 <= IntBits - 1
  BY LoopsAssumption
<1>2. 2^5 <= 2^(IntBits - 1)
  BY <1>1, PowerGrows
<1> DEFINE H == 2^(IntBits - 1)
<1>3. H \in Nat /\ 32 <= H
  BY <1>1, <1>2, PowerCounts
<1> HIDE DEF H
<1>4. \A min, max \in Int : min <= max /\ -H <= min /\ max < H =>
        RandomGenerate(min, max) = min .. max
  <2> SUFFICES ASSUME NEW min \in Int, NEW max \in Int, min <= max, -H <= min, max < H
               PROVE  RandomGenerate(min, max) = min .. max
    OBVIOUS
  <2>1. -2^(IntBits - 1) <= min /\ max < 2^(IntBits - 1)
    BY DEF H
  <2> QED BY <2>1, DrawsExact, Zenon
<1>5. RandomGenerate(-10, 10) = -10 .. 10
  <2>1. -10 \in Int /\ 10 \in Int /\ -10 <= 10 /\ -H <= -10 /\ 10 < H
    BY <1>3
  <2> QED BY <1>4, <2>1, Zenon
<1>6. RandomGenerate(2, 5) = 2 .. 5
  <2>1. 2 \in Int /\ 5 \in Int /\ 2 <= 5 /\ -H <= 2 /\ 5 < H
    BY <1>3
  <2> QED BY <1>4, <2>1, Zenon
<1> QED BY <1>5, <1>6
-----------------------------------------------------------------------------
(* The loops. *)

\* The kinds of head there are.
DownToZero(h) ==
  h.loop # "For" /\ h.test = "nonzero" /\ h.step = -1 /\ h.init \in 1 .. 10
DownPastTwo(h) ==
  h.test = "above" /\ h.bound = 2 /\ h.step \in -5 .. -1 /\ h.init \in 1 .. 10
UpToZero(h) ==
  h.loop # "For" /\ h.test = "nonzero" /\ h.step = 1 /\ h.init \in -10 .. -1
UpPastHundred(h) ==
  /\ h.test = "below" /\ h.bound = 100 /\ h.init \in -10 .. -1
  /\ h.step \in 1 .. 5
UpFromTop(h) ==
  /\ h.loop = "For" /\ h.test = "above" /\ h.bound = 100 /\ h.init \in -10 .. -1
  /\ h.step \in 2 .. 5
NoTurn(h) == h.test = "never" /\ h.init = 0 /\ h.step = 0
ToTest(h) ==
  /\ h.loop = "CCG" /\ h.test = "below" /\ h.bound \in 31 .. 90 /\ h.step = 1
  /\ h.init \in -30 .. 30 /\ (h.unsigned => h.init \in 1 .. 30)

LEMMA HeadKinds ==
  ASSUME NEW h \in AllHeads
  PROVE  /\ h.unsigned \in BOOLEAN
         /\ \/ /\ h.loop \in GrammarLoops
               /\ \/ DownToZero(h) \/ DownPastTwo(h) \/ UpToZero(h)
                  \/ UpPastHundred(h) \/ UpFromTop(h) \/ NoTurn(h)
            \/ ToTest(h)
<1>1. Downs = -5 .. -2
  <2>1. \A d \in -5 .. -2 : -d \in 2 .. 5 /\ d = -(-d)
    OBVIOUS
  <2>2. Downs = {-k : k \in 2 .. 5}
    BY HeadDraws DEF Downs
  <2> QED BY <2>1, <2>2
<1>2. Ups = 2 .. 5
  BY HeadDraws DEF Ups
<1>3. ASSUME NEW l \in GrammarLoops, NEW v \in 1 .. 10, NEW u \in BOOLEAN,
             NEW g \in CountedDown(l, v, u)
      PROVE  g.loop = l /\ g.unsigned = u /\ (DownToZero(g) \/ DownPastTwo(g))
  <2>1. CASE l = "For"
    <3>1. PICK s \in {-1} \cup Downs : g = LoopHead(l, v, "above", 2, s, u)
      BY <1>3, <2>1 DEF CountedDown
    <3> QED BY <1>1, <3>1 DEF LoopHead, DownPastTwo
  <2>2. CASE l # "For" /\ g = LoopHead(l, v, "nonzero", 0, -1, u)
    BY <2>2 DEF LoopHead, DownToZero
  <2>3. CASE l # "For" /\ g # LoopHead(l, v, "nonzero", 0, -1, u)
    <3>1. PICK s \in Downs : g = LoopHead(l, v, "above", 2, s, u)
      BY <1>3, <2>3 DEF CountedDown
    <3> QED BY <1>1, <3>1 DEF LoopHead, DownPastTwo
  <2> QED BY <2>1, <2>2, <2>3
<1>4. ASSUME NEW l \in GrammarLoops, NEW v \in -10 .. -1, NEW u \in BOOLEAN,
             NEW g \in CountedUp(l, v, u)
      PROVE  /\ g.loop = l /\ g.unsigned = u
             /\ UpToZero(g) \/ UpPastHundred(g) \/ UpFromTop(g)
  <2>1. CASE l = "For" /\ g = LoopHead(l, v, "below", 100, 1, u)
    BY <2>1 DEF LoopHead, UpPastHundred
  <2>2. CASE l = "For" /\ g # LoopHead(l, v, "below", 100, 1, u)
    <3>1. PICK s \in Ups : g = LoopHead(l, v, "above", 100, s, u)
      BY <1>4, <2>2 DEF CountedUp
    <3> QED BY <1>2, <2>2, <3>1 DEF LoopHead, UpFromTop
  <2>3. CASE l # "For" /\ g = LoopHead(l, v, "nonzero", 0, 1, u)
    BY <2>3 DEF LoopHead, UpToZero
  <2>4. CASE l # "For" /\ g # LoopHead(l, v, "nonzero", 0, 1, u)
    <3>1. PICK s \in Ups : g = LoopHead(l, v, "below", 100, s, u)
      BY <1>4, <2>4 DEF CountedUp
    <3> QED BY <1>2, <3>1 DEF LoopHead, UpPastHundred
  <2> QED BY <2>1, <2>2, <2>3, <2>4
<1>5. CASE \E l \in GrammarLoops : h \in Heads[l]
  <2>1. PICK l \in GrammarLoops, v \in -10 .. 10, u \in BOOLEAN : h \in HeadsFrom(l, v, u)
    BY <1>5, HeadDraws DEF Heads
  <2>2. CASE v > 0
    <3>1. h \in CountedDown(l, v, u) /\ v \in 1 .. 10
      BY <2>1, <2>2 DEF HeadsFrom
    <3> QED BY <1>3, <3>1
  <2>3. CASE v < 0
    <3>1. h \in CountedUp(l, v, u) /\ v \in -10 .. -1
      BY <2>1, <2>3 DEF HeadsFrom
    <3> QED BY <1>4, <3>1
  <2>4. CASE v = 0
    <3>1. h = LoopHead(l, 0, "never", 0, 0, u)
      BY <2>1, <2>4 DEF HeadsFrom
    <3> QED BY <3>1 DEF LoopHead, NoTurn
  <2> QED BY <2>2, <2>3, <2>4
<1>6. CASE h \in CcgHeads
  <2>1. \A t \in CcgTests : t \in 30 .. 89
    BY LoopsAssumption
  <2>2. CASE \E v \in -30 .. 30 \ {0}, t \in CcgTests :
               h = LoopHead("CCG", v, "below", t + 1, 1, FALSE)
    BY <2>1, <2>2 DEF LoopHead, ToTest
  <2>3. CASE \E v \in 1 .. 30, t \in CcgTests :
               h = LoopHead("CCG", v, "below", t + 1, 1, TRUE)
    BY <2>1, <2>3 DEF LoopHead, ToTest
  <2> DEFINE Signed == {LoopHead("CCG", v, "below", t + 1, 1, FALSE) :
                          v \in -30 .. 30 \ {0}, t \in CcgTests}
             Natural == {LoopHead("CCG", v, "below", t + 1, 1, TRUE) :
                           v \in 1 .. 30, t \in CcgTests}
  <2>4. h \in Signed \/ h \in Natural
    BY <1>6 DEF CcgHeads, LoopHead
  <2>5. h \in Signed => \E v \in -30 .. 30 \ {0}, t \in CcgTests :
                          h = LoopHead("CCG", v, "below", t + 1, 1, FALSE)
    BY DEF LoopHead
  <2>6. h \in Natural => \E v \in 1 .. 30, t \in CcgTests :
                           h = LoopHead("CCG", v, "below", t + 1, 1, TRUE)
    BY DEF LoopHead
  <2> HIDE DEF Signed, Natural
  <2> QED BY <2>2, <2>3, <2>4, <2>5, <2>6
<1>7. h \in UNION {Heads[l] : l \in GrammarLoops} <=> \E l \in GrammarLoops : h \in Heads[l]
  OBVIOUS
<1> QED BY <1>5, <1>6, <1>7 DEF AllHeads

\* How many values a variable has: 256 or more, a multiple of 4 and not of 5.
LEMMA Width ==
  /\ 2^VarBits \in Nat /\ 2^VarBits >= 256
  /\ 2^VarBits = 2 * 2^(VarBits - 1) /\ 2^(VarBits - 1) \in Nat
  /\ \E q \in Nat : 2^VarBits = 4 * q
  /\ \E q \in Nat, r \in 1 .. 4 : 2^VarBits = 5 * q + r
<1>1. VarBits \in Nat /\ VarBits - 1 \in Nat /\ 8 <= VarBits /\ (VarBits - 1) + 1 = VarBits
  BY LoopsAssumption
<1>2. 2^VarBits \in Nat /\ 2^(VarBits - 1) \in Nat
  BY <1>1, PowerCounts
<1>3. 2^VarBits = 2 * 2^(VarBits - 1)
  BY <1>1, PowerNext
<1>4. 2^VarBits >= 256
  <2>1. 2^8 = 256 /\ 8 \in Nat
    OBVIOUS
  <2>2. 2^8 <= 2^VarBits
    BY <1>1, PowerGrows
  <2> QED BY <1>2, <2>1, <2>2
<1>5. \E q \in Nat : 2^VarBits = 4 * q
  <2>1. 2^2 = 4 /\ 2 \in Nat /\ 2 <= VarBits
    BY <1>1
  <2>2. PICK q \in Nat : 2^VarBits = q * 2^2
    BY <1>1, <2>1, PowerDivides
  <2> QED BY <2>1, <2>2
<1>6. \E q \in Nat, r \in 1 .. 4 : 2^VarBits = 5 * q + r
  <2> DEFINE S == {n \in Nat : \E q \in Nat, r \in 1 .. 4 : 2^n = 5 * q + r}
  <2>1. 0 \in S
    <3>1. 2^0 = 1 /\ 1 = 5 * 0 + 1
      OBVIOUS
    <3> QED BY <3>1
  <2>2. ASSUME NEW n \in Nat, n \in S PROVE n + 1 \in S
    <3>1. PICK q \in Nat, r \in 1 .. 4 : 2^n = 5 * q + r
      BY <2>2
    <3>2. 2^(n + 1) = 2 * (5 * q + r)
      BY <3>1, PowerNext
    <3>3. CASE r \in 1 .. 2
      <4> DEFINE p == 2 * q
                 s == 2 * r
      <4>1. 2 * (5 * q + r) = 5 * p + s /\ p \in Nat /\ s \in 1 .. 4
        BY <3>3
      <4> HIDE DEF p, s
      <4> QED BY <3>2, <4>1
    <3>4. CASE r \in 3 .. 4
      <4> DEFINE p == 2 * q + 1
                 s == 2 * r - 5
      <4>1. 2 * (5 * q + r) = 5 * p + s /\ p \in Nat /\ s \in 1 .. 4
        BY <3>4
      <4> HIDE DEF p, s
      <4> QED BY <3>2, <4>1
    <3> QED BY <3>1, <3>3, <3>4
  <2> HIDE DEF S
  <2>3. VarBits \in S
    BY <1>1, <2>1, <2>2, Induction
  <2> QED BY <2>3 DEF S
<1> QED BY <1>2, <1>3, <1>4, <1>5, <1>6

LEMMA EndsAt ==
  ASSUME NEW h, NEW n \in 0 .. 2^VarBits, ~Continues(h, Value(h, n))
  PROVE  Ends(h)
BY DEF Ends, Stops

LEMMA StaysUpTo ==
  ASSUME NEW h, NEW n \in 0 .. 2^VarBits, ~Continues(h, Value(h, n)),
         \A m \in 0 .. n : Fits(h, Start(h) + m * h.step)
  PROVE  StaysInRange(h)
<1> DEFINE P == 2^VarBits
<1>1. n \in Stops(h)
  BY DEF Stops
<1>2. P \in Nat
  BY Width
<1>3. ASSUME NEW m \in 0 .. P, m <= n PROVE Fits(h, Start(h) + m * h.step)
  <2>1. m \in 0 .. n
    BY <1>2, <1>3
  <2> QED BY <2>1
<1> HIDE DEF P
<1>4. \A m \in 0 .. P : (\A k \in Stops(h) : m <= k) => Fits(h, Start(h) + m * h.step)
  BY <1>1, <1>3
<1> QED BY <1>4 DEF StaysInRange, P

\* A signed variable: the loop ends, and before it does the variable stays in range.
LEMMA SignedEnds ==
  ASSUME NEW h \in AllHeads, ~h.unsigned
  PROVE  Ends(h) /\ StaysInRange(h)
<1> DEFINE P == 2^VarBits
           Q == 2^(VarBits - 1)
<1>1. P = 2 * Q /\ P \in Nat /\ Q \in Nat /\ P >= 256 /\ Q >= 128
  BY Width
<1> HIDE DEF P, Q
<1>2. \A x : Stored(h, x) = x
  BY DEF Stored
<1>3. \A x \in -128 .. 127 : Fits(h, x)
  <2>1. \A x \in -128 .. 127 : x \in -Q .. Q - 1
    BY <1>1
  <2> QED BY <2>1 DEF Fits, Q
<1>4. Start(h) = IF h.loop = "DoWhile" /\ h.test # "nonzero" THEN h.init + h.step ELSE h.init
  BY <1>2 DEF Start
<1>5. \A n : Value(h, n) = Start(h) + n * h.step
  BY <1>2 DEF Value
<1>6. ASSUME NEW n \in 0 .. 255, ~Continues(h, Start(h) + n * h.step),
             \A m \in 0 .. n : Start(h) + m * h.step \in -128 .. 127
      PROVE  Ends(h) /\ StaysInRange(h)
  <2>1. n \in 0 .. P
    BY <1>1
  <2>2. n \in 0 .. 2^VarBits /\ ~Continues(h, Value(h, n))
    BY <1>5, <1>6, <2>1 DEF P
  <2>3. ASSUME NEW m \in 0 .. n PROVE Fits(h, Start(h) + m * h.step)
    <3> DEFINE x == Start(h) + m * h.step
    <3>1. x \in -128 .. 127
      BY <1>6, Zenon
    <3> HIDE DEF x
    <3>2. Fits(h, x)
      BY <1>3, <3>1
    <3> QED BY <3>2 DEF x
  <2> QED BY <2>2, <2>3, EndsAt, StaysUpTo
<1>7. CASE DownToZero(h)
  <2> DEFINE n == h.init
  <2>1. Start(h) = h.init /\ h.init \in 1 .. 10 /\ h.step = -1 /\ h.test = "nonzero"
    BY <1>4, <1>7 DEF DownToZero
  <2>2. n \in 0 .. 255 /\ ~Continues(h, Start(h) + n * h.step)
    BY <2>1 DEF Continues
  <2>3. \A m \in 0 .. n : Start(h) + m * h.step \in -128 .. 127
    BY <2>1
  <2> HIDE DEF n
  <2> QED BY <1>6, <2>2, <2>3
<1>8. CASE DownPastTwo(h)
  <2> DEFINE n == 10
  <2>1. h.init \in 1 .. 10 /\ h.step \in -5 .. -1 /\ h.test = "above" /\ h.bound = 2
    BY <1>8 DEF DownPastTwo
  <2>2. Start(h) \in -4 .. 10
    BY <1>4, <2>1
  <2>3. Start(h) + 10 * h.step <= 2 /\ Start(h) + 10 * h.step \in Int
    BY <2>1, <2>2
  <2>4. n \in 0 .. 255 /\ ~Continues(h, Start(h) + n * h.step)
    BY <2>1, <2>3 DEF Continues
  <2>5. \A m \in 0 .. n : Start(h) + m * h.step \in -128 .. 127
    <3>1. \A m \in 0 .. 10, s \in -5 .. -1 : m * s \in -50 .. 0
      OBVIOUS
    <3> QED BY <2>1, <2>2, <3>1
  <2> HIDE DEF n
  <2> QED BY <1>6, <2>4, <2>5
<1>9. CASE UpToZero(h)
  <2> DEFINE n == -h.init
  <2>1. Start(h) = h.init /\ h.init \in -10 .. -1 /\ h.step = 1 /\ h.test = "nonzero"
    BY <1>4, <1>9 DEF UpToZero
  <2>2. n \in 0 .. 255 /\ ~Continues(h, Start(h) + n * h.step)
    BY <2>1 DEF Continues
  <2>3. \A m \in 0 .. n : Start(h) + m * h.step \in -128 .. 127
    BY <2>1
  <2> HIDE DEF n
  <2> QED BY <1>6, <2>2, <2>3
<1>10. CASE UpPastHundred(h)
  <2>1. h.init \in -10 .. -1 /\ h.step \in 1 .. 5 /\ h.test = "below" /\ h.bound = 100
    BY <1>10 DEF UpPastHundred
  <2>2. Start(h) \in -10 .. 4
    BY <1>4, <2>1
  <2> DEFINE T == {n \in Nat : Start(h) + n * h.step >= 100}
  <2>3. 110 \in T
    <3>1. \A s \in 1 .. 5 : 110 * s >= 110
      OBVIOUS
    <3> QED BY <2>1, <2>2, <3>1
  <2>4. PICK n \in T : \A m \in T : n <= m
    <3> HIDE DEF T
    <3>1. T \subseteq Nat
      BY DEF T
    <3> QED BY <2>3, <3>1, Least
  <2>5. n \in 0 .. 255 /\ Start(h) + n * h.step >= 100
    BY <2>3, <2>4
  <2>6. ~Continues(h, Start(h) + n * h.step)
    BY <2>1, <2>2, <2>5 DEF Continues
  <2>7. n # 0
    BY <2>1, <2>2, <2>5
  <2>8. \A m \in 0 .. n - 1 : Start(h) + m * h.step < 100
    BY <2>1, <2>2, <2>4
  <2>9. \A m \in 0 .. n : Start(h) + m * h.step <= 105
    <3>1. ASSUME NEW m \in 0 .. n - 1 PROVE Start(h) + m * h.step <= 105
      BY <2>1, <2>2, <2>8
    <3>2. Start(h) + n * h.step <= 105
      <4>1. Start(h) + (n - 1) * h.step < 100
        BY <2>5, <2>7, <2>8
      <4>2. n * h.step = (n - 1) * h.step + h.step
        BY <2>1, <2>5
      <4>3. (n - 1) * h.step \in Int
        BY <2>1, <2>5
      <4> QED BY <2>1, <2>2, <4>1, <4>2, <4>3
    <3> QED BY <2>5, <3>1, <3>2
  <2>10. \A m \in 0 .. n : Start(h) + m * h.step \in -128 .. 127
    <3> TAKE m \in 0 .. n
    <3>1. m * h.step \in Nat
      BY <2>1, <2>5
    <3> QED BY <2>2, <2>9, <3>1
  <2> QED BY <1>6, <2>5, <2>6, <2>10
<1>11. CASE UpFromTop(h)
  <2> DEFINE n == 0
  <2>1. /\ h.loop # "DoWhile" /\ h.init \in -10 .. -1 /\ h.step \in 2 .. 5
        /\ h.test = "above" /\ h.bound = 100
    BY <1>11 DEF UpFromTop
  <2>2. Start(h) = h.init /\ 0 * h.step = 0
    BY <1>4, <2>1
  <2>3. n \in 0 .. 255 /\ ~Continues(h, Start(h) + n * h.step)
    BY <2>1, <2>2 DEF Continues
  <2>4. \A m \in 0 .. n : Start(h) + m * h.step \in -128 .. 127
    BY <2>1, <2>2
  <2> HIDE DEF n
  <2> QED BY <1>6, <2>3, <2>4
<1>12. CASE NoTurn(h)
  <2> DEFINE n == 0
  <2>1. h.test = "never" /\ h.init = 0 /\ h.step = 0
    BY <1>12 DEF NoTurn
  <2>2. Start(h) = 0
    BY <1>4, <2>1
  <2>3. n \in 0 .. 255 /\ ~Continues(h, Start(h) + n * h.step)
    BY <2>1 DEF Continues
  <2>4. \A m \in 0 .. n : Start(h) + m * h.step \in -128 .. 127
    BY <2>1, <2>2
  <2> HIDE DEF n
  <2> QED BY <1>6, <2>3, <2>4
<1>13. CASE ToTest(h)
  <2> DEFINE n == h.bound - h.init
  <2>1. /\ h.loop = "CCG" /\ h.test = "below" /\ h.bound \in 31 .. 90 /\ h.step = 1
        /\ h.init \in -30 .. 30
    BY <1>13 DEF ToTest
  <2>2. Start(h) = h.init
    BY <1>4, <2>1
  <2>3. \A m \in Int : m * h.step = m
    BY <2>1
  <2>4. n \in 0 .. 255 /\ Start(h) + n * h.step = h.bound
    BY <2>1, <2>2, <2>3
  <2>5. ~Continues(h, Start(h) + n * h.step)
    BY <2>1, <2>4 DEF Continues
  <2>6. \A m \in 0 .. n : h.init + m \in -128 .. 127
    <3>1. \A v \in -30 .. 30, t \in 31 .. 90 : \A m \in 0 .. t - v : v + m \in -128 .. 127
      OBVIOUS
    <3> QED BY <2>1, <3>1
  <2>7. \A m \in 0 .. n : Start(h) + m * h.step \in -128 .. 127
    BY <2>2, <2>3, <2>4, <2>6
  <2> HIDE DEF n
  <2> QED BY <1>6, <2>4, <2>5, <2>7
<1> QED BY <1>7, <1>8, <1>9, <1>10, <1>11, <1>12, <1>13, HeadKinds

\* An unsigned variable: what is a multiple of 2^VarBits away is the same value.
LEMMA Wrapped ==
  ASSUME NEW x \in Int, NEW j \in Int, NEW y \in 0 .. 2^VarBits - 1, x = y + j * 2^VarBits
  PROVE  x % 2^VarBits = y
<1> DEFINE P == 2^VarBits
<1>1. P \in Nat /\ P > 0
  BY Width
<1> HIDE DEF P
<1>2. x = j * P + y /\ y \in 0 .. P - 1
  BY <1>1 DEF P
<1>3. x % P = y
  BY <1>1, <1>2, ModIs
<1> QED BY <1>3 DEF P

\* Where an unsigned variable starts.
LEMMA UnsignedStart ==
  ASSUME NEW h, h.unsigned, h.init \in -30 .. 30, h.step \in -5 .. 5
  PROVE  LET turn == IF h.loop = "DoWhile" /\ h.test # "nonzero" THEN h.step ELSE 0
             x    == h.init + turn
         IN Start(h) = IF x < 0 THEN x + 2^VarBits ELSE x
<1> DEFINE P == 2^VarBits
           turn == IF h.loop = "DoWhile" /\ h.test # "nonzero" THEN h.step ELSE 0
           x == h.init + turn
           w == h.init % P
<1>1. P \in Nat /\ P >= 256
  BY Width
<1>2. \A v : Stored(h, v) = v % P
  BY DEF Stored
<1>3. Start(h) = IF h.loop = "DoWhile" /\ h.test # "nonzero" THEN (w + h.step) % P ELSE w
  BY <1>2 DEF Start
<1> HIDE DEF P
<1>4. w = IF h.init < 0 THEN h.init + P ELSE h.init
  <2>1. CASE h.init < 0
    <3> DEFINE y == h.init + P
    <3>1. h.init = y + (-1) * P /\ y \in 0 .. P - 1
      BY <1>1, <2>1
    <3> HIDE DEF y
    <3>2. h.init % P = y
      BY <3>1, Wrapped DEF P
    <3> QED BY <2>1, <3>2 DEF y
  <2>2. CASE ~(h.init < 0)
    <3>1. h.init = h.init + 0 * P /\ h.init \in 0 .. P - 1
      BY <1>1, <2>2
    <3>2. h.init % P = h.init
      BY <3>1, Wrapped DEF P
    <3> QED BY <2>2, <3>2
  <2> QED BY <2>1, <2>2
<1> HIDE DEF w
<1>5. CASE h.loop = "DoWhile" /\ h.test # "nonzero"
  <2>1. Start(h) = (w + h.step) % P /\ x = h.init + h.step /\ x \in -35 .. 35
    BY <1>3, <1>5
  <2> HIDE DEF x
  <2> DEFINE y == IF x < 0 THEN x + P ELSE x
             j == IF h.init < 0 THEN IF x < 0 THEN 0 ELSE 1 ELSE IF x < 0 THEN -1 ELSE 0
  <2>2. w + h.step \in Int /\ j \in Int /\ y \in 0 .. P - 1
    BY <1>1, <1>4, <2>1
  <2>3. w + h.step = y + j * P
    BY <1>1, <1>4, <2>1
  <2> HIDE DEF y, j
  <2>4. (w + h.step) % P = y
    <3> DEFINE v == w + h.step
    <3>1. v \in Int /\ v = y + j * P
      BY <2>2, <2>3
    <3> HIDE DEF v
    <3>2. v % P = y
      BY <2>2, <3>1, Wrapped DEF P
    <3> QED BY <3>2 DEF v
  <2>5. Start(h) = IF x < 0 THEN x + P ELSE x
    BY <2>1, <2>4 DEF y
  <2> QED BY <2>5 DEF P, x
<1>6. CASE ~(h.loop = "DoWhile" /\ h.test # "nonzero")
  <2>1. Start(h) = w /\ x = h.init
    BY <1>3, <1>6
  <2> QED BY <1>4, <2>1 DEF P
<1> QED BY <1>5, <1>6

\* The one that counts down by four from a number that has 3 left over passes by all
\* the numbers that would end it: 2^VarBits is a multiple of four.
LEMMA FourGoesOn ==
  ASSUME NEW h, h.unsigned, h.test = "above", h.bound = 2, h.step = -4,
         Start(h) \in Nat, Start(h) % 4 = 3
  PROVE  ~Ends(h)
<1> DEFINE P == 2^VarBits
           s == Start(h)
<1>1. P \in Nat /\ P > 0 /\ \E q \in Nat : P = 4 * q
  BY Width
<1>2. PICK q \in Nat : P = 4 * q
  BY <1>1
<1> HIDE DEF P, s
<1>3. s \in Nat /\ s % 4 = 3
  BY DEF s
<1>4. ASSUME NEW n \in 0 .. P PROVE Value(h, n) > 2
  <2> DEFINE x == s - 4 * n
             r == x % P
             j == x \div P
  <2>1. x \in Int /\ x = j * P + r /\ j \in Int /\ r \in 0 .. P - 1
    BY <1>1, <1>3
  <2>2. Value(h, n) = r
    <3>1. n * h.step = -4 * n /\ s + (-4 * n) = x
      BY <1>3
    <3>2. Value(h, n) = (s + n * h.step) % P
      BY DEF Value, Stored, s, P
    <3> QED BY <3>1, <3>2
  <2> HIDE DEF x, r, j
  <2>3. j * P = 4 * (j * q) /\ j * q \in Int
    BY <1>2, <2>1
  <2>4. s = 4 * (n + j * q) + r
    BY <1>3, <2>1, <2>3 DEF x
  <2> DEFINE k == n + j * q
  <2>5. k \in Int /\ s = 4 * k + r
    BY <2>3, <2>4
  <2> HIDE DEF k
  <2>6. r % 4 = 3
    BY <1>3, <2>1, <2>5
  <2>7. r > 2
    BY <2>1, <2>6
  <2> QED BY <2>2, <2>7
<1>5. \A n \in 0 .. P : Continues(h, Value(h, n))
  <2> TAKE n \in 0 .. P
  <2>1. Value(h, n) > 2
    BY <1>4
  <2> QED BY <2>1 DEF Continues
<1> QED BY <1>5 DEF Ends, Stops, P

\* By steps of three and fewer it cannot miss 2, 1 and 0; by four, not from there.
LEMMA ShortStepsEnd ==
  ASSUME NEW h, h.unsigned, h.test = "above", h.bound = 2, h.step \in -4 .. -1,
         Start(h) \in 0 .. 2^VarBits - 1, h.step = -4 => Start(h) % 4 # 3
  PROVE  Ends(h)
<1> DEFINE P == 2^VarBits
           s == Start(h)
<1>1. P \in Nat /\ P >= 256
  BY Width
<1>2. s \in 0 .. P - 1 /\ (h.step = -4 => s % 4 # 3)
  OBVIOUS
<1> HIDE DEF P, s
<1>3. \E n \in 0 .. P, r \in 0 .. 2 : s + n * h.step = r
  <2>1. CASE h.step = -1
    <3>1. s \in 0 .. P /\ s + s * h.step = 0
      BY <1>1, <1>2, <2>1
    <3>2. 0 \in 0 .. 2
      OBVIOUS
    <3> QED BY <3>1, <3>2
  <2>2. CASE h.step = -2
    <3> DEFINE n == s \div 2
               r == s % 2
    <3>1. n \in 0 .. P /\ r \in 0 .. 2 /\ s + n * h.step = r
      BY <1>1, <1>2, <2>2
    <3> HIDE DEF n, r
    <3> QED BY <3>1
  <2>3. CASE h.step = -3
    <3> DEFINE n == s \div 3
               r == s % 3
    <3>1. n \in 0 .. P /\ r \in 0 .. 2 /\ s + n * h.step = r
      BY <1>1, <1>2, <2>3
    <3> HIDE DEF n, r
    <3> QED BY <3>1
  <2>4. CASE h.step = -4
    <3> DEFINE n == s \div 4
               r == s % 4
    <3>1. n \in 0 .. P /\ r \in 0 .. 2 /\ s + n * h.step = r
      BY <1>1, <1>2, <2>4
    <3> HIDE DEF n, r
    <3> QED BY <3>1
  <2> QED BY <2>1, <2>2, <2>3, <2>4
<1>4. PICK n \in 0 .. P, r \in 0 .. 2 : s + n * h.step = r
  BY <1>3
<1>5. Value(h, n) = r
  <2>1. Value(h, n) = r % P
    BY <1>4 DEF Value, Stored, s, P
  <2>2. r % P = r
    <3>1. r = r + 0 * P /\ r \in 0 .. P - 1 /\ r \in Int
      BY <1>1, <1>4
    <3> QED BY <3>1, Wrapped DEF P
  <2> QED BY <2>1, <2>2
<1>6. ~Continues(h, Value(h, n))
  <2>1. ~(r > 2)
    BY <1>4
  <2> QED BY <1>5, <2>1 DEF Continues
<1> QED BY <1>6, EndsAt DEF P

\* By five it may miss them in one turn round the values, but not in five: 2^VarBits
\* is no multiple of five, so it meets 0.
LEMMA FiveEnds ==
  ASSUME NEW h, h.unsigned, h.test = "above", h.bound = 2, h.step = -5,
         Start(h) \in 0 .. 2^VarBits - 1
  PROVE  Ends(h)
<1> DEFINE P == 2^VarBits
           s == Start(h)
<1>1. P \in Nat /\ P >= 256 /\ \E q \in Nat, r \in 1 .. 4 : P = 5 * q + r
  BY Width
<1>2. PICK q \in Nat, r \in 1 .. 4 : P = 5 * q + r
  BY <1>1
<1>3. s \in 0 .. P - 1
  OBVIOUS
<1> HIDE DEF P, s
<1>4. \E k \in 0 .. 4, t \in Int : s + k * P = 5 * t
  <2> DEFINE a == s \div 5
             c == s % 5
  <2>1. s = 5 * a + c /\ a \in Int /\ c \in 0 .. 4
    BY <1>3
  <2> HIDE DEF a, c
  <2>2. \E k \in 0 .. 4, u \in 0 .. 5 : c + k * r = 5 * u
    <3>1. CASE r = 1
      BY <2>1, <3>1
    <3>2. CASE r = 2
      BY <2>1, <3>2
    <3>3. CASE r = 3
      BY <2>1, <3>3
    <3>4. CASE r = 4
      BY <2>1, <3>4
    <3> QED BY <1>2, <3>1, <3>2, <3>3, <3>4
  <2>3. PICK k \in 0 .. 4, u \in 0 .. 5 : c + k * r = 5 * u
    BY <2>2
  <2> DEFINE t == a + k * q + u
  <2>4. k * P = 5 * (k * q) + k * r /\ k * q \in Int /\ k * r \in Int
    BY <1>2, <2>3
  <2>5. s + k * P = 5 * t /\ t \in Int
    BY <2>1, <2>3, <2>4
  <2> HIDE DEF t
  <2> QED BY <2>3, <2>5
<1>5. PICK k \in 0 .. 4, t \in Int : s + k * P = 5 * t
  BY <1>4
<1>6. t \in 0 .. P
  <2>1. k * P \in 0 .. 4 * P
    BY <1>1, <1>5
  <2> QED BY <1>1, <1>3, <1>5, <2>1
<1>7. s + t * h.step = 0 + (-k) * P
  <2> DEFINE y == k * P
  <2>1. t * h.step = -(5 * t)
    BY <1>5
  <2>2. (-k) * P = -y /\ y \in Int
    BY <1>1, <1>5
  <2>3. s + y = 5 * t
    BY <1>5
  <2> HIDE DEF y
  <2>4. s + -(5 * t) = 0 + -y
    BY <1>3, <1>5, <2>2, <2>3
  <2> QED BY <2>1, <2>2, <2>4
<1>8. Value(h, t) = 0
  <2> DEFINE x == s + t * h.step
             j == -k
             z == 0
  <2>1. x \in Int /\ j \in Int /\ z \in 0 .. P - 1 /\ x = z + j * P
    BY <1>1, <1>3, <1>5, <1>7
  <2>2. Value(h, t) = x % P
    BY DEF Value, Stored, s, P
  <2> HIDE DEF x, j, z
  <2>3. x % P = z
    BY <2>1, Wrapped DEF P
  <2> QED BY <2>2, <2>3 DEF z
<1>9. ~Continues(h, Value(h, t))
  <2>1. ~(0 > 2)
    OBVIOUS
  <2> QED BY <1>8, <2>1 DEF Continues
<1> QED BY <1>6, <1>9, EndsAt DEF P

\* An unsigned variable: all loops end but the one that goes down by four from 3 or 7.
LEMMA UnsignedEnds ==
  ASSUME NEW h \in AllHeads, h.unsigned
  PROVE  ~Ends(h) <=> h.loop \in GrammarLoops /\ h.step = -4 /\ h.init % 4 = 3
<1> DEFINE P == 2^VarBits
           turn == IF h.loop = "DoWhile" /\ h.test # "nonzero" THEN h.step ELSE 0
           x == h.init + turn
           s == Start(h)
<1>1. P \in Nat /\ P >= 256 /\ \E q \in Nat : P = 4 * q
  BY Width
<1>2. h.init \in -30 .. 30 /\ h.step \in -5 .. 5
  BY HeadKinds DEF DownToZero, DownPastTwo, UpToZero, UpPastHundred, UpFromTop, NoTurn, ToTest
<1>3. s = IF x < 0 THEN x + P ELSE x
  BY <1>2, UnsignedStart
<1>4. x \in -35 .. 35
  BY <1>2
<1> HIDE DEF P, s
<1>5. s \in 0 .. P - 1
  BY <1>1, <1>3, <1>4
<1>6. \A n : Value(h, n) = (s + n * h.step) % P
  BY DEF Value, Stored, s, P
\* It ends where the value of a turn, less what it has wrapped, ends it.
<1>7. ASSUME NEW n \in 0 .. 255, NEW j \in Int, NEW y \in 0 .. P - 1,
             s + n * h.step = y + j * P, ~Continues(h, y)
      PROVE  Ends(h)
  <2> DEFINE z == s + n * h.step
  <2>1. z \in Int /\ z = y + j * P
    BY <1>2, <1>5, <1>7
  <2> HIDE DEF z
  <2>2. z % P = y
    BY <2>1, Wrapped DEF P
  <2>3. Value(h, n) = y
    BY <1>6, <2>2 DEF z
  <2>4. n \in 0 .. P
    BY <1>1
  <2> QED BY <1>7, <2>3, <2>4, EndsAt DEF P
<1>8. CASE DownToZero(h)
  <2>1. h.init \in 1 .. 10 /\ h.step = -1 /\ h.test = "nonzero" /\ s = h.init
    BY <1>2, <1>3, <1>8 DEF DownToZero
  <2> DEFINE n == h.init
             j == 0
             y == 0
  <2>2. /\ n \in 0 .. 255 /\ j \in Int /\ y \in 0 .. P - 1
        /\ s + n * h.step = y + j * P
    BY <1>1, <2>1
  <2>3. ~Continues(h, y)
    BY <2>1 DEF Continues
  <2> HIDE DEF n, j, y
  <2>8. Ends(h)
    BY <1>7, <2>2, <2>3
  <2>9. h.step # -4
    BY <2>1
  <2> QED BY <2>8, <2>9
<1>9. CASE DownPastTwo(h)
  <2>1. h.test = "above" /\ h.bound = 2 /\ h.step \in -5 .. -1 /\ h.init \in 1 .. 10
    BY <1>9 DEF DownPastTwo
  <2>2. Start(h) \in 0 .. 2^VarBits - 1
    BY <1>5 DEF s, P
  <2>3. h.loop \in GrammarLoops
    BY <1>9, HeadKinds DEF DownPastTwo, ToTest
  <2>4. CASE h.step = -5
    BY <2>1, <2>2, <2>4, FiveEnds
  <2>5. CASE h.step \in -3 .. -1
    <3>1. h.step \in -4 .. -1 /\ h.step # -4
      BY <2>5
    <3> QED BY <2>1, <2>2, <3>1, ShortStepsEnd
  <2>6. CASE h.step = -4
    <3>1. s % 4 = h.init % 4
      <4>1. PICK q \in Nat : P = 4 * q
        BY <1>1
      <4>2. PICK t \in Int : s = h.init + 4 * t
        <5>1. CASE turn = 0
          <6>1. s = h.init + 4 * 0
            BY <1>3, <2>1, <5>1
          <6> QED BY <6>1
        <5>2. CASE turn = -4 /\ h.init < 4
          <6>1. s = h.init + 4 * (q - 1) /\ q - 1 \in Int
            BY <1>3, <2>1, <4>1, <5>2
          <6> QED BY <6>1
        <5>3. CASE turn = -4 /\ h.init >= 4
          <6>1. s = h.init + 4 * (-1)
            BY <1>3, <2>1, <5>3
          <6> QED BY <6>1
        <5> QED BY <2>1, <2>6, <5>1, <5>2, <5>3
      <4> QED BY <2>1, <4>2
    <3>2. CASE h.init % 4 = 3
      <4>1. Start(h) \in Nat /\ Start(h) % 4 = 3
        BY <1>5, <3>1, <3>2 DEF s
      <4> QED BY <2>1, <2>3, <2>6, <3>2, <4>1, FourGoesOn
    <3>3. CASE h.init % 4 # 3
      <4>1. Start(h) % 4 # 3 /\ h.step \in -4 .. -1
        BY <2>6, <3>1, <3>3 DEF s
      <4> QED BY <2>1, <2>2, <3>3, <4>1, ShortStepsEnd
    <3> QED BY <3>2, <3>3
  <2> QED BY <2>1, <2>4, <2>5, <2>6
<1>10. CASE UpToZero(h)
  <2>1. h.init \in -10 .. -1 /\ h.step = 1 /\ h.test = "nonzero" /\ s = h.init + P
    BY <1>2, <1>3, <1>10 DEF UpToZero
  <2> DEFINE n == -h.init
             j == 1
             y == 0
  <2>2. /\ n \in 0 .. 255 /\ j \in Int /\ y \in 0 .. P - 1
        /\ s + n * h.step = y + j * P
    BY <1>1, <2>1
  <2>3. ~Continues(h, y)
    BY <2>1 DEF Continues
  <2> HIDE DEF n, j, y
  <2>8. Ends(h)
    BY <1>7, <2>2, <2>3
  <2>9. h.step # -4
    BY <2>1
  <2> QED BY <2>8, <2>9
<1>11. CASE UpPastHundred(h)
  <2>1. h.init \in -10 .. -1 /\ h.step \in 1 .. 5 /\ h.test = "below" /\ h.bound = 100
    BY <1>11 DEF UpPastHundred
  <2>2. x \in -10 .. 4
    BY <2>1
  <2> HIDE DEF x
  <2>3. CASE x < 0
    <3> DEFINE n == 0
               j == 0
               y == s
    <3>1. /\ n \in 0 .. 255 /\ j \in Int /\ y \in 0 .. P - 1
          /\ s + n * h.step = y + j * P
      BY <1>1, <1>5, <2>1
    <3>2. y >= 100 /\ y \in Int
      BY <1>1, <1>3, <2>2, <2>3
    <3>3. ~Continues(h, y)
      BY <2>1, <3>2 DEF Continues
    <3> HIDE DEF n, j, y
    <3>8. Ends(h)
      BY <1>7, <3>1, <3>3
    <3>9. h.step # -4
      BY <2>1
    <3> QED BY <3>8, <3>9
  <2>4. CASE ~(x < 0)
    <3>1. \E n \in 0 .. 255 : n * h.step \in 100 .. 104
      <4> DEFINE Passes == \E n \in 0 .. 255 : n * h.step \in 100 .. 104
      <4>1. ASSUME h.step = 1 PROVE Passes
        <5>1. 100 * h.step \in 100 .. 104 /\ 100 \in 0 .. 255
          BY <4>1
        <5> QED BY <5>1
      <4>2. ASSUME h.step = 2 PROVE Passes
        <5>1. 50 * h.step \in 100 .. 104 /\ 50 \in 0 .. 255
          BY <4>2
        <5> QED BY <5>1
      <4>3. ASSUME h.step = 3 PROVE Passes
        <5>1. 34 * h.step \in 100 .. 104 /\ 34 \in 0 .. 255
          BY <4>3
        <5> QED BY <5>1
      <4>4. ASSUME h.step = 4 PROVE Passes
        <5>1. 25 * h.step \in 100 .. 104 /\ 25 \in 0 .. 255
          BY <4>4
        <5> QED BY <5>1
      <4>5. ASSUME h.step = 5 PROVE Passes
        <5>1. 20 * h.step \in 100 .. 104 /\ 20 \in 0 .. 255
          BY <4>5
        <5> QED BY <5>1
      <4>6. h.step = 1 \/ h.step = 2 \/ h.step = 3 \/ h.step = 4 \/ h.step = 5
        BY <2>1
      <4> HIDE DEF Passes
      <4>7. Passes
        BY <4>1, <4>2, <4>3, <4>4, <4>5, <4>6, Zenon
      <4> QED BY <4>7 DEF Passes
    <3>2. PICK n \in 0 .. 255 : n * h.step \in 100 .. 104
      BY <3>1
    <3> DEFINE j == 0
               y == s + n * h.step
    <3>3. j \in Int /\ y \in 0 .. P - 1 /\ y >= 100 /\ y = y + j * P
      BY <1>1, <1>3, <2>2, <2>4, <3>2
    <3>4. ~Continues(h, y)
      <4> HIDE DEF y
      <4>1. ~(y < 100)
        BY <3>3
      <4> QED BY <2>1, <4>1 DEF Continues
    <3>5. s + n * h.step = y + j * P
      BY <3>3
    <3> HIDE DEF j, y
    <3>8. Ends(h)
      BY <1>7, <3>3, <3>4, <3>5
    <3>9. h.step # -4
      BY <2>1
    <3> QED BY <3>8, <3>9
  <2> QED BY <2>2, <2>3, <2>4
<1>12. CASE UpFromTop(h)
  <2>1. /\ h.init \in -10 .. -1 /\ h.step \in 2 .. 5 /\ h.test = "above" /\ h.bound = 100
        /\ s = h.init + P
    BY <1>2, <1>3, <1>12 DEF UpFromTop
  <2> DEFINE n == 10
             j == 1
             y == h.init + 10 * h.step
  <2>2. /\ n \in 0 .. 255 /\ j \in Int /\ y \in 0 .. P - 1 /\ y <= 100
        /\ s + n * h.step = y + j * P
    BY <1>1, <2>1
  <2>3. ~Continues(h, y)
    <3> HIDE DEF y
    <3>1. ~(y > 100)
      BY <2>2
    <3> QED BY <2>1, <3>1 DEF Continues
  <2> HIDE DEF n, j, y
  <2>8. Ends(h)
    BY <1>7, <2>2, <2>3
  <2>9. h.step # -4
    BY <2>1
  <2> QED BY <2>8, <2>9
<1>13. CASE NoTurn(h)
  <2>1. h.test = "never" /\ h.init = 0 /\ h.step = 0 /\ s = 0
    BY <1>2, <1>3, <1>13 DEF NoTurn
  <2> DEFINE n == 0
             j == 0
             y == 0
  <2>2. /\ n \in 0 .. 255 /\ j \in Int /\ y \in 0 .. P - 1
        /\ s + n * h.step = y + j * P
    BY <1>1, <2>1
  <2>3. ~Continues(h, y)
    BY <2>1 DEF Continues
  <2> HIDE DEF n, j, y
  <2>8. Ends(h)
    BY <1>7, <2>2, <2>3
  <2>9. h.step # -4
    BY <2>1
  <2> QED BY <2>8, <2>9
<1>14. CASE ToTest(h)
  <2>1. /\ h.loop = "CCG" /\ h.test = "below" /\ h.bound \in 31 .. 90 /\ h.step = 1
        /\ h.init \in 1 .. 30
    BY <1>14 DEF ToTest
  <2>2. s = h.init
    BY <1>3, <2>1
  <2> DEFINE n == h.bound - h.init
             j == 0
             y == h.bound
  <2>3. n \in 0 .. 255 /\ j \in Int /\ y \in 0 .. P - 1
    BY <1>1, <2>1
  <2>4. s + n * h.step = y + j * P
    BY <1>1, <2>1, <2>2
  <2>5. ~Continues(h, y)
    BY <2>1 DEF Continues
  <2> HIDE DEF n, j, y
  <2>8. Ends(h)
    BY <1>7, <2>3, <2>4, <2>5
  <2>9. h.step # -4
    BY <2>1
  <2> QED BY <2>8, <2>9
<1> QED BY <1>8, <1>9, <1>10, <1>11, <1>12, <1>13, <1>14, HeadKinds
-----------------------------------------------------------------------------
(* Sums. *)

\* Among subsets of a finite set there is one with no other of them in it.
LEMMA LeastSubset ==
  ASSUME NEW D, IsFiniteSet(D), NEW T, T \subseteq SUBSET D, T # {}
  PROVE  \E s \in T : \A t \in T : t \subseteq s => t = s
<1>1. IsWellFoundedOn(StrictSubsetOrdering(D), SUBSET D)
  <2>1. FiniteSubsetsOf(D) = SUBSET D
    BY FS_FiniteSubsetsOfFinite
  <2> QED BY <2>1, FS_StrictSubsetOrderingWellFounded
<1>2. PICK s \in T : \A t \in T : ~(<<t, s>> \in StrictSubsetOrdering(D))
  BY <1>1, WFMin
<1>3. \A t \in T : t \subseteq s /\ t # s => <<t, s>> \in StrictSubsetOrdering(D)
  BY DEF StrictSubsetOrdering
<1>4. \A t \in T : t \subseteq s => t = s
  BY <1>2, <1>3
<1> QED BY <1>4

\* Induction over the subsets of a finite set.
LEMMA SubsetInduction ==
  ASSUME NEW D, IsFiniteSet(D), NEW S, {} \in S,
         ASSUME NEW t \in SUBSET D, t # {}, \A k \in t : t \ {k} \in S
         PROVE  t \in S
  PROVE  SUBSET D \subseteq S
<1> DEFINE T == (SUBSET D) \ S
<1> SUFFICES ASSUME T # {} PROVE FALSE
  OBVIOUS
<1>1. T \subseteq SUBSET D
  OBVIOUS
<1> HIDE DEF T
<1>2. PICK s \in T : \A t \in T : t \subseteq s => t = s
  BY <1>1, LeastSubset
<1>3. s \in SUBSET D /\ s \notin S
  BY DEF T
<1>4. s # {}
  BY <1>3
<1>5. \A k \in s : s \ {k} \notin T /\ s \ {k} \in SUBSET D
  BY <1>2, <1>3
<1>6. \A k \in s : s \ {k} \in S
  BY <1>5 DEF T
<1> QED BY <1>3, <1>4, <1>6

\* g is the sum of f over each subset of the domain of f.
IsSum(g, f) ==
  /\ g \in [SUBSET DOMAIN f -> Nat]
  /\ g[{}] = 0
  /\ \A s \in SUBSET DOMAIN f : \A k \in s : g[s] = f[k] + g[s \ {k}]

\* The same, as long as the elements are taken in the order of CHOOSE.
OneOf(s) == CHOOSE k \in s : TRUE
AddsUp(g, f, S) ==
  \A s \in S : g[s] = IF s = {} THEN 0 ELSE f[OneOf(s)] + g[s \ {OneOf(s)}]

\* There is such a function.
LEMMA SumExists ==
  ASSUME NEW D, IsFiniteSet(D), NEW f \in [D -> Nat]
  PROVE  \E g \in [SUBSET D -> Nat] : AddsUp(g, f, SUBSET D)
<1> DEFINE Small(n) == {s \in SUBSET D : Cardinality(s) <= n}
           S == {n \in Nat : \E g \in [Small(n) -> Nat] : AddsUp(g, f, Small(n))}
<1>1. \A s \in SUBSET D : IsFiniteSet(s) /\ Cardinality(s) \in Nat
  BY FS_Subset, FS_CardinalityType
<1>2. 0 \in S
  <2> DEFINE g == [s \in Small(0) |-> 0]
  <2>1. \A s \in Small(0) : s = {}
    BY <1>1, FS_EmptySet
  <2>2. g \in [Small(0) -> Nat]
    OBVIOUS
  <2>3. AddsUp(g, f, Small(0))
    BY <2>1 DEF AddsUp
  <2> HIDE DEF g
  <2> QED BY <2>2, <2>3
<1>3. ASSUME NEW n \in Nat, n \in S PROVE n + 1 \in S
  <2>1. PICK h \in [Small(n) -> Nat] : AddsUp(h, f, Small(n))
    BY <1>3
  <2> DEFINE g == [s \in Small(n + 1) |->
                     IF s = {} THEN 0 ELSE f[OneOf(s)] + h[s \ {OneOf(s)}]]
  <2>2. Small(n) \subseteq Small(n + 1)
    BY <1>1
  <2>3. \A s \in Small(n + 1) : s # {} => OneOf(s) \in s /\ s \ {OneOf(s)} \in Small(n)
    <3> TAKE s \in Small(n + 1)
    <3>1. s # {} => OneOf(s) \in s
      BY DEF OneOf
    <3>2. \A k \in s : s \ {k} \in SUBSET D /\ Cardinality(s \ {k}) = Cardinality(s) - 1
      BY <1>1, FS_RemoveElement
    <3>3. \A k \in s : s \ {k} \in Small(n)
      BY <1>1, <3>2
    <3> QED BY <3>1, <3>3
  <2>4. g \in [Small(n + 1) -> Nat]
    <3> HIDE DEF Small
    <3>1. \A s \in Small(n + 1) : s # {} => f[OneOf(s)] \in Nat /\ h[s \ {OneOf(s)}] \in Nat
      BY <2>1, <2>3 DEF Small
    <3> QED BY <3>1
  <2>5. \A s \in Small(n) : g[s] = h[s]
    <3> HIDE DEF Small
    <3> QED BY <2>1, <2>2 DEF AddsUp
  <2>6. AddsUp(g, f, Small(n + 1))
    <3>1. \A s \in Small(n + 1) : g[s] = IF s = {} THEN 0 ELSE f[OneOf(s)] + h[s \ {OneOf(s)}]
      OBVIOUS
    <3> HIDE DEF g, Small
    <3> QED BY <2>3, <2>5, <3>1 DEF AddsUp
  <2> HIDE DEF g, Small
  <2> QED BY <2>4, <2>6
<1>4. Cardinality(D) \in S
  <2> HIDE DEF S
  <2>1. Nat \subseteq S
    BY <1>2, <1>3, Induction
  <2> QED BY <2>1, FS_CardinalityType
<1>5. Small(Cardinality(D)) = SUBSET D
  BY FS_Subset
<1>6. PICK g \in [Small(Cardinality(D)) -> Nat] : AddsUp(g, f, Small(Cardinality(D)))
  BY <1>4
<1> HIDE DEF Small
<1> QED BY <1>5, <1>6

\* The elements may be taken in any order.
LEMMA AnyOrder ==
  ASSUME NEW D, IsFiniteSet(D), NEW f \in [D -> Nat],
         NEW g \in [SUBSET D -> Nat], AddsUp(g, f, SUBSET D)
  PROVE  IsSum(g, f)
<1> DEFINE S == {s \in SUBSET D : \A k \in s : g[s] = f[k] + g[s \ {k}]}
<1>1. {} \in S
  OBVIOUS
<1>2. ASSUME NEW s \in SUBSET D, s # {}, \A k \in s : s \ {k} \in S PROVE s \in S
  <2> SUFFICES ASSUME NEW k \in s PROVE g[s] = f[k] + g[s \ {k}]
    OBVIOUS
  <2> DEFINE c == OneOf(s)
  <2>1. c \in s /\ g[s] = f[c] + g[s \ {c}]
    BY <1>2 DEF AddsUp, OneOf
  <2> HIDE DEF c
  <2>2. CASE c = k
    BY <2>1, <2>2
  <2>3. CASE c # k
    <3> DEFINE r == (s \ {c}) \ {k}
    <3>1. k \in s \ {c} /\ c \in s \ {k} /\ r = (s \ {k}) \ {c} /\ r \in SUBSET D
      BY <2>1, <2>3
    <3>2. s \ {c} \in S /\ s \ {k} \in S
      BY <1>2, <2>1
    <3> HIDE DEF r
    <3>3. g[s \ {c}] = f[k] + g[r]
      BY <3>1, <3>2 DEF r
    <3>4. g[s \ {k}] = f[c] + g[r]
      BY <3>1, <3>2
    <3>5. f[c] \in Nat /\ f[k] \in Nat /\ g[r] \in Nat
      BY <2>1, <3>1
    <3>6. f[c] + (f[k] + g[r]) = f[k] + (f[c] + g[r])
      BY <3>5
    <3> QED BY <2>1, <3>3, <3>4, <3>6
  <2> QED BY <2>2, <2>3
<1>3. SUBSET D \subseteq S
  <2> HIDE DEF S
  <2> QED BY <1>1, <1>2, SubsetInduction
<1>4. g[{}] = 0
  BY DEF AddsUp
<1>5. \A s \in SUBSET D : \A k \in s : g[s] = f[k] + g[s \ {k}]
  BY <1>3
<1> QED BY <1>4, <1>5 DEF IsSum

\* What the loop computes.
LEMMA TotalIsSum ==
  ASSUME NEW D, IsFiniteSet(D), NEW f \in [D -> Nat]
  PROVE  \E g : IsSum(g, f) /\ Total(f) = g[D]
<1> DEFINE g == CHOOSE h : h = [s \in SUBSET DOMAIN f |->
                  IF s = {} THEN 0
                  ELSE LET k == CHOOSE k \in s : TRUE IN f[k] + h[s \ {k}]]
<1>1. \E h : h = [s \in SUBSET DOMAIN f |->
                  IF s = {} THEN 0
                  ELSE LET k == CHOOSE k \in s : TRUE IN f[k] + h[s \ {k}]]
  <2>1. PICK h \in [SUBSET D -> Nat] : AddsUp(h, f, SUBSET D)
    BY SumExists
  <2>2. h = [s \in SUBSET DOMAIN f |-> h[s]]
    BY <2>1
  <2>3. \A s \in SUBSET DOMAIN f :
          h[s] = IF s = {} THEN 0 ELSE LET k == CHOOSE k \in s : TRUE IN f[k] + h[s \ {k}]
    BY <2>1 DEF AddsUp, OneOf
  <2>4. h = [s \in SUBSET DOMAIN f |->
               IF s = {} THEN 0
               ELSE LET k == CHOOSE k \in s : TRUE IN f[k] + h[s \ {k}]]
    BY <2>2, <2>3
  <2> QED BY <2>4
<1>2. g = [s \in SUBSET DOMAIN f |->
             IF s = {} THEN 0
             ELSE LET k == CHOOSE k \in s : TRUE IN f[k] + g[s \ {k}]]
  BY <1>1
<1>3. Total(f) = g[DOMAIN f]
  BY DEF Total
<1> HIDE DEF g
<1>4. \A s \in SUBSET D : g[s] = IF s = {} THEN 0 ELSE f[OneOf(s)] + g[s \ {OneOf(s)}]
  BY <1>2 DEF OneOf
<1>5. g \in [SUBSET D -> Nat]
  <2> DEFINE S == {s \in SUBSET D : g[s] \in Nat}
  <2>1. g = [s \in SUBSET D |-> g[s]]
    BY <1>2
  <2>2. {} \in S
    <3>1. g[{}] = 0
      BY <1>4
    <3> QED BY <3>1
  <2>3. ASSUME NEW s \in SUBSET D, s # {}, \A k \in s : s \ {k} \in S PROVE s \in S
    <3>1. OneOf(s) \in s
      BY <2>3 DEF OneOf
    <3>2. s \ {OneOf(s)} \in S /\ f[OneOf(s)] \in Nat
      BY <2>3, <3>1
    <3>3. g[s] = f[OneOf(s)] + g[s \ {OneOf(s)}]
      BY <1>4, <2>3
    <3>4. g[s] \in Nat
      BY <3>2, <3>3
    <3> QED BY <3>4
  <2>4. SUBSET D \subseteq S
    <3> HIDE DEF S
    <3> QED BY <2>2, <2>3, SubsetInduction
  <2>5. \A s \in SUBSET D : g[s] \in Nat
    BY <2>4
  <2> QED BY <2>1, <2>5
<1>6. AddsUp(g, f, SUBSET D)
  BY <1>4 DEF AddsUp
<1> QED BY <1>3, <1>5, <1>6, AnyOrder

\* A sum is at least 0, of zeros it is 0, one more is one more.
LEMMA TotalType ==
  ASSUME NEW D, IsFiniteSet(D), NEW f \in [D -> Nat]
  PROVE  Total(f) \in Nat
<1>1. PICK g : IsSum(g, f) /\ Total(f) = g[D]
  BY TotalIsSum
<1>2. g \in [SUBSET D -> Nat]
  BY <1>1 DEF IsSum
<1> QED BY <1>1, <1>2

LEMMA TotalZero ==
  ASSUME NEW D, IsFiniteSet(D)
  PROVE  Total([k \in D |-> 0]) = 0
<1> DEFINE f == [k \in D |-> 0]
<1>1. f \in [D -> Nat]
  OBVIOUS
<1>2. PICK g : IsSum(g, f) /\ Total(f) = g[D]
  BY <1>1, TotalIsSum
<1> DEFINE S == {s \in SUBSET D : g[s] = 0}
<1>3. {} \in S
  BY <1>2 DEF IsSum
<1>4. ASSUME NEW s \in SUBSET D, s # {}, \A k \in s : s \ {k} \in S PROVE s \in S
  <2>1. PICK k \in s : TRUE
    BY <1>4
  <2>2. g[s] = f[k] + g[s \ {k}] /\ f[k] = 0 /\ g[s \ {k}] = 0
    BY <1>2, <1>4, <2>1 DEF IsSum
  <2>3. g[s] = 0
    BY <2>2
  <2> QED BY <2>3
<1>5. SUBSET D \subseteq S
  <2> HIDE DEF S, f
  <2> QED BY <1>3, <1>4, SubsetInduction
<1>6. g[D] = 0
  BY <1>5
<1> QED BY <1>2, <1>6

LEMMA TotalGrows ==
  ASSUME NEW D, IsFiniteSet(D), NEW f \in [D -> Nat], NEW c \in D
  PROVE  Total([f EXCEPT ![c] = @ + 1]) = Total(f) + 1
<1> DEFINE e == [f EXCEPT ![c] = @ + 1]
<1>1. e \in [D -> Nat] /\ \A k \in D : e[k] = IF k = c THEN f[k] + 1 ELSE f[k]
  OBVIOUS
<1>2. PICK g : IsSum(g, f) /\ Total(f) = g[D]
  BY TotalIsSum
<1> HIDE DEF e
<1>3. PICK h : IsSum(h, e) /\ Total(e) = h[D]
  BY <1>1, TotalIsSum
<1>4. /\ g \in [SUBSET D -> Nat] /\ h \in [SUBSET D -> Nat] /\ g[{}] = 0 /\ h[{}] = 0
      /\ \A s \in SUBSET D : \A k \in s : g[s] = f[k] + g[s \ {k}]
      /\ \A s \in SUBSET D : \A k \in s : h[s] = e[k] + h[s \ {k}]
  BY <1>1, <1>2, <1>3 DEF IsSum
<1> DEFINE S == {s \in SUBSET D : h[s] = IF c \in s THEN g[s] + 1 ELSE g[s]}
<1>5. {} \in S
  BY <1>4
<1>6. ASSUME NEW s \in SUBSET D, s # {}, \A k \in s : s \ {k} \in S PROVE s \in S
  <2>1. PICK k \in s : TRUE
    BY <1>6
  <2> DEFINE r == s \ {k}
  <2>2. /\ r \in SUBSET D /\ g[s] = f[k] + g[r] /\ h[s] = e[k] + h[r]
        /\ h[r] = IF c \in r THEN g[r] + 1 ELSE g[r]
    BY <1>4, <1>6, <2>1
  <2>3. g[r] \in Nat /\ f[k] \in Nat
    BY <1>4, <2>1, <2>2
  <2>4. CASE k = c
    <3>1. c \in s /\ c \notin r /\ e[k] = f[k] + 1
      BY <1>1, <2>1, <2>4
    <3>2. h[s] = g[s] + 1
      BY <2>2, <2>3, <3>1
    <3> QED BY <3>1, <3>2
  <2>5. CASE k # c
    <3>1. (c \in s <=> c \in r) /\ e[k] = f[k]
      BY <1>1, <2>1, <2>5
    <3>2. h[s] = IF c \in s THEN g[s] + 1 ELSE g[s]
      BY <2>2, <2>3, <3>1
    <3> QED BY <3>2
  <2> QED BY <2>4, <2>5
<1>7. SUBSET D \subseteq S
  <2> HIDE DEF S
  <2> QED BY <1>5, <1>6, SubsetInduction
<1>8. h[D] = g[D] + 1
  BY <1>7
<1> QED BY <1>2, <1>3, <1>8 DEF e

\* The sum over a part is no greater.
LEMMA TotalOfPart ==
  ASSUME NEW D, IsFiniteSet(D), NEW f \in [D -> Nat], NEW E, E \subseteq D
  PROVE  Total([k \in E |-> f[k]]) <= Total(f)
<1> DEFINE e == [k \in E |-> f[k]]
<1>1. e \in [E -> Nat] /\ \A k \in E : e[k] = f[k]
  OBVIOUS
<1>2. IsFiniteSet(E)
  BY FS_Subset
<1>3. PICK g : IsSum(g, f) /\ Total(f) = g[D]
  BY TotalIsSum
<1> HIDE DEF e
<1>4. PICK h : IsSum(h, e) /\ Total(e) = h[E]
  BY <1>1, <1>2, TotalIsSum
<1>5. /\ g \in [SUBSET D -> Nat] /\ h \in [SUBSET E -> Nat] /\ g[{}] = 0 /\ h[{}] = 0
      /\ \A s \in SUBSET D : \A k \in s : g[s] = f[k] + g[s \ {k}]
      /\ \A s \in SUBSET E : \A k \in s : h[s] = f[k] + h[s \ {k}]
  <2>1. DOMAIN f = D /\ DOMAIN e = E
    BY <1>1
  <2>2. /\ g \in [SUBSET D -> Nat] /\ g[{}] = 0
        /\ \A s \in SUBSET D : \A k \in s : g[s] = f[k] + g[s \ {k}]
    BY <1>3, <2>1, Zenon DEF IsSum
  <2>3. /\ h \in [SUBSET E -> Nat] /\ h[{}] = 0
        /\ \A s \in SUBSET E : \A k \in s : h[s] = e[k] + h[s \ {k}]
    BY <1>4, <2>1, Zenon DEF IsSum
  <2>4. ASSUME NEW s \in SUBSET E, NEW k \in s PROVE h[s] = f[k] + h[s \ {k}]
    <3>1. k \in E /\ e[k] = f[k]
      BY <1>1
    <3>2. h[s] = e[k] + h[s \ {k}]
      BY <2>3, Zenon
    <3> QED BY <3>1, <3>2, Zenon
  <2> QED BY <2>2, <2>3, <2>4, Zenon
<1> DEFINE S == {s \in SUBSET D : g[s] \in Nat /\ h[s \cap E] \in Nat /\ h[s \cap E] <= g[s]}
<1>6. {} \in S
  <2>1. {} \cap E = {}
    OBVIOUS
  <2> QED BY <1>5, <2>1
<1>7. ASSUME NEW s \in SUBSET D, s # {}, \A k \in s : s \ {k} \in S PROVE s \in S
  <2>1. PICK k \in s : TRUE
    BY <1>7
  <2> DEFINE r == s \ {k}
  <2>2. /\ r \in SUBSET D /\ g[s] = f[k] + g[r] /\ g[r] \in Nat /\ f[k] \in Nat
        /\ h[r \cap E] \in Nat /\ h[r \cap E] <= g[r]
    BY <1>5, <1>7, <2>1
  <2>3. CASE k \in E
    <3>1. k \in s \cap E /\ s \cap E \in SUBSET E /\ (s \cap E) \ {k} = r \cap E
      BY <2>1, <2>3
    <3>2. h[s \cap E] = f[k] + h[r \cap E]
      BY <1>5, <3>1
    <3>3. h[s \cap E] \in Nat /\ g[s] \in Nat /\ h[s \cap E] <= g[s]
      <4> HIDE DEF r
      <4> QED BY <2>2, <3>2
    <3> QED BY <3>3
  <2>4. CASE k \notin E
    <3>1. s \cap E = r \cap E
      BY <2>4
    <3>2. h[s \cap E] \in Nat /\ g[s] \in Nat /\ h[s \cap E] <= g[s]
      <4> HIDE DEF r
      <4> QED BY <2>2, <3>1
    <3> QED BY <3>2
  <2> QED BY <2>3, <2>4
<1>8. SUBSET D \subseteq S
  <2> HIDE DEF S
  <2> QED BY <1>6, <1>7, SubsetInduction
<1>9. D \cap E = E /\ D \in SUBSET D
  OBVIOUS
<1>10. h[E] <= g[D]
  BY <1>8, <1>9
<1> QED BY <1>3, <1>4, <1>10 DEF e

\* The sum of the squares is no greater than the square of the sum.
LEMMA TotalOfSquares ==
  ASSUME NEW D, IsFiniteSet(D), NEW f \in [D -> Nat]
  PROVE  /\ Total([k \in D |-> f[k] * f[k]]) \in Nat
         /\ Total([k \in D |-> f[k] * f[k]]) <= Total(f) * Total(f)
<1> DEFINE e == [k \in D |-> f[k] * f[k]]
<1>1. e \in [D -> Nat] /\ \A k \in D : e[k] = f[k] * f[k]
  OBVIOUS
<1>2. PICK g : IsSum(g, f) /\ Total(f) = g[D]
  BY TotalIsSum
<1> HIDE DEF e
<1>3. PICK h : IsSum(h, e) /\ Total(e) = h[D]
  BY <1>1, TotalIsSum
<1>4. /\ g \in [SUBSET D -> Nat] /\ h \in [SUBSET D -> Nat] /\ g[{}] = 0 /\ h[{}] = 0
      /\ \A s \in SUBSET D : \A k \in s : g[s] = f[k] + g[s \ {k}]
      /\ \A s \in SUBSET D : \A k \in s : h[s] = f[k] * f[k] + h[s \ {k}]
  BY <1>1, <1>2, <1>3 DEF IsSum
<1> DEFINE S == {s \in SUBSET D : h[s] <= g[s] * g[s]}
<1>5. {} \in S
  BY <1>4
<1>6. \A a, b, c \in Nat : c <= b * b => a * a + c <= (a + b) * (a + b)
  <2>1. \A a, b \in Nat : (a + b) * (a + b) = a * a + b * b + 2 * (a * b) /\ a * b \in Nat
    OBVIOUS
  <2> TAKE a, b, c \in Nat
  <2> DEFINE x == a * a
             y == b * b
             z == a * b
  <2>2. (a + b) * (a + b) = x + y + 2 * z /\ x \in Nat /\ y \in Nat /\ z \in Nat
    BY <2>1
  <2> HIDE DEF x, y, z
  <2>3. c <= y => x + c <= x + y + 2 * z
    BY <2>2
  <2> QED BY <2>2, <2>3 DEF x, y
<1>7. ASSUME NEW s \in SUBSET D, s # {}, \A k \in s : s \ {k} \in S PROVE s \in S
  <2>1. PICK k \in s : TRUE
    BY <1>7
  <2> DEFINE r == s \ {k}
  <2>2. /\ r \in SUBSET D /\ g[s] = f[k] + g[r] /\ g[r] \in Nat /\ f[k] \in Nat
        /\ h[s] = f[k] * f[k] + h[r] /\ h[r] \in Nat /\ h[r] <= g[r] * g[r]
    BY <1>4, <1>7, <2>1
  <2> HIDE DEF r
  <2>3. f[k] * f[k] + h[r] <= (f[k] + g[r]) * (f[k] + g[r])
    BY <1>6, <2>2
  <2>4. h[s] <= g[s] * g[s]
    BY <2>2, <2>3
  <2> QED BY <2>4
<1>8. SUBSET D \subseteq S
  <2> HIDE DEF S
  <2> QED BY <1>5, <1>7, SubsetInduction
<1>9. h[D] <= g[D] * g[D] /\ h[D] \in Nat
  BY <1>4, <1>8
<1> QED BY <1>2, <1>3, <1>9 DEF e
-----------------------------------------------------------------------------
(* The distance. *)

\* Products of naturals keep an order.
LEMMA ProductGrows ==
  ASSUME NEW a \in Nat, NEW b \in Nat, NEW c \in Nat, NEW d \in Nat, a <= b, c <= d
  PROVE  a * c <= b * d
<1>1. a * c <= b * c
  OBVIOUS
<1>2. b * c <= b * d
  OBVIOUS
<1>3. a * c \in Nat /\ b * c \in Nat /\ b * d \in Nat
  OBVIOUS
<1> QED BY <1>1, <1>2, <1>3

LEMMA ProductGrowsStrictly ==
  ASSUME NEW a \in Nat, NEW b \in Nat, a < b
  PROVE  a * a < b * b
<1>1. (a + 1) * (a + 1) <= b * b
  BY ProductGrows
<1>2. (a + 1) * (a + 1) = a * a + 2 * a + 1 /\ a * a \in Nat /\ b * b \in Nat
  OBVIOUS
<1> QED BY <1>1, <1>2

\* The square root of n to Mantissa bits: the number of bits before the point, and
\* the nearest to it there is with the rest of the bits after the point.
IsExponent(b, n) ==
  b \in 0 .. Mantissa /\ n < 2^b * 2^b /\ \A c \in 0 .. b - 1 : 2^c * 2^c <= n
IsRoot(r, n, fine) ==
  /\ r \in 0 .. 2^Mantissa
  /\ 4 * n * fine * fine < (2 * r + 1) * (2 * r + 1)
  /\ r > 0 => (2 * r - 1) * (2 * r - 1) <= 4 * n * fine * fine

LEMMA ExponentExists ==
  ASSUME NEW n \in Nat, 8 * n <= 2^Mantissa
  PROVE  \E b : IsExponent(b, n)
<1> DEFINE T == {b \in Nat : n < 2^b * 2^b}
           W == 2^Mantissa
<1>1. Mantissa \in Nat /\ W \in Nat /\ W > 0
  BY PowerCounts, MutationAssumption
<1>2. Mantissa \in T
  <2>1. W <= W * W
    BY <1>1, ProductGrows
  <2>2. W * W \in Nat
    BY <1>1
  <2> HIDE DEF W
  <2>3. n < W
    BY <1>1 DEF W
  <2>4. n < W * W
    BY <1>1, <2>1, <2>2, <2>3
  <2> QED BY <1>1, <2>4 DEF W
<1>3. T \subseteq Nat /\ T # {}
  BY <1>2
<1> HIDE DEF T
<1>4. PICK b \in T : \A c \in T : b <= c
  BY <1>3, Least
<1>5. b \in 0 .. Mantissa
  BY <1>1, <1>2, <1>3, <1>4
<1>6. \A c \in 0 .. b - 1 : 2^c * 2^c <= n
  <2> TAKE c \in 0 .. b - 1
  <2>1. c \notin T /\ c \in Nat
    BY <1>3, <1>4
  <2>2. 2^c * 2^c \in Nat
    BY <2>1, PowerCounts
  <2> QED BY <2>1, <2>2 DEF T
<1> QED BY <1>4, <1>5, <1>6 DEF T, IsExponent

\* What the bits after the point are worth: together the bits are Mantissa.
LEMMA Bits ==
  ASSUME NEW b \in 0 .. Mantissa
  PROVE  /\ 2^b \in Nat /\ 2^b > 0 /\ 2^(Mantissa - b) \in Nat /\ 2^(Mantissa - b) > 0
         /\ 2^Mantissa = 2^b * 2^(Mantissa - b) /\ 2^Mantissa \in Nat
<1>1. b \in Nat /\ Mantissa - b \in Nat /\ b + (Mantissa - b) = Mantissa /\ Mantissa \in Nat
  BY MutationAssumption
<1> QED BY <1>1, PowerCounts, PowerSum

LEMMA NearestExists ==
  ASSUME NEW n \in Nat, NEW b, IsExponent(b, n)
  PROVE  \E r : IsRoot(r, n, 2^(Mantissa - b))
<1> DEFINE U == 2^b
           F == 2^(Mantissa - b)
           W == 2^Mantissa
           N == 4 * n * F * F
           T == {r \in Nat : N < (2 * r + 1) * (2 * r + 1)}
<1>1. U \in Nat /\ U > 0 /\ F \in Nat /\ F > 0 /\ W = U * F /\ W \in Nat /\ n < U * U
  BY Bits DEF IsExponent
<1> HIDE DEF U, F, W
<1>2. N \in Nat /\ N = 4 * (n * (F * F))
  BY <1>1
<1>3. W \in T
  <2>1. n * (F * F) <= (U * U) * (F * F)
    BY <1>1, ProductGrows
  <2>2. (U * U) * (F * F) = W * W
    <3>1. (U * U) * (F * F) = (U * F) * (U * F)
      BY <1>1
    <3> QED BY <1>1, <3>1
  <2>3. (2 * W + 1) * (2 * W + 1) = 4 * (W * W) + 4 * W + 1 /\ W * W \in Nat
    BY <1>1
  <2> DEFINE x == n * (F * F)
             y == W * W
  <2>4. x \in Nat /\ y \in Nat /\ x <= y
    BY <1>1, <2>1, <2>2
  <2> HIDE DEF x, y
  <2>5. 4 * x < 4 * y + 4 * W + 1
    BY <1>1, <2>4
  <2>6. N < (2 * W + 1) * (2 * W + 1)
    BY <1>2, <2>3, <2>5 DEF x, y
  <2> QED BY <1>1, <2>6
<1> HIDE DEF N
<1>4. T \subseteq Nat /\ T # {}
  BY <1>3
<1>5. PICK r \in T : \A q \in T : r <= q
  <2> HIDE DEF T
  <2> QED BY <1>4, Least
<1>6. r \in 0 .. W
  <2>1. r \in Nat
    BY <1>5
  <2>2. r <= W
    <3> HIDE DEF T
    <3> QED BY <1>3, <1>5
  <2> QED BY <1>1, <2>1, <2>2
<1>7. r > 0 => (2 * r - 1) * (2 * r - 1) <= N
  <2> SUFFICES ASSUME r > 0 PROVE (2 * r - 1) * (2 * r - 1) <= N
    OBVIOUS
  <2> DEFINE q == r - 1
  <2>1. q \in Nat /\ 2 * q + 1 = 2 * r - 1 /\ q \notin T
    <3>1. q \in Nat /\ ~(r <= q) /\ 2 * q + 1 = 2 * r - 1
      BY <1>5
    <3> HIDE DEF q
    <3> QED BY <1>5, <3>1
  <2> HIDE DEF q
  <2>2. (2 * q + 1) * (2 * q + 1) \in Nat
    BY <2>1
  <2>3. (2 * q + 1) * (2 * q + 1) <= N
    BY <1>2, <2>1, <2>2
  <2> QED BY <2>1, <2>3
<1>8. N < (2 * r + 1) * (2 * r + 1)
  BY <1>5
<1>9. IsRoot(r, n, F)
  BY <1>6, <1>7, <1>8 DEF IsRoot, N, W
<1> QED BY <1>9 DEF F

\* What is computed is such a root.
LEMMA RootIs ==
  ASSUME NEW n \in Nat, 8 * n <= 2^Mantissa
  PROVE  \E b, r : /\ IsExponent(b, n) /\ IsRoot(r, n, 2^(Mantissa - b))
                   /\ Root(n) = 2^b * r
<1> DEFINE b == CHOOSE b \in 0 .. Mantissa :
                  n < 2^b * 2^b /\ \A c \in 0 .. b - 1 : 2^c * 2^c <= n
           F == 2^(Mantissa - b)
           r == CHOOSE r \in 0 .. 2^Mantissa :
                  /\ 4 * n * F * F < (2 * r + 1) * (2 * r + 1)
                  /\ r > 0 => (2 * r - 1) * (2 * r - 1) <= 4 * n * F * F
<1>1. Root(n) = 2^b * r
  BY DEF Root
<1>2. IsExponent(b, n)
  <2>1. \E c \in 0 .. Mantissa : n < 2^c * 2^c /\ \A d \in 0 .. c - 1 : 2^d * 2^d <= n
    BY ExponentExists DEF IsExponent
  <2> QED BY <2>1 DEF IsExponent
<1> HIDE DEF b
<1>3. IsRoot(r, n, F)
  <2>1. \E q : IsRoot(q, n, F)
    BY <1>2, NearestExists
  <2>2. \E q \in 0 .. 2^Mantissa :
          /\ 4 * n * F * F < (2 * q + 1) * (2 * q + 1)
          /\ q > 0 => (2 * q - 1) * (2 * q - 1) <= 4 * n * F * F
    BY <2>1 DEF IsRoot
  <2> HIDE DEF F
  <2> QED BY <2>2 DEF IsRoot
<1> HIDE DEF r
<1> QED BY <1>1, <1>2, <1>3

\* Numbers are in the order of their squares.
LEMMA SquareOrder ==
  ASSUME NEW a \in Nat, NEW b \in Nat, a * a < b * b
  PROVE  a < b
<1> SUFFICES ASSUME b <= a PROVE FALSE
  OBVIOUS
<1>1. b * b <= a * a
  BY ProductGrows
<1>2. a * a \in Nat /\ b * b \in Nat
  OBVIOUS
<1> QED BY <1>1, <1>2

\* With the same exponent.
LEMMA RootGrowsFine ==
  ASSUME NEW n \in Nat, NEW m \in Nat, n < m, 8 * m <= 2^Mantissa,
         NEW b, IsExponent(b, n), IsExponent(b, m),
         NEW r, IsRoot(r, n, 2^(Mantissa - b)), NEW s, IsRoot(s, m, 2^(Mantissa - b))
  PROVE  r < s
<1> DEFINE U == 2^b
           F == 2^(Mantissa - b)
           W == 2^Mantissa
           Q == F * F
<1>1. U \in Nat /\ U > 0 /\ F \in Nat /\ F > 0 /\ W = U * F /\ W \in Nat
  BY Bits DEF IsExponent
<1>2. b \in Nat /\ m < U * U /\ \A c \in 0 .. b - 1 : 2^c * 2^c <= n
  BY DEF IsExponent
<1>3. /\ r \in 0 .. W /\ s \in 0 .. W
      /\ 4 * m * F * F < (2 * s + 1) * (2 * s + 1)
      /\ r > 0 => (2 * r - 1) * (2 * r - 1) <= 4 * n * F * F
  BY DEF IsRoot
\* The bits after the point are at least one more than those before it.
<1>4. 2 * U <= F
  <2>1. CASE b = 0
    <3>1. 2^0 = 1
      OBVIOUS
    <3>2. U = 1
      BY <2>1, <3>1
    <3> HIDE DEF U, F, W, Q
    <3> QED BY <1>1, <1>2, <3>2
  <2>2. CASE b # 0
    <3> DEFINE c == b - 1
               H == 2^c
    <3>1. c \in Nat /\ c + 1 = b /\ c \in 0 .. b - 1
      BY <1>2, <2>2
    <3> HIDE DEF c
    <3>2. U = 2 * H /\ H \in Nat
      BY <3>1, PowerNext, PowerCounts
    <3>3. H * H <= n
      BY <1>2, <3>1
    <3> DEFINE h == H * H
    <3> HIDE DEF U, F, W, Q, H
    <3>4. U * U = 4 * h /\ h \in Nat
      BY <3>2
    <3>5. h <= n
      BY <3>3
    <3>6. 8 * m <= U * F
      BY <1>1 DEF W
    <3> HIDE DEF h
    <3>7. 2 * (U * U) <= U * F /\ U * F \in Nat /\ U * U \in Nat
      BY <1>1, <3>4, <3>5, <3>6
    <3>8. U * (2 * U) <= U * F
      <4>1. U * (2 * U) = 2 * (U * U)
        BY <1>1
      <4> QED BY <3>7, <4>1
    <3>9. ASSUME F < 2 * U PROVE FALSE
      <4>1. U * F < U * (2 * U)
        <5>1. F + 1 <= 2 * U /\ F + 1 \in Nat /\ 2 * U \in Nat
          BY <1>1, <3>9
        <5>2. U * (F + 1) <= U * (2 * U)
          BY <1>1, <5>1, ProductGrows
        <5>3. U * (F + 1) = U * F + U
          BY <1>1
        <5>4. U * (2 * U) \in Nat
          BY <1>1
        <5> QED BY <1>1, <3>7, <5>2, <5>3, <5>4
      <4>2. U * (2 * U) \in Nat
        BY <1>1
      <4> QED BY <3>7, <3>8, <4>1, <4>2
    <3> QED BY <1>1, <3>9
  <2> QED BY <2>1, <2>2
<1> HIDE DEF U, F, W, Q
<1>5. 2 * W <= Q /\ Q \in Nat /\ Q > 0
  <2>1. (2 * U) * F <= F * F
    BY <1>1, <1>4, ProductGrows
  <2>2. (2 * U) * F = 2 * W
    BY <1>1
  <2>3. F * F \in Nat /\ F * F > 0
    BY <1>1
  <2> QED BY <2>1, <2>2, <2>3 DEF Q
<1>6. 4 * n * F * F = 4 * (n * Q) /\ 4 * m * F * F = 4 * (m * Q)
  BY <1>1 DEF Q
<1>7. m * Q >= n * Q + Q /\ n * Q \in Nat /\ m * Q \in Nat
  <2>1. (n + 1) * Q <= m * Q
    BY <1>5, ProductGrows
  <2>2. (n + 1) * Q = n * Q + Q /\ n * Q \in Nat /\ m * Q \in Nat
    BY <1>5
  <2> QED BY <2>1, <2>2
<1> SUFFICES ASSUME s <= r PROVE FALSE
  BY <1>3
<1>8. s \in Nat /\ r \in Nat /\ r <= W
  BY <1>1, <1>3
<1>9. (2 * s + 1) * (2 * s + 1) <= (2 * r + 1) * (2 * r + 1)
  <2>1. 2 * s + 1 <= 2 * r + 1 /\ 2 * s + 1 \in Nat /\ 2 * r + 1 \in Nat
    BY <1>8
  <2> QED BY <2>1, ProductGrows
<1> DEFINE x == n * Q
           y == m * Q
           z == (2 * r + 1) * (2 * r + 1)
           w == (2 * s + 1) * (2 * s + 1)
<1>10. z \in Nat /\ w \in Nat /\ w <= z /\ 4 * y < w /\ y >= x + Q /\ x \in Nat /\ y \in Nat
  BY <1>3, <1>6, <1>7, <1>8, <1>9
<1>11. CASE r = 0
  <2>1. z = 1
    BY <1>11
  <2> HIDE DEF x, y, z, w
  <2> QED BY <1>5, <1>10, <2>1
<1>12. CASE r > 0
  <2>1. (2 * r - 1) * (2 * r - 1) = z - 8 * r
    BY <1>8
  <2>2. z - 8 * r <= 4 * x
    BY <1>3, <1>6, <1>12, <2>1
  <2> HIDE DEF x, y, z, w
  <2> QED BY <1>1, <1>5, <1>8, <1>10, <2>2
<1> QED BY <1>8, <1>11, <1>12

\* With a greater exponent: the power of two between them is a root of its own.
LEMMA RootGrowsCoarse ==
  ASSUME NEW n \in Nat, NEW m \in Nat, n < m, 8 * m <= 2^Mantissa,
         NEW b, NEW c, IsExponent(b, n), IsExponent(c, m), b < c,
         NEW r, IsRoot(r, n, 2^(Mantissa - b)), NEW s, IsRoot(s, m, 2^(Mantissa - c))
  PROVE  2^b * r < 2^c * s
<1> DEFINE U == 2^b
           F == 2^(Mantissa - b)
           W == 2^Mantissa
           V == 2^c
           E == 2^(Mantissa - c)
           H == 2^(c - 1)
           X == H * E
<1>1. b \in Nat /\ c - 1 \in Nat /\ (c - 1) + 1 = c /\ b <= c - 1 /\ c - 1 \in 0 .. c - 1
  BY DEF IsExponent
<1>2. U \in Nat /\ U > 0 /\ F \in Nat /\ F > 0 /\ W = U * F /\ W \in Nat
  BY Bits DEF IsExponent
<1>3. V \in Nat /\ V > 0 /\ E \in Nat /\ E > 0 /\ W = V * E
  BY Bits DEF IsExponent
<1>4. V = 2 * H /\ H \in Nat /\ U <= H
  BY <1>1, PowerNext, PowerGrows, PowerCounts
<1>5. n < U * U /\ H * H <= m
  BY <1>1 DEF IsExponent
<1>6. /\ r \in 0 .. W /\ s \in 0 .. W
      /\ r > 0 => (2 * r - 1) * (2 * r - 1) <= 4 * n * F * F
      /\ 4 * m * E * E < (2 * s + 1) * (2 * s + 1)
  BY DEF IsRoot
<1>7. b # 0 => U * U <= 4 * n
  <2> SUFFICES ASSUME b # 0 PROVE U * U <= 4 * n
    OBVIOUS
  <2> DEFINE d == b - 1
             G == 2^d
  <2>1. d \in Nat /\ d + 1 = b /\ d \in 0 .. b - 1
    BY <1>1
  <2> HIDE DEF d
  <2>2. U = 2 * G /\ G \in Nat /\ G * G <= n
    BY <2>1, PowerNext, PowerCounts DEF IsExponent
  <2> HIDE DEF U, G
  <2>3. U * U = 4 * (G * G) /\ G * G \in Nat
    BY <2>2
  <2> DEFINE g == G * G
  <2> HIDE DEF g
  <2>4. U * U = 4 * g /\ g \in Nat /\ g <= n
    BY <2>2, <2>3 DEF g
  <2> QED BY <2>4
<1>8. b = 0 => U = 1
  <2>1. 2^0 = 1
    OBVIOUS
  <2> QED BY <2>1
<1>9. 8 * m <= W
  OBVIOUS
<1> HIDE DEF U, F, W, V, E, H
<1>10. X \in Nat /\ W = 2 * X /\ V * X = 2 * (H * X) /\ H * W = 2 * (H * X) /\ H * X \in Nat
  <2>1. X \in Nat /\ V * E = 2 * X
    BY <1>3, <1>4
  <2> HIDE DEF X
  <2> QED BY <1>3, <1>4, <2>1
\* The root above is at least the one of the power of two.
<1>11. X <= s
  <2>1. (H * H) * (E * E) <= m * (E * E)
    BY <1>3, <1>4, <1>5, ProductGrows
  <2>2. (H * H) * (E * E) = X * X
    BY <1>3, <1>4
  <2>3. 4 * m * E * E = 4 * (m * (E * E)) /\ m * (E * E) \in Nat
    BY <1>3
  <2> DEFINE y == m * (E * E)
             x == X * X
             w == (2 * s + 1) * (2 * s + 1)
  <2>4. x <= y /\ 4 * y < w /\ x \in Nat /\ y \in Nat /\ w \in Nat /\ s \in Nat
    BY <1>2, <1>6, <1>10, <2>1, <2>2, <2>3
  <2> HIDE DEF X
  <2>5. (2 * X) * (2 * X) = 4 * x
    BY <1>10
  <2>6. (2 * X) * (2 * X) < w
    <3> HIDE DEF x, y, w
    <3> QED BY <2>4, <2>5
  <2>7. 2 * X < 2 * s + 1
    <3>1. 2 * X \in Nat /\ 2 * s + 1 \in Nat
      BY <1>10, <2>4
    <3> QED BY <2>6, <3>1, SquareOrder
  <2> QED BY <1>10, <2>4, <2>7
\* The root below is less than the power of two.
<1>12. r < W
  <2> SUFFICES ASSUME r = W PROVE FALSE
    BY <1>2, <1>6
  <2> DEFINE Q == F * F
             x == n * Q
             y == W * W
  <2>1. W > 0 /\ U * F > 0
    BY <1>2
  <2>2. (2 * W - 1) * (2 * W - 1) = 4 * y - 4 * W + 1
    BY <1>2
  <2>3. 4 * n * F * F = 4 * x
    BY <1>2
  <2>4. Q \in Nat /\ x \in Nat /\ y \in Nat
    BY <1>2
  <2>5. x + Q <= y
    <3>1. U * U \in Nat /\ n + 1 <= U * U
      BY <1>2, <1>5
    <3>2. (n + 1) * Q <= (U * U) * Q
      BY <2>4, <3>1, ProductGrows
    <3>3. (n + 1) * Q = x + Q
      BY <2>4
    <3>4. (U * U) * Q = (U * F) * (U * F)
      BY <1>2
    <3> QED BY <1>2, <3>2, <3>3, <3>4
  <2>6. 4 * y - 4 * W + 1 <= 4 * x
    BY <1>6, <2>1, <2>2, <2>3
  <2>7. 4 * Q < 4 * W
    <3> HIDE DEF Q, x, y
    <3> QED BY <1>2, <2>4, <2>5, <2>6
  <2>8. F * F < U * F
    <3> HIDE DEF x, y
    <3>1. Q < W
      <4> HIDE DEF Q
      <4> QED BY <1>2, <2>4, <2>7
    <3> QED BY <1>2, <3>1
  <2>9. F < U
    <3> SUFFICES ASSUME U <= F PROVE FALSE
      BY <1>2
    <3>1. U * F <= F * F
      BY <1>2, ProductGrows
    <3>2. U * F \in Nat /\ F * F \in Nat
      BY <1>2
    <3> QED BY <2>8, <3>1, <3>2
  <2>10. CASE b = 0
    BY <1>2, <1>8, <2>9, <2>10
  <2>11. CASE b # 0
    <3>1. U * F <= U * U
      BY <1>2, <2>9, ProductGrows
    <3>2. W <= 4 * n
      <4>1. U * U \in Nat
        BY <1>2
      <4> DEFINE z == U * U
      <4>2. W <= z /\ z <= 4 * n /\ z \in Nat
        BY <1>2, <1>7, <2>11, <3>1, <4>1
      <4> HIDE DEF z
      <4> QED BY <1>2, <4>2
    <3> QED BY <1>2, <1>9, <3>2
  <2> QED BY <2>10, <2>11
<1>13. U * r <= H * r /\ U * r \in Nat /\ H * r \in Nat
  <2>1. r \in Nat
    BY <1>2, <1>6
  <2> QED BY <1>2, <1>4, <2>1, ProductGrows
<1>14. H > 0
  BY <1>2, <1>4
<1>15. H * r + H <= H * W
  <2>1. r \in Nat /\ r + 1 <= W
    BY <1>2, <1>6, <1>12
  <2>2. H * (r + 1) <= H * W
    BY <1>2, <1>4, <2>1, ProductGrows
  <2>3. H * (r + 1) = H * r + H
    BY <1>4, <2>1
  <2> QED BY <2>2, <2>3
<1>16. V * X <= V * s /\ V * s \in Nat
  <2>1. s \in Nat
    BY <1>2, <1>6
  <2> HIDE DEF X
  <2> QED BY <1>3, <1>10, <1>11, <2>1, ProductGrows
<1> DEFINE p == U * r
           q == H * r
           t == H * W
           v == V * s
<1>17. p <= q /\ q + H <= t /\ t <= v /\ p \in Nat /\ q \in Nat /\ v \in Nat /\ t \in Nat
  BY <1>2, <1>4, <1>10, <1>13, <1>15, <1>16
<1>18. p < v
  <2> HIDE DEF p, q, t, v
  <2> QED BY <1>4, <1>14, <1>17
<1> QED BY <1>18 DEF U, V

\* Distances in the order of the squares, as long as these fit the bits: no two of
\* different squares are rounded to the same float.
LEMMA RootGrows ==
  ASSUME NEW n \in Nat, NEW m \in Nat, n < m, 8 * m <= 2^Mantissa
  PROVE  Root(n) < Root(m) /\ Root(n) \in Nat /\ Root(m) \in Nat
<1>1. 8 * n <= 2^Mantissa
  <2>1. 2^Mantissa \in Nat
    BY PowerCounts, MutationAssumption
  <2> QED BY <2>1
<1>2. PICK b, r : /\ IsExponent(b, n) /\ IsRoot(r, n, 2^(Mantissa - b))
                  /\ Root(n) = 2^b * r
  BY <1>1, RootIs
<1>3. PICK c, s : /\ IsExponent(c, m) /\ IsRoot(s, m, 2^(Mantissa - c))
                  /\ Root(m) = 2^c * s
  BY RootIs
<1>4. /\ b \in Nat /\ c \in Nat /\ 2^b \in Nat /\ 2^c \in Nat /\ 2^b > 0
      /\ r \in Nat /\ s \in Nat
  <2>1. b \in Nat /\ c \in Nat
    BY <1>2, <1>3 DEF IsExponent
  <2>2. 2^b \in Nat /\ 2^c \in Nat /\ 2^b > 0
    BY <2>1, PowerCounts
  <2> DEFINE W == 2^Mantissa
  <2>3. W \in Nat
    BY PowerCounts, MutationAssumption
  <2>4. r \in 0 .. W /\ s \in 0 .. W
    BY <1>2, <1>3 DEF IsRoot
  <2> HIDE DEF W
  <2>5. r \in Nat /\ s \in Nat
    BY <2>3, <2>4
  <2> QED BY <2>1, <2>2, <2>5
<1>5. Root(n) \in Nat /\ Root(m) \in Nat
  BY <1>2, <1>3, <1>4
<1>6. CASE b = c
  <2>1. r < s
    BY <1>2, <1>3, <1>6, RootGrowsFine
  <2>2. 2^b * (r + 1) <= 2^b * s
    BY <1>4, <2>1, ProductGrows
  <2>3. \A p \in Nat : p * (r + 1) = p * r + p /\ p * r \in Nat /\ p * s \in Nat
    BY <1>4
  <2> DEFINE p == 2^b * r
             q == 2^b * s
             P == 2^b
  <2>4. p + P <= q /\ p \in Nat /\ q \in Nat /\ P \in Nat /\ P > 0
    BY <1>4, <2>2, <2>3
  <2>5. p < q
    <3> HIDE DEF p, q, P
    <3> QED BY <2>4
  <2> QED BY <1>2, <1>3, <1>5, <1>6, <2>5
<1>7. CASE b < c
  BY <1>2, <1>3, <1>5, <1>7, RootGrowsCoarse
<1>8. CASE c < b
  <2>1. c \in 0 .. b - 1
    BY <1>4, <1>8
  <2>2. 2^c * 2^c <= n /\ m < 2^c * 2^c /\ 2^c * 2^c \in Nat
    BY <1>2, <1>3, <1>4, <2>1 DEF IsExponent
  <2> DEFINE q == 2^c * 2^c
  <2> HIDE DEF q
  <2>3. q <= n /\ m < q /\ q \in Nat
    BY <2>2 DEF q
  <2> QED BY <2>3
<1> QED BY <1>4, <1>6, <1>7, <1>8

\* A sequence of naturals has a first of its largest.
LEMMA MaxElementIs ==
  ASSUME NEW vec, vec \in Seq(Nat), Len(vec) > 0
  PROVE  /\ MaxElement(vec) \in 1 .. Len(vec)
         /\ \A e \in 1 .. Len(vec) :
              /\ vec[e] <= vec[MaxElement(vec)]
              /\ e < MaxElement(vec) => vec[e] < vec[MaxElement(vec)]
<1> DEFINE First(d, n) == /\ d \in 1 .. n
                          /\ \A e \in 1 .. n : vec[e] <= vec[d] /\ (e < d => vec[e] < vec[d])
           N == Len(vec)
           S == {n \in Nat : n + 1 <= N => \E d : First(d, n + 1)}
<1>1. N \in Nat /\ N > 0 /\ DOMAIN vec = 1 .. N /\ \A e \in 1 .. N : vec[e] \in Nat
  OBVIOUS
<1> HIDE DEF N
<1>2. 0 \in S
  <2>1. First(1, 1) /\ 0 + 1 = 1
    BY <1>1
  <2> HIDE DEF First
  <2> QED BY <2>1
<1>3. ASSUME NEW n \in Nat, n \in S PROVE n + 1 \in S
  <2> DEFINE m == (n + 1) + 1
  <2> SUFFICES ASSUME m <= N PROVE \E d : First(d, m)
    OBVIOUS
  <2>1. n + 1 <= N /\ n + 1 \in 1 .. N /\ m \in 1 .. N /\ m = n + 2
    BY <1>1, <1>3
  <2>2. PICK d : First(d, n + 1)
    BY <1>3, <2>1
  <2>3. d \in 1 .. n + 1 /\ vec[d] \in Nat /\ vec[m] \in Nat
    BY <1>1, <2>1, <2>2
  <2> HIDE DEF m
  <2>4. \A e \in 1 .. m : e \in 1 .. n + 1 \/ e = m
    BY <2>1
  <2>5. \A e \in 1 .. n + 1 : vec[e] \in Nat /\ vec[e] <= vec[d] /\ (e < d => vec[e] < vec[d])
    BY <1>1, <2>1, <2>2
  <2>6. CASE vec[m] <= vec[d]
    <3>1. First(d, m)
      BY <2>1, <2>3, <2>4, <2>5, <2>6
    <3> HIDE DEF First
    <3> QED BY <3>1
  <2>7. CASE vec[d] < vec[m]
    <3>1. \A e \in 1 .. n + 1 : vec[e] < vec[m]
      BY <2>3, <2>5, <2>7
    <3>2. ASSUME NEW e \in 1 .. m PROVE vec[e] <= vec[m] /\ (e < m => vec[e] < vec[m])
      <4>1. CASE e \in 1 .. n + 1
        BY <2>3, <2>5, <3>1, <4>1
      <4>2. CASE e = m
        BY <2>1, <2>3, <4>2
      <4> QED BY <2>4, <4>1, <4>2
    <3>3. First(m, m)
      BY <2>1, <3>2
    <3> HIDE DEF First
    <3> QED BY <3>3
  <2> QED BY <2>3, <2>6, <2>7
<1>4. PICK d : First(d, N)
  <2>1. N - 1 \in Nat /\ (N - 1) + 1 = N /\ N <= N
    BY <1>1
  <2>2. N - 1 \in S
    <3> HIDE DEF S
    <3> QED BY <1>2, <1>3, <2>1, Induction
  <2> HIDE DEF First
  <2> QED BY <2>1, <2>2
<1>5. \E c \in DOMAIN vec :
        \A e \in DOMAIN vec : vec[e] <= vec[c] /\ (e < c => vec[e] < vec[c])
  BY <1>1, <1>4
<1>6. /\ MaxElement(vec) \in DOMAIN vec
      /\ \A e \in DOMAIN vec : /\ vec[e] <= vec[MaxElement(vec)]
                               /\ e < MaxElement(vec) => vec[e] < vec[MaxElement(vec)]
  BY <1>5 DEF MaxElement
<1> QED BY <1>1, <1>6 DEF N
-----------------------------------------------------------------------------
(* The child. *)

AllKinds == Kinds \cup Uncounted

\* What is visited is bounded, and is what has been counted: in the program that is
\* printed and in those before; in those to come nothing is.
Counting ==
  /\ visited \in [1 .. Programs -> [AllKinds -> Nat]]
  /\ \A p \in 1 .. Programs : Visits(p) <= MaxVisits
  /\ printing => i <= Programs /\ \A k \in Kinds : counts[k] = visited[i][k]
  /\ \A p \in 1 .. Programs :
       p > i \/ (p = i /\ ~printing) => visited[p] = [k \in AllKinds |-> 0]
  /\ VectorsFaithful

\* The distances are those of the vectors; the choice is made when all are there.
Measured ==
  /\ \A p \in 1 .. i - 1 : allVec[p] = EuclideanDistance(SeedGrammar, allGrammar[p])
  /\ chosen # 0 => i = Programs + 1 /\ chosen = MaxElement(allVec)

MutationInv == MutationTypeOK /\ Counting /\ Measured

\* The square of the distance of a program whose statements are within the bound.
LEMMA SquaresFit ==
  ASSUME NEW f \in [AllKinds -> Nat], Total(f) <= MaxVisits,
         NEW g, \A k \in Kinds : g[k] = f[k]
  PROVE  /\ Squares(SeedGrammar, g) \in Nat /\ 8 * Squares(SeedGrammar, g) <= 2^Mantissa
         /\ Squares(SeedGrammar, g) = Squares(SeedGrammar, f)
<1> DEFINE e == [k \in Kinds |-> f[k]]
           q == [k \in Kinds |-> e[k] * e[k]]
<1>1. IsFiniteSet(Kinds) /\ IsFiniteSet(AllKinds) /\ Kinds \subseteq AllKinds
  BY MutationAssumption, FS_Union DEF AllKinds
<1>2. e \in [Kinds -> Nat]
  BY <1>1
<1>3. \A k \in Kinds : SeedGrammar[k] = 0 /\ f[k] \in Nat
  BY <1>1 DEF SeedGrammar, ZeroVector
<1>4. \A x \in Nat : (0 - x) * (0 - x) = x * x
  OBVIOUS
<1>5. [k \in Kinds |-> (SeedGrammar[k] - f[k]) * (SeedGrammar[k] - f[k])] = q
  BY <1>3, <1>4
<1>6. [k \in Kinds |-> (SeedGrammar[k] - g[k]) * (SeedGrammar[k] - g[k])] = q
  BY <1>3, <1>4
<1>7. Squares(SeedGrammar, f) = Total(q) /\ Squares(SeedGrammar, g) = Total(q)
  BY <1>5, <1>6 DEF Squares
<1>8. Total(q) \in Nat /\ Total(q) <= Total(e) * Total(e)
  <2> HIDE DEF e
  <2> QED BY <1>1, <1>2, TotalOfSquares
<1>9. Total(e) \in Nat /\ Total(e) <= Total(f) /\ Total(f) \in Nat
  <2>1. Total(e) <= Total(f) /\ Total(f) \in Nat
    BY <1>1, TotalOfPart, TotalType
  <2> HIDE DEF e
  <2> QED BY <1>1, <1>2, <2>1, TotalType
<1> HIDE DEF e, q
<1>10. MaxVisits \in Nat /\ 8 * (MaxVisits * MaxVisits) <= 2^Mantissa /\ 2^Mantissa \in Nat
  BY MutationAssumption, PowerCounts
<1>11. Total(e) * Total(e) <= MaxVisits * MaxVisits
  BY <1>9, <1>10, ProductGrows
<1> DEFINE t == Total(e) * Total(e)
           m == MaxVisits * MaxVisits
           W == 2^Mantissa
<1>12. t \in Nat /\ m \in Nat /\ Total(q) <= t /\ t <= m /\ 8 * m <= W /\ W \in Nat
  BY <1>8, <1>9, <1>10, <1>11
<1>13. 8 * Total(q) <= W
  <2> HIDE DEF t, m, W
  <2> QED BY <1>8, <1>12
<1> QED BY <1>7, <1>8, <1>13 DEF W

LEMMA RootType ==
  ASSUME NEW n \in Nat, 8 * n <= 2^Mantissa
  PROVE  Root(n) \in Nat
<1>1. PICK b, r : /\ IsExponent(b, n) /\ IsRoot(r, n, 2^(Mantissa - b))
                  /\ Root(n) = 2^b * r
  BY RootIs
<1> DEFINE W == 2^Mantissa
<1>2. b \in Nat /\ r \in 0 .. W
  BY <1>1 DEF IsExponent, IsRoot
<1>3. 2^b \in Nat /\ W \in Nat
  BY <1>2, PowerCounts, MutationAssumption
<1> HIDE DEF W
<1> QED BY <1>1, <1>2, <1>3

\* Distances that do not decrease come from squares that do not.
LEMMA NotNearer ==
  ASSUME NEW n \in Nat, NEW m \in Nat, 8 * n <= 2^Mantissa, 8 * m <= 2^Mantissa
  PROVE  /\ Root(n) <= Root(m) => n <= m
         /\ Root(n) < Root(m) => n < m
<1>1. CASE n < m
  BY <1>1
<1>2. CASE n = m
  <2>1. Root(n) \in Nat
    BY RootType
  <2> QED BY <1>2, <2>1
<1>3. CASE m < n
  <2>1. Root(m) < Root(n) /\ Root(n) \in Nat /\ Root(m) \in Nat
    BY <1>3, RootGrows
  <2> QED BY <2>1
<1> QED BY <1>1, <1>2, <1>3

LEMMA Bounds ==
  /\ Programs \in Nat /\ Programs > 0 /\ MaxVisits \in Nat /\ MaxVisits > 0
  /\ IsFiniteSet(AllKinds) /\ Kinds \subseteq AllKinds
<1>1. Programs \in Nat \ {0} /\ MaxVisits \in Nat \ {0}
  BY MutationAssumption
<1>2. IsFiniteSet(AllKinds) /\ Kinds \subseteq AllKinds
  BY MutationAssumption, FS_Union DEF AllKinds
<1> QED BY <1>1, <1>2

LEMMA MutationInit == Init => MutationInv
<1> SUFFICES ASSUME Init PROVE MutationInv
  OBVIOUS
<1>2. /\ i = 1 /\ printing = FALSE /\ counts = ZeroVector /\ allGrammar = <<>> /\ allVec = <<>>
      /\ chosen = 0 /\ head = NoHead
      /\ visited = [p \in 1 .. Programs |-> [k \in AllKinds |-> 0]]
  BY DEF Init, AllKinds
<1>3. MutationTypeOK
  <2>1. i \in 1 .. Programs + 1 /\ chosen \in 0 .. Programs
    BY <1>2, Bounds
  <2>2. counts \in Vector
    BY <1>2 DEF ZeroVector, Vector
  <2>3. <<>> \in Seq(Vector) /\ <<>> \in Seq(Nat) /\ Len(<<>>) = 0 /\ 1 - 1 = 0
    OBVIOUS
  <2>4. allGrammar \in Seq(Vector) /\ allVec \in Seq(Nat)
    BY <1>2, <2>3
  <2>5. Len(allGrammar) = i - 1 /\ Len(allVec) = i - 1
    BY <1>2, <2>3
  <2>6. head \in {NoHead} \cup AllHeads /\ printing \in BOOLEAN
    BY <1>2
  <2> QED BY <2>1, <2>2, <2>4, <2>5, <2>6 DEF MutationTypeOK
<1>4. Counting
  <2>1. visited \in [1 .. Programs -> [AllKinds -> Nat]]
    BY <1>2
  <2>2. Total([k \in AllKinds |-> 0]) = 0
    BY Bounds, TotalZero
  <2>3. \A p \in 1 .. Programs : Visits(p) <= MaxVisits
    BY <1>2, <2>2, Bounds DEF Visits
  <2>4. DOMAIN allGrammar = {}
    BY <1>2
  <2>5. VectorsFaithful
    BY <2>4 DEF VectorsFaithful
  <2> QED BY <1>2, <2>1, <2>3, <2>5 DEF Counting
<1>5. Measured
  <2>1. 1 .. 1 - 1 = {}
    OBVIOUS
  <2> QED BY <1>2, <2>1 DEF Measured
<1> QED BY <1>3, <1>4, <1>5 DEF MutationInv

\* One more statement is printed, and counted if its kind is.
LEMMA VisitKeeps ==
  ASSUME MutationInv, NEW kind \in AllKinds, Visit(kind), head' \in {NoHead} \cup AllHeads
  PROVE  MutationInv'
<1>1. /\ printing /\ Visits(i) < MaxVisits
      /\ visited' = [visited EXCEPT ![i][kind] = @ + 1]
      /\ counts' = IF kind \in Kinds THEN [counts EXCEPT ![kind] = @ + 1] ELSE counts
      /\ i' = i /\ printing' = printing /\ allGrammar' = allGrammar /\ allVec' = allVec
      /\ chosen' = chosen
  BY DEF Visit
<1>2. /\ i \in 1 .. Programs /\ counts \in Vector /\ Len(allGrammar) = i - 1
      /\ allGrammar \in Seq(Vector)
  BY <1>1, Bounds DEF MutationInv, MutationTypeOK, Counting
<1>3. /\ visited \in [1 .. Programs -> [AllKinds -> Nat]]
      /\ \A p \in 1 .. Programs : Visits(p) <= MaxVisits
      /\ \A k \in Kinds : counts[k] = visited[i][k]
      /\ \A p \in 1 .. Programs : p > i => visited[p] = [k \in AllKinds |-> 0]
      /\ VectorsFaithful
  BY <1>1 DEF MutationInv, Counting
<1> DEFINE f == [visited[i] EXCEPT ![kind] = @ + 1]
<1>4. visited[i] \in [AllKinds -> Nat]
  BY <1>2, <1>3
<1>5. /\ f \in [AllKinds -> Nat]
      /\ \A k \in AllKinds : f[k] = IF k = kind THEN visited[i][k] + 1 ELSE visited[i][k]
  BY <1>4
<1>6. visited' = [visited EXCEPT ![i] = f]
  BY <1>1, <1>2, <1>3
<1>7. Total(f) = Visits(i) + 1 /\ Visits(i) \in Nat
  BY <1>4, Bounds, TotalGrows, TotalType DEF Visits
<1> HIDE DEF f
<1>8. /\ visited' \in [1 .. Programs -> [AllKinds -> Nat]] /\ visited'[i] = f
      /\ \A p \in 1 .. Programs : p # i => visited'[p] = visited[p]
  BY <1>2, <1>3, <1>5, <1>6
<1>9. counts' \in Vector /\ \A k \in Kinds : counts'[k] = visited'[i][k]
  <2>1. counts \in [Kinds -> Nat]
    BY <1>2 DEF Vector
  <2>2. CASE kind \in Kinds
    <3>1. counts' = [counts EXCEPT ![kind] = @ + 1]
      BY <1>1, <2>2
    <3>2. counts' \in [Kinds -> Nat]
      <4>1. counts' = [k \in Kinds |-> IF k = kind THEN counts[k] + 1 ELSE counts[k]]
        BY <2>1, <3>1
      <4>2. \A k \in Kinds : counts[k] \in Nat /\ counts[k] + 1 \in Nat
        BY <2>1
      <4> QED BY <4>1, <4>2
    <3>3. \A k \in Kinds : counts'[k] = IF k = kind THEN counts[k] + 1 ELSE counts[k]
      BY <2>1, <3>1
    <3> QED BY <1>3, <1>5, <1>8, <3>2, <3>3, Bounds DEF Vector
  <2>3. CASE kind \notin Kinds
    BY <1>1, <1>2, <1>3, <1>5, <1>8, <2>3, Bounds
  <2> QED BY <2>2, <2>3
<1>10. MutationTypeOK'
  BY <1>1, <1>9 DEF MutationInv, MutationTypeOK
<1>11. VectorsFaithful'
  <2>1. DOMAIN allGrammar = 1 .. i - 1
    BY <1>2
  <2>2. \A p \in 1 .. i - 1 : p \in 1 .. Programs /\ p # i
    BY <1>2, Bounds
  <2> QED BY <1>1, <1>3, <1>8, <2>1, <2>2 DEF VectorsFaithful
<1>12. ASSUME NEW p \in 1 .. Programs PROVE Visits(p)' <= MaxVisits
  <2>1. Visits(p)' = Total(visited'[p])
    BY DEF Visits
  <2>2. CASE p = i
    <3>1. Visits(p)' = Visits(i) + 1
      BY <1>7, <1>8, <2>1, <2>2
    <3> DEFINE x == Visits(p)'
               y == Visits(i)
    <3>2. x = y + 1 /\ y \in Nat /\ y < MaxVisits
      BY <1>1, <1>7, <3>1
    <3> HIDE DEF x, y
    <3>3. x <= MaxVisits
      BY <3>2, Bounds
    <3> QED BY <3>3 DEF x
  <2>3. CASE p # i
    BY <1>3, <1>8, <2>1, <2>3 DEF Visits
  <2> QED BY <2>2, <2>3
<1>13. \A p \in 1 .. Programs : p > i' \/ (p = i' /\ ~printing') =>
         visited'[p] = [k \in AllKinds |-> 0]
  BY <1>1, <1>2, <1>3, <1>8
<1>14. Counting'
  BY <1>1, <1>2, <1>8, <1>9, <1>11, <1>12, <1>13, Bounds DEF Counting
<1>15. Measured'
  BY <1>1 DEF MutationInv, Measured
<1> QED BY <1>10, <1>14, <1>15 DEF MutationInv

LEMMA HeadsTyped == \A loop \in GrammarLoops : Heads[loop] \subseteq AllHeads
BY DEF AllHeads

LEMMA MutationStep ==
  ASSUME MutationInv, Next
  PROVE  MutationInv'
<1>1. /\ i \in 1 .. Programs + 1 /\ printing \in BOOLEAN /\ counts \in Vector
      /\ allGrammar \in Seq(Vector) /\ allVec \in Seq(Nat)
      /\ Len(allGrammar) = i - 1 /\ Len(allVec) = i - 1
      /\ chosen \in 0 .. Programs /\ head \in {NoHead} \cup AllHeads
  BY DEF MutationInv, MutationTypeOK
<1>2. /\ visited \in [1 .. Programs -> [AllKinds -> Nat]]
      /\ \A p \in 1 .. Programs : Visits(p) <= MaxVisits
      /\ printing => i <= Programs /\ \A k \in Kinds : counts[k] = visited[i][k]
      /\ \A p \in 1 .. Programs :
           p > i \/ (p = i /\ ~printing) => visited[p] = [k \in AllKinds |-> 0]
      /\ VectorsFaithful
  BY DEF MutationInv, Counting
<1>3. CASE BeginProgram
  <2>1. /\ i <= Programs /\ ~printing /\ printing' = TRUE /\ counts' = ZeroVector
        /\ i' = i /\ allGrammar' = allGrammar /\ allVec' = allVec /\ chosen' = chosen
        /\ head' = head /\ visited' = visited
    BY <1>3 DEF BeginProgram, CountsReset
  <2>2. ZeroVector \in Vector /\ \A k \in Kinds : ZeroVector[k] = 0
    BY DEF ZeroVector, Vector
  <2>3. MutationTypeOK'
    BY <1>1, <2>1, <2>2 DEF MutationTypeOK
  <2>4. \A k \in Kinds : visited[i][k] = 0
    BY <1>1, <1>2, <2>1, Bounds
  <2>5. VectorsFaithful'
    BY <1>2, <2>1 DEF VectorsFaithful
  <2>6. \A p \in 1 .. Programs : Visits(p)' <= MaxVisits
    BY <1>2, <2>1 DEF Visits
  <2>7. Counting'
    BY <1>2, <2>1, <2>2, <2>4, <2>5, <2>6 DEF Counting
  <2>8. Measured'
    BY <2>1 DEF MutationInv, Measured
  <2> QED BY <2>3, <2>7, <2>8 DEF MutationInv
<1>4. CASE VisitStatement
  <2>1. PICK kind \in AllKinds : Visit(kind) /\ head' = head
    BY <1>4 DEF VisitStatement, AllKinds
  <2> QED BY <1>1, <2>1, VisitKeeps
<1>5. CASE PrintLoop
  <2>1. PICK loop \in GrammarLoops \cap Kinds : Visit(loop) /\ head' \in Heads[loop]
    BY <1>5 DEF PrintLoop
  <2>2. loop \in AllKinds /\ head' \in AllHeads
    BY <2>1, Bounds, HeadsTyped
  <2> QED BY <2>1, <2>2, VisitKeeps
<1>6. CASE PrintFor \/ BeginBody
  <2>1. /\ i' = i /\ printing' = printing /\ counts' = counts /\ allGrammar' = allGrammar
        /\ allVec' = allVec /\ chosen' = chosen /\ visited' = visited
        /\ head' \in {NoHead} \cup AllHeads
    BY <1>6 DEF PrintFor, BeginBody, AllHeads
  <2>2. MutationTypeOK'
    BY <1>1, <2>1 DEF MutationTypeOK
  <2>3. VectorsFaithful'
    BY <1>2, <2>1 DEF VectorsFaithful
  <2>4. \A p \in 1 .. Programs : Visits(p)' <= MaxVisits
    BY <1>2, <2>1 DEF Visits
  <2>5. Counting'
    BY <1>2, <2>1, <2>3, <2>4 DEF Counting
  <2>6. Measured'
    BY <2>1 DEF MutationInv, Measured
  <2> QED BY <2>2, <2>5, <2>6 DEF MutationInv
<1>7. CASE EndProgram
  <2> DEFINE dist == EuclideanDistance(SeedGrammar, counts)
  <2>1. /\ printing /\ printing' = FALSE /\ allGrammar' = Append(allGrammar, counts)
        /\ allVec' = Append(allVec, dist) /\ i' = i + 1
        /\ counts' = counts /\ chosen' = chosen /\ head' = head /\ visited' = visited
    BY <1>7 DEF EndProgram
  <2>2. i \in 1 .. Programs /\ visited[i] \in [AllKinds -> Nat]
    BY <1>1, <1>2, <2>1, Bounds
  <2>3. dist \in Nat
    <3>1. Total(visited[i]) <= MaxVisits
      BY <1>2, <2>2 DEF Visits
    <3>2. \A k \in Kinds : counts[k] = visited[i][k]
      BY <1>2, <2>1
    <3>3. Squares(SeedGrammar, counts) \in Nat /\ 8 * Squares(SeedGrammar, counts) <= 2^Mantissa
      BY <2>2, <3>1, <3>2, SquaresFit
    <3> QED BY <3>3, RootType DEF EuclideanDistance
  <2>4. /\ allGrammar' \in Seq(Vector) /\ Len(allGrammar') = i
        /\ allGrammar'[i] = counts /\ \A p \in 1 .. i - 1 : allGrammar'[p] = allGrammar[p]
    BY <1>1, <2>1, <2>2
  <2> HIDE DEF dist
  <2>5. /\ allVec' \in Seq(Nat) /\ Len(allVec') = i
        /\ allVec'[i] = dist /\ \A p \in 1 .. i - 1 : allVec'[p] = allVec[p]
    BY <1>1, <2>1, <2>2, <2>3
  <2>6. MutationTypeOK'
    <3>1. i' \in 1 .. Programs + 1 /\ i' - 1 = i
      BY <2>1, <2>2, Bounds
    <3> QED BY <1>1, <2>1, <2>4, <2>5, <3>1 DEF MutationTypeOK
  <2>7. \A p \in 1 .. i : p = i \/ p \in 1 .. i - 1
    BY <2>2
  <2>8. VectorsFaithful'
    <3>1. DOMAIN allGrammar = 1 .. i - 1
      BY <1>1
    <3>2. \A p \in 1 .. i - 1 : \A k \in Kinds : allGrammar[p][k] = visited[p][k]
      BY <1>2, <3>1 DEF VectorsFaithful
    <3>3. \A p \in 1 .. i : \A k \in Kinds : allGrammar'[p][k] = visited[p][k]
      BY <1>2, <2>1, <2>4, <2>7, <3>2
    <3>4. DOMAIN allGrammar' = 1 .. i
      BY <2>4
    <3> QED BY <2>1, <3>3, <3>4 DEF VectorsFaithful
  <2>9. \A p \in 1 .. Programs : Visits(p)' <= MaxVisits
    BY <1>2, <2>1 DEF Visits
  <2>10. \A p \in 1 .. Programs : p > i + 1 \/ p = i + 1 => p > i
    BY <2>2
  <2>11. Counting'
    BY <1>2, <2>1, <2>8, <2>9, <2>10 DEF Counting
  <2>12. Measured'
    <3>1. \A p \in 1 .. i - 1 : allVec[p] = EuclideanDistance(SeedGrammar, allGrammar[p])
      BY DEF MutationInv, Measured
    <3>2. \A p \in 1 .. i : allVec'[p] = EuclideanDistance(SeedGrammar, allGrammar'[p])
      BY <2>4, <2>5, <2>7, <3>1 DEF dist
    <3>3. i' - 1 = i
      BY <2>1, <2>2
    <3>4. chosen = 0
      <4>1. chosen # 0 => i = Programs + 1
        BY DEF MutationInv, Measured
      <4> QED BY <2>2, <4>1, Bounds
    <3> QED BY <2>1, <3>2, <3>3, <3>4 DEF Measured
  <2> QED BY <2>6, <2>11, <2>12 DEF MutationInv
<1>8. CASE CopyFarthest
  <2>1. /\ i > Programs /\ chosen' = MaxElement(allVec)
        /\ i' = i /\ printing' = printing /\ counts' = counts /\ allGrammar' = allGrammar
        /\ allVec' = allVec /\ head' = head /\ visited' = visited
    BY <1>8 DEF CopyFarthest
  <2>2. i = Programs + 1 /\ Len(allVec) = Programs
    BY <1>1, <2>1, Bounds
  <2>3. MaxElement(allVec) \in 1 .. Programs
    BY <1>1, <2>2, Bounds, MaxElementIs
  <2>4. MutationTypeOK'
    BY <1>1, <2>1, <2>3 DEF MutationTypeOK
  <2>5. VectorsFaithful'
    BY <1>2, <2>1 DEF VectorsFaithful
  <2>6. \A p \in 1 .. Programs : Visits(p)' <= MaxVisits
    BY <1>2, <2>1 DEF Visits
  <2>7. Counting'
    BY <1>2, <2>1, <2>5, <2>6 DEF Counting
  <2>8. Measured'
    BY <2>1, <2>2 DEF MutationInv, Measured
  <2> QED BY <2>4, <2>7, <2>8 DEF MutationInv
<1> QED BY <1>3, <1>4, <1>5, <1>6, <1>7, <1>8 DEF Next

LEMMA MutationStutter ==
  ASSUME MutationInv, UNCHANGED vars
  PROVE  MutationInv'
<1>1. /\ i' = i /\ printing' = printing /\ counts' = counts /\ allGrammar' = allGrammar
      /\ allVec' = allVec /\ chosen' = chosen /\ head' = head /\ visited' = visited
  BY DEF vars
<1>2. MutationTypeOK' /\ VectorsFaithful' /\ Measured'
  BY <1>1 DEF MutationInv, Counting, MutationTypeOK, VectorsFaithful, Measured
<1>3. \A p \in 1 .. Programs : Visits(p)' <= MaxVisits
  BY <1>1 DEF MutationInv, Counting, Visits
<1>4. Counting'
  BY <1>1, <1>2, <1>3 DEF MutationInv, Counting
<1> QED BY <1>2, <1>4 DEF MutationInv
-----------------------------------------------------------------------------
(* The theorems. *)

LEMMA MutationHolds == Spec => []MutationInv
<1>1. MutationInv /\ [Next]_vars => MutationInv'
  BY MutationStep, MutationStutter
<1> QED BY <1>1, MutationInit, PTL DEF Spec

\* The variables of the child have their types: a distance for each vector, and a
\* choice among the programs (remccg.cc).
THEOREM MutationTyped == Spec => []MutationTypeOK
<1>1. MutationInv => MutationTypeOK
  BY DEF MutationInv
<1> QED BY <1>1, MutationHolds, PTL

\* The vector of each program counts the statements of that program and of no other,
\* though the counters are static and one process prints them all (proto_to_c.cc).
THEOREM VectorsCorrect == Spec => []VectorsFaithful
<1>1. MutationInv => VectorsFaithful
  BY DEF MutationInv, Counting
<1> QED BY <1>1, MutationHolds, PTL

\* The program taken is the first of those farthest from the seed by exact distance:
\* for as many statements as the significand has room for, the float distances are
\* in the order of the squares (util.cc, remccg.cc).
THEOREM FarthestCorrect == Spec => []FarthestChosen
<1>1. ASSUME MutationInv PROVE FarthestChosen
  <2> SUFFICES ASSUME chosen # 0, NEW p \in 1 .. Programs
               PROVE  LET far(q) == Squares(SeedGrammar, visited[q])
                      IN far(p) <= far(chosen) /\ (p < chosen => far(p) < far(chosen))
    BY DEF FarthestChosen
  <2> DEFINE far(q) == Squares(SeedGrammar, visited[q])
  <2>1. /\ i = Programs + 1 /\ chosen = MaxElement(allVec) /\ allVec \in Seq(Nat)
        /\ Len(allVec) = i - 1 /\ Len(allGrammar) = i - 1 /\ allGrammar \in Seq(Vector)
        /\ \A q \in 1 .. i - 1 : allVec[q] = EuclideanDistance(SeedGrammar, allGrammar[q])
    BY <1>1 DEF MutationInv, MutationTypeOK, Measured
  <2>2. i - 1 = Programs /\ DOMAIN allGrammar = 1 .. Programs
    BY <2>1, Bounds
  <2>3. /\ visited \in [1 .. Programs -> [AllKinds -> Nat]]
        /\ \A q \in 1 .. Programs : Total(visited[q]) <= MaxVisits
        /\ \A q \in 1 .. Programs : \A k \in Kinds : allGrammar[q][k] = visited[q][k]
    BY <1>1, <2>2 DEF MutationInv, Counting, Visits, VectorsFaithful
  <2>4. chosen \in 1 .. Programs
    BY <2>1, <2>2, Bounds, MaxElementIs
  <2>5. allVec[p] <= allVec[chosen] /\ (p < chosen => allVec[p] < allVec[chosen])
    BY <2>1, <2>2, Bounds, MaxElementIs
  <2>6. \A q \in 1 .. Programs :
          /\ far(q) \in Nat /\ 8 * far(q) <= 2^Mantissa /\ allVec[q] = Root(far(q))
    <3> TAKE q \in 1 .. Programs
    <3>1. visited[q] \in [AllKinds -> Nat] /\ Total(visited[q]) <= MaxVisits
      BY <2>3
    <3>2. \A k \in Kinds : allGrammar[q][k] = visited[q][k]
      BY <2>3
    <3>3. /\ Squares(SeedGrammar, allGrammar[q]) \in Nat
          /\ 8 * Squares(SeedGrammar, allGrammar[q]) <= 2^Mantissa
          /\ Squares(SeedGrammar, allGrammar[q]) = Squares(SeedGrammar, visited[q])
      BY <3>1, <3>2, SquaresFit
    <3>4. allVec[q] = Root(Squares(SeedGrammar, allGrammar[q]))
      BY <2>1, <2>2 DEF EuclideanDistance
    <3> QED BY <3>3, <3>4
  <2> HIDE DEF far
  <2>7. far(p) <= far(chosen) /\ (p < chosen => far(p) < far(chosen))
    BY <2>4, <2>5, <2>6, NotNearer
  <2> QED BY <2>7 DEF far
<1>2. MutationInv => FarthestChosen
  BY <1>1
<1> QED BY <1>2, MutationHolds, PTL

\* What random_generate() returns for the heads of loops is between the bounds it was
\* called with, negative ones too, for all widths of its types (util.cc).
THEOREM DrawsBounded == Spec => []DrawsInRange
<1>1. ASSUME MutationInv PROVE DrawsInRange
  <2> SUFFICES ASSUME head.loop \in GrammarLoops
               PROVE  head.init \in -10 .. 10 /\ head.step \in -5 .. 5
    BY DEF DrawsInRange
  <2>1. head # NoHead
    BY DEF NoHead, GrammarLoops
  <2>2. head \in AllHeads
    BY <1>1, <2>1 DEF MutationInv, MutationTypeOK
  <2>3. head.loop # "CCG"
    BY DEF GrammarLoops
  <2> QED BY <2>2, <2>3, HeadKinds
       DEF DownToZero, DownPastTwo, UpToZero, UpPastHundred, UpFromTop, NoTurn, ToTest
<1>2. MutationInv => DrawsInRange
  BY <1>1
<1> QED BY <1>2, MutationHolds, PTL

\* Of the loops printed, for all widths of their variable, exactly the unsigned ones
\* that go down by four from 3 or 7 do not end, and no signed one overflows
\* (proto_to_c.cc, statement.c).
THEOREM LoopsCorrect == Spec => []LoopsEnd
<1>1. ASSUME MutationInv PROVE LoopsEnd
  <2> SUFFICES ASSUME head # NoHead
               PROVE  /\ head \in InRangeHeads
                      /\ head \notin EndingHeads <=>
                           /\ head.loop \in GrammarLoops /\ head.unsigned
                           /\ head.step = -4 /\ head.init % 4 = 3
    BY DEF LoopsEnd
  <2>1. head \in AllHeads
    BY <1>1 DEF MutationInv, MutationTypeOK
  <2>2. head \in InRangeHeads <=> StaysInRange(head)
    BY <2>1 DEF InRangeHeads
  <2>3. head \in EndingHeads <=> Ends(head)
    BY <2>1 DEF EndingHeads
  <2>4. CASE head.unsigned
    <3>1. StaysInRange(head)
      BY <2>4 DEF StaysInRange, Fits
    <3>2. ~Ends(head) <=> head.loop \in GrammarLoops /\ head.step = -4 /\ head.init % 4 = 3
      BY <2>1, <2>4, UnsignedEnds
    <3> QED BY <2>2, <2>3, <2>4, <3>1, <3>2
  <2>5. CASE ~head.unsigned
    <3>1. Ends(head) /\ StaysInRange(head)
      BY <2>1, <2>5, SignedEnds
    <3> QED BY <2>2, <2>3, <2>5, <3>1
  <2> QED BY <2>4, <2>5
<1>2. MutationInv => LoopsEnd
  BY <1>1
<1> QED BY <1>2, MutationHolds, PTL
=============================================================================
