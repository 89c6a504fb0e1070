------------------------------ MODULE Mutation ------------------------------
(***************************************************************************)
(* The child that makes the program of a round (remccg.cc): it prints a    *)
(* number of programs one after the other in the same process, each with   *)
(* MainFunctionToString() (proto_to_c.cc), keeps the vectors the calls     *)
(* return and their distances from the seed (util.cc), and takes the       *)
(* farthest.  What is printed is in Translation; here are the counters of  *)
(* the statements visited, and the heads of the loops.  In Harness all of  *)
(* this is one step, GenMutate, and the distances are constants.           *)
(***************************************************************************)
EXTENDS Loops, Sequences, FiniteSets

CONSTANTS
  Programs,   \* phase1 - 1, programs in a round (10)
  Kinds,      \* the ten kinds of statement that are counted in a vector
  Uncounted,  \* the kinds that are not (the assignment)
  Mantissa,   \* the bits of a float's significand (24)
  MaxVisits   \* bound of the instance: statements of the grammar in a program

ASSUME MutationAssumption ==
  /\ {Programs, MaxVisits} \subseteq Nat \ {0}
  /\ IsFiniteSet(Kinds) /\ IsFiniteSet(Uncounted) /\ Kinds \cap Uncounted = {}
  /\ Mantissa \in Nat /\ 8 * (MaxVisits * MaxVisits) <= 2^Mantissa

VARIABLES
  i,           \* the program that is printed, one after the last at the end
  printing,    \* MainFunctionToString() is being executed
  counts,      \* numWhileLoopStmt, numDowhileLoopStmt, ...
  allGrammar,  \* the vectors returned
  allVec,      \* their distances
  chosen,      \* the program copied to 0.c, 0 before
  head,        \* the head of a loop, just printed
  visited      \* history: visited[p][k], the statements of kind k in program p

vars == <<i, printing, counts, allGrammar, allVec, chosen, head, visited>>
-----------------------------------------------------------------------------
(* EuclideanDistance(): the sum and the root are floats. *)

NoHead == [loop |-> "none"]

Vector      == [Kinds -> Nat]
ZeroVector  == [k \in Kinds |-> 0]
\* The grammar of the one seed there ever is: std::vector<int> initVec(10).
SeedGrammar == ZeroVector

\* The loop that adds up, over the kinds: what is left, one after the other.
Total(f) ==
  LET sum[s \in SUBSET DOMAIN f] ==
        IF s = {} THEN 0 ELSE LET k == CHOOSE k \in s : TRUE IN f[k] + sum[s \ {k}]
  IN sum[DOMAIN f]

\* The sum of the squares of the differences.
Squares(seed, p) == Total([k \in Kinds |-> (seed[k] - p[k]) * (seed[k] - p[k])])

\* Fault: int, as SquareSum() returns it.
RootInteger(n) == CHOOSE r \in 0 .. n : r * r <= n /\ n < (r + 1) * (r + 1)
\* The root to Mantissa bits, in units of 2^-Mantissa: below 2^b there are
\* Mantissa - b bits after the point, and the nearest is taken.
Root(n) ==
  LET b    == CHOOSE b \in 0 .. Mantissa :
                n < 2^b * 2^b /\ \A c \in 0 .. b - 1 : 2^c * 2^c <= n
      fine == 2^(Mantissa - b)
  IN 2^b * CHOOSE r \in 0 .. 2^Mantissa :
       /\ 4 * n * fine * fine < (2 * r + 1) * (2 * r + 1)
       /\ r > 0 => (2 * r - 1) * (2 * r - 1) <= 4 * n * fine * fine

EuclideanDistance(seed, p) == Root(Squares(seed, p))

\* Fault: the one after it, as if the vector counted from 1.
ElementAfter(vec) ==
  1 + CHOOSE d \in DOMAIN vec :
        \A e \in DOMAIN vec : vec[e] <= vec[d] /\ (e < d => vec[e] < vec[d])
\* std::max_element: the first of the largest.
MaxElement(vec) ==
  CHOOSE d \in DOMAIN vec :
    \A e \in DOMAIN vec : vec[e] <= vec[d] /\ (e < d => vec[e] < vec[d])
-----------------------------------------------------------------------------
Init ==
  /\ i = 1 /\ printing = FALSE /\ counts = ZeroVector
  /\ allGrammar = <<>> /\ allVec = <<>> /\ chosen = 0
  /\ head = NoHead
  /\ visited = [p \in 1 .. Programs |-> [k \in Kinds \cup Uncounted |-> 0]]

\* Fault: the counters go on from the program before.
CountsKept  == counts
\* The counters are statics, and set to 0 at the start of each call.
CountsReset == ZeroVector

BeginProgram ==
  /\ i <= Programs /\ ~printing
  /\ printing' = TRUE /\ counts' = CountsReset
  /\ UNCHANGED <<i, allGrammar, allVec, chosen, head, visited>>

Visits(p) == Total(visited[p])

\* A printer counts its statement before it looks at the budget of depth.
Visit(kind) ==
  /\ printing /\ head = NoHead /\ Visits(i) < MaxVisits
  /\ visited' = [visited EXCEPT ![i][kind] = @ + 1]
  /\ counts' = IF kind \in Kinds THEN [counts EXCEPT ![kind] = @ + 1] ELSE counts
  /\ UNCHANGED <<i, printing, allGrammar, allVec, chosen>>

\* Without a head: not a loop, or the budget is spent.
VisitStatement == \E kind \in Kinds \cup Uncounted : Visit(kind) /\ UNCHANGED head

PrintLoop ==
  \E loop \in GrammarLoops \cap Kinds : Visit(loop) /\ head' \in Heads[loop]

\* A for statement of CCG, which nobody counts.
PrintFor ==
  /\ printing /\ head = NoHead /\ head' \in CcgHeads
  /\ UNCHANGED <<i, printing, counts, allGrammar, allVec, chosen, visited>>

\* After a head comes its body: what is in it is visited in its turn.
BeginBody ==
  /\ head # NoHead /\ head' = NoHead
  /\ UNCHANGED <<i, printing, counts, allGrammar, allVec, chosen, visited>>

EndProgram ==
  /\ printing /\ head = NoHead /\ printing' = FALSE
  /\ allGrammar' = Append(allGrammar, counts)
  /\ allVec' = Append(allVec, EuclideanDistance(SeedGrammar, counts))
  /\ i' = i + 1
  /\ UNCHANGED <<counts, chosen, head, visited>>

CopyFarthest ==
  /\ i > Programs /\ chosen = 0
  /\ chosen' = MaxElement(allVec)
  /\ UNCHANGED <<i, printing, counts, allGrammar, allVec, head, visited>>

Next ==
  \/ BeginProgram \/ VisitStatement \/ PrintLoop \/ PrintFor \/ BeginBody
  \/ EndProgram \/ CopyFarthest

Spec == Init /\ [][Next]_vars
-----------------------------------------------------------------------------
(* Properties *)

\* The variables have their types; a vector and a distance for each program.
MutationTypeOK ==
  /\ i \in 1 .. Programs + 1 /\ printing \in BOOLEAN
  /\ counts \in Vector /\ allGrammar \in Seq(Vector) /\ allVec \in Seq(Nat)
  /\ Len(allGrammar) = i - 1 /\ Len(allVec) = i - 1
  /\ chosen \in 0 .. Programs
  /\ head \in {NoHead} \cup AllHeads

\* The vector of a program counts the statements of that program and of no other
\* (proto_to_c.cc: the counters are static, and there is one process).
VectorsFaithful ==
  \A p \in DOMAIN allGrammar : \A k \in Kinds : allGrammar[p][k] = visited[p][k]

\* The program of the round is the first of those that are farthest from the seed
\* by exact distance, though distances are compared as floats (util.cc, remccg.cc).
FarthestChosen ==
  chosen # 0 =>
    LET far(p) == Squares(SeedGrammar, visited[p])
    IN \A p \in 1 .. Programs :
         far(p) <= far(chosen) /\ (p < chosen => far(p) < far(chosen))

\* random_generate() is called with a negative lower bound, which it passes on as a
\* huge unsigned one: the values still come from the interval the caller meant
\* (util.cc, the loops of proto_to_c.cc).
DrawsInRange ==
  head.loop \in GrammarLoops =>
    head.init \in -10 .. 10 /\ head.step \in -5 .. 5

\* A loop whose body leaves its variable alone ends, and a signed variable does not
\* overflow, with one exception: an unsigned variable taken down by 4 that passes 2
\* and 1 and 0 by, and begins again at the top (proto_to_c.cc, statement.c).
LoopsEnd ==
  head # NoHead =>
    /\ head \in InRangeHeads
    /\ head \notin EndingHeads <=>
         /\ head.loop \in GrammarLoops /\ head.unsigned
         /\ head.step = -4 /\ head.init % 4 = 3
=============================================================================
