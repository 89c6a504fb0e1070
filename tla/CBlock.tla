------------------------------- MODULE CBlock -------------------------------
(***************************************************************************)
(* The variables of a C file as a compiler reads it from the top: what the *)
(* text of RemCCG has to be for every name to mean something.  A block     *)
(* declares a name once, a name means the declaration in the innermost     *)
(* block that has one, a value is read through as many stars as its        *)
(* pointer has levels, and the two sides of a pointer assignment have the  *)
(* same level.                                                             *)
(***************************************************************************)
EXTENDS Integers, Sequences

VARIABLES
  line,    \* what is read: a declaration, a brace, a name in a statement ...
  blocks   \* the variables declared in each open block, the file first

vars == <<line, blocks>>

Named(b, n) == {v \in blocks[b] : v.name = n}

\* What n means here: the variable of that name in the innermost block that has
\* one; more than one, or none, is an error.
Meaning(n) ==
  LET inner == {b \in DOMAIN blocks : Named(b, n) # {}}
  IN IF inner = {} THEN {}
     ELSE Named(CHOOSE b \in inner : \A c \in inner : c <= b, n)

Known(n) == \E v \in Meaning(n) : Meaning(n) = {v}
The(n)   == CHOOSE v \in Meaning(n) : TRUE

Init == line = [op |-> "start"] /\ blocks = <<{}>>

\* A declaration; a pointer starts with the address of a variable of its type.
Declare ==
  /\ line'.op = "declare"
  /\ LET v == line'.var
     IN /\ Named(Len(blocks), v.name) = {}
        /\ v.depth > 0 => /\ Known(line'.init)
                          /\ The(line'.init).depth = v.depth - 1
                          /\ The(line'.init).width = v.width
        /\ blocks' = [blocks EXCEPT ![Len(blocks)] = @ \cup {v}]

\* The head of a definition: its parameters belong to the block of its body.
Define ==
  /\ line'.op = "define" /\ Len(blocks) = 1
  /\ \A u, v \in line'.params : u.name = v.name => u = v
  /\ blocks' = Append(blocks, line'.params)

Open ==
  /\ line'.op = "open" /\ Len(blocks) > 1
  /\ blocks' = Append(blocks, {})

Close ==
  /\ line'.op = "close" /\ Len(blocks) > 1
  /\ blocks' = SubSeq(blocks, 1, Len(blocks) - 1)

\* The name of an integer, or of a pointer and the stars that lead to one.
Value ==
  /\ line'.op = "value" /\ Len(blocks) > 1
  /\ Known(line'.name) /\ The(line'.name).depth = line'.stars
  /\ UNCHANGED blocks

\* left = right, or left = &right, through stars.  A pointer is left with
\* something no narrower than what it is declared to point to.
Assign ==
  /\ line'.op = "assign" /\ Len(blocks) > 1
  /\ Known(line'.left) /\ Known(line'.right)
  /\ LET l == The(line'.left)
         r == The(line'.right)
     IN /\ line'.lstars < l.depth /\ line'.rstars <= r.depth
        /\ line'.address => r.depth = 0
        /\ l.depth - line'.lstars = r.depth - line'.rstars + (IF line'.address THEN 1 ELSE 0)
        /\ l.width <= r.width
  /\ UNCHANGED blocks

\* The file ends where no block is open; another may follow.
End ==
  /\ line'.op = "end" /\ Len(blocks) = 1
  /\ blocks' = <<{}>>

Next == Declare \/ Define \/ Open \/ Close \/ Value \/ Assign \/ End

Spec == Init /\ [][Next]_vars
=============================================================================
