------------------------------- MODULE CUnit -------------------------------
(***************************************************************************)
(* A C translation unit as it is written from the top: what the text that  *)
(* RemCCG prints has to be, for a compiler to accept it.  A function is    *)
(* defined once, a call stands where a declaration of its function is      *)
(* visible, and whatever is called is defined when the unit ends.          *)
(***************************************************************************)
EXTENDS Integers, Sequences

CONSTANT Names  \* of functions

VARIABLES
  ended,     \* the unit is complete
  declared,  \* names with a declaration at file scope
  blocks,    \* names declared in each open block of a function, outermost first
  defined,   \* names with a definition
  called     \* names that are called

vars == <<ended, declared, blocks, defined, called>>

Visible == declared \cup UNION {blocks[i] : i \in DOMAIN blocks}

Init ==
  /\ ended = FALSE /\ declared = {} /\ blocks = <<>> /\ defined = {} /\ called = {}

\* A prototype at file scope.
DeclareGlobally(ns) ==
  /\ blocks = <<>> /\ ~ended
  /\ declared' = declared \cup ns
  /\ UNCHANGED <<ended, blocks, defined, called>>

\* An extern declaration in a block.
DeclareLocally(n) ==
  /\ blocks # <<>>
  /\ blocks' = [blocks EXCEPT ![Len(blocks)] = @ \cup {n}]
  /\ UNCHANGED <<ended, declared, defined, called>>

\* The head of a definition declares the function.
Define(n) ==
  /\ blocks = <<>> /\ ~ended /\ n \notin defined
  /\ defined' = defined \cup {n} /\ declared' = declared \cup {n} /\ blocks' = <<{}>>
  /\ UNCHANGED <<ended, called>>

OpenBlock ==
  /\ blocks # <<>> /\ blocks' = Append(blocks, {})
  /\ UNCHANGED <<ended, declared, defined, called>>

CloseBlock ==
  /\ blocks # <<>> /\ blocks' = SubSeq(blocks, 1, Len(blocks) - 1)
  /\ UNCHANGED <<ended, declared, defined, called>>

\* A statement with calls.
Use(ns) ==
  /\ blocks # <<>> /\ ns \subseteq Visible
  /\ called' = called \cup ns
  /\ UNCHANGED <<ended, declared, blocks, defined>>

\* main() calls the first function, and nothing follows.
End(n) ==
  /\ blocks = <<>> /\ ~ended /\ n \in declared
  /\ ended' = TRUE /\ called' = called \cup {n}
  /\ called' \subseteq defined
  /\ UNCHANGED <<declared, blocks, defined>>

Next ==
  \/ \E ns \in SUBSET Names : DeclareGlobally(ns) \/ Use(ns)
  \/ \E n \in Names : DeclareLocally(n) \/ Define(n) \/ End(n)
  \/ OpenBlock \/ CloseBlock

Spec == Init /\ [][Next]_vars
=============================================================================
