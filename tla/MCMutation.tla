----------------------------- MODULE MCMutation -----------------------------
(* Mutation as TLC checks it. *)
EXTENDS Mutation

\* The first and the last of the test values of CCG.
MCCcgTests == {30, 89}
=============================================================================
