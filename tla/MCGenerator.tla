---------------------------- MODULE MCGenerator ----------------------------
(* Instances of the generator small enough to be checked. *)
EXTENDS Generator
=============================================================================
