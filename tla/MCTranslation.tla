--------------------------- MODULE MCTranslation ---------------------------
(* Translation as TLC checks it: the instances are in TranslationUnit.cfg. *)
EXTENDS Translation
=============================================================================
