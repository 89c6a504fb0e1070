----------------------------- MODULE MCPrinters -----------------------------
(* Printers as TLC checks it: the instance is in PrintersText.cfg. *)
EXTENDS Printers
=============================================================================
