-------------------------- MODULE MCPrinterManager --------------------------
(* Instances of PrinterManager for TLC. *)
EXTENDS PrinterManager, TLC

BothSymmetry == Permutations(Ops) \cup Permutations(Bridges)
=============================================================================
