------------------------- MODULE MCDispatchRecovery -------------------------
(***************************************************************************)
(* Instances of DispatchRecovery for TLC, one printer as in                *)
(* MCPrintDispatcher.                                                      *)
(***************************************************************************)
EXTENDS DispatchRecovery, TLC

MCPrinterOf == [j \in Jobs |-> CHOOSE p \in Printers : TRUE]

MCSharedName == [j \in Jobs |-> CHOOSE f \in Files : TRUE]

\* Every dispatch prints a file of its own: the names are the dispatch ids.
MCOwnName == [j \in Jobs |-> j]

MCSymmetry == Permutations(Jobs)
=============================================================================
