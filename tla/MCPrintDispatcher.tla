-------------------------- MODULE MCPrintDispatcher --------------------------
(***************************************************************************)
(* Instances of PrintDispatcher for TLC.  All dispatches target the same   *)
(* printer, where they interact; dispatches of different printers share    *)
(* nothing in the dispatcher.                                              *)
(***************************************************************************)
EXTENDS PrintDispatcher, TLC

\* Every dispatch goes to the one printer.
MCPrinterOf == [j \in Jobs |-> CHOOSE p \in Printers : TRUE]

\* Every dispatch prints the same file and plate, hence one remote name.
MCSharedName == [j \in Jobs |-> CHOOSE f \in Files : TRUE]

\* The dispatches are interchangeable (safety runs only).
MCSymmetry == Permutations(Jobs)

\* Bound: a state in which more than two writes of one dispatch wait for the
\* database is checked, and its successors are not explored.
MCFewPending == \A j \in Jobs : Len(chain[j]) <= 2
=============================================================================
