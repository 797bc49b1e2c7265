----------------------------- MODULE MCPrintQueue -----------------------------
(***************************************************************************)
(* PrintQueue for TLC: items to be printed twice, of one file and plate,   *)
(* which gives them one name; requests are interchangeable.                *)
(***************************************************************************)
EXTENDS PrintQueue, TLC

MCQuantity == [i \in Items |-> 2]
MCPinned == [i \in Items |-> FALSE]
MCNameOf == [i \in Items |-> "job"]
RequestSymmetry == Permutations(Requests)
=============================================================================
