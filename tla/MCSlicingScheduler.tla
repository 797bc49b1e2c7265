-------------------------- MODULE MCSlicingScheduler --------------------------
(***************************************************************************)
(* An instance of SlicingScheduler for TLC: an old paid ticket and three   *)
(* younger ones, enough to keep both slots busy and one waiting without    *)
(* it; a free one; two tickets of an anonymous caller and one of another.  *)
(* Anonymous work may take one of the two slots.                           *)
(***************************************************************************)
EXTENDS SlicingScheduler

CONSTANTS p1, p2, p3, p4, f1, a1, a2, a3, c1, c2

MCTierOf == [t \in Tickets |-> CASE t \in {p1, p2, p3, p4} -> "paid" [] t = f1 -> "free" [] OTHER -> "anonymous"]
MCCreatedAt == [t \in Tickets |-> IF t \in {p2, p3, p4, a2} THEN 2 ELSE 1]
MCActorOf == [t \in Tickets |-> CASE t \in {a1, a2} -> c1 [] t = a3 -> c2 [] OTHER -> NoActor]
=============================================================================
