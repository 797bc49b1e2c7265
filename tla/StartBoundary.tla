---------------------------- MODULE StartBoundary ----------------------------
(***************************************************************************)
(* What the journal promises about starting prints, without queues,        *)
(* uploads, cancellations or crashes: the "rob-1" contract.                *)
(*                                                                         *)
(* A dispatch is started only after its row has crossed the start          *)
(* boundary (or when it has no row at all), and the row of a started       *)
(* dispatch never returns to a stage in which a restart may write it off   *)
(* and clean up after it.                                                  *)
(***************************************************************************)
CONSTANT Jobs

VARIABLES stage,    \* stage[j]: what the durable row of j says: "none" (no row), "open" (a
                    \* restart may write it off), "off" (it did) or "crossed" (the start
                    \* boundary is recorded)
          started   \* the dispatches whose start command was published

boundaryVars == <<stage, started>>

BoundaryInit ==
    /\ stage = [j \in Jobs |-> "none"]
    /\ started = {}

\* The row of an unstarted dispatch is created, or says again that no start
\* was attempted.
Reopen(j) ==
    /\ j \notin started
    /\ stage' = [stage EXCEPT ![j] = "open"]
    /\ UNCHANGED started

Cross(j) ==
    /\ stage[j] # "none"
    /\ stage' = [stage EXCEPT ![j] = "crossed"]
    /\ UNCHANGED started

Start(j) ==
    /\ j \notin started
    /\ stage[j] \in {"none", "crossed"}
    /\ started' = started \cup {j}
    /\ UNCHANGED stage

\* A restart writes off open rows.
WriteOff(ids) ==
    /\ \A j \in ids : stage[j] = "open"
    /\ stage' = [j \in Jobs |-> IF j \in ids THEN "off" ELSE stage[j]]
    /\ UNCHANGED started

\* Handled rows are deleted.
Forget(ids) ==
    /\ stage' = [j \in Jobs |-> IF j \in ids THEN "none" ELSE stage[j]]
    /\ UNCHANGED started

BoundaryNext ==
    \/ \E j \in Jobs : Reopen(j) \/ Cross(j) \/ Start(j)
    \/ \E ids \in SUBSET Jobs : WriteOff(ids) \/ Forget(ids)

BoundarySpec == BoundaryInit /\ [][BoundaryNext]_boundaryVars
=============================================================================
