--------------------------- MODULE MCSlicingJobs ---------------------------
(***************************************************************************)
(* SlicingJobs for TLC: its jobs are interchangeable.                      *)
(***************************************************************************)
EXTENDS SlicingJobs, TLC

JobSymmetry == Permutations(Jobs)
=============================================================================
