---------------------------- MODULE MCBridgeSessions ----------------------------
(***************************************************************************)
(* BridgeSessions for TLC: pumps and viewers are interchangeable.          *)
(***************************************************************************)
EXTENDS BridgeSessions, TLC

BridgeSymmetry == Permutations(Pumps) \cup Permutations(Viewers)
=============================================================================
