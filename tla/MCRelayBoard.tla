---------------------------- MODULE MCRelayBoard ----------------------------
(***************************************************************************)
(* Small instances of RelayBoard.  Agents and files are interchangeable,   *)
(* and no property run with the symmetry is a liveness property.           *)
(***************************************************************************)
EXTENDS RelayBoard, TLC

Symmetry == Permutations(Agents) \cup Permutations(Files)

=============================================================================
