--------------------------- MODULE MCEngineRuntime ---------------------------
(***************************************************************************)
(* Small instances of EngineRuntime.  Clients, background threads and      *)
(* process slots are interchangeable; runs of liveness properties do not   *)
(* use the symmetry.                                                       *)
(***************************************************************************)
EXTENDS EngineRuntime, TLC

Symmetry == Permutations(Clients) \cup Permutations(Starters) \cup Permutations(Workers)

=============================================================================
