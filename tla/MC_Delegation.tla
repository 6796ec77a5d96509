---------------------------- MODULE MC_Delegation ----------------------------
(***************************************************************************)
(* Delegation with four sessions: enough for two separate trees, for a     *)
(* chain four deep and for siblings beside it, each begun by a delegation  *)
(* or by a caller of the orchestrator.                                     *)
(***************************************************************************)
EXTENDS Delegation, TLC

Symmetry == Permutations(Ids)
=============================================================================
