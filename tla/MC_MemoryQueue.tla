---------------------------- MODULE MC_MemoryQueue ----------------------------
(***************************************************************************)
(* MemoryQueue with three jobs, immediate and delayed, and a clock that    *)
(* passes the delay.                                                       *)
(***************************************************************************)
EXTENDS MemoryQueue, TLC

Symmetry == Permutations(Jobs)
=============================================================================
