---------------------------- MODULE MC_EventStream ----------------------------
(***************************************************************************)
(* EventStream with up to three emits and three subscribers.                       *)
(***************************************************************************)
EXTENDS EventStream, TLC

Symmetry == Permutations(Emits) \cup Permutations(Subs \ Throwing)
=============================================================================
