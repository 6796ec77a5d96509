----------------------------- MODULE MC_HarnessRun -----------------------------
(* The root and two parallel hand-offs; the second role's Pi is silent. *)
EXTENDS HarnessRun, TLC

CONSTANTS h1, h2

PiBound == (Root :> 1) @@ (h1 :> 1) @@ (h2 :> 0)
=============================================================================
