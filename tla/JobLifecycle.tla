----------------------------- MODULE JobLifecycle -----------------------------
(***************************************************************************)
(* What a job queue promises the callers of enqueue(), whatever is inside: *)
(* a submitted job waits, runs at most once with a bounded number of       *)
(* others, and its promise settles once; a job that is dropped while it    *)
(* waits (aborted, cleared, closed) never runs; no job is forgotten.       *)
(* MemoryQueue is shown to implement this module.                          *)
(***************************************************************************)
EXTENDS Naturals, FiniteSets

CONSTANTS Jobs, Concurrency

VARIABLE phase

Init == phase = [j \in Jobs |-> "new"]

Move(S, from, to) ==
  /\ S # {} /\ \A j \in S : phase[j] = from
  /\ phase' = [j \in Jobs |-> IF j \in S THEN to ELSE phase[j]]

Submit(j) == Move({j}, "new", "waiting")
Refuse(j) == Move({j}, "new", "settled")
Drop(S) == Move(S, "waiting", "settled")
Finish(j) == Move({j}, "running", "settled")

Start(j) ==
  /\ Cardinality({k \in Jobs : phase[k] = "running"}) < Concurrency
  /\ Move({j}, "waiting", "running")

Next ==
  \/ \E j \in Jobs : Submit(j) \/ Refuse(j) \/ Start(j) \/ Finish(j)
  \/ \E S \in SUBSET Jobs : Drop(S)

Spec == Init /\ [][Next]_phase
=============================================================================
