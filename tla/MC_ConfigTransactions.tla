------------------------ MODULE MC_ConfigTransactions ------------------------
(***************************************************************************)
(* ConfigTransactions on framework.yaml and one agent's file: a good edit  *)
(* of both with a key, one that does not resolve, one that the schema      *)
(* refuses, and a deletion that names the content it deletes.              *)
(***************************************************************************)
EXTENDS ConfigTransactions, TLC

CONSTANTS framework, agent, old, new, bad, k

Order == <<framework, agent>>
InPlaces == <<{framework}, {agent}>>

Set(file, content) == [file |-> file, next |-> content, was |-> None]
MCRequests ==
  {[edits |-> <<Set(framework, new), Set(agent, new)>>, key |-> k],
   [edits |-> <<Set(framework, old), Set(agent, bad)>>, key |-> None],
   [edits |-> <<Set(framework, new), Set(agent, Invalid)>>, key |-> None],
   [edits |-> <<[file |-> agent, next |-> Absent, was |-> old]>>, key |-> None]}

Symmetry == Permutations(Calls)
=============================================================================
