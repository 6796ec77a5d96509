----------------------------- MODULE FunctionInput -----------------------------
(***************************************************************************)
(* The input that functions are compared with their promises on: a         *)
(* behaviour is one choice of it.                                          *)
(***************************************************************************)
EXTENDS Integers, Sequences

VARIABLE input      \* <<rule, argument, ...>>, or <<>> before the choice

Rule(r)  == input # <<>> /\ input[1] = r
IsSeq(s) == Len(s) \in Nat /\ DOMAIN s = 1..Len(s)
================================================================================
