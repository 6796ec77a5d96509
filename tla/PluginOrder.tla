------------------------------ MODULE PluginOrder ------------------------------
(***************************************************************************)
(* Registration of plugins and the order in which their lifecycle hooks    *)
(* run: packages/core/src/plugin-host/{plugin-host,dependency-order}.ts.   *)
(*                                                                         *)
(* resolvePluginOrder() is synchronous; its loop, and the search for a     *)
(* cycle to report, are modelled one iteration at a time so that both can  *)
(* be proved about.  A dependency list is a set: the search takes its      *)
(* members in any order, which stands for every order of the list.         *)
(* findCycle's ways out without a cycle are left out: it is called when    *)
(* every unresolved plugin waits for another (CycleIsReal says so), so     *)
(* visit() never comes to the end of a dependency list.                    *)
(***************************************************************************)
EXTENDS Naturals, Sequences, FiniteSets

CONSTANT Ids   \* normalized plugin ids

VARIABLES
  registered,  \* the plugins registry, in insertion order
  deps,        \* manifest.dependencies
  phase,       \* "idle"; "resolving" or "searching" while resolveOrder() runs
  result,      \* how the last resolveOrder() ended
  ordered,     \* resolvePluginOrder's ordered
  stack,       \* findCycle's stack, the plugins it is visiting
  cycle        \* the cycle reported

order == <<ordered, stack, cycle>>
plugins == <<registered, deps, phase, result, order>>

Elems(s) == {s[i] : i \in DOMAIN s}

OrderInit ==
  /\ registered = << >> /\ deps = [p \in Ids |-> {}]
  /\ phase = "idle" /\ result = "none"
  /\ ordered = << >> /\ stack = << >> /\ cycle = << >>

\* register(); a duplicate id or a dependency on itself is refused.
Register(p, ds) ==
  /\ phase = "idle"
  /\ p \notin Elems(registered) /\ p \notin ds
  /\ registered' = Append(registered, p)
  /\ deps' = [deps EXCEPT ![p] = ds]
  /\ result' = "none"
  /\ UNCHANGED <<phase, order>>

\* validatePluginDependencies() finds an issue.
Missing == \E p \in Elems(registered) : deps[p] \ Elems(registered) # {}

Resolve ==
  /\ phase = "idle"
  /\ ordered' = << >>
  /\ IF Missing
     THEN result' = "missing" /\ UNCHANGED phase
     ELSE result' = "none" /\ phase' = "resolving"
  /\ UNCHANGED <<registered, deps, stack, cycle>>

Unresolved == Elems(registered) \ Elems(ordered)

\* Mutant: one resolved dependency is enough (some in place of every).
ReadySome(p) ==
  p \in Unresolved /\ (deps[p] = {} \/ \E d \in deps[p] : d \in Elems(ordered))

Ready(p) == p \in Unresolved /\ deps[p] \subseteq Elems(ordered)

\* The ready candidate with the least index.
IsNext(i) == Ready(registered[i]) /\ \A j \in DOMAIN registered : Ready(registered[j]) => i <= j

Pick ==
  /\ phase = "resolving"
  /\ \E i \in DOMAIN registered :
       IsNext(i) /\ ordered' = Append(ordered, registered[i])
  /\ UNCHANGED <<registered, deps, phase, result, stack, cycle>>

\* The loop ends because every plugin is ordered.
Ordered ==
  /\ phase = "resolving" /\ Len(ordered) = Len(registered)
  /\ phase' = "idle" /\ result' = "ordered"
  /\ UNCHANGED <<registered, deps, order>>

\* next is undefined: findCycle(unresolved).
Stuck ==
  /\ phase = "resolving" /\ Unresolved # {}
  /\ \A p \in Unresolved : ~ Ready(p)
  /\ phase' = "searching"
  /\ stack' = << >> /\ cycle' = << >>
  /\ UNCHANGED <<registered, deps, result, ordered>>

Enter(p) == stack' = Append(stack, p)

\* visit() of the first entry of definitions.
VisitRoot ==
  /\ phase = "searching" /\ stack = << >>
  /\ \E i \in DOMAIN registered :
       /\ registered[i] \in Unresolved
       /\ \A j \in DOMAIN registered : registered[j] \in Unresolved => i <= j
       /\ Enter(registered[i])
  /\ UNCHANGED <<registered, deps, phase, result, ordered, cycle>>

Top == stack[Len(stack)]
\* Mutant: the cycle is reported from the bottom of the stack.
CycleFromRoot(k) == stack \o <<stack[k]>>

\* stack.slice(startIndex) and the plugin itself.
CycleFrom(k) == SubSeq(stack, k, Len(stack)) \o <<stack[k]>>

FoundCycle(d) ==
  \E k \in DOMAIN stack :
    /\ stack[k] = d
    /\ cycle' = CycleFrom(k)
    /\ phase' = "idle" /\ result' = "cycle"
    /\ UNCHANGED stack

\* A dependency of the plugin on top of the stack is visited.
VisitDependency(d) ==
  /\ phase = "searching" /\ stack # << >>
  /\ d \in deps[Top] \cap Unresolved
  /\ \/ FoundCycle(d)
     \/ d \notin Elems(stack) /\ Enter(d) /\ UNCHANGED <<phase, result, cycle>>
  /\ UNCHANGED <<registered, deps, ordered>>

\* One step of a running resolveOrder().
Step ==
  \/ Pick \/ Ordered \/ Stuck
  \/ VisitRoot \/ (\E d \in Ids : VisitDependency(d))

OrderNext == Resolve \/ Step \/ (\E p \in Ids : \E ds \in SUBSET Ids : Register(p, ds))

OrderSpec == OrderInit /\ [][OrderNext]_plugins

-----------------------------------------------------------------------------
(***************************************************************************)
(* Properties                                                              *)
(***************************************************************************)
\* The registry, the order under construction and the search are well formed.
TypeOK ==
  /\ registered \in Seq(Ids) /\ deps \in [Ids -> SUBSET Ids]
  /\ phase \in {"idle", "resolving", "searching"}
  /\ result \in {"none", "ordered", "missing", "cycle"}
  /\ ordered \in Seq(Ids) /\ stack \in Seq(Ids) /\ cycle \in Seq(Ids)
  /\ \A p \in Elems(registered) : p \notin deps[p]

\* Hooks run after those of every dependency, each plugin's once: no plugin
\* comes before one that it depends on, and none comes twice.
OrderIsTopological ==
  /\ \A i, j \in DOMAIN ordered : ordered[i] = ordered[j] => i = j
  /\ \A i \in DOMAIN ordered : \A d \in deps[ordered[i]] :
       \E j \in DOMAIN ordered : j < i /\ ordered[j] = d

\* The order is stable: a plugin comes before one registered earlier only if
\* the latter was still waiting for a dependency of its own.
OrderIsStable ==
  \A i, j \in DOMAIN registered : \A k \in DOMAIN ordered :
    i < j /\ ordered[k] = registered[j] =>
      \/ \E l \in DOMAIN ordered : l < k /\ ordered[l] = registered[i]
      \/ \E d \in deps[registered[i]] :
           \A l \in DOMAIN ordered : ordered[l] = d => k <= l

\* The order under construction is topological and stable: hooks run after those
\* of every dependency, and otherwise in the order of registration.
OrderCorrect == OrderIsTopological /\ OrderIsStable

\* A resolution that succeeds has ordered every registered plugin.
NothingLeftOut == result = "ordered" => Elems(ordered) = Elems(registered)

\* A resolution that fails for a cycle shows one, of registered plugins that
\* each depend on the next; the search for it cannot end in any other way
\* ("could not be reconstructed"), as it never meets a plugin without an
\* unresolved dependency.
CycleIsReal ==
  /\ result = "cycle" =>
       /\ Len(cycle) > 1 /\ cycle[1] = cycle[Len(cycle)]
       /\ \A i \in 1 .. Len(cycle) - 1 :
            cycle[i] \in Elems(registered) /\ cycle[i + 1] \in deps[cycle[i]]
  /\ phase = "searching" =>
       Unresolved # {} /\ \A p \in Unresolved : deps[p] \cap Unresolved # {}
=============================================================================
