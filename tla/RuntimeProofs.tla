----------------------------- MODULE RuntimeProofs -----------------------------
(***************************************************************************)
(* Proofs about PluginOrder and Bootstrap, for any set of plugins, runs    *)
(* and stops.                                                              *)
(*                                                                         *)
(* The first part is about the order: Inv and Descent follow the loop of   *)
(* resolvePluginOrder() and the search for a cycle.  In the second part    *)
(* Shared says who owns the startup and the reset of startupPromise, and   *)
(* Cycles how far each plugin is in its cycle of hooks.                    *)
(***************************************************************************)
EXTENDS PluginOrder, Bootstrap, FiniteSetTheorems, SequenceTheorems, TLAPS

(***************************************************************************)
(* The order                                                               *)
(***************************************************************************)

\* Every plugin is registered once, and only registered plugins are ordered.
Registry ==
  /\ \A i, j \in DOMAIN registered : registered[i] = registered[j] => i = j
  /\ Elems(ordered) \subseteq Elems(registered)

\* While resolveOrder() runs no dependency is missing.
Closed ==
  phase # "idle" => \A p \in Elems(registered) : deps[p] \subseteq Elems(registered)

\* Each plugin on the search's stack is unresolved and depends on the next,
\* and there is always a way on.
Descent ==
  phase = "searching" =>
    /\ Unresolved # {}
    /\ \A p \in Unresolved : deps[p] \cap Unresolved # {}
    /\ Elems(stack) \subseteq Unresolved
    /\ \A k \in 1 .. Len(stack) - 1 : stack[k + 1] \in deps[stack[k]]

Inv == TypeOK /\ Registry /\ OrderIsTopological /\ Closed

\* What a sequence is after an element is appended.
LEMMA Appended ==
  ASSUME NEW S, NEW s \in Seq(S), NEW e \in S
  PROVE  /\ DOMAIN s = 1 .. Len(s) /\ Len(s) \in Nat
         /\ Append(s, e) \in Seq(S)
         /\ DOMAIN Append(s, e) = 1 .. (Len(s) + 1)
         /\ Append(s, e)[Len(s) + 1] = e
         /\ \A i \in 1 .. Len(s) : Append(s, e)[i] = s[i]
         /\ Elems(Append(s, e)) = Elems(s) \cup {e}
<1>1. /\ DOMAIN s = 1 .. Len(s) /\ Len(s) \in Nat
      /\ Append(s, e) \in Seq(S)
      /\ DOMAIN Append(s, e) = 1 .. (Len(s) + 1)
      /\ Append(s, e)[Len(s) + 1] = e
      /\ \A i \in 1 .. Len(s) : Append(s, e)[i] = s[i]
  OBVIOUS
<1> QED BY <1>1 DEF Elems

LEMMA InvInit == OrderInit => Inv
  BY DEF OrderInit, Inv, TypeOK, Registry, OrderIsTopological, Closed, Elems

\* A plugin that is registered is not in the order yet.
LEMMA InvRegister ==
  ASSUME Inv, NEW p \in Ids, NEW ds \in SUBSET Ids, Register(p, ds)
  PROVE  Inv'
<1>1. /\ registered \in Seq(Ids) /\ registered' = Append(registered, p)
      /\ p \notin Elems(registered) /\ Elems(ordered) \subseteq Elems(registered)
      /\ UNCHANGED <<phase, ordered, stack, cycle>> /\ phase = "idle"
  BY DEF Inv, TypeOK, Registry, Register, order
<1>2. /\ DOMAIN registered = 1 .. Len(registered) /\ Len(registered) \in Nat
      /\ DOMAIN registered' = 1 .. (Len(registered) + 1)
      /\ registered'[Len(registered) + 1] = p
      /\ \A i \in 1 .. Len(registered) : registered'[i] = registered[i]
      /\ Elems(registered') = Elems(registered) \cup {p}
  BY <1>1, Appended
<1>3. TypeOK'
  BY <1>1, <1>2, Appended DEF Inv, TypeOK, Register
<1>4. Registry'
  <2>1. \A i \in DOMAIN registered : registered[i] # p
    BY <1>1 DEF Elems
  <2>2. \A i, j \in DOMAIN registered' : registered'[i] = registered'[j] => i = j
    BY <1>2, <2>1 DEF Inv, Registry
  <2>3. Elems(ordered') \subseteq Elems(registered')
    BY <1>1, <1>2 DEF Elems
  <2> QED BY <2>2, <2>3 DEF Registry
<1>5. OrderIsTopological'
  <2>1. \A i \in DOMAIN ordered : ordered[i] \in Ids /\ ordered[i] # p
    <3>1. \A i \in DOMAIN ordered : ordered[i] \in Elems(ordered)
      BY DEF Elems
    <3>2. \A i \in DOMAIN ordered : ordered[i] # p
      BY <1>1, <3>1
    <3> QED BY <3>2 DEF Inv, TypeOK
  <2>2. \A q \in Ids : q # p => deps'[q] = deps[q]
    BY DEF Inv, TypeOK, Register
  <2> QED BY <1>1, <2>1, <2>2 DEF Inv, OrderIsTopological
<1>6. Closed'
  BY <1>1 DEF Closed
<1> QED BY <1>3, <1>4, <1>5, <1>6 DEF Inv

\* The plugin picked has all its dependencies in the order, and is not there.
LEMMA InvPick ==
  ASSUME Inv, Pick
  PROVE  Inv'
<1>1. PICK i \in DOMAIN registered :
        IsNext(i) /\ ordered' = Append(ordered, registered[i])
  BY DEF Pick
<1> DEFINE p == registered[i]
<1>2. /\ p \in Ids /\ ordered \in Seq(Ids) /\ p \in Elems(registered)
      /\ p \notin Elems(ordered) /\ deps[p] \subseteq Elems(ordered)
  BY <1>1 DEF Inv, TypeOK, IsNext, Ready, Unresolved, Elems
<1> HIDE DEF p
<1>3. ordered' = Append(ordered, p)
  BY <1>1 DEF p
<1>4. /\ DOMAIN ordered = 1 .. Len(ordered) /\ Len(ordered) \in Nat
      /\ ordered' \in Seq(Ids)
      /\ DOMAIN ordered' = 1 .. (Len(ordered) + 1)
      /\ ordered'[Len(ordered) + 1] = p
      /\ \A k \in 1 .. Len(ordered) : ordered'[k] = ordered[k]
      /\ Elems(ordered') = Elems(ordered) \cup {p}
  BY <1>2, <1>3, Appended
<1>5. TypeOK'
  BY <1>4 DEF Inv, TypeOK, Pick, Elems
<1>6. Registry'
  <2>1. registered' = registered /\ Elems(registered') = Elems(registered)
    BY DEF Pick, Elems
  <2> QED BY <1>2, <1>4, <2>1 DEF Inv, Registry
<1>7. OrderIsTopological'
  <2>1. \A k \in DOMAIN ordered : ordered[k] # p
    BY <1>2 DEF Elems
  <2>2. \A k, l \in DOMAIN ordered' : ordered'[k] = ordered'[l] => k = l
    BY <1>4, <2>1 DEF Inv, OrderIsTopological
  <2>3. \A d \in deps[p] : \E l \in DOMAIN ordered : ordered[l] = d
    BY <1>2 DEF Elems
  <2>4. ASSUME NEW k \in DOMAIN ordered', NEW d \in deps[ordered'[k]]
        PROVE  \E l \in DOMAIN ordered' : l < k /\ ordered'[l] = d
    <3>1. CASE k = Len(ordered) + 1
      <4>1. PICK l \in DOMAIN ordered : ordered[l] = d
        BY <1>4, <2>3, <2>4, <3>1
      <4> QED BY <1>4, <3>1, <4>1
    <3>2. CASE k # Len(ordered) + 1
      <4>1. k \in DOMAIN ordered /\ d \in deps[ordered[k]]
        BY <1>4, <2>4, <3>2
      <4>2. PICK l \in DOMAIN ordered : l < k /\ ordered[l] = d
        BY <4>1 DEF Inv, OrderIsTopological
      <4> QED BY <1>4, <4>1, <4>2
    <3> QED BY <3>1, <3>2
  <2>5. deps' = deps
    BY DEF Pick
  <2> QED BY <2>2, <2>4, <2>5 DEF OrderIsTopological
<1>8. Closed'
  BY DEF Inv, Closed, Pick, Elems
<1> QED BY <1>5, <1>6, <1>7, <1>8 DEF Inv

\* The search for a cycle touches neither the registry nor the order.
LEMMA InvSearch ==
  ASSUME Inv, NEW d \in Ids, VisitDependency(d)
  PROVE  Inv'
<1>1. /\ UNCHANGED <<registered, deps, ordered>> /\ phase = "searching"
      /\ phase' \in {phase, "idle"} /\ result' \in {result, "cycle"}
  BY DEF VisitDependency, FoundCycle
<1>3. stack' \in Seq(Ids) /\ cycle' \in Seq(Ids)
  <2>2. CASE FoundCycle(d)
    <3>1. PICK k \in DOMAIN stack : cycle' = CycleFrom(k)
      BY <2>2 DEF FoundCycle
    <3>2. stack \in Seq(Ids) /\ k \in 1 .. Len(stack) /\ stack[k] \in Ids
      BY <3>1 DEF Inv, TypeOK
    <3>3. SubSeq(stack, k, Len(stack)) \in Seq(Ids) /\ <<stack[k]>> \in Seq(Ids)
      BY <3>2
    <3>4. cycle' \in Seq(Ids)
      BY <3>1, <3>3 DEF CycleFrom
    <3> QED BY <2>2, <3>4 DEF FoundCycle, Inv, TypeOK
  <2>3. CASE Enter(d) /\ UNCHANGED cycle
    BY <2>3 DEF Enter, Inv, TypeOK
  <2> QED BY <2>2, <2>3 DEF VisitDependency
<1>4. TypeOK'
  BY <1>1, <1>3 DEF Inv, TypeOK, Elems
<1>5. Registry' /\ OrderIsTopological'
  BY <1>1 DEF Inv, Registry, OrderIsTopological, Elems
<1>6. Closed'
  BY <1>1 DEF Inv, Closed, Elems
<1> QED BY <1>4, <1>5, <1>6 DEF Inv

\* Every step preserves the invariant of registration and order.
LEMMA InvStep == Inv /\ [OrderNext]_plugins => Inv'
<1> SUFFICES ASSUME Inv, [OrderNext]_plugins PROVE Inv' OBVIOUS
<1>1. CASE Resolve
  <2>1. /\ UNCHANGED <<registered, deps>> /\ ordered' = << >>
        /\ Elems(registered') = Elems(registered) /\ Elems(ordered') = {}
    BY <1>1 DEF Resolve, Elems
  <2>2. TypeOK'
    BY <1>1, <2>1 DEF Resolve, Inv, TypeOK
  <2>3. Registry' /\ OrderIsTopological'
    BY <2>1 DEF Inv, Registry, OrderIsTopological
  <2>4. Closed'
    BY <1>1, <2>1 DEF Resolve, Missing, Closed
  <2> QED BY <2>2, <2>3, <2>4 DEF Inv
<1> USE DEF Inv, TypeOK, Registry, OrderIsTopological, Closed
<1>2. CASE Ordered
  BY <1>2 DEF Ordered, order
<1>3. CASE Stuck
  BY <1>3 DEF Stuck
<1>4. CASE VisitRoot
  BY <1>4 DEF VisitRoot, Enter
<1>7. CASE UNCHANGED plugins
  BY <1>7 DEF plugins, order
<1> QED BY InvRegister, InvPick, InvSearch, <1>1, <1>2, <1>3, <1>4, <1>7 DEF OrderNext, Step

\* Type correctness: registry, order and search are always well formed.
THEOREM TypeCorrect == OrderSpec => []TypeOK
  BY InvInit, InvStep, PTL DEF OrderSpec, Inv

\* No plugin's hook runs before that of a plugin it depends on, or twice,
\* for any registry: the invariant is inductive with Registry and Closed.
THEOREM DependenciesFirst == OrderSpec => []OrderIsTopological
  BY InvInit, InvStep, PTL DEF OrderSpec, Inv

-----------------------------------------------------------------------------
\* A later plugin is picked only while the earlier one waits.
LEMMA StableStep == Inv /\ Inv' /\ OrderIsStable /\ [OrderNext]_plugins => OrderIsStable'
<1> SUFFICES ASSUME Inv, Inv', OrderIsStable, [OrderNext]_plugins PROVE OrderIsStable' OBVIOUS
<1>1. ASSUME NEW p \in Ids, NEW ds \in SUBSET Ids, Register(p, ds) PROVE OrderIsStable'
  <2>1. /\ registered \in Seq(Ids) /\ registered' = Append(registered, p)
        /\ ordered' = ordered /\ p \notin Elems(registered)
        /\ \A q \in Ids : q # p => deps'[q] = deps[q]
    BY <1>1 DEF Register, order, Inv, TypeOK
  <2>2. /\ DOMAIN registered = 1 .. Len(registered) /\ Len(registered) \in Nat
        /\ DOMAIN registered' = 1 .. (Len(registered) + 1)
        /\ registered'[Len(registered) + 1] = p
        /\ \A i \in 1 .. Len(registered) :
             registered'[i] = registered[i] /\ registered[i] \in Ids /\ registered[i] # p
    BY <2>1, Appended DEF Elems
  <2>3. \A k \in DOMAIN ordered : ordered[k] # p
    BY <2>1 DEF Inv, Registry, Elems
  <2>4. ASSUME NEW i \in DOMAIN registered', NEW j \in DOMAIN registered',
               NEW k \in DOMAIN ordered', i < j, ordered'[k] = registered'[j]
        PROVE  i \in DOMAIN registered /\ j \in DOMAIN registered
    BY <2>1, <2>2, <2>3, <2>4
  <2>5. ASSUME NEW i \in DOMAIN registered', NEW j \in DOMAIN registered',
               NEW k \in DOMAIN ordered', i < j, ordered'[k] = registered'[j]
        PROVE  \/ \E l \in DOMAIN ordered' : l < k /\ ordered'[l] = registered'[i]
               \/ \E d \in deps'[registered'[i]] :
                    \A l \in DOMAIN ordered' : ordered'[l] = d => k <= l
    <3>1. i \in DOMAIN registered /\ j \in DOMAIN registered
      BY <2>4, <2>5
    <3>2. /\ registered'[i] = registered[i] /\ registered'[j] = registered[j]
          /\ deps'[registered[i]] = deps[registered[i]]
      BY <2>1, <2>2, <3>1
    <3>3. \/ \E l \in DOMAIN ordered : l < k /\ ordered[l] = registered[i]
          \/ \E d \in deps[registered[i]] :
               \A l \in DOMAIN ordered : ordered[l] = d => k <= l
      BY <2>1, <2>5, <3>1, <3>2 DEF OrderIsStable
    <3> QED BY <2>1, <3>2, <3>3
  <2> QED BY <2>5 DEF OrderIsStable
<1>2. CASE Pick
  <2>1. PICK n \in DOMAIN registered :
          IsNext(n) /\ ordered' = Append(ordered, registered[n])
    BY <1>2 DEF Pick
  <2>2. registered[n] \in Ids /\ ordered \in Seq(Ids)
    BY <2>1 DEF Inv, TypeOK
  <2>3. /\ DOMAIN ordered = 1 .. Len(ordered) /\ Len(ordered) \in Nat
        /\ DOMAIN ordered' = 1 .. (Len(ordered) + 1)
        /\ ordered'[Len(ordered) + 1] = registered[n]
        /\ \A k \in 1 .. Len(ordered) : ordered'[k] = ordered[k]
    BY <2>1, <2>2, Appended
  <2>4. UNCHANGED <<registered, deps>>
    BY <1>2 DEF Pick
  <2>5. ASSUME NEW i \in DOMAIN registered, NEW j \in DOMAIN registered,
               NEW k \in DOMAIN ordered', i < j, ordered'[k] = registered[j]
        PROVE  \/ \E l \in DOMAIN ordered' : l < k /\ ordered'[l] = registered[i]
               \/ \E d \in deps[registered[i]] :
                    \A l \in DOMAIN ordered' : ordered'[l] = d => k <= l
    <3>1. CASE k = Len(ordered) + 1
      <4>1. j = n
        BY <2>3, <2>5, <3>1 DEF Inv, Registry
      <4>2. ~ Ready(registered[i])
        <5>1. DOMAIN registered = 1 .. Len(registered) /\ Len(registered) \in Nat
          BY DEF Inv, TypeOK
        <5> QED BY <2>1, <2>5, <4>1, <5>1 DEF IsNext
      <4>3. CASE registered[i] \in Elems(ordered)
        BY <2>3, <3>1, <4>3 DEF Elems
      <4>4. CASE registered[i] \notin Elems(ordered)
        <5>1. registered[i] \in Unresolved
          BY <4>4 DEF Unresolved, Elems
        <5>2. PICK d \in deps[registered[i]] : d \notin Elems(ordered)
          BY <4>2, <5>1 DEF Ready
        <5>3. \A l \in DOMAIN ordered : ordered[l] # d
          BY <5>2 DEF Elems
        <5> QED BY <2>3, <3>1, <5>3
      <4> QED BY <4>3, <4>4
    <3>2. CASE k # Len(ordered) + 1
      <4>1. k \in DOMAIN ordered /\ ordered[k] = registered[j]
        BY <2>3, <2>5, <3>2
      <4>2. \/ \E l \in DOMAIN ordered : l < k /\ ordered[l] = registered[i]
            \/ \E d \in deps[registered[i]] :
                 \A l \in DOMAIN ordered : ordered[l] = d => k <= l
        BY <2>5, <4>1 DEF OrderIsStable
      <4> QED BY <2>3, <4>1, <4>2
    <3> QED BY <3>1, <3>2
  <2> QED BY <2>4, <2>5 DEF OrderIsStable
<1>3. CASE UNCHANGED <<registered, deps, ordered>>
  BY <1>3 DEF OrderIsStable
<1>4. CASE Resolve
  BY <1>4 DEF Resolve, OrderIsStable
<1> QED BY <1>1, <1>2, <1>3, <1>4
        DEF OrderNext, Step, plugins, order, Ordered, Stuck, VisitRoot, VisitDependency

\* Independent plugins keep their registration order, whatever the graph.
THEOREM OrderStable == OrderSpec => []OrderIsStable
<1>1. OrderInit => OrderIsStable
  BY DEF OrderInit, OrderIsStable
<1> QED BY <1>1, InvInit, InvStep, StableStep, PTL DEF OrderSpec

\* Both together: hooks run after those of every dependency, and otherwise in the
\* order in which the plugins were registered.
THEOREM OrderAlwaysCorrect == OrderSpec => []OrderCorrect
  BY DependenciesFirst, OrderStable, PTL DEF OrderCorrect

-----------------------------------------------------------------------------
Running == phase # "idle" => result = "none"

Shown ==
  result = "cycle" =>
    /\ Len(cycle) > 1 /\ cycle[1] = cycle[Len(cycle)]
    /\ \A i \in 1 .. Len(cycle) - 1 :
         cycle[i] \in Elems(registered) /\ cycle[i + 1] \in deps[cycle[i]]

DescentInv == Descent /\ Running /\ Shown

\* When nothing is ready, every plugin left has a dependency left.
LEMMA DescentStuck ==
  ASSUME Inv, DescentInv, Stuck
  PROVE  DescentInv'
<1>1. UNCHANGED <<registered, deps, ordered, result>> /\ Unresolved' = Unresolved
  BY DEF Stuck, Unresolved, Elems
<1>2. /\ Unresolved # {} /\ phase = "resolving" /\ result = "none"
      /\ \A p \in Unresolved : p \in Elems(registered) /\ p \notin Elems(ordered)
    BY DEF Stuck, Unresolved, DescentInv, Running
<1>3. \A p \in Unresolved : deps[p] \cap Unresolved # {}
  BY <1>2 DEF Stuck, Ready, Unresolved, Inv, Closed
<1>4. Descent'
  BY <1>1, <1>2, <1>3 DEF Stuck, Descent, Elems
<1> QED BY <1>1, <1>2, <1>4 DEF DescentInv, Running, Shown

\* A plugin entered is linked to the one below it, and has a way on.
LEMMA DescentEnter ==
  ASSUME Inv, DescentInv, phase = "searching", NEW p \in Ids, Enter(p),
         p \in Unresolved, stack # << >> => p \in deps[Top],
         UNCHANGED <<registered, deps, phase, result, ordered, cycle>>
  PROVE  DescentInv'
<1>1. Unresolved' = Unresolved
  BY DEF Unresolved, Elems
<1>2. /\ stack \in Seq(Ids) /\ stack' = Append(stack, p) /\ stack' # << >>
  BY DEF Inv, TypeOK, DescentInv, Descent, Enter
<1>3. /\ DOMAIN stack = 1 .. Len(stack) /\ Len(stack) \in Nat
      /\ Len(stack') = Len(stack) + 1
      /\ DOMAIN stack' = 1 .. (Len(stack) + 1)
      /\ stack'[Len(stack) + 1] = p
      /\ \A i \in 1 .. Len(stack) : stack'[i] = stack[i]
      /\ Elems(stack') = Elems(stack) \cup {p}
  BY <1>2, Appended
<1>4. Top' = p
  BY <1>3 DEF Top
<1>5. Elems(stack') \subseteq Unresolved
  BY <1>2, <1>3 DEF Enter, DescentInv, Descent
<1>6. stack # << >> => Top \in Elems(stack) /\ Top = stack[Len(stack)]
  BY <1>2, <1>3 DEF Top, Elems
<1>7. \A k \in 1 .. Len(stack') - 1 : stack'[k + 1] \in deps[stack'[k]]
  <2> SUFFICES ASSUME NEW k \in 1 .. Len(stack) PROVE stack'[k + 1] \in deps[stack'[k]]
    BY <1>3
  <2>1. CASE k = Len(stack)
    BY <1>2, <1>3, <1>6, <2>1
  <2>2. CASE k # Len(stack)
    <3>1. k \in 1 .. Len(stack) - 1
      <4>1. \A n \in Nat : \A m \in 1 .. n : m # n => m \in 1 .. n - 1
        OBVIOUS
      <4> QED BY <1>3, <2>2, <4>1
    <3>2. stack[k + 1] \in deps[stack[k]]
      BY <3>1 DEF DescentInv, Descent
    <3> QED BY <1>3, <3>1, <3>2
  <2> QED BY <2>1, <2>2
<1>10. Descent'
  BY <1>1, <1>4, <1>5, <1>7 DEF DescentInv, Descent
<1> QED BY <1>10 DEF DescentInv, Running, Shown

\* A cycle found is the upper part of the stack, closed by a dependency.
LEMMA DescentFound ==
  ASSUME Inv, DescentInv, NEW d \in Ids, phase = "searching",
         stack # << >>, d \in deps[Top], FoundCycle(d),
         UNCHANGED <<registered, deps, ordered>>
  PROVE  DescentInv'
<1>1. PICK k \in DOMAIN stack : stack[k] = d /\ cycle' = CycleFrom(k)
  BY DEF FoundCycle
<1>2. /\ stack \in Seq(Ids) /\ Len(stack) \in Nat /\ DOMAIN stack = 1 .. Len(stack)
      /\ k \in 1 .. Len(stack) /\ d \in deps[stack[Len(stack)]]
  BY <1>1 DEF Inv, TypeOK, Top
<1> DEFINE part == SubSeq(stack, k, Len(stack))
<1>3. /\ part \in Seq(Ids) /\ Len(part) = Len(stack) - k + 1
      /\ \A i \in 1 .. Len(part) : part[i] = stack[k + i - 1]
  BY <1>2
<1> HIDE DEF part
<1>4. cycle' = part \o <<d>>
  BY <1>1 DEF CycleFrom, part
<1>5. /\ Len(cycle') = Len(part) + 1 /\ Len(part) \in Nat /\ Len(part) >= 1
      /\ cycle'[Len(cycle')] = d
      /\ \A i \in 1 .. Len(part) : cycle'[i] = stack[k + i - 1]
  BY <1>2, <1>3, <1>4
<1>6. cycle'[1] = d
  BY <1>1, <1>2, <1>5
<1>7. ASSUME NEW i \in 1 .. Len(cycle') - 1
      PROVE  cycle'[i] \in Elems(registered) /\ cycle'[i + 1] \in deps[cycle'[i]]
  <2>1. i \in 1 .. Len(part) /\ cycle'[i] = stack[k + i - 1] /\ k + i - 1 \in 1 .. Len(stack)
    BY <1>2, <1>3, <1>5
  <2>2. cycle'[i] \in Elems(registered)
    <3>1. cycle'[i] \in Elems(stack)
      BY <1>2, <2>1 DEF Elems
    <3>2. Elems(stack) \subseteq Elems(registered)
      BY DEF DescentInv, Descent, Unresolved
    <3> QED BY <3>1, <3>2
  <2>3. CASE i = Len(part)
    <3>1. k + i - 1 = Len(stack)
      BY <1>2, <1>3, <2>3
    <3>2. i + 1 = Len(cycle')
      BY <1>5, <2>3
    <3> QED BY <1>2, <1>5, <2>1, <2>2, <3>1, <3>2
  <2>4. CASE i # Len(part)
    <3>1. k + i - 1 \in 1 .. Len(stack) - 1 /\ cycle'[i + 1] = stack[k + i]
      <4>1. \A n \in Nat : \A m \in 1 .. n : \A l \in 1 .. (n - m + 1) :
              l # n - m + 1 => m + l - 1 \in 1 .. n - 1 /\ l + 1 \in 1 .. (n - m + 1)
        OBVIOUS
      <4>2. i \in 1 .. (Len(stack) - k + 1) /\ i # Len(stack) - k + 1
        BY <1>3, <2>1, <2>4
      <4>3. k + i - 1 \in 1 .. Len(stack) - 1 /\ i + 1 \in 1 .. Len(part)
        BY <1>2, <1>3, <4>1, <4>2
      <4>4. k + (i + 1) - 1 = k + i
        BY <1>2, <4>2
      <4> QED BY <1>5, <4>3, <4>4
    <3>2. stack[(k + i - 1) + 1] \in deps[stack[k + i - 1]]
      BY <3>1 DEF DescentInv, Descent
    <3> QED BY <1>2, <2>1, <2>2, <3>1, <3>2
  <2> QED BY <2>2, <2>3, <2>4
<1>8. Shown'
  <2>1. Elems(registered') = Elems(registered) /\ deps' = deps
    BY DEF Elems
  <2> QED BY <1>5, <1>6, <1>7, <2>1 DEF Shown
<1>9. phase' = "idle"
  BY DEF FoundCycle
<1> QED BY <1>8, <1>9 DEF DescentInv, Descent, Running

\* Every step of the search leaves a way on.
LEMMA DescentStep == Inv /\ DescentInv /\ [OrderNext]_plugins => DescentInv'
<1> SUFFICES ASSUME Inv, DescentInv, [OrderNext]_plugins PROVE DescentInv' OBVIOUS
<1>1. ASSUME NEW p \in Ids, NEW ds \in SUBSET Ids, Register(p, ds) PROVE DescentInv'
  BY <1>1 DEF Register, order, DescentInv, Descent, Running, Shown
<1>2. CASE Resolve
  BY <1>2 DEF Resolve, DescentInv, Descent, Running, Shown
<1>3. CASE Pick
  BY <1>3 DEF Pick, DescentInv, Descent, Running, Shown
<1>4. CASE Ordered
  BY <1>4 DEF Ordered, order, DescentInv, Descent, Running, Shown
<1>5. CASE VisitRoot
  <2>1. PICK i \in DOMAIN registered :
          registered[i] \in Unresolved /\ Enter(registered[i])
    BY <1>5 DEF VisitRoot
  <2>2. registered[i] \in Ids
    BY DEF Inv, TypeOK
  <2> QED BY <1>5, <2>1, <2>2, DescentEnter DEF VisitRoot
<1>6. ASSUME NEW d \in Ids, VisitDependency(d) PROVE DescentInv'
  <2>1. /\ phase = "searching" /\ stack # << >>
        /\ d \in Unresolved /\ d \in deps[Top]
        /\ UNCHANGED <<registered, deps, ordered>>
    BY <1>6 DEF VisitDependency
  <2>2. CASE FoundCycle(d)
    BY <2>1, <2>2, DescentFound
  <2>3. CASE d \notin Elems(stack) /\ Enter(d) /\ UNCHANGED <<phase, result, cycle>>
    BY <2>1, <2>3, DescentEnter
  <2> QED BY <1>6, <2>1, <2>2, <2>3 DEF VisitDependency
<1>9. CASE UNCHANGED plugins
  <2>1. /\ UNCHANGED <<registered, deps, phase, result, ordered, stack, cycle>>
        /\ Unresolved' = Unresolved /\ Top' = Top /\ Elems(stack') = Elems(stack)
        /\ Elems(registered') = Elems(registered)
    BY <1>9 DEF plugins, order, Unresolved, Elems, Top
  <2>2. Descent'
    BY <2>1 DEF DescentInv, Descent
  <2>3. Shown'
    BY <2>1 DEF DescentInv, Shown
  <2> QED BY <2>1, <2>2, <2>3 DEF DescentInv, Running
<1> QED BY DescentStuck, <1>1, <1>2, <1>3, <1>4, <1>5, <1>6, <1>9 DEF OrderNext, Step

\* A failed resolution names a true cycle of registered plugins, for any
\* dependency graph: the message without a cycle is never used.
THEOREM CycleReported == OrderSpec => []CycleIsReal
<1>1. OrderInit => DescentInv
  BY DEF OrderInit, DescentInv, Descent, Running, Shown
<1>2. DescentInv => CycleIsReal
  BY DEF DescentInv, Descent, Shown, CycleIsReal
<1> QED BY <1>1, <1>2, InvInit, InvStep, DescentStep, PTL DEF OrderSpec

-----------------------------------------------------------------------------
\* A sequence without repetition has as many elements as positions.
LEMMA CountOfElems ==
  ASSUME NEW S, NEW s \in Seq(S),
         \A i, j \in DOMAIN s : s[i] = s[j] => i = j
  PROVE  IsFiniteSet(Elems(s)) /\ Cardinality(Elems(s)) = Len(s)
<1>1. Len(s) \in Nat /\ DOMAIN s = 1 .. Len(s) /\ s \in [1 .. Len(s) -> Elems(s)]
  BY DEF Elems
<1>2. s \in Bijection(1 .. Len(s), Elems(s))
  BY <1>1 DEF Bijection, Injection, Surjection, Elems, IsInjective
<1>3. ExistsBijection(1 .. Len(s), Elems(s))
  BY <1>2 DEF ExistsBijection
<1>4. IsFiniteSet(1 .. Len(s)) /\ Cardinality(1 .. Len(s)) = Len(s)
  BY <1>1, FS_Interval
<1> QED BY <1>3, <1>4, FS_Bijection

\* The loop's own condition, a count, ends it with every plugin ordered.
LEMMA CompleteStep == Inv /\ NothingLeftOut /\ [OrderNext]_plugins => NothingLeftOut'
<1> SUFFICES ASSUME Inv, NothingLeftOut, [OrderNext]_plugins PROVE NothingLeftOut' OBVIOUS
<1>1. CASE Ordered
  <2>1. Elems(ordered) \subseteq Elems(registered) /\ Len(ordered) = Len(registered)
    BY <1>1 DEF Inv, Registry, Ordered
  <2>2. /\ IsFiniteSet(Elems(registered))
        /\ Cardinality(Elems(registered)) = Len(registered)
        /\ Cardinality(Elems(ordered)) = Len(ordered)
    BY CountOfElems DEF Inv, TypeOK, Registry, OrderIsTopological
  <2>3. Elems(ordered) = Elems(registered)
    BY <2>1, <2>2, FS_Subset
  <2> QED BY <1>1, <2>3 DEF Ordered, order, NothingLeftOut, Elems
<1>2. CASE UNCHANGED <<registered, ordered, result>>
  BY <1>2 DEF NothingLeftOut, Elems
<1>3. ASSUME result' # "ordered" PROVE NothingLeftOut'
  BY <1>3 DEF NothingLeftOut
<1>4. CASE Pick
  <2>1. result' = result /\ result # "ordered" => NothingLeftOut'
    BY DEF NothingLeftOut
  <2>2. result # "ordered"
    <3>1. ASSUME result = "ordered" PROVE FALSE
      <4>1. PICK i \in DOMAIN registered : IsNext(i)
        BY <1>4 DEF Pick
      <4>2. registered[i] \in Elems(registered) \ Elems(ordered)
        BY <4>1 DEF IsNext, Ready, Unresolved
      <4> QED BY <3>1, <4>2 DEF NothingLeftOut
    <3> QED BY <3>1
  <2> QED BY <1>4, <2>1, <2>2 DEF Pick
<1> QED
  BY <1>1, <1>2, <1>3, <1>4
  DEF OrderNext, Step, plugins, order, Register, Resolve, Stuck, VisitRoot,
      VisitDependency, FoundCycle

\* A resolution that succeeds leaves no registered plugin out.
THEOREM OrderComplete == OrderSpec => []NothingLeftOut
<1>1. OrderInit => NothingLeftOut
  BY DEF OrderInit, NothingLeftOut
<1> QED BY <1>1, InvInit, InvStep, CompleteStep, PTL DEF OrderSpec

-----------------------------------------------------------------------------
(***************************************************************************)
(* The runtime: types and the startup that runs share                      *)
(***************************************************************************)
RunStates == {"idle", "waiting", "ready", "created", "started", "task", "completed", "failed",
              "done", "rejected", "abandoned"}

RuntimeTypes ==
  /\ startupState \in {"idle", "starting", "started"}
  /\ startupPromise \in Runs \cup {None}
  /\ startup \in [Runs -> [state : {"unused", "running", "done", "failed"}, at : 0 .. 2 * PluginCount]]
  /\ run \in [Runs -> [state : RunStates, on : Runs \cup {None}]]
  /\ stop \in [Stops -> [state : {"idle", "stopping", "done", "rejected"}, at : 0 .. PluginCount]]
  /\ \A s \in Runs : startup[s].state = "running" => startup[s].at \in 1 .. 2 * PluginCount
  /\ \A c \in Stops : stop[c].state = "stopping" => stop[c].at \in 1 .. PluginCount
  /\ \A r \in Runs : run[r].state = "waiting" => run[r].on \in Runs

\* The run that began a startup waits for it as long as startupPromise names it,
\* and nobody stops before it is over.
Shared ==
  callers # "free" =>
    /\ \A c, d \in Stops : stop[c].state = "stopping" /\ stop[d].state = "stopping" => c = d
    /\ Stopping => startupState = "started"
    /\ \A s \in Runs :
         /\ startup[s].state = "running" =>
              /\ startupState = "starting" /\ startupPromise = s
              /\ run[s].state = "waiting" /\ run[s].on = s
         /\ startup[s].state = "failed" /\ startupPromise = s =>
              startupState = "starting" /\ run[s].state = "waiting" /\ run[s].on = s
         /\ startup[s].state = "failed" /\ run[s].state = "waiting" /\ run[s].on = s =>
              startupState = "starting" /\ startupPromise = s
         /\ run[s].state = "idle" => startup[s].state = "unused"

\* A run goes on to another state.
LEMMA Goes ==
  ASSUME RuntimeTypes, NEW r \in Runs, NEW to \in RunStates
  PROVE  /\ To(r, to) \in [Runs -> [state : RunStates, on : Runs \cup {None}]]
         /\ To(r, to)[r].state = to /\ To(r, to)[r].on = run[r].on
         /\ \A q \in Runs \ {r} : To(r, to)[q] = run[q]
BY DEF To, RuntimeTypes

\* What a run does after it has been started.
LEMMA RunSteps ==
  ASSUME NEW r \in Runs, RunStep(r)
  PROVE  /\ run[r].state \in {"ready", "created", "started", "task", "completed", "failed"}
         /\ \E to \in RunStates \ {"idle", "waiting"} :
              run' = To(r, to) /\ (to = "task" => run[r].state = "started")
         /\ UNCHANGED <<given, startupState, startupPromise, startup, stop, log>>
<1>1. CASE Finalize(r)
  BY <1>1 DEF RunStep, Finalize, RunStates
<1>2. CASE Create(r) \/ Start(r) \/ Evaluate(r)
  BY <1>2 DEF RunStep, Create, Start, Evaluate, RunStates
<1>3. CASE TaskReturns(r) \/ TaskThrows(r) \/ FinalizeThrows(r) \/ Abandon(r)
  BY <1>3 DEF RunStep, TaskReturns, TaskThrows, FinalizeThrows, Abandon, RunStates
<1> QED BY <1>1, <1>2, <1>3 DEF RunStep

LEMMA TypesInit == Init => RuntimeTypes
BY BootstrapAssumption DEF Init, RuntimeTypes, RunStates

LEMMA TypesStep == RuntimeTypes /\ [Next]_vars => RuntimeTypes'
<1> SUFFICES ASSUME RuntimeTypes, [Next]_vars PROVE RuntimeTypes'
  OBVIOUS
<1>0. PluginCount \in Nat \ {0}
  BY BootstrapAssumption
<1>1. ASSUME NEW s \in Runs, HookReturns(s) PROVE RuntimeTypes'
  BY <1>0, <1>1 DEF HookReturns, RuntimeTypes, calls
<1>2. ASSUME NEW s \in Runs, HookThrows(s) PROVE RuntimeTypes'
  BY <1>0, <1>2 DEF HookThrows, RuntimeTypes, calls
<1>3. ASSUME NEW r \in Runs, Call(r) PROVE RuntimeTypes'
  <2>1. CASE run' = To(r, "ready") /\ UNCHANGED <<startupState, startupPromise, startup>>
    BY <1>3, <2>1 DEF Call, To, RuntimeTypes, RunStates
  <2>2. CASE /\ startupPromise # None
             /\ run' = [run EXCEPT ![r] = [state |-> "waiting", on |-> startupPromise]]
             /\ UNCHANGED <<startupState, startupPromise, startup>>
    BY <1>3, <2>2 DEF Call, RuntimeTypes, RunStates
  <2>3. CASE /\ startupState' = "starting" /\ startupPromise' = r
             /\ startup' = [startup EXCEPT ![r] = [state |-> "running", at |-> 1]]
             /\ run' = [run EXCEPT ![r] = [state |-> "waiting", on |-> r]]
    BY <1>0, <1>3, <2>3 DEF Call, RuntimeTypes, RunStates
  <2> QED BY <1>3, <2>1, <2>2, <2>3 DEF Call
<1>4. ASSUME NEW r \in Runs, Resume(r) PROVE RuntimeTypes'
  <2>1. PICK to \in {"ready", "rejected"} : run' = To(r, to)
    BY <1>4 DEF Resume
  <2>2. /\ startupState' \in {"idle", "starting", "started"} /\ startupPromise' \in Runs \cup {None}
        /\ UNCHANGED <<startup, stop>>
    BY <1>4 DEF Resume, Reset, RuntimeTypes
  <2>3. /\ run' \in [Runs -> [state : RunStates, on : Runs \cup {None}]]
        /\ run'[r].state # "waiting" /\ \A q \in Runs \ {r} : run'[q] = run[q]
    BY <2>1, Goes DEF RunStates
  <2> QED BY <2>2, <2>3 DEF RuntimeTypes
<1>5. ASSUME NEW r \in Runs, RunStep(r) PROVE RuntimeTypes'
  <2>1. PICK to \in RunStates \ {"idle", "waiting"} : run' = To(r, to)
    BY <1>5, RunSteps
  <2>2. UNCHANGED <<startupState, startupPromise, startup, stop>>
    BY <1>5, RunSteps
  <2>3. /\ run' \in [Runs -> [state : RunStates, on : Runs \cup {None}]]
        /\ run'[r].state # "waiting" /\ \A q \in Runs \ {r} : run'[q] = run[q]
    BY <2>1, Goes
  <2> QED BY <2>2, <2>3 DEF RuntimeTypes
<1>6. ASSUME NEW c \in Stops, CallStop(c) PROVE RuntimeTypes'
  BY <1>0, <1>6 DEF CallStop, RuntimeTypes, calls
<1>7. ASSUME NEW c \in Stops, StopHookReturns(c) PROVE RuntimeTypes'
  BY <1>0, <1>7 DEF StopHookReturns, Stopped, RuntimeTypes, calls
<1>8. ASSUME NEW c \in Stops, StopHookThrows(c) PROVE RuntimeTypes'
  BY <1>8 DEF StopHookThrows, RuntimeTypes, calls
<1>9. CASE UNCHANGED vars
  BY <1>9 DEF vars, calls, RuntimeTypes
<1> QED BY <1>1, <1>2, <1>3, <1>4, <1>5, <1>6, <1>7, <1>8, <1>9 DEF Next

LEMMA SharedInit == Init => Shared
BY DEF Init, Shared, Stopping

LEMMA SharedStep == RuntimeTypes /\ Shared /\ [Next]_vars => Shared'
<1> SUFFICES ASSUME RuntimeTypes, Shared, [Next]_vars, callers # "free" PROVE Shared'
  BY DEF Shared, Next, vars, given, HookReturns, HookThrows, Call, Resume, RunStep, CallStop,
         StopHookReturns, StopHookThrows
<1>0. None \notin Runs
  BY BootstrapAssumption
<1>1. ASSUME NEW s \in Runs, HookReturns(s) PROVE Shared'
  <2>1. UNCHANGED <<startupPromise, run, stop>>
    BY <1>1 DEF HookReturns, calls
  <2>2. /\ startup[s].state = "running" /\ startup'[s].state \in {"running", "done"}
        /\ \A t \in Runs \ {s} : startup'[t] = startup[t]
        /\ startupState' = startupState \/ startupState' = "started"
        /\ startup'[s].state = "running" => startupState' = startupState
    BY <1>1 DEF HookReturns, RuntimeTypes
  <2> QED BY <2>1, <2>2 DEF Shared, Stopping
<1>2. ASSUME NEW s \in Runs, HookThrows(s) PROVE Shared'
  BY <1>2 DEF HookThrows, calls, Shared, Stopping, RuntimeTypes
<1>3. ASSUME NEW r \in Runs, Call(r) PROVE Shared'
  <2>0. run[r].state = "idle" /\ startup[r].state = "unused" /\ UNCHANGED stop
    BY <1>3 DEF Call, Shared
  <2>1. CASE run' = To(r, "ready") /\ UNCHANGED <<startupState, startupPromise, startup>>
    <3>1. run'[r].state = "ready" /\ \A q \in Runs \ {r} : run'[q] = run[q]
      BY <2>1, Goes DEF RunStates
    <3> QED BY <2>0, <2>1, <3>1 DEF Shared, Stopping
  <2>2. CASE /\ startupPromise # None
             /\ run' = [run EXCEPT ![r] = [state |-> "waiting", on |-> startupPromise]]
             /\ UNCHANGED <<startupState, startupPromise, startup>>
    <3>1. run'[r].state = "waiting" /\ \A q \in Runs \ {r} : run'[q] = run[q]
      BY <2>2 DEF RuntimeTypes
    <3> QED BY <2>0, <2>2, <3>1 DEF Shared, Stopping
  <2>3. CASE /\ MustStart
             /\ startupState' = "starting" /\ startupPromise' = r
             /\ startup' = [startup EXCEPT ![r] = [state |-> "running", at |-> 1]]
             /\ run' = [run EXCEPT ![r] = [state |-> "waiting", on |-> r]]
    <3>1. run'[r].state = "waiting" /\ run'[r].on = r /\ \A q \in Runs \ {r} : run'[q] = run[q]
      BY <2>3 DEF RuntimeTypes
    <3>2. startup'[r].state = "running" /\ \A q \in Runs \ {r} : startup'[q] = startup[q]
      BY <2>3 DEF RuntimeTypes
    <3> QED BY <1>0, <2>0, <2>3, <3>1, <3>2 DEF Shared, Stopping, MustStart
  <2> QED BY <1>3, <2>1, <2>2, <2>3 DEF Call
<1>4. ASSUME NEW r \in Runs, Resume(r) PROVE Shared'
  <2>1. run[r].state = "waiting" /\ UNCHANGED <<startup, stop>> /\ run[r].on \in Runs
    BY <1>4 DEF Resume, RuntimeTypes
  <2>2. PICK to \in {"ready", "rejected"} : run' = To(r, to)
    BY <1>4 DEF Resume
  <2>3. run'[r].state \in {"ready", "rejected"} /\ \A q \in Runs \ {r} : run'[q] = run[q]
    BY <2>2, Goes DEF RunStates
  <2>4. startup[r].state # "running"
    BY <1>4 DEF Resume, Shared
  <2>5. CASE UNCHANGED <<startupState, startupPromise>> /\ ~ (startup[r].state = "failed" /\ run[r].on = r)
    BY <2>1, <2>3, <2>4, <2>5 DEF Shared, Stopping
  <2>6. CASE Reset /\ startup[r].state = "failed" /\ run[r].on = r
    BY <1>0, <2>1, <2>3, <2>4, <2>6 DEF Shared, Stopping, Reset
  <2> QED BY <1>4, <2>5, <2>6 DEF Resume
<1>5. ASSUME NEW r \in Runs, RunStep(r) PROVE Shared'
  <2>1. PICK to \in RunStates \ {"idle", "waiting"} : run' = To(r, to)
    BY <1>5, RunSteps
  <2>2. UNCHANGED <<startupState, startupPromise, startup, stop>> /\ run[r].state \notin {"idle", "waiting"}
    BY <1>5, RunSteps
  <2>3. run'[r].state \notin {"idle", "waiting"} /\ \A q \in Runs \ {r} : run'[q] = run[q]
    BY <2>1, Goes
  <2> QED BY <2>2, <2>3 DEF Shared, Stopping
<1>6. ASSUME NEW c \in Stops, CallStop(c) PROVE Shared'
  <2>1. ~ Stopping /\ UNCHANGED <<startupState, startupPromise, startup, run>>
    BY <1>6 DEF CallStop, calls
  <2>2. /\ \A d \in Stops \ {c} : stop'[d] = stop[d]
        /\ stop'[c].state = "stopping" => startupState = "started"
    BY <1>6 DEF CallStop, RuntimeTypes
  <2> QED BY <2>1, <2>2 DEF Shared, Stopping
<1>7. ASSUME NEW c \in Stops, StopHookReturns(c) PROVE Shared'
  <2>1. UNCHANGED <<startup, run>> /\ stop[c].state = "stopping"
    BY <1>7 DEF StopHookReturns, calls
  <2>2. \A d \in Stops \ {c} : stop'[d] = stop[d]
    BY <1>7 DEF StopHookReturns, RuntimeTypes
  <2>3. CASE stop'[c].state = "stopping" /\ UNCHANGED <<startupState, startupPromise>>
    BY <2>1, <2>2, <2>3 DEF Shared, Stopping
  <2>4. CASE stop'[c].state = "done" /\ Stopped
    BY <1>0, <2>1, <2>2, <2>4 DEF Shared, Stopping, Stopped
  <2> QED BY <1>7, <2>3, <2>4 DEF StopHookReturns, RuntimeTypes
<1>8. ASSUME NEW c \in Stops, StopHookThrows(c) PROVE Shared'
  BY <1>8 DEF StopHookThrows, calls, Shared, Stopping, RuntimeTypes
<1>9. CASE UNCHANGED vars
  BY <1>9 DEF vars, calls, given, Shared, Stopping
<1> QED BY <1>1, <1>2, <1>3, <1>4, <1>5, <1>6, <1>7, <1>8, <1>9 DEF Next

\* When stop() calls do not overlap, whatever fails, concurrent runs share one
\* startup, for any number of plugins, runs and stops.
THEOREM StartupAlwaysShared == Spec => []StartupShared
<1>1. Shared => StartupShared
  BY DEF Shared, StartupShared
<1> QED BY <1>1, TypesInit, TypesStep, SharedInit, SharedStep, PTL DEF Spec

-----------------------------------------------------------------------------
(***************************************************************************)
(* The runtime: what plugins and listeners see                             *)
(***************************************************************************)
\* How often a plugin's hooks have been called when a startup has called k.
HooksCalled(p, k) ==
  IF k <= PluginCount THEN (IF p <= k THEN 1 ELSE 0)
                      ELSE (IF p <= k - PluginCount THEN 2 ELSE 1)

\* How far plugin p is in its cycle.
Place(p) == Len(log[p]) % 3

Hook(i) == CASE i % 3 = 1 -> "setup" [] i % 3 = 2 -> "start" [] i % 3 = 0 -> "stop"

Logs ==
  /\ log \in [Plugins -> Seq({"setup", "start", "stop"})]
  /\ \A p \in Plugins : \A i \in DOMAIN log[p] : log[p][i] = Hook(i)

Positions ==
  /\ \A s \in Runs : startup[s].state # "failed"
  /\ \A s \in Runs : startup[s].state = "running" =>
       \A p \in Plugins : Place(p) = HooksCalled(p, startup[s].at)
  /\ startupState = "idle" =>
       /\ startupPromise = None
       /\ \A p \in Plugins : Place(p) = 0
       /\ \A r \in Runs : ~ InFlight(r)
  /\ startupState = "starting" =>
       /\ startupPromise \in Runs /\ startup[startupPromise].state = "running"
       /\ \A r \in Runs : InFlight(r) => run[r].state = "waiting" /\ run[r].on = startupPromise
  /\ startupState = "started" /\ ~ Stopping => \A p \in Plugins : Place(p) = 2
  /\ \A c \in Stops : stop[c].state = "stopping" =>
       /\ \A p \in Plugins : Place(p) = (IF p > PluginCount - stop[c].at THEN 0 ELSE 2)
       /\ \A r \in Runs : ~ InFlight(r)

Cycles == callers = "graceful" /\ throwing = {} => Logs /\ Positions

CInv == RuntimeTypes /\ Shared /\ Cycles

\* A hook that is called when its turn has come continues the cycle.
LEMMA HookRecorded ==
  ASSUME Logs, NEW p \in Plugins, NEW name, Record(p, name),
         \/ Place(p) = 0 /\ name = "setup"
         \/ Place(p) = 1 /\ name = "start"
         \/ Place(p) = 2 /\ name = "stop"
  PROVE  /\ Logs' /\ Place(p)' = (IF Place(p) = 2 THEN 0 ELSE Place(p) + 1)
         /\ \A q \in Plugins \ {p} : Place(q)' = Place(q)
<1>1. log' = [log EXCEPT ![p] = Append(@, name)]
  BY DEF Record
<1>2. name \in {"setup", "start", "stop"}
  OBVIOUS
<1>3. log[p] \in Seq({"setup", "start", "stop"})
  BY DEF Logs
<1>4. log' \in [Plugins -> Seq({"setup", "start", "stop"})]
  BY <1>1, <1>2, <1>3 DEF Logs
<1>5. /\ log'[p] = Append(log[p], name)
      /\ \A q \in Plugins \ {p} : log'[q] = log[q]
  BY <1>1 DEF Logs
<1> DEFINE len == Len(log[p])
<1>6. len \in Nat /\ Len(log'[p]) = len + 1 /\ Place(p) = len % 3 /\ Place(p)' = (len + 1) % 3
  <2>1. ASSUME NEW S, NEW q \in Seq(S), NEW e \in S
        PROVE  Len(q) \in Nat /\ Len(Append(q, e)) = Len(q) + 1
    OBVIOUS
  <2>2. len \in Nat /\ Len(Append(log[p], name)) = len + 1
    BY <1>2, <1>3, <2>1
  <2> QED BY <1>5, <2>2 DEF Place
<1>7. (len + 1) % 3 = (IF len % 3 = 2 THEN 0 ELSE (len % 3) + 1)
  <2> HIDE DEF len
  <2> QED BY <1>6
<1>8. name = Hook(len + 1)
  <2>1. \/ (len + 1) % 3 = 1 /\ name = "setup"
        \/ (len + 1) % 3 = 2 /\ name = "start"
        \/ (len + 1) % 3 = 0 /\ name = "stop"
    <3> HIDE DEF len
    <3> QED BY <1>6, <1>7
  <2> HIDE DEF len
  <2> QED BY <2>1 DEF Hook
<1>9. \A q \in Plugins : \A i \in DOMAIN log'[q] : log'[q][i] = Hook(i)
  <2>1. \A i \in DOMAIN log'[p] : log'[p][i] = Hook(i)
    BY <1>2, <1>3, <1>5, <1>8 DEF Logs
  <2> QED BY <1>5, <2>1 DEF Logs
<1>10. Place(p)' = (IF Place(p) = 2 THEN 0 ELSE Place(p) + 1)
  BY <1>6, <1>7
<1> QED BY <1>4, <1>5, <1>9, <1>10 DEF Logs, Place

LEMMA CyclesInit == Init => Cycles
BY DEF Init, Cycles, Logs, Positions, Place, InFlight, Stopping

LEMMA CyclesStep == CInv /\ [Next]_vars => Cycles'
<1> SUFFICES ASSUME RuntimeTypes, Shared, Cycles, [Next]_vars, callers' = "graceful", throwing' = {}
             PROVE  (Logs /\ Positions)'
  BY DEF CInv, Cycles
<1>0. /\ callers = "graceful" /\ throwing = {} /\ Logs /\ Positions
      /\ PluginCount \in Nat \ {0} /\ None \notin Runs /\ Plugins = 1 .. PluginCount
  BY BootstrapAssumption DEF Next, vars, given, HookReturns, HookThrows, Call, Resume, RunStep,
     CallStop, StopHookReturns, StopHookThrows, Cycles, Plugins
<1>1. ASSUME NEW s \in Runs, HookReturns(s) PROVE (Logs /\ Positions)'
  <2>0. PICK k \in 1 .. 2 * PluginCount : startup[s].at = k
    BY <1>1 DEF HookReturns, RuntimeTypes
  <2>1. startup[s].state = "running" /\ UNCHANGED <<startupPromise, run, stop>>
    BY <1>1 DEF HookReturns, calls
  <2>2. /\ startupState = "starting" /\ startupPromise = s /\ ~ Stopping
        /\ \A t \in Runs \ {s} : startup[t].state # "running"
    BY <1>0, <2>1 DEF Shared
  <2>3. \A p \in Plugins : Place(p) = HooksCalled(p, k)
    BY <1>0, <2>0, <2>1 DEF Positions
  <2>4. CASE k < 2 * PluginCount
    <3>1. startup' = [startup EXCEPT ![s].at = k + 1] /\ CallStartupHook(k + 1) /\ UNCHANGED startupState
      BY <1>1, <2>0, <2>4 DEF HookReturns
    <3>2. /\ startup'[s].state = "running" /\ startup'[s].at = k + 1
          /\ \A t \in Runs \ {s} : startup'[t] = startup[t]
      BY <2>1, <3>1 DEF RuntimeTypes
    <3> DEFINE p == StartupPlugin(k + 1)
    <3>3. p \in Plugins /\ Record(p, IF k + 1 <= PluginCount THEN "setup" ELSE "start")
      BY <1>0, <2>1, <2>4, <3>1 DEF CallStartupHook, StartupPlugin
    <3>4. Place(p) = (IF k + 1 <= PluginCount THEN 0 ELSE 1)
      <4>1. HooksCalled(p, k) = IF k + 1 <= PluginCount THEN 0 ELSE 1
        BY <1>0, <2>1, <2>4, <3>3 DEF HooksCalled, StartupPlugin
      <4> QED BY <2>3, <3>3, <4>1
    <3>5. /\ Logs' /\ Place(p)' = (IF k + 1 <= PluginCount THEN 1 ELSE 2)
          /\ \A q \in Plugins \ {p} : Place(q)' = Place(q)
      BY <1>0, <3>3, <3>4, HookRecorded
    <3>6. \A q \in Plugins : Place(q)' = HooksCalled(q, k + 1)
      <4>1. HooksCalled(p, k + 1) = IF k + 1 <= PluginCount THEN 1 ELSE 2
        BY <1>0, <2>1, <2>4, <3>3 DEF HooksCalled, StartupPlugin
      <4>2. ASSUME NEW q \in Plugins \ {p} PROVE Place(q)' = HooksCalled(q, k + 1)
        <5>1. HooksCalled(q, k + 1) = HooksCalled(q, k)
          BY <1>0, <2>1, <2>4, <4>2 DEF HooksCalled, StartupPlugin
        <5>2. Place(q) = HooksCalled(q, k + 1)
          BY <2>3, <4>2, <5>1
        <5> QED BY <3>5, <4>2, <5>2 DEF Place, HooksCalled
      <4>3. Place(p)' = HooksCalled(p, k + 1)
        BY <3>5, <4>1 DEF Place, HooksCalled
      <4> QED BY <4>2, <4>3
    <3> HIDE DEF p
    <3>7. \A r \in Runs : InFlight(r)' <=> InFlight(r)
      BY <2>1 DEF InFlight
    <3> QED BY <1>0, <2>1, <2>2, <3>1, <3>2, <3>5, <3>6, <3>7 DEF Positions, Stopping
  <2>5. CASE k = 2 * PluginCount
    <3>1. startup' = [startup EXCEPT ![s].state = "done"] /\ startupState' = "started" /\ UNCHANGED log
      BY <1>1, <2>0, <2>5 DEF HookReturns
    <3>2. /\ startup'[s].state = "done" /\ \A t \in Runs \ {s} : startup'[t] = startup[t]
      BY <2>1, <3>1 DEF RuntimeTypes
    <3>3. ASSUME NEW p \in Plugins PROVE Place(p)' = 2
      <4>1. HooksCalled(p, k) = 2
        BY <1>0, <2>5 DEF HooksCalled
      <4> QED BY <2>3, <3>1, <4>1 DEF Place
    <3> QED BY <1>0, <2>1, <2>2, <3>1, <3>2, <3>3 DEF Positions, Logs, Stopping
  <2> QED BY <1>0, <2>1, <2>4, <2>5
<1>2. ASSUME NEW s \in Runs, HookThrows(s) PROVE FALSE
  BY <1>0, <1>2 DEF HookThrows
<1>3. ASSUME NEW r \in Runs, Call(r) PROVE (Logs /\ Positions)'
  <2>1. ~ Stopping /\ run[r].state = "idle" /\ UNCHANGED stop
    BY <1>0, <1>3 DEF Call
  <2>2. CASE /\ startupState = "started" /\ run' = To(r, "ready")
             /\ UNCHANGED <<startupState, startupPromise, startup, log>>
    BY <1>0, <2>1, <2>2 DEF Positions, Logs, Stopping, Place
  <2>3. CASE /\ startupState # "started" /\ startupPromise # None
             /\ run' = [run EXCEPT ![r] = [state |-> "waiting", on |-> startupPromise]]
             /\ UNCHANGED <<startupState, startupPromise, startup, log>>
    <3>1. startupState = "starting"
      BY <1>0, <2>3 DEF Positions, RuntimeTypes
    <3>2. run'[r].state = "waiting" /\ run'[r].on = startupPromise /\ \A q \in Runs \ {r} : run'[q] = run[q]
      BY <2>3 DEF RuntimeTypes
    <3> QED BY <1>0, <2>1, <2>3, <3>1, <3>2 DEF Positions, Logs, Stopping, Place, InFlight
  <2>4. CASE /\ MustStart /\ startupState' = "starting" /\ startupPromise' = r
             /\ startup' = [startup EXCEPT ![r] = [state |-> "running", at |-> 1]]
             /\ CallStartupHook(1)
             /\ run' = [run EXCEPT ![r] = [state |-> "waiting", on |-> r]]
    <3>1. startupState = "idle" /\ \A p \in Plugins : Place(p) = 0
      BY <1>0, <2>4 DEF Positions, RuntimeTypes, MustStart
    <3>2. run'[r].state = "waiting" /\ run'[r].on = r /\ \A q \in Runs \ {r} : run'[q] = run[q]
      BY <2>4 DEF RuntimeTypes
    <3>3. /\ startup'[r].state = "running" /\ startup'[r].at = 1
          /\ \A q \in Runs \ {r} : startup'[q] = startup[q]
      BY <2>4 DEF RuntimeTypes
    <3>4. 1 \in Plugins /\ Record(1, "setup")
      BY <1>0, <2>4 DEF CallStartupHook
    <3>5. Logs' /\ Place(1)' = 1 /\ \A q \in Plugins \ {1} : Place(q)' = Place(q)
      <4>1. Place(1) = 0
        BY <3>1, <3>4
      <4> QED BY <1>0, <3>4, <4>1, HookRecorded
    <3>6. ASSUME NEW p \in Plugins PROVE Place(p)' = HooksCalled(p, 1)
      BY <1>0, <3>1, <3>5 DEF HooksCalled
    <3>7. \A s \in Runs : startup[s].state # "running"
      BY <1>0, <3>1 DEF Shared
    <3> QED BY <1>0, <2>1, <2>4, <3>1, <3>2, <3>3, <3>5, <3>6, <3>7 DEF Positions, Stopping, InFlight
  <2> QED BY <1>3, <2>2, <2>3, <2>4 DEF Call
<1>4. ASSUME NEW r \in Runs, Resume(r) PROVE (Logs /\ Positions)'
  <2>1. /\ run[r].state = "waiting" /\ run[r].on \in Runs /\ UNCHANGED <<startup, stop, log>>
        /\ startup[run[r].on].state = "done" /\ run' = To(r, "ready")
        /\ UNCHANGED <<startupState, startupPromise>>
    BY <1>0, <1>4 DEF Resume, RuntimeTypes, Positions
  <2>2. run'[r].state = "ready" /\ \A q \in Runs \ {r} : run'[q] = run[q]
    BY <2>1, Goes DEF RunStates
  <2>3. InFlight(r)
    BY <2>1 DEF InFlight
  <2>4. startupState = "started" /\ ~ Stopping
    BY <1>0, <2>1, <2>3 DEF Positions, RuntimeTypes, Stopping
  <2> QED BY <1>0, <2>1, <2>2, <2>4 DEF Positions, Logs, Stopping, Place
<1>5. ASSUME NEW r \in Runs, RunStep(r) PROVE (Logs /\ Positions)'
  <2>1. PICK to \in RunStates \ {"idle", "waiting"} : run' = To(r, to)
    BY <1>5, RunSteps
  <2>2. /\ UNCHANGED <<startupState, startupPromise, startup, stop, log>>
        /\ run[r].state \in {"ready", "created", "started", "task", "completed", "failed"}
    BY <1>5, RunSteps
  <2>3. InFlight(r)
    BY <2>2 DEF InFlight
  <2>4. startupState = "started" /\ ~ Stopping
    BY <1>0, <2>2, <2>3 DEF Positions, RuntimeTypes, Stopping
  <2> QED BY <1>0, <2>2, <2>4 DEF Positions, Logs, Stopping, Place
<1>6. ASSUME NEW c \in Stops, CallStop(c) PROVE (Logs /\ Positions)'
  <2>1. /\ ~ Stopping /\ (\A r \in Runs : ~ InFlight(r))
        /\ UNCHANGED <<startupState, startupPromise, startup, run>>
    BY <1>0, <1>6 DEF CallStop, calls
  <2>2. \A r \in Runs : ~ InFlight(r)'
    BY <2>1 DEF InFlight
  <2>3. CASE startupState # "started"
    <3>1. UNCHANGED log /\ \A d \in Stops : stop'[d].state # "stopping"
      BY <1>6, <2>1, <2>3 DEF CallStop, RuntimeTypes, Stopping
    <3> QED BY <1>0, <2>1, <2>2, <2>3, <3>1 DEF Positions, Logs, Stopping, Place
  <2>4. CASE startupState = "started"
    <3>1. CallStopHook(1) /\ stop' = [stop EXCEPT ![c] = [state |-> "stopping", at |-> 1]]
      BY <1>6, <2>4 DEF CallStop
    <3>2. stop'[c].at = 1 /\ stop'[c].state = "stopping" /\ \A d \in Stops \ {c} : stop'[d] = stop[d]
      BY <3>1 DEF RuntimeTypes
    <3>3. \A p \in Plugins : Place(p) = 2
      BY <1>0, <2>1, <2>4 DEF Positions
    <3>4. PluginCount \in Plugins /\ Record(PluginCount, "stop")
      <4>1. PluginCount + 1 - 1 = PluginCount
        BY <1>0
      <4> QED BY <1>0, <3>1, <4>1 DEF CallStopHook
    <3>5. Logs' /\ Place(PluginCount)' = 0 /\ \A q \in Plugins \ {PluginCount} : Place(q)' = Place(q)
      <4>1. Place(PluginCount) = 2
        BY <3>3, <3>4
      <4> QED BY <1>0, <3>4, <4>1, HookRecorded
    <3>6. ASSUME NEW p \in Plugins PROVE Place(p)' = (IF p > PluginCount - 1 THEN 0 ELSE 2)
      BY <1>0, <3>3, <3>5
    <3>7. \A s \in Runs : startup[s].state # "running"
      BY <1>0, <2>4 DEF Shared
    <3> QED BY <1>0, <2>1, <2>2, <2>4, <3>2, <3>5, <3>6, <3>7 DEF Positions, Stopping
  <2> QED BY <2>3, <2>4
<1>7. ASSUME NEW c \in Stops, StopHookReturns(c) PROVE (Logs /\ Positions)'
  <2>0. PICK k \in 1 .. PluginCount : stop[c].at = k
    BY <1>7 DEF StopHookReturns, RuntimeTypes
  <2>1. stop[c].state = "stopping" /\ UNCHANGED <<startup, run>>
    BY <1>7 DEF StopHookReturns, calls
  <2>2. /\ startupState = "started" /\ \A d \in Stops \ {c} : stop[d].state # "stopping"
        /\ \A s \in Runs : startup[s].state # "running"
    BY <1>0, <2>1 DEF Shared, Stopping
  <2>3. /\ \A p \in Plugins : Place(p) = (IF p > PluginCount - k THEN 0 ELSE 2)
        /\ \A r \in Runs : ~ InFlight(r)'
    BY <1>0, <2>0, <2>1 DEF Positions, InFlight
  <2>4. CASE k < PluginCount
    <3>1. /\ stop' = [stop EXCEPT ![c].at = k + 1] /\ CallStopHook(k + 1)
          /\ UNCHANGED <<startupState, startupPromise>>
      BY <1>7, <2>0, <2>4 DEF StopHookReturns
    <3>2. stop'[c].at = k + 1 /\ \A d \in Stops \ {c} : stop'[d] = stop[d]
      BY <3>1 DEF RuntimeTypes
    <3> DEFINE p == PluginCount - k
    <3>3. p \in Plugins /\ Record(p, "stop")
      <4>1. p \in Plugins /\ PluginCount + 1 - (k + 1) = p
        BY <1>0, <2>1, <2>4
      <4> QED BY <3>1, <4>1 DEF CallStopHook
    <3>4. Place(p) = 2
      <4>1. ~ (p > PluginCount - k)
        BY <1>0, <2>1
      <4> HIDE DEF p
      <4> QED BY <2>3, <3>3, <4>1
    <3>5. Logs' /\ Place(p)' = 0 /\ \A q \in Plugins \ {p} : Place(q)' = Place(q)
      BY <1>0, <3>3, <3>4, HookRecorded
    <3>6. ASSUME NEW q \in Plugins PROVE Place(q)' = (IF q > PluginCount - (k + 1) THEN 0 ELSE 2)
      <4>1. CASE q = p
        <5>1. q > PluginCount - (k + 1)
          BY <1>0, <2>1, <4>1
        <5> QED BY <3>5, <4>1, <5>1 DEF Place
      <4>2. CASE q # p
        <5>1. q > PluginCount - (k + 1) <=> q > PluginCount - k
          BY <1>0, <2>1, <4>2
        <5>2. Place(q) = (IF q > PluginCount - (k + 1) THEN 0 ELSE 2)
          BY <2>3, <5>1
        <5> QED BY <3>5, <4>2, <5>2 DEF Place
      <4> QED BY <4>1, <4>2
    <3> HIDE DEF p
    <3> QED BY <1>0, <2>1, <2>2, <2>3, <3>1, <3>2, <3>5, <3>6 DEF Positions, Stopping
  <2>5. CASE k = PluginCount
    <3>1. stop' = [stop EXCEPT ![c].state = "done"] /\ Stopped /\ UNCHANGED log
      BY <1>7, <2>0, <2>5 DEF StopHookReturns
    <3>2. \A d \in Stops : stop'[d].state # "stopping"
      BY <2>2, <3>1 DEF RuntimeTypes
    <3>3. ASSUME NEW p \in Plugins PROVE Place(p)' = 0
      <4>1. p > PluginCount - k
        BY <1>0, <2>5
      <4> QED BY <2>3, <3>1, <4>1 DEF Place
    <3> QED BY <1>0, <2>1, <2>2, <2>3, <3>1, <3>2, <3>3 DEF Positions, Logs, Stopped
  <2> QED BY <1>0, <2>1, <2>4, <2>5
<1>8. ASSUME NEW c \in Stops, StopHookThrows(c) PROVE FALSE
  BY <1>0, <1>8 DEF StopHookThrows
<1>9. CASE UNCHANGED vars
  BY <1>0, <1>9 DEF vars, calls, Logs, Positions, Place, InFlight, Stopping, HooksCalled
<1> QED BY <1>1, <1>2, <1>3, <1>4, <1>5, <1>6, <1>7, <1>8, <1>9 DEF Next

\* A task runs only on plugins that have been started and not stopped since.
LEMMA CyclesSound == CInv => PluginsUp
<1> SUFFICES ASSUME CInv, callers = "graceful", throwing = {}
             PROVE  /\ \A p \in Plugins : \A i \in DOMAIN log[p] : log[p][i] = Hook(i)
                    /\ \A r \in Runs : run[r].state = "task" =>
                         /\ ~ Stopping
                         /\ \A p \in Plugins : log[p] # << >> /\ log[p][Len(log[p])] = "start"
  BY DEF PluginsUp, Hook
<1>1. Logs /\ Positions /\ RuntimeTypes
  BY DEF CInv, Cycles
<1>2. ASSUME NEW r \in Runs, run[r].state = "task", NEW p \in Plugins
      PROVE  ~ Stopping /\ log[p] # << >> /\ log[p][Len(log[p])] = "start"
  <2>1. InFlight(r)
    BY <1>2 DEF InFlight
  <2>2. startupState = "started" /\ ~ Stopping
    BY <1>1, <1>2, <2>1 DEF Positions, RuntimeTypes, Stopping
  <2> DEFINE n == Len(log[p])
  <2>3. n % 3 = 2
    BY <1>1, <2>2 DEF Positions, Place
  <2>4. n \in Nat /\ DOMAIN log[p] = 1 .. n
    BY <1>1 DEF Logs
  <2>5. n \in 1 .. n /\ log[p] # << >>
    <3>1. n # 0
      <4> HIDE DEF n
      <4>1. 0 % 3 = 0
        OBVIOUS
      <4> QED BY <2>3, <2>4, <4>1
    <3> QED BY <2>4, <3>1
  <2>6. log[p][n] = Hook(n)
    BY <1>1, <2>4, <2>5 DEF Logs
  <2>7. Hook(n) = "start"
    <3> HIDE DEF n
    <3> QED BY <2>3 DEF Hook
  <2> QED BY <2>2, <2>5, <2>6, <2>7
<1>3. ASSUME NEW r \in Runs, run[r].state = "task" PROVE ~ Stopping
  <2>1. 1 \in Plugins
    BY BootstrapAssumption DEF Plugins
  <2> QED BY <1>2, <1>3, <2>1
<1> QED BY <1>1, <1>2, <1>3 DEF Logs

\* Runs share one startup and run on plugins that are up, for any number of
\* plugins, runs and stops and whichever hooks may throw.
THEOREM StartupAlwaysSound == Spec => []StartupSound
<1>1. Init => CInv
  BY TypesInit, SharedInit, CyclesInit DEF CInv
<1>2. CInv /\ [Next]_vars => CInv'
  BY TypesStep, SharedStep, CyclesStep DEF CInv
<1>3. CInv => StartupSound
  BY CyclesSound DEF CInv, StartupSound, Shared, StartupShared
<1> QED BY <1>1, <1>2, <1>3, PTL DEF Spec

-----------------------------------------------------------------------------
Begun == <<"run.created", "run.started">>

\* What a run has told so far; an envelope is the last thing that it makes.
EventsFollow ==
  /\ DOMAIN events = Runs /\ envelope \in [Runs -> {"none", "succeeded", "failed"}]
  /\ \A r \in Runs \ Unprintable :
       /\ run[r].state \in {"idle", "waiting", "ready", "rejected"} => events[r] = << >>
       /\ run[r].state = "created" => events[r] = <<"run.created">>
       /\ run[r].state \in {"started", "task"} => events[r] = Begun
       /\ run[r].state = "completed" => events[r] = Append(Begun, "run.completed")
       /\ run[r].state = "failed" => events[r] = Append(Begun, "run.failed")
       /\ envelope[r] # "none" => run[r].state = "done"
       /\ envelope[r] = "succeeded" => events[r] = Append(Begun, "run.completed")
       /\ envelope[r] = "failed" => events[r] = Append(Begun, "run.failed")

LEMMA AppendPair == ASSUME NEW x, NEW y PROVE Append(<<x>>, y) = <<x, y>>
<1>1. <<x>> \in Seq({x, y}) /\ <<x, y>> \in Seq({x, y}) /\ Len(<<x>>) = 1 /\ Len(<<x, y>>) = 2
  OBVIOUS
<1>2. Append(<<x>>, y) \in Seq({x, y}) /\ Len(Append(<<x>>, y)) = 2
  BY <1>1
<1>3. \A i \in 1 .. 2 : Append(<<x>>, y)[i] = <<x, y>>[i]
  BY <1>1
<1> QED BY <1>1, <1>2, <1>3, SeqEqual

LEMMA EventsStep == RuntimeTypes /\ EventsFollow /\ [Next]_vars => EventsFollow'
<1> SUFFICES ASSUME RuntimeTypes, EventsFollow, [Next]_vars PROVE EventsFollow'
  OBVIOUS
\* A step that tells nothing, and after which a run may tell no more than before.
<1>1. ASSUME UNCHANGED <<events, envelope>>, NEW r \in Runs, \A q \in Runs \ {r} : run'[q] = run[q],
             \/ run'[r].state = run[r].state
             \/ run[r].state \in {"idle", "waiting"} /\ run'[r].state \in {"waiting", "ready", "rejected"}
             \/ run[r].state = "started" /\ run'[r].state = "task"
             \/ run'[r].state = "abandoned" /\ envelope[r] = "none"
             \/ r \in Unprintable
      PROVE  EventsFollow'
  BY <1>1 DEF EventsFollow
<1>2. ASSUME run' = run, UNCHANGED <<events, envelope>> PROVE EventsFollow'
  BY <1>2 DEF EventsFollow
<1>3. ASSUME NEW r \in Runs, NEW to \in RunStates, NEW name,
             run' = To(r, to), Emit(r, name), UNCHANGED envelope, envelope[r] = "none" \/ r \in Unprintable,
             \/ run[r].state = "ready" /\ to = "created" /\ name = "run.created"
             \/ run[r].state = "created" /\ to = "started" /\ name = "run.started"
             \/ run[r].state = "task" /\ to = "completed" /\ name = "run.completed"
             \/ run[r].state = "task" /\ to = "failed" /\ name = "run.failed"
             \/ r \in Unprintable
      PROVE  EventsFollow'
  <2>1. run'[r].state = to /\ \A q \in Runs \ {r} : run'[q] = run[q]
    BY <1>3, Goes
  <2>2. /\ DOMAIN events' = Runs /\ events'[r] = Append(events[r], name)
        /\ \A q \in Runs \ {r} : events'[q] = events[q]
    BY <1>3 DEF Emit, EventsFollow
  <2>3. Append(<< >>, "run.created") = <<"run.created">>
    OBVIOUS
  <2>4. Append(<<"run.created">>, "run.started") = Begun
    BY AppendPair DEF Begun
  <2> QED BY <1>3, <2>1, <2>2, <2>3, <2>4 DEF EventsFollow
<1>4. ASSUME NEW r \in Runs, RunStep(r) PROVE EventsFollow'
  <2>1. r \notin Unprintable /\ run[r].state # "done" => envelope[r] = "none"
    BY DEF EventsFollow
  <2>2. CASE Finalize(r)
    <3>1. run' = To(r, "done") /\ UNCHANGED events
      BY <2>2 DEF Finalize
    <3>2. run'[r].state = "done" /\ \A q \in Runs \ {r} : run'[q] = run[q]
      BY <3>1, Goes DEF RunStates
    <3>3. /\ envelope' \in [Runs -> {"none", "succeeded", "failed"}]
          /\ \A q \in Runs \ {r} : envelope'[q] = envelope[q]
          /\ r \notin Unprintable => \/ run[r].state = "completed" /\ envelope'[r] = "succeeded"
                                     \/ run[r].state = "failed" /\ envelope'[r] = "failed"
      BY <2>2 DEF Finalize, EventsFollow
    <3> QED BY <3>1, <3>2, <3>3 DEF EventsFollow
  <2>3. CASE UNCHANGED envelope /\ Create(r)
    <3>1. run[r].state = "ready" /\ run' = To(r, "created") /\ Emit(r, "run.created")
      BY <2>3 DEF Create
    <3>2. envelope[r] = "none" \/ r \in Unprintable
      BY <2>1, <3>1
    <3> QED BY <1>3, <2>3, <3>1, <3>2 DEF RunStates
  <2>4. CASE UNCHANGED envelope /\ Start(r)
    <3>1. run[r].state = "created" /\ run' = To(r, "started") /\ Emit(r, "run.started")
      BY <2>4 DEF Start
    <3>2. envelope[r] = "none" \/ r \in Unprintable
      BY <2>1, <3>1
    <3> QED BY <1>3, <2>4, <3>1, <3>2 DEF RunStates
  <2>5. CASE UNCHANGED envelope /\ TaskReturns(r)
    <3>1. run[r].state = "task" /\ run' = To(r, "completed") /\ Emit(r, "run.completed")
      BY <2>5 DEF TaskReturns
    <3>2. envelope[r] = "none" \/ r \in Unprintable
      BY <2>1, <3>1
    <3> QED BY <1>3, <2>5, <3>1, <3>2 DEF RunStates
  <2>6. CASE UNCHANGED envelope /\ TaskThrows(r)
    <3>1. run[r].state = "task" /\ run' = To(r, "failed") /\ Emit(r, "run.failed")
      BY <2>6 DEF TaskThrows
    <3>2. envelope[r] = "none" \/ r \in Unprintable
      BY <2>1, <3>1
    <3> QED BY <1>3, <2>6, <3>1, <3>2 DEF RunStates
  <2>7. CASE UNCHANGED envelope /\ FinalizeThrows(r) /\ r \in Streams
    <3>1. r \in Unprintable /\ run' = To(r, "failed") /\ Emit(r, "run.failed")
      BY <2>7 DEF FinalizeThrows
    <3> QED BY <1>3, <2>7, <3>1 DEF RunStates
  <2>8. CASE UNCHANGED envelope /\ (Evaluate(r) \/ Abandon(r) \/ (FinalizeThrows(r) /\ r \notin Streams))
    <3>1. UNCHANGED <<events, envelope>> /\ run[r].state # "done"
      BY <2>8 DEF Evaluate, Abandon, FinalizeThrows
    <3>2. PICK to \in {"task", "abandoned", "rejected"} :
            /\ run' = To(r, to)
            /\ to = "task" => run[r].state = "started"
            /\ to = "rejected" => r \in Unprintable
      BY <2>8 DEF Evaluate, Abandon, FinalizeThrows
    <3>3. run'[r].state = to /\ \A q \in Runs \ {r} : run'[q] = run[q]
      BY <3>2, Goes DEF RunStates
    <3> QED BY <1>1, <2>1, <3>1, <3>2, <3>3
  <2>9. \/ Finalize(r)
        \/ /\ UNCHANGED envelope
           /\ \/ Create(r) \/ Start(r) \/ Evaluate(r) \/ TaskReturns(r)
              \/ TaskThrows(r) \/ FinalizeThrows(r) \/ Abandon(r)
    BY <1>4 DEF RunStep
  <2> QED BY <2>2, <2>3, <2>4, <2>5, <2>6, <2>7, <2>8, <2>9
<1>5. ASSUME NEW r \in Runs, Call(r) \/ Resume(r) PROVE EventsFollow'
  <2>1. UNCHANGED <<events, envelope>> /\ run[r].state \in {"idle", "waiting"}
    BY <1>5 DEF Call, Resume
  <2>2. CASE \E to \in {"ready", "rejected"} : run' = To(r, to)
    <3>1. run'[r].state \in {"ready", "rejected"} /\ \A q \in Runs \ {r} : run'[q] = run[q]
      BY <2>2, Goes DEF RunStates
    <3> QED BY <1>1, <2>1, <3>1
  <2>3. CASE \E s : run' = [run EXCEPT ![r] = [state |-> "waiting", on |-> s]]
    <3>1. run'[r].state = "waiting" /\ \A q \in Runs \ {r} : run'[q] = run[q]
      BY <2>3 DEF RuntimeTypes
    <3> QED BY <1>1, <2>1, <3>1
  <2> QED BY <1>5, <2>2, <2>3 DEF Call, Resume
<1>6. ASSUME NEW s \in Runs, HookReturns(s) \/ HookThrows(s) PROVE EventsFollow'
  BY <1>2, <1>6 DEF HookReturns, HookThrows, calls
<1>7. ASSUME NEW c \in Stops, CallStop(c) \/ StopHookReturns(c) \/ StopHookThrows(c) PROVE EventsFollow'
  BY <1>2, <1>7 DEF CallStop, StopHookReturns, StopHookThrows, calls
<1>8. CASE UNCHANGED vars
  BY <1>2, <1>8 DEF vars, calls
<1> QED BY <1>4, <1>5, <1>6, <1>7, <1>8 DEF Next

\* A run's stream of events tells the outcome that its envelope tells, for any
\* number of runs and whoever stops the runtime meanwhile.
THEOREM EventsAlwaysTellOutcome == Spec => []EventsTellOutcome
<1>1. Init => EventsFollow
  BY DEF Init, EventsFollow
<1>2. RuntimeTypes /\ EventsFollow => EventsTellOutcome
  BY DEF EventsFollow, EventsTellOutcome, Begun
<1> QED BY <1>1, <1>2, TypesInit, TypesStep, EventsStep, PTL DEF Spec
=============================================================================
